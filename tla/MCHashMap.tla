------------------------------ MODULE MCHashMap ------------------------------
(***************************************************************************)
(* Four keys in two buckets: k1 and k2 collide on the whole hash, k3       *)
(* shares only their bucket, k4 is alone in the other one.                 *)
(***************************************************************************)
EXTENDS HashMap

CONSTANTS k1, k2, k3, k4

MCKey == {k1, k2, k3, k4}
MCHashOf == (k1 :> 4) @@ (k2 :> 4) @@ (k3 :> 2) @@ (k4 :> 3)
=============================================================================
