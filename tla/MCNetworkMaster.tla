--------------------------- MODULE MCNetworkMaster ---------------------------
(***************************************************************************)
(* Three clients and a buffer of one entry at first: it grows twice, an    *)
(* entry is swapped past the scan, and the emptied buffer shrinks.         *)
(***************************************************************************)
EXTENDS NetworkMaster
=============================================================================
