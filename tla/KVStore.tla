------------------------------- MODULE KVStore -------------------------------
(***************************************************************************)
(* What hashmap.h promises its callers (plots, world positions): a finite  *)
(* map from keys to data, with the value a call returns.  What a removal   *)
(* returns is hashmap.c's, which is not what hashmap.h says.               *)
(***************************************************************************)
CONSTANTS Key, Data, NULL

VARIABLES dict,  \* the data stored under each key, NULL for an absent key
          ret    \* what the last call returned

vars == <<dict, ret>>

Init ==
  /\ dict = [k \in Key |-> NULL]
  /\ ret = NULL

\* hashmap_update_item with data: the new value is in, the old one comes back.
Put(k, d) ==
  /\ dict' = [dict EXCEPT ![k] = d]
  /\ ret' = dict[k]

\* hashmap_get_item.
Get(k) ==
  /\ ret' = dict[k]
  /\ UNCHANGED dict

\* hashmap_remove_item: the key is out, and the answer is false.  hashmap.h:46 promises
\* "true if the item was found and removed"; hashmap.c:132 answers false to every
\* removal, of a key that was there as of one that was not.
Remove(k) ==
  /\ dict' = [dict EXCEPT ![k] = NULL]
  /\ ret' = FALSE

Next == \E k \in Key : Get(k) \/ Remove(k) \/ \E d \in Data : Put(k, d)

Spec == Init /\ [][Next]_vars
=============================================================================
