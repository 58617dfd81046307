------------------------------ MODULE MCRsGraph ------------------------------
(***************************************************************************)
(* With two direct slots and arrays of three, the third edge of a node     *)
(* makes an array, the fourth makes it grow, the fifth wraps a degree, and *)
(* the seventh finds the pool of six used up.  The sixth and the seventh   *)
(* edge only go to one node, and after the sixth nothing is deleted.       *)
(***************************************************************************)
EXTENDS RsGraph

MCAdd == \E source \in NodeIdx :
  \/ AddEdge(source, 1)
  \/ edges_used < MaxEdges - 1 /\ AddEdge(source, 0)

MCDelete ==
  /\ edges_used < MaxEdges
  /\ (\E e \in EdgeIdx : DeleteEdge(e)) \/ (\E n \in NodeIdx : DeleteNode(n))

MCNext == AllocNode \/ MCAdd \/ MCDelete \/ Corrupted

MCSpec == Init /\ [][MCNext]_vars
=============================================================================
