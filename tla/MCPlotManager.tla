---------------------------- MODULE MCPlotManager ----------------------------
(***************************************************************************)
(* A spiral with radius up to 3: rings 1 and 2 (24 positions) and the      *)
(* outermost ring 3, which the search cannot use.  Names are 1 .. MaxNames *)
(* and fresh ones come in order, so that the rings fill up; plot 1 is the  *)
(* one whose owner, users and flag change, and while they differ from a    *)
(* new plot's there are at most two plots.  Sizes vary for those two only:  *)
(* of 256 eight bits leave 0, of 257 they leave 1, and of -1 they make 255. *)
(***************************************************************************)
EXTENDS PlotManager

CONSTANTS u1, u2, u3, MaxNames

MCName == 1 .. MaxNames
MCSizeArg == {256, 257, -1}
MCPosArg == {<<1, 1>>, <<65537, 1>>}

Few == Cardinality(DOMAIN plots) <= 2

AsCreated(n) == plots[n].owner = Server /\ plots[n].editors = <<>> /\ ~plots[n].any_can_edit

MCNext ==
  \/ \E n \in {1, Cardinality(DOMAIN plots) + 1} \intersect Name :
       /\ Cardinality(DOMAIN plots) >= 2 => AsCreated(1)
       /\ Create(n, IF Few THEN SizeArg \union {NULL} ELSE {NULL})
  \/ Few /\ Configure(1)

MCSpec == Init /\ [][MCNext]_vars
=============================================================================
