------------------------------- MODULE RsGraph -------------------------------
(***************************************************************************)
(* src/core/redsynth/graph.c: the redstone graph, its pools of nodes and   *)
(* edges and the edge lists every node keeps.                              *)
(*                                                                         *)
(* A node holds up to Direct edge indexes itself; one more moves the list  *)
(* to a heap array, and the last removal that makes them fit again moves   *)
(* it back.  A list is its slots and, for an array, how many are in use.   *)
(* A slot holds an edge index, Dead (the top bit is set) or Junk: memory   *)
(* that malloc returned and nothing has written.                           *)
(*                                                                         *)
(* live and fault are history: the edges the caller has added and not yet  *)
(* deleted, and the first thing that went wrong.  Past a fault the code    *)
(* follows dangling indexes, so the model stops there.                     *)
(***************************************************************************)
EXTENDS Integers, FiniteSets, SequencesExt

CONSTANTS MaxNodes,  \* MAX_NODES
          MaxEdges,  \* MAX_EDGES
          Direct,    \* DIRECT_IN_EDGE_COUNT and DIRECT_OUT_EDGE_COUNT
          InitSize,  \* INITIAL_EDGE_ARRAY_SIZE
          DegreeLimit,  \* 2^16, where a uint16_t degree wraps
          Dead, Junk

ASSUME GraphAssumption ==
  /\ MaxNodes \in Nat \ {0} /\ MaxEdges \in Nat \ {0}
  /\ Direct \in Nat \ {0} /\ InitSize \in Nat /\ InitSize > Direct
  /\ DegreeLimit \in Nat /\ DegreeLimit > Direct + 1
  /\ Dead \notin Int /\ Junk \notin Int /\ Dead # Junk

VARIABLES nodes, nodes_used, edges, edges_used, live, fault

vars == <<nodes, nodes_used, edges, edges_used, live, fault>>

NodeIdx == 0 .. MaxNodes - 1
EdgeIdx == 0 .. MaxEdges - 1

Slots(v, n) == [i \in 1 .. n |-> v]

-----------------------------------------------------------------------------
(* Edge lists.                                                             *)

\* The slot a search for a free one takes: the first with its top bit set.
\* junk are the unwritten slots that happen to have it set.
FreeSlots(ptr, n, junk) == {i \in 1 .. n : ptr[i] = Dead \/ i \in junk}

AddDirect(list, e) ==
  LET free == FreeSlots(list.ptr, Direct, {})
  IN  IF free = {} THEN list ELSE [list EXCEPT !.ptr[Min(free)] = e]

\* The step from Direct entries to a heap array.
Migrate(list, e) ==
  [ptr |-> list.ptr \o <<e>> \o Slots(Junk, InitSize - Direct - 1), used |-> Direct + 1]

\* The array with room for one more; new slots hold v.
Grown(list, v) ==
  IF list.used = Len(list.ptr)
  THEN [list EXCEPT !.ptr = @ \o Slots(v, Len(@))]
  ELSE list

\* add_in_edge: the array's next slot is simply written.
AddIn(list, degree, e) ==
  IF degree < Direct THEN AddDirect(list, e)
  ELSE IF degree = Direct THEN Migrate(list, e)
  ELSE LET l == Grown(list, Junk)
       IN  [ptr |-> [l.ptr EXCEPT ![l.used + 1] = e], used |-> l.used + 1]

\* add_out_edge: the array is searched for a slot with its top bit set, as
\* the direct slots are.  Only growing the array marks slots so: one never
\* written may read either way, one that a removal emptied keeps its index.
AddOut(list, degree, e, junk) ==
  IF degree < Direct THEN AddDirect(list, e)
  ELSE IF degree = Direct THEN Migrate(list, e)
  ELSE LET l == Grown(list, Dead)
           free == FreeSlots(l.ptr, l.used + 1, junk)
       IN  [ptr |-> IF free = {} THEN l.ptr ELSE [l.ptr EXCEPT ![Min(free)] = e],
            used |-> l.used + 1]

\* The slots of an array that AddOut would search and that were never written.
UnwrittenSlots(list, degree) ==
  IF degree <= Direct THEN {}
  ELSE {i \in 1 .. Min({list.used + 1, Len(list.ptr)}) : list.ptr[i] = Junk}

\* The removal both remove_in_edge and remove_out_edge perform; degree is the
\* new one.  In an array the last entry takes the place of the removed one.
Drop(list, degree, e) ==
  LET n == IF degree < Direct THEN Direct ELSE list.used
      at == {i \in 1 .. n : list.ptr[i] = e}
  IN  IF degree < Direct
      THEN IF at = {} THEN list ELSE [list EXCEPT !.ptr[Min(at)] = Dead]
      ELSE LET l == IF at = {} THEN list
                    ELSE [ptr |-> [list.ptr EXCEPT ![Min(at)] = list.ptr[n]],
                          used |-> n - 1]
           IN  IF degree = Direct
               THEN [ptr |-> SubSeq(l.ptr, 1, Direct), used |-> Direct]
               ELSE l

\* The slots RS_GRAPH_ITER_FAN_IN and RS_GRAPH_ITER_FANOUT visit, in order.
InUse(list, degree) ==
  IF degree > Direct THEN 1 .. list.used
  ELSE {i \in 1 .. Direct : list.ptr[i] # Dead}

Entries(list, degree) == {list.ptr[i] : i \in InUse(list, degree)}

\* remove_in_edge and remove_out_edge on the node table ns.
RemoveInEdge(ns, e) ==
  LET d == ns[edges[e].target].in_degree - 1
  IN  [ns EXCEPT ![edges[e].target].in = Drop(@, d, e),
                 ![edges[e].target].in_degree = d]

RemoveOutEdge(ns, e) ==
  LET d == ns[edges[e].source].out_degree - 1
  IN  [ns EXCEPT ![edges[e].source].out = Drop(@, d, e),
                 ![edges[e].source].out_degree = d]

\* The loop over a list that removes each edge from the other end's list: what it has
\* made of the node table ns after each slot.
RemoveOutEdges(ns, list, degree) ==
  LET after[i \in 0 .. Len(list.ptr)] ==
        IF i = 0 THEN ns
        ELSE IF i \in InUse(list, degree) THEN RemoveOutEdge(after[i - 1], list.ptr[i])
        ELSE after[i - 1]
  IN  after[Len(list.ptr)]

RemoveInEdges(ns, list, degree) ==
  LET after[i \in 0 .. Len(list.ptr)] ==
        IF i = 0 THEN ns
        ELSE IF i \in InUse(list, degree) THEN RemoveInEdge(after[i - 1], list.ptr[i])
        ELSE after[i - 1]
  IN  after[Len(list.ptr)]

\* One more in a uint16_t.
PlusOne(degree) == IF degree = DegreeLimit - 1 THEN 0 ELSE degree + 1

-----------------------------------------------------------------------------
EmptyList == [ptr |-> Slots(Dead, Direct), used |-> Direct]

\* node_init
FreshNode == [valid |-> TRUE, in_degree |-> 0, out_degree |-> 0,
              in |-> EmptyList, out |-> EmptyList]

Init ==
  /\ nodes = [n \in NodeIdx |-> [FreshNode EXCEPT !.valid = FALSE]]
  /\ nodes_used = 0
  /\ edges = [e \in EdgeIdx |-> [source |-> 0, target |-> 0]]
  /\ edges_used = 0
  /\ live = {}
  /\ fault = "none"

\* Mutant: the pool's bound is off by one.
AllocNodeOffByOne ==
  /\ fault = "none"
  /\ LET invalid == {n \in NodeIdx : ~nodes[n].valid}
     IN  \/ /\ nodes_used <= MaxNodes
            /\ nodes' = [n \in NodeIdx \union {nodes_used} |->
                           IF n = nodes_used THEN FreshNode ELSE nodes[n]]
            /\ nodes_used' = nodes_used + 1
         \/ /\ nodes_used > MaxNodes /\ invalid # {}
            /\ nodes' = [nodes EXCEPT ![Min(invalid)] = FreshNode]
            /\ UNCHANGED nodes_used
  /\ UNCHANGED <<edges, edges_used, live, fault>>

\* rs_graph_alloc_node: the next unused node, or the first invalid one.
AllocNode ==
  /\ fault = "none"
  /\ LET invalid == {n \in NodeIdx : ~nodes[n].valid}
     IN  \/ /\ nodes_used < MaxNodes
            /\ nodes' = [nodes EXCEPT ![nodes_used] = FreshNode]
            /\ nodes_used' = nodes_used + 1
         \/ /\ nodes_used = MaxNodes /\ invalid # {}
            /\ nodes' = [nodes EXCEPT ![Min(invalid)] = FreshNode]
            /\ UNCHANGED nodes_used
  /\ UNCHANGED <<edges, edges_used, live, fault>>

\* Where rs_graph_alloc_edge finds an edge.  No statement sets an edge's valid
\* flag, so once the pool is used up its first entry is handed out each time.
AllocatedEdge == IF edges_used = MaxEdges THEN 0 ELSE edges_used

\* rs_graph_add_edge, between valid nodes.
AddEdge(source, target) ==
  LET e == AllocatedEdge
      out == nodes[source].out
      d == nodes[source].out_degree
      wraps == DegreeLimit - 1 \in {d, nodes[target].in_degree}
  IN  /\ fault = "none"
      /\ nodes[source].valid /\ nodes[target].valid
      /\ edges_used' = IF edges_used = MaxEdges THEN edges_used ELSE edges_used + 1
      /\ edges' = [edges EXCEPT ![e] = [source |-> source, target |-> target]]
      /\ live' = live \union {e}
      /\ \E junk \in SUBSET UnwrittenSlots(out, d) :
           LET ns == [nodes EXCEPT ![source].out = AddOut(out, d, e, junk),
                                   ![source].out_degree = PlusOne(d)]
           IN  /\ nodes' = [ns EXCEPT ![target].in = AddIn(@, ns[target].in_degree, e),
                                      ![target].in_degree = PlusOne(@)]
               /\ fault' = IF e \in live THEN "stolen_edge"
                           ELSE IF wraps THEN "wrapped_degree"
                           ELSE IF e \notin Entries(ns[source].out, d + 1)
                           THEN "lost_slot" ELSE "none"
  /\ UNCHANGED nodes_used

\* rs_graph_delete_edge, of an edge the caller added.
DeleteEdge(e) ==
  /\ fault = "none"
  /\ e \in live
  /\ nodes' = RemoveOutEdge(RemoveInEdge(nodes, e), e)
  /\ live' = live \ {e}
  /\ UNCHANGED <<nodes_used, edges, edges_used, fault>>

\* Mutant: the node's outgoing edges stay in its targets' lists.
DeleteNodeFanInOnly(n) ==
  /\ fault = "none"
  /\ nodes[n].valid
  /\ LET ns == RemoveOutEdges(nodes, nodes[n].in, nodes[n].in_degree)
     IN  nodes' = [ns EXCEPT ![n].valid = FALSE]
  /\ live' = live \ Entries(nodes[n].in, nodes[n].in_degree)
  /\ UNCHANGED <<nodes_used, edges, edges_used, fault>>

\* rs_graph_delete_node: the edges into the node leave their sources' lists,
\* then the edges out of it that remain leave their targets' lists.  A loop
\* is among both and goes with the first.
DeleteNode(n) ==
  /\ fault = "none"
  /\ nodes[n].valid
  /\ LET ns1 == RemoveOutEdges(nodes, nodes[n].in, nodes[n].in_degree)
         ns2 == RemoveInEdges(ns1, ns1[n].out, ns1[n].out_degree)
     IN  nodes' = [ns2 EXCEPT ![n].valid = FALSE]
  /\ live' = live \ {e \in live : n \in {edges[e].source, edges[e].target}}
  /\ UNCHANGED <<nodes_used, edges, edges_used, fault>>

\* Past a fault nothing is said of the code.
Corrupted == fault # "none" /\ UNCHANGED vars

Next ==
  \/ AllocNode
  \/ \E s, t \in NodeIdx : AddEdge(s, t)
  \/ \E e \in EdgeIdx : DeleteEdge(e)
  \/ \E n \in NodeIdx : DeleteNode(n)
  \/ Corrupted

Spec == Init /\ [][Next]_vars

-----------------------------------------------------------------------------
List == [ptr : Seq(EdgeIdx \union {Dead, Junk}), used : Nat]
Node == [valid : BOOLEAN, in_degree : Nat, out_degree : Nat, in : List, out : List]

TypeOK ==
  /\ nodes \in [NodeIdx -> Node]
  /\ nodes_used \in 0 .. MaxNodes
  /\ edges \in [EdgeIdx -> [source : NodeIdx, target : NodeIdx]]
  /\ edges_used \in 0 .. MaxEdges
  /\ live \subseteq EdgeIdx
  /\ fault \in {"none", "stolen_edge", "wrapped_degree", "lost_slot"}

EdgesInto(n) == {e \in live : edges[e].target = n}
EdgesOutOf(n) == {e \in live : edges[e].source = n}

\* The entries of a list are exactly these edges, each once, and the degree
\* counts them; an array's used counter agrees and fits its size.
Lists(list, degree, es) ==
  /\ \A i, j \in InUse(list, degree) : list.ptr[i] = list.ptr[j] => i = j
  /\ Entries(list, degree) = es
  /\ degree = Cardinality(es)
  /\ degree > Direct => list.used = degree /\ degree <= Len(list.ptr)

\* The lists of a valid node hold exactly the live edges into it and out of it,
\* through every migration between direct slots and array and every swap removal.
ListsExact ==
  \A n \in NodeIdx : nodes[n].valid =>
    /\ Lists(nodes[n].in, nodes[n].in_degree, EdgesInto(n))
    /\ Lists(nodes[n].out, nodes[n].out_degree, EdgesOutOf(n))

\* A live edge joins two valid nodes: deleting a node leaves none dangling.
NoDanglingEdge ==
  \A e \in live :
    /\ e < edges_used
    /\ nodes[edges[e].source].valid /\ nodes[edges[e].target].valid

\* The pool of edges, which gets none back, is not used up, no node has more edges out
\* of it than the step to an array fits, and none has more into it than are counted.
WithinLimits ==
  /\ edges_used < MaxEdges
  /\ \A n \in NodeIdx : nodes[n].valid =>
       /\ Cardinality(EdgesOutOf(n)) <= Direct + 1
       /\ Cardinality(EdgesInto(n)) < DegreeLimit

\* As long as nothing has gone wrong the graph is the one its caller built, and nothing
\* goes wrong for a caller that stays within the limits.
GraphExact ==
  /\ fault = "none" => ListsExact /\ NoDanglingEdge
  /\ WithinLimits => fault = "none"
=============================================================================
