--------------------------------- MODULE SSVO ---------------------------------
(***************************************************************************)
(* src/core/ssvo.c: a sparse octree with 16-bit links.                     *)
(*                                                                         *)
(* The octree is a table (OVT) of buffers (OVB).  A buffer is an array of  *)
(* 16-bit entries, of which `used` are given away; nodes has those that    *)
(* are not 0.  A node is eight entries: the links to its children, 0 when  *)
(* a child is missing, an index of the same buffer, or Msb plus the number *)
(* of the buffer in which the child is the first node.  A leaf node is     *)
(* eight pointers of PtrEntries entries each, in the same buffers.         *)
(* Operators take an octree and return what they make of it.               *)
(***************************************************************************)
EXTENDS Integers, FiniteSets, SequencesExt

CONSTANTS OVB_SIZE,    \* entries of a buffer: 32768
          OVT_SIZE,    \* buffers of the table: 32768
          Msb,         \* the bit that marks the number of a buffer: 0x8000
          OvbLayers,   \* layers after which a new buffer begins: 5
          PtrEntries,  \* entries a pointer covers: 4
          EntryBytes   \* bytes of an entry: 2

ASSUME SSVOAssumption ==
  /\ OVB_SIZE \in Nat /\ OVT_SIZE \in Nat \ {0} /\ Msb \in Nat
  /\ 8 * PtrEntries <= OVB_SIZE /\ OVB_SIZE <= Msb
  /\ OvbLayers \in Nat \ {0} /\ PtrEntries \in Nat \ {0} /\ EntryBytes \in Nat \ {0}

\* What a node takes of its buffer.
NodeEntries(leaf) == IF leaf THEN 8 * PtrEntries ELSE 8

NewOvb(used) == [nodes |-> <<>>, used |-> used]

\* new_ssvo: the root's buffer has room for the pointers of a tree that is a
\* leaf, or for the first node.
NewSsvo(log2) ==
  [log2 |-> log2,
   ovt  |-> [o \in {0} |->
               NewOvb(IF log2 = 0 THEN PtrEntries ELSE NodeEntries(log2 = 1))]]

Entry(ovb, i) == IF i \in DOMAIN ovb.nodes THEN ovb.nodes[i] ELSE 0

\* A buffer's entries once these are written.
Written(new, nodes) ==
  [i \in DOMAIN new \union DOMAIN nodes |-> IF i \in DOMAIN new THEN new[i] ELSE nodes[i]]

-----------------------------------------------------------------------------
(* Allocation.                                                             *)

\* allocate_new_ssvo_node has room: the size it compares is in bytes.
HasRoom(ovb, leaf) == ovb.used < OVB_SIZE - EntryBytes * NodeEntries(leaf)

\* A place the traversal has come to: the octree so far, the buffer and the
\* link to the node.  The root is what a link to buffer 0 would lead to, so
\* that the link 0 always means that a node could not be allocated.
Place(tree, ovb, node) == [tree |-> tree, ovb |-> ovb, node |-> node]

AllocNode(at, leaf) ==
  LET used == at.tree.ovt[at.ovb].used
  IN  Place([at.tree EXCEPT !.ovt[at.ovb].used = @ + NodeEntries(leaf)], at.ovb, used)

AllocOvb(at, leaf) ==
  LET ovt == at.tree.ovt
      n == Cardinality(DOMAIN ovt)
  IN  IF n = OVT_SIZE
      THEN Place(at.tree, at.ovb, 0)
      ELSE Place([at.tree EXCEPT !.ovt =
                    [o \in 0 .. n |-> IF o = n THEN NewOvb(NodeEntries(leaf)) ELSE ovt[o]]],
                 at.ovb, Msb + n)

\* A new child on a level: in the same buffer, unless the level is one where
\* buffers change or the buffer is full.
NewChild(at, level) ==
  IF level % OvbLayers # 0 /\ HasRoom(at.tree.ovt[at.ovb], level = 2)
  THEN AllocNode(at, level = 2)
  ELSE AllocOvb(at, level = 2)

-----------------------------------------------------------------------------
(* Traversal.                                                              *)

Bit(v, b) == (v \div 2 ^ b) % 2

\* Mutant: the bit of z is taken from y.
ChildIndexFlat(p, level) ==
  4 * Bit(p[2], level - 1) + 2 * Bit(p[2], level - 1) + Bit(p[1], level - 1)

\* The child that holds position p, level - 1 bits above the leaves.
ChildIndex(p, level) ==
  4 * Bit(p[3], level - 1) + 2 * Bit(p[2], level - 1) + Bit(p[1], level - 1)

\* A link with its Msb set leads to the first node of another buffer.
Follow(at) ==
  IF at.node >= Msb THEN Place(at.tree, at.node - Msb, 0) ELSE at

\* Mutant: the link to a new child is not written.
DescendUnlinked(at, level, p) ==
  LET next == Entry(at.tree.ovt[at.ovb], at.node + ChildIndex(p, level))
  IN  IF next # 0 THEN Place(at.tree, at.ovb, next) ELSE NewChild(at, level)

\* One round of the loop above level 1: the link to p's child, which is
\* allocated when it is missing.
Descend(at, level, p) ==
  LET slot == at.node + ChildIndex(p, level)
      next == Entry(at.tree.ovt[at.ovb], slot)
      new == NewChild(at, level)
  IN  IF next # 0 THEN Place(at.tree, at.ovb, next)
      ELSE IF new.node = 0 THEN new
      ELSE [new EXCEPT !.tree.ovt[at.ovb].nodes = Written([i \in {slot} |-> new.node], @)]

\* ssvo_get_leaf_ptr: the tree with every node on the way to p, and where p's
\* pointer lies; ptr is -1 when a node could not be allocated.
GetLeafPtr(tree, p) ==
  LET reach[level \in 1 .. Max({1, tree.log2})] ==
        IF level >= tree.log2 THEN Place(tree, 0, Msb)
        ELSE LET above == reach[level + 1]
             IN  IF above.node = 0 THEN above
                 ELSE Descend(Follow(above), level + 1, p)
      last == Follow(reach[1])
      child == IF tree.log2 = 0 THEN 0 ELSE ChildIndex(p, 1)
  IN  [tree |-> last.tree, ovb |-> last.ovb,
       ptr  |-> IF reach[1].node = 0 THEN -1 ELSE last.node + PtrEntries * child]

-----------------------------------------------------------------------------
(* Leaves.  A leaf is a number from 1, its pointer PtrEntries entries that *)
(* no link equals.                                                         *)

PtrPart(leaf, k) == 2 * Msb + leaf * PtrEntries + k

\* The pointer at an entry: 0 when it is NULL.
Pointer(ovb, i) ==
  IF Entry(ovb, i) = 0 THEN 0 ELSE (Entry(ovb, i) - 2 * Msb) \div PtrEntries

\* ssvo_get_leaf, once the pointer is found: NULL also when there is none.
GetLeaf(found) ==
  IF found.ptr = -1 THEN 0 ELSE Pointer(found.tree.ovt[found.ovb], found.ptr)

\* ssvo_set_leaf, where there is a pointer.
SetLeaf(found, leaf) ==
  [found.tree EXCEPT !.ovt[found.ovb].nodes =
     Written([i \in found.ptr .. found.ptr + PtrEntries - 1 |-> PtrPart(leaf, i - found.ptr)], @)]

-----------------------------------------------------------------------------
(* What an octree holds, looked up without allocating anything.            *)

\* The child of node n, both as buffer and first entry; <<>> when missing.
Child(tree, n, c) ==
  LET link == Entry(tree.ovt[n[1]], n[2] + c)
  IN  IF link = 0 THEN <<>>
      ELSE IF link >= Msb THEN <<link - Msb, 0>> ELSE <<n[1], link>>

\* The nodes of a level on the ways that take the children kids(l) at each
\* level l above it.
NodesOn(tree, kids(_), level) ==
  LET at[l \in 1 .. tree.log2] ==
        IF l = tree.log2 THEN {<<0, 0>>}
        ELSE {Child(tree, n, c) : n \in at[l + 1], c \in kids(l + 1)} \ {<<>>}
  IN  at[level]

\* The pointers on those ways, as buffer and first entry.
PointersOn(tree, kids(_)) ==
  IF tree.log2 = 0 THEN {<<0, 0>>}
  ELSE {<<n[1], n[2] + PtrEntries * c>> : n \in NodesOn(tree, kids, 1), c \in kids(1)}

AllKids(level) == 0 .. 7

\* The leaf at position p, as a set of at most one.
LeafAt(tree, p) ==
  {Pointer(tree.ovt[q[1]], q[2]) :
     q \in PointersOn(tree, LAMBDA level : {ChildIndex(p, level)})} \ {0}

\* No two nodes share an entry, each lies within the part of its buffer that
\* is given away, and each but the root is the child of one node.
WellFormed(tree) ==
  LET nodes == UNION {{<<l, n[1], n[2]>> : n \in NodesOn(tree, AllKids, l)} : l \in 1 .. tree.log2}
      after(n) == n[3] + (IF n[1] = 1 THEN 8 * PtrEntries ELSE 8)
      links == {k \in nodes \X (0 .. 7) :
                  k[1][1] > 1 /\ Child(tree, <<k[1][2], k[1][3]>>, k[2]) # <<>>}
  IN  /\ \A n \in nodes : after(n) <= tree.ovt[n[2]].used
      /\ \A m, n \in nodes :
           m # n /\ m[2] = n[2] => after(m) <= n[3] \/ after(n) <= m[3]
      /\ nodes # {} => Cardinality(links) = Cardinality(nodes) - 1

\* The pointers that equal a leaf's.
PointersTo(tree, leaf) ==
  {q \in PointersOn(tree, AllKids) : Pointer(tree.ovt[q[1]], q[2]) = leaf}
=============================================================================
