----------------------------- MODULE PlotStorage -----------------------------
(***************************************************************************)
(* src/core/plot_storage.c and the commands plot place and plot get on one *)
(* plot: chunks of blocks, found through an octree.                        *)
(*                                                                         *)
(* The core thread handles one command at a time, so one action is one     *)
(* command.  A read walks the octree as a write does and allocates the     *)
(* nodes on its way.  A chunk that finds no leaf is lost: nothing points   *)
(* to it, and it is left out.                                              *)
(***************************************************************************)
EXTENDS SSVO, Widths

CONSTANTS Sizes,      \* sides of the plot, in chunks
          Position,   \* coordinates commands may carry, as atoi returns them
          BlockArg,   \* block arguments, as atoi returns them
          WordBits,   \* width of a coordinate: 32
          ChunkBits,  \* width of an offset in a chunk: 4
          NULL        \* no block

ASSUME PlotStorageAssumption ==
  /\ Sizes \subseteq 1 .. 255
  /\ Position \subseteq Int \X Int \X Int
  /\ BlockArg \subseteq Int
  /\ WordBits \in Nat /\ ChunkBits \in Nat
  /\ \A size \in Sizes : ChunkBits + CountBits(size) <= WordBits

VARIABLES size,    \* plot->size
          tree,    \* storage->ssvo
          chunks,  \* the chunks leaves point to, in the order of their creation
          ret      \* what the last plot get printed

vars == <<size, tree, chunks, ret>>

ChunkSide == 2 ^ ChunkBits
Offsets == [1 .. 3 -> 0 .. ChunkSide - 1]

ToUint32(v) == v % 2 ^ WordBits

\* Which chunk a position lies in, and where in the chunk.
ChunkPos(p) == [c \in 1 .. 3 |-> ToUint32(p[c]) \div ChunkSide]
Offset(p) == [c \in 1 .. 3 |-> ToUint32(p[c]) % ChunkSide]

\* new_plot_storage, with the side rounded down to a power of two
Init ==
  /\ size \in Sizes
  /\ tree = NewSsvo(CountBits(size))
  /\ chunks = <<>>
  /\ ret = NULL

\* Mutant: the block is copied into a chunk that was there, not into a new one.
SetBlockOld(p, b) ==
  LET found == GetLeafPtr(tree, ChunkPos(p))
      again == GetLeafPtr(found.tree, ChunkPos(p))
      chunk == GetLeaf(found)
  IN  IF chunk # 0
      THEN /\ tree' = found.tree
           /\ chunks' = [chunks EXCEPT ![chunk][Offset(p)] = b]
      ELSE IF again.ptr = -1
      THEN /\ tree' = again.tree
           /\ UNCHANGED chunks
      ELSE /\ tree' = SetLeaf(again, Len(chunks) + 1)
           /\ chunks' = Append(chunks, [o \in Offsets |-> 0])

\* set_block: a chunk that is not there is created, with all blocks 0, and
\* the octree walked again to point to it.
SetBlock(p, b) ==
  LET found == GetLeafPtr(tree, ChunkPos(p))
      again == GetLeafPtr(found.tree, ChunkPos(p))
      chunk == GetLeaf(found)
  IN  IF chunk # 0
      THEN /\ tree' = found.tree
           /\ chunks' = [chunks EXCEPT ![chunk][Offset(p)] = b]
      ELSE IF again.ptr = -1
      THEN /\ tree' = again.tree
           /\ UNCHANGED chunks
      ELSE /\ tree' = SetLeaf(again, Len(chunks) + 1)
           /\ chunks' = Append(chunks, [[o \in Offsets |-> 0] EXCEPT ![Offset(p)] = b])

\* plot place <plotname> <x> <y> <z> <block>
PlotPlace(p, arg) ==
  /\ SetBlock(p, ToUint8(arg))
  /\ UNCHANGED <<size, ret>>

\* plot get <plotname> <x> <y> <z>, by get_block
PlotGet(p) ==
  LET found == GetLeafPtr(tree, ChunkPos(p))
      chunk == GetLeaf(found)
  IN  /\ ret' = IF chunk = 0 THEN NULL ELSE chunks[chunk][Offset(p)]
      /\ tree' = found.tree
      /\ UNCHANGED <<size, chunks>>

Next == \E p \in Position :
  \/ PlotGet(p)
  \/ \E arg \in BlockArg : PlotPlace(p, arg)

Spec == Init /\ [][Next]_vars

-----------------------------------------------------------------------------
TypeOK ==
  /\ size \in Sizes /\ tree.log2 = CountBits(size)
  /\ DOMAIN tree.ovt = 0 .. Cardinality(DOMAIN tree.ovt) - 1
  /\ Cardinality(DOMAIN tree.ovt) \in 1 .. OVT_SIZE
  /\ \A o \in DOMAIN tree.ovt :
       /\ tree.ovt[o].used \in 0 .. OVB_SIZE
       /\ DOMAIN tree.ovt[o].nodes \subseteq 0 .. tree.ovt[o].used - 1
  /\ chunks \in Seq([Offsets -> 0 .. 255])
  /\ ret \in 0 .. 255 \union {NULL}

\* The octree never gives the same entries to two nodes, nor a node to two
\* parents: a write through one place never shows up at another.  Every chunk that
\* was created hangs on one leaf: it is neither lost nor found at two places.
OctreeSound ==
  /\ WellFormed(tree)
  /\ \A c \in DOMAIN chunks : Cardinality(PointersTo(tree, c)) = 1

\* The block at p: a set of at most one, empty where there is no chunk.
BlockAt(p) == {chunks[c][Offset(p)] : c \in LeafAt(tree, ChunkPos(p))}

TableFull == Cardinality(DOMAIN tree.ovt) = OVT_SIZE

\* A block that is placed is there, unless the octree's table has run out,
\* and then only where no chunk was before.
StoredUnlessFull ==
  [][\A p \in Position, arg \in BlockArg :
       PlotPlace(p, arg) =>
         \/ BlockAt(p)' = {ToUint8(arg)}
         \/ BlockAt(p) = {} /\ TableFull']_vars

-----------------------------------------------------------------------------
(* The storage is a map of blocks.                                         *)

Wrapped(p) == [c \in 1 .. 3 |-> p[c] % (2 ^ tree.log2 * ChunkSide)]
Present == {w \in {Wrapped(p) : p \in Position} : BlockAt(w) # {}}
Solid == [w \in {v \in Present : BlockAt(v) # {0}} |-> CHOOSE b \in BlockAt(w) : TRUE]
Loaded == {[c \in 1 .. 3 |-> w[c] \div ChunkSide] : w \in Present}

Map == INSTANCE BlockMap WITH
  Block  <- {ToUint8(arg) : arg \in BlockArg},
  Sides  <- {2 ^ CountBits(s) : s \in Sizes},
  side   <- 2 ^ tree.log2,
  solid  <- Solid,
  loaded <- Loaded

\* The positions of a plot whose sides are `size` chunks long: plots.h:58, "Side length
\* of the plot in multiples of 16".
InsidePlot(p) == \A c \in 1 .. 3 : p[c] \in 0 .. size * ChunkSide - 1

\* A plot whose size is a power of two has a place for each of its positions.  Of any
\* other the storage is narrower: the first position beyond it still lies in the plot
\* and is the spawn's place again.
SidesAgree ==
  LET beyond == <<2 ^ tree.log2 * ChunkSide, 0, 0>>
  IN  IF size = 2 ^ tree.log2
      THEN \A p, q \in Position :
             InsidePlot(p) /\ InsidePlot(q) /\ Wrapped(p) = Wrapped(q) => p = q
      ELSE InsidePlot(beyond) /\ Wrapped(beyond) = Wrapped(<<0, 0, 0>>)

\* Whatever the order of reads and writes, nodes and buffers, plot get prints
\* the block placed last at its position, coordinates taken modulo the side
\* of the storage: the side of the plot only where that is a power of two.
ImplementsMap == Map!Spec /\ []SidesAgree
=============================================================================
