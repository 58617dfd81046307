------------------------------- MODULE BlockMap -------------------------------
(***************************************************************************)
(* What a plot's storage promises (src/core/plot_storage.h): a map of      *)
(* blocks.  Coordinates beyond the storage wrap around.  Only blocks other *)
(* than 0 are kept in solid; the rest of a chunk somebody placed a block   *)
(* in is 0, and a chunk nobody placed a block in is not there.             *)
(***************************************************************************)
EXTENDS Integers

CONSTANTS Position,   \* coordinates asked for
          Block,      \* values of a block
          Sides,      \* side lengths of a storage, in chunks
          ChunkSide,  \* side length of a chunk, in blocks
          NULL        \* no block

VARIABLES side,    \* side length of this storage
          solid,   \* position -> block, for the blocks that are not 0
          loaded,  \* the chunks that exist
          ret      \* what the last read found

Wrap(p) == [c \in 1 .. 3 |-> p[c] % (side * ChunkSide)]
ChunkOf(p) == [c \in 1 .. 3 |-> Wrap(p)[c] \div ChunkSide]

Init ==
  /\ side \in Sides
  /\ solid = <<>>
  /\ loaded = {}
  /\ ret = NULL

Put(p, b) ==
  /\ loaded' = loaded \union {ChunkOf(p)}
  /\ solid' = IF b = 0
              THEN [w \in DOMAIN solid \ {Wrap(p)} |-> solid[w]]
              ELSE [w \in DOMAIN solid \union {Wrap(p)} |-> IF w = Wrap(p) THEN b ELSE solid[w]]
  /\ UNCHANGED <<side, ret>>

Get(p) ==
  /\ ret' = IF ChunkOf(p) \notin loaded THEN NULL
            ELSE IF Wrap(p) \in DOMAIN solid THEN solid[Wrap(p)] ELSE 0
  /\ UNCHANGED <<side, solid, loaded>>

Next == \E p \in Position : Get(p) \/ \E b \in Block : Put(p, b)

Spec == Init /\ [][Next]_<<side, solid, loaded, ret>>
=============================================================================
