---------------------------- MODULE MCPlotStorage ----------------------------
(***************************************************************************)
(* Plots 1, 3 and 16 chunks wide, with storages of a single chunk, of      *)
(* 2 x 2 x 2 and of 16 x 16 x 16 chunks (four levels, a new buffer below   *)
(* the third one).  Chunks are two blocks wide.                            *)
(* A buffer has room for one leaf node beside an inner one, and the table  *)
(* for three buffers, one less than the positions need.                    *)
(***************************************************************************)
EXTENDS PlotStorage

\* Two blocks of a chunk, its neighbour in the leaf node, a chunk of another
\* leaf node, one of another child of the root (by a negative coordinate),
\* and the first block again, one side length away.
MCPosition ==
  {<<0, 0, 0>>, <<1, 0, 0>>, <<0, 2, 0>>, <<4, 0, 0>>, <<0, 0, -1>>, <<32, 0, 0>>}
=============================================================================
