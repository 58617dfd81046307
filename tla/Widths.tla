-------------------------------- MODULE Widths --------------------------------
(***************************************************************************)
(* Numbers as the plot commands hold them: atoi returns an int, and plots  *)
(* keep fewer bits of it.                                                  *)
(***************************************************************************)
EXTENDS Integers, FiniteSetsExt

\* What is left of an int in an int16_t (virt_x, virt_z) ...
ToInt16(v) == ((v + 32768) % 65536) - 32768

\* Mutant: a block or a size keeps all its bits.
ToUint8Whole(v) == v

\* ... and in a uint8_t (sizes and blocks).
ToUint8(v) == v % 256

\* count_bits: the position of the highest set bit of a size.
CountBits(n) == Max({0} \union {b \in 0 .. 7 : 2 ^ b <= n})
=============================================================================
