------------------------------- MODULE Parity -------------------------------
(***************************************************************************)
(* Blocks and parity, as src/FinalProject computes them.  A block is the   *)
(* set of its one bits, so that the byte-wise ^= of the program is the     *)
(* symmetric difference.  XorOver(D, row) is what a loop that starts from  *)
(* zero and ^='s row[d] for every d in D leaves in its accumulator: a bit  *)
(* is set when an odd number of the blocks have it.                        *)
(***************************************************************************)
EXTENDS Integers, FiniteSets

CONSTANT Bit            \* the bits of a block

Block == SUBSET Bit
Zero  == {}             \* calloc'ed disks and memset accumulators

Xor(a, b) == (a \ b) \cup (b \ a)

(* The members of D whose block has bit b.                                 *)
Holders(D, row, b) == {d \in D : b \in row[d]}

XorOver(D, row) == {b \in Bit : Cardinality(Holders(D, row, b)) % 2 = 1}
=============================================================================
