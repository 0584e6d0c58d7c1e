------------------------------- MODULE MCRaid -------------------------------
(* Raid and its inductive invariants, for model checking.  The bits of a   *)
(* block are interchangeable: every operator on blocks is a set operator.  *)
EXTENDS RaidInv, TLC

BitSymmetry == Permutations(Bit)
=============================================================================
