---------------------------- MODULE MCCpuBudget ----------------------------
(* Threads and bitmaps are interchangeable: the module names none of them.  *)
EXTENDS CpuBudget, TLC

Symmetry == Permutations(Threads) \cup Permutations(Bitmaps)
=============================================================================
