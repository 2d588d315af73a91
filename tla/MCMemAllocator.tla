--------------------------- MODULE MCMemAllocator ---------------------------
(* MemAllocator for TLC: threads and samples are interchangeable.          *)
EXTENDS MemAllocator, TLC

Symmetry == Permutations(Threads) \cup Permutations(Samples)
=============================================================================
