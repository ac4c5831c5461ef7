------------------------------- MODULE MCAllocator -------------------------------
(* Small instances of Allocator for TLC: two threads that are interchangeable.   *)
EXTENDS Allocator, TLC
CONSTANTS t1, t2
MCThreads == {t1, t2}
ThreadSymmetry == Permutations(MCThreads)
=============================================================================
