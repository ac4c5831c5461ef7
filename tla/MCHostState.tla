----------------------------- MODULE MCHostState -----------------------------
(* Small instances of HostState for TLC: two threads, one handle, a ring of   *)
(* two records.                                                               *)
EXTENDS HostState, TLC
CONSTANTS t1, t2
MCThreads == {t1, t2}
ThreadSymmetry == Permutations(MCThreads)
=============================================================================
