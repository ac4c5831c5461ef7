-------------------------- MODULE MCSharedSection --------------------------
(* Three processes; TLC checks every order of their loads, unloads, crashes. *)
EXTENDS SharedSection, TLC
CONSTANTS p1, p2, p3
MCProcesses == {p1, p2, p3}
ProcessSymmetry == Permutations(MCProcesses)
=============================================================================
