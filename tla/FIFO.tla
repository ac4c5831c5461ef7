---------------------------------- MODULE FIFO ----------------------------------
(* What a queue promises its one producer and its one consumer: elements come out *)
(* once each and in the order in which they went in.                              *)
EXTENDS Naturals, Sequences, SequencesExt

CONSTANTS Elements

VARIABLES queue, got        \* what is in it, and what the last pop took out
vars == <<queue, got>>

Init == queue = <<>> /\ got = <<>>

Put == queue' \in Seq(Elements) /\ IsPrefix(queue, queue') /\ UNCHANGED got

Take == \E k \in 0 .. Len(queue) :
  got' = SubSeq(queue, 1, k) /\ queue' = SubSeq(queue, k + 1, Len(queue))

Next == Put \/ Take
Spec == Init /\ [][Next]_vars
=============================================================================
