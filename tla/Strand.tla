-------------------------------- MODULE Strand --------------------------------
(***************************************************************************)
(* What the user of a warp may rely on: tasks wait in one first-in         *)
(* first-out queue per producer, and the next one starts when the previous *)
(* one has ended or has given up the strand.                               *)
(***************************************************************************)
EXTENDS Naturals, Sequences

CONSTANTS Producers, MaxTasks, NoTask

VARIABLES waiting, running, pushed
vars == <<waiting, running, pushed>>

Init == waiting = [p \in Producers |-> <<>>] /\ running = NoTask /\ pushed = 0

Push(p) ==
  /\ pushed < MaxTasks /\ pushed' = pushed + 1
  /\ waiting' = [waiting EXCEPT ![p] = Append(@, pushed + 1)]
  /\ UNCHANGED running

CallInPlace ==
  /\ running # NoTask
  /\ pushed < MaxTasks /\ pushed' = pushed + 1
  /\ UNCHANGED <<waiting, running>>

Start(p) ==
  /\ running = NoTask /\ waiting[p] # <<>>
  /\ running' = Head(waiting[p])
  /\ waiting' = [waiting EXCEPT ![p] = Tail(@)]
  /\ UNCHANGED pushed

Stop ==
  /\ running # NoTask /\ running' = NoTask
  /\ UNCHANGED <<waiting, pushed>>

Next == CallInPlace \/ Stop \/ \E p \in Producers : Push(p) \/ Start(p)
Spec == Init /\ [][Next]_vars
=============================================================================
