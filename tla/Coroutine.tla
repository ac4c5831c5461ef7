------------------------------- MODULE Coroutine -------------------------------
(***************************************************************************)
(* Coroutines on warps and on the thread pool: what the awaitables (Await) *)
(* and the synchronisation objects (Sync) have in common.                  *)
(*                                                                         *)
(* A task is a closure in the queue of a warp or of the pool, or being run *)
(* by a thread.  A task with op "body" is a handle.resume(): the code of a *)
(* coroutine up to where it suspends.  A warp runs one task at a time and  *)
(* starts none while it is suspended (modules Warp and Strand); the pool   *)
(* runs any number at once.  A thread that is no worker's is one of the    *)
(* pool here: what it posts to a warp goes through the pool first.         *)
(***************************************************************************)
EXTENDS Integers, Sequences, FiniteSets, SequencesExt, FiniteSetsExt

CONSTANTS
  Coroutines, Warps,
  Joined,        \* the coroutines that are joined, if they start outside the warps
  Pool,          \* nullptr for a warp: the thread pool
  MaxAwaits,     \* bound: how often each coroutine suspends, by kind of program
  Shares         \* bound: how often each of those that await functions does

Kinds  == {"await", "event", "pipe", "barrier", "frame"}
Places == Warps \cup {Pool}
ASSUME CoroutineAssumption ==
  /\ MaxAwaits \in [Kinds -> Nat] /\ Pool \notin Warps /\ Joined \subseteq Coroutines
  /\ Shares \subseteq [Coroutines -> 0 .. MaxAwaits["await"]]

VARIABLES
  kind,          \* what the coroutines of the program use
  tasks,         \* closures queued
  running,       \* closures being run, with how far they are as op
  suspends,      \* suspend_count of each warp
  left,          \* awaits that each coroutine still makes
  joiner,        \* where the thread is that called a coroutine's join(): "none" if it was run()
  variable       \* the atomic on the stack of join()
tvars == <<kind, tasks, running, suspends, left, joiner, variable>>
jvars == <<joiner, variable>>

\* k and on are of use to the closures of Await and Sync; first is the handle.resume() that join() calls.
Task(c, op, at) == [c |-> c, op |-> op, k |-> 0, at |-> at, on |-> Pool, first |-> FALSE]

\* The step of t to op, with the queue growing by new.
Step(t, op, new) ==
  /\ running' = (running \ {t}) \cup {[t EXCEPT !.op = op]} /\ tasks' = tasks \cup new
End(t, new) == running' = running \ {t} /\ tasks' = tasks \cup new
At(t, op)   == t \in running /\ t.op = op
Awaiting(t) == At(t, "body") /\ left[t.c] > 0 /\ left' = [left EXCEPT ![t.c] = @ - 1]

TasksInit ==
  /\ kind \in Kinds
  /\ running = {} /\ suspends = [w \in Warps |-> 0]
  /\ left \in IF kind = "await" THEN Shares ELSE {[c \in Coroutines |-> MaxAwaits[kind]]}
  /\ variable = [c \in Coroutines |-> 0]
  /\ \E place \in [Coroutines -> Places] :
       LET joined(c) == kind = "await" /\ c \in Joined /\ place[c] = Pool
       IN  /\ tasks = {[Task(c, "body", place[c]) EXCEPT !.first = joined(c)] : c \in Coroutines}
           /\ joiner = [c \in Coroutines |-> IF joined(c) THEN "run" ELSE "none"]

\* Mutual exclusion of the tasks of a warp is that of module Warp.
Start(t) ==
  /\ t \in tasks
  /\ t.at \in Warps => suspends[t.at] = 0 /\ \A r \in running : r.at # t.at
  /\ tasks' = tasks \ {t} /\ running' = running \cup {t}
  /\ UNCHANGED <<suspends, left, jvars>>

-----------------------------------------------------------------------------
(* The end of a coroutine, and join(), which runs it and waits for its completion. *)

Return(t) ==       \* return_void, completion()
  /\ At(t, "body") /\ left[t.c] = 0 /\ UNCHANGED <<suspends, left, joiner>>
  /\ IF joiner[t.c] = "none" THEN End(t, {}) /\ UNCHANGED variable
     ELSE Step(t, "notify", {}) /\ variable' = [variable EXCEPT ![t.c] = 1]

\* EventuallyFinished: no notify_one() in the completion.
WrongNotify(t) == At(t, "notify") /\ End(t, {}) /\ UNCHANGED <<suspends, left, jvars>>
Notify(t) ==       \* variable.notify_one()
  /\ At(t, "notify") /\ End(t, {}) /\ UNCHANGED <<suspends, left, variable>>
  /\ joiner' = [joiner EXCEPT ![t.c] = IF @ = "sleep" THEN "run" ELSE @]

Wait(c) ==         \* variable.wait(0), after run() has returned
  /\ joiner[c] = "run" /\ \A t \in tasks \cup running : ~(t.c = c /\ t.first)
  /\ joiner' = [joiner EXCEPT ![c] = IF variable[c] = 0 THEN "sleep" ELSE "done"]
  /\ UNCHANGED <<tasks, running, suspends, left, variable>>

\* The closures from which a coroutine goes on.
Resumption == {"body", "receive", "count", "next"}
Resumptions(c) == {t \in tasks \cup running : t.c = c /\ t.op \in Resumption}
=============================================================================
