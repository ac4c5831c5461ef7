---------------------------------- MODULE Await ----------------------------------
(***************************************************************************)
(* co_await of grid_awaitable_t, of grid_awaitable_multiple_t and of       *)
(* grid_switch_t: a coroutine lets a function run elsewhere, on a warp, in *)
(* the pool, or in the pool while a warp is suspended ("parallel"), and    *)
(* goes on where it was.  A target is a pair of a place and whether the    *)
(* function runs in parallel to it.                                        *)
(***************************************************************************)
EXTENDS Coroutine

CONSTANT Programs  \* bound: the sequences of targets of a grid_awaitable_multiple_t

VARIABLE aw        \* the awaitable of each coroutine, in its frame
avars == <<tvars, aw>>

Targets == (Places \X {FALSE}) \cup (Warps \X {TRUE})
ASSUME AwaitAssumption == Programs \subseteq Seq(Targets) \ {<<>>}
NoAwait(place, overtaken) ==
  [caller |-> place, multiple |-> FALSE, targets |-> <<>>, pending |-> 0, done |-> {},
   overtaken |-> overtaken]
AwaitInit == aw = [c \in Coroutines |-> NoAwait((CHOOSE t \in tasks : t.c = c).at, FALSE)]

\* History: the coroutine awaits again, its former awaitable destroyed, while await_suspend
\* of that is still in its loop.  The loop then reads what took its place.
Overtakes(c) == aw[c].overtaken \/ \E t \in running : t.c = c /\ t.op = "loop"

-----------------------------------------------------------------------------
(* Definitions with the word Wrong are mutations: the mistake in the definition *)
(* they precede that the property named with them would reveal.                 *)

\* grid_awaitable_t on the same warp: func() and handle.resume() at once.
AwaitHere(t) ==
  /\ Awaiting(t) /\ aw' = [aw EXCEPT ![t.c] = NoAwait(t.at, Overtakes(t.c))]
  /\ UNCHANGED <<tasks, running, suspends>>

Suspend(t, multiple, targets) ==
  /\ aw' = [aw EXCEPT ![t.c] = [caller |-> t.at, multiple |-> multiple, targets |-> targets,
                                pending |-> Len(targets), done |-> {}, overtaken |-> Overtakes(t.c)]]
  /\ running' = (running \ {t}) \cup {[t EXCEPT !.op = "loop", !.k = 1]}
  /\ UNCHANGED <<tasks, suspends>>
AwaitOne(t, target) == Awaiting(t) /\ target[1] # t.at /\ Suspend(t, FALSE, <<target>>)
AwaitMultiple(t, targets) == Awaiting(t) /\ Suspend(t, TRUE, targets)

\* grid_switch_t
Switch(t, place) ==
  /\ Awaiting(t)
  /\ IF place = t.at THEN UNCHANGED <<tasks, running>>
     ELSE End(t, {Task(t.c, "body", place)})
  /\ aw' = [aw EXCEPT ![t.c] = NoAwait(place, Overtakes(t.c))] /\ UNCHANGED suspends

\* await_suspend queues the functions one by one, those in parallel after target->suspend().
QueueOne(t) ==
  LET target == aw[t.c].targets[t.k]
      next   == [t EXCEPT !.k = @ + 1]
  IN  /\ At(t, "loop") /\ t.k <= Len(aw[t.c].targets)
      /\ running' = (running \ {t}) \cup {next}
      /\ tasks' = tasks \cup {[c |-> t.c, op |-> "func", k |-> t.k, on |-> target[1], first |-> FALSE,
                               at |-> IF target[2] THEN Pool ELSE target[1]]}
      /\ suspends' = IF target[2] THEN [suspends EXCEPT ![target[1]] = @ + 1] ELSE suspends
      /\ UNCHANGED <<left, aw>>

\* The loop of grid_awaitable_multiple_t looks at awaitables.size() once more.
Queued(t) ==
  /\ At(t, "loop") /\ t.k > Len(aw[t.c].targets) /\ End(t, {}) /\ UNCHANGED <<suspends, left, aw>>

Parallel(t) == t.op \in {"func", "resume_one"} /\ t.at = Pool /\ t.on # Pool

\* EventuallyFinished: the warp stays suspended.
WrongFunc(t) ==
  /\ At(t, "func") /\ Step(t, "resume_one", {})
  /\ aw' = [aw EXCEPT ![t.c].done = @ \cup {t.k}]
  /\ UNCHANGED <<suspends, left>>
Func(t) ==             \* func(), and target->resume()
  /\ At(t, "func") /\ Step(t, "resume_one", {})
  /\ aw' = [aw EXCEPT ![t.c].done = @ \cup {t.k}]
  /\ suspends' = IF Parallel(t) THEN [suspends EXCEPT ![t.on] = @ - 1] ELSE suspends
  /\ UNCHANGED left

\* FuncsThenHome: the last function to be queued resumes, finished first or not.
WrongLast(t) == t.k = Len(aw[t.c].targets)
Last1(t) == aw[t.c].pending = 1

InPlace(t) == aw[t.c].multiple /\ t.at = aw[t.c].caller

resume_one(t) ==
  /\ At(t, "resume_one") /\ aw' = [aw EXCEPT ![t.c].pending = @ - 1]
  /\ IF ~Last1(t) THEN End(t, {})
     ELSE IF InPlace(t)
     THEN running' = (running \ {t}) \cup {Task(t.c, "body", t.at)} /\ UNCHANGED tasks
     ELSE End(t, {Task(t.c, "body", aw[t.c].caller)})
  /\ UNCHANGED <<suspends, left>>

AwaitStep(t) == QueueOne(t) \/ Queued(t) \/ Func(t) \/ resume_one(t)
AwaitAny(t) ==
  \/ AwaitHere(t)
  \/ \E x \in Targets : AwaitOne(t, x)
  \/ \E x \in Programs : AwaitMultiple(t, x)
  \/ \E p \in Places : Switch(t, p)

-----------------------------------------------------------------------------
(* A coroutine goes on when all functions it waits for have run, at the place from   *)
(* which it awaited them, however often it awaits, unless it has overtaken the loop  *)
(* of a former await.                                                                *)
FuncsThenHome ==
  \A c \in Coroutines : ~aw[c].overtaken => \A t \in Resumptions(c) :
    aw[c].pending = 0 /\ aw[c].done = DOMAIN aw[c].targets /\ t.at = aw[c].caller

(* The awaitable is a temporary of the coroutine.  On a warp, the coroutine does not *)
(* go on, and destroy it, while await_suspend is still in its loop.                  *)
AwaitEndsFirst ==
  \A t \in running : t.op = "loop" /\ t.at \in Warps =>
    \A r \in running : r.c = t.c => r.op # "body"
=============================================================================
