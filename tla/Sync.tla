----------------------------------- MODULE Sync -----------------------------------
(***************************************************************************)
(* grid_event_t, grid_pipe_t, grid_barrier_t and grid_frame_t: objects on  *)
(* which coroutines suspend until another thread, or the last of them,     *)
(* dispatches them to the warp on which they were.                         *)
(*                                                                         *)
(* A section under a mutex is one step: of what it reads and writes only   *)
(* counters are touched without the mutex, and these grow under it only.   *)
(* A load and compare-exchange loop that takes 1 off a counter is one step *)
(* too, at its last compare-exchange, or at the load of 0.                 *)
(***************************************************************************)
EXTENDS Coroutine

CONSTANTS
  MaxCalls           \* bound: calls of notify(), of reset(), of emplace() and of dispatch()

ASSUME SyncAssumption ==
  /\ MaxCalls \in Nat \ {0}
  /\ IsFiniteSet(Coroutines) /\ Coroutines # {} /\ 0 \notin Coroutines

VARIABLES
  event, pipe, barrier, frame,
  caller,            \* the threads that call emplace() or dispatch(): how far they are
  calls              \* how often each function was called
svars   == <<event, pipe, barrier, frame, caller, calls>>
Callers == 1 .. MaxCalls
Nobody  == [c |-> 0, at |-> Pool]            \* grid_coroutine_handle(); it ends a frame
Info(t) == [c |-> t.c, at |-> t.at]
ToDispatch(info, op) == {Task(info.c, op, info.at)}

SyncInit ==
  /\ event = [signaled |-> FALSE, handles |-> {}]
  /\ pipe = [prepared_count |-> 0, waiting_count |-> 0, handles |-> <<>>, elements |-> <<>>]
  /\ barrier = [yield_count |-> 0, resume_count |-> 0, firsts |-> 0, passed |-> [c \in Coroutines |-> 0],
                handles |-> [i \in 1 .. Cardinality(Coroutines) |-> Nobody], early |-> FALSE]
  /\ frame = [handles |-> <<>>, pending_count |-> 0, complete |-> FALSE, terminated |-> FALSE]
  /\ caller = [p \in Callers |-> "idle"] /\ calls = [notify |-> 0, reset |-> 0]

-----------------------------------------------------------------------------
(* Event *)

EventVars == UNCHANGED <<pipe, barrier, frame, caller>>
Event(t) ==                      \* await_ready, and the first check of await_suspend
  /\ Awaiting(t) /\ EventVars /\ UNCHANGED <<suspends, event, calls>>
  /\ IF event.signaled THEN UNCHANGED <<tasks, running>> ELSE Step(t, "event", {})

\* Definitions with the word Wrong are mutations: the mistake in the definition they
\* precede that the property named with them would reveal.

\* EventLeavesNobody: no second check under the lock.
WrongEventWait(t) ==
  /\ At(t, "event") /\ EventVars /\ UNCHANGED <<suspends, left, calls>>
  /\ event' = [event EXCEPT !.handles = @ \cup {Info(t)}] /\ End(t, {})
EventWait(t) ==                  \* under the lock
  /\ At(t, "event") /\ EventVars /\ UNCHANGED <<suspends, left, calls>>
  /\ IF event.signaled
     THEN UNCHANGED event /\ End(t, ToDispatch(Info(t), "body"))
     ELSE event' = [event EXCEPT !.handles = @ \cup {Info(t)}] /\ End(t, {})

\* ResumedOnce: the handles stay in the list.
Wrongnotify ==
  /\ calls.notify < MaxCalls /\ calls' = [calls EXCEPT !.notify = @ + 1]
  /\ event' = [event EXCEPT !.signaled = TRUE]
  /\ tasks' = tasks \cup UNION {ToDispatch(i, "body") : i \in event.handles}
  /\ UNCHANGED <<running, suspends, left>> /\ EventVars
notify ==
  /\ calls.notify < MaxCalls /\ calls' = [calls EXCEPT !.notify = @ + 1]
  /\ event' = [signaled |-> TRUE, handles |-> {}]
  /\ tasks' = tasks \cup UNION {ToDispatch(i, "body") : i \in event.handles}
  /\ UNCHANGED <<running, suspends, left>> /\ EventVars
reset ==
  /\ calls.reset < MaxCalls - 1 /\ calls' = [calls EXCEPT !.reset = @ + 1]
  /\ event' = [event EXCEPT !.signaled = FALSE] /\ UNCHANGED <<tasks, running, suspends, left>> /\ EventVars

-----------------------------------------------------------------------------
(* Pipe *)

PipeVars == UNCHANGED <<suspends, event, barrier, frame, calls>>
\* flush_prepared() takes 1 off prepared_count, unless it is 0.
flush_prepared == pipe.prepared_count > 0

Pipe(t) ==                       \* await_suspend, the fast path
  /\ Awaiting(t) /\ PipeVars /\ UNCHANGED caller
  /\ IF flush_prepared
     THEN pipe' = [pipe EXCEPT !.prepared_count = @ - 1] /\ End(t, ToDispatch(Info(t), "receive"))
     ELSE UNCHANGED pipe /\ Step(t, "pipe", {})

PipeWait(t) ==                   \* under handle_lock
  /\ At(t, "pipe") /\ PipeVars /\ UNCHANGED <<left, caller>>
  /\ IF flush_prepared
     THEN pipe' = [pipe EXCEPT !.prepared_count = @ - 1] /\ End(t, ToDispatch(Info(t), "receive"))
     ELSE /\ pipe' = [pipe EXCEPT !.handles = Append(@, Info(t)), !.waiting_count = @ + 1]
          /\ End(t, {})

Receive(t) ==                    \* await_resume
  /\ At(t, "receive") /\ PipeVars /\ UNCHANGED <<left, caller>>
  /\ pipe' = [pipe EXCEPT !.elements = Tail(@)] /\ Step(t, "body", {})

EmplaceStep(p, from, to) == caller[p] = from /\ caller' = [caller EXCEPT ![p] = to] /\ PipeVars /\ UNCHANGED left
Same == UNCHANGED <<tasks, running>>

emplace(p) ==                    \* under data_push_lock
  /\ EmplaceStep(p, "idle", "flush") /\ Same
  /\ pipe' = [pipe EXCEPT !.elements = Append(@, p)]
FlushWaiting(p) ==               \* the fast path
  /\ EmplaceStep(p, "flush", IF pipe.waiting_count > 0 THEN "take" ELSE "prepare") /\ Same
  /\ pipe' = [pipe EXCEPT !.waiting_count = Max({@, 1}) - 1]
TakeHandle(p) ==                 \* under handle_lock
  /\ EmplaceStep(p, "take", "done") /\ UNCHANGED running
  /\ pipe' = [pipe EXCEPT !.handles = Tail(@)]
  /\ tasks' = tasks \cup ToDispatch(Head(pipe.handles), "receive")

\* PipeBalanced: no retry under the lock.
WrongPrepare(p) ==
  /\ EmplaceStep(p, "prepare", "done")
  /\ pipe' = [pipe EXCEPT !.prepared_count = @ + 1] /\ Same
Prepare(p) ==                    \* under handle_lock
  /\ EmplaceStep(p, "prepare", "done")
  /\ IF pipe.waiting_count > 0
     THEN /\ pipe' = [pipe EXCEPT !.waiting_count = @ - 1, !.handles = Tail(@)]
          /\ tasks' = tasks \cup ToDispatch(Head(pipe.handles), "receive") /\ UNCHANGED running
     ELSE pipe' = [pipe EXCEPT !.prepared_count = @ + 1] /\ Same

-----------------------------------------------------------------------------
(* Barrier, of as many as there are coroutines *)

\* The last to take a place of the barrier dispatches whatever handles[] has, be it that another
\* has taken a place and not stored its handle yet: "early".  There it finds the handle of the
\* round before, or a null one; what the resume() of a null handle does is left out.

yield_max   == Cardinality(Coroutines)
BarrierVars == UNCHANGED <<suspends, event, pipe, frame, caller, calls>>
Barrier(t) ==                    \* yield_count.fetch_add
  /\ Awaiting(t) /\ BarrierVars /\ UNCHANGED tasks
  /\ barrier.early => barrier.yield_count < yield_max    \* asserted
  /\ running' = (running \ {t}) \cup {[t EXCEPT !.op = "store", !.k = barrier.yield_count + 1]}
  /\ barrier' = [barrier EXCEPT !.yield_count = @ + 1]

Store(t) ==                      \* handles[index] = info
  /\ At(t, "store") /\ BarrierVars /\ UNCHANGED left
  /\ IF t.k = yield_max
     THEN /\ running' = (running \ {t}) \cup {[t EXCEPT !.op = "release", !.k = 1]}
          /\ barrier' = [barrier EXCEPT !.handles[t.k] = Info(t), !.yield_count = 0, !.resume_count = 0]
          /\ UNCHANGED tasks
     ELSE barrier' = [barrier EXCEPT !.handles[t.k] = Info(t)] /\ End(t, {})

Release(t) ==                    \* the last one dispatches them all
  /\ At(t, "release") /\ BarrierVars /\ UNCHANGED left
  /\ barrier' = [barrier EXCEPT !.early = @ \/ \E u \in running : u.op = "store" /\ u.k = t.k]
  /\ tasks' = tasks \cup UNION {ToDispatch(i, "count") : i \in {barrier.handles[t.k]} \ {Nobody}}
  /\ running' = (running \ {t}) \cup (IF t.k = yield_max THEN {} ELSE {[t EXCEPT !.k = @ + 1]})

\* BarrierOrderly: the count starts again when somebody has resumed.
WrongCount(t) ==
  /\ At(t, "count") /\ BarrierVars /\ UNCHANGED left /\ Step(t, "body", {})
  /\ barrier' = [barrier EXCEPT !.resume_count = 0, !.passed[t.c] = @ + 1,
                                !.firsts = @ + (IF barrier.resume_count = 0 THEN 1 ELSE 0)]
Count(t) ==                      \* await_resume
  /\ At(t, "count") /\ BarrierVars /\ UNCHANGED left /\ Step(t, "body", {})
  /\ barrier' = [barrier EXCEPT !.resume_count = @ + 1, !.passed[t.c] = @ + 1,
                                !.firsts = @ + (IF barrier.resume_count = 0 THEN 1 ELSE 0)]

-----------------------------------------------------------------------------
(* Frame.  One thread calls dispatch(), which is not on a warp of the coroutines. *)

FrameVars == UNCHANGED <<suspends, event, pipe, barrier, calls>>
queue(info) == frame' = [frame EXCEPT !.handles = Append(@, info)]   \* under frame_mutex

Frame(t) ==                      \* await_ready and await_suspend
  /\ Awaiting(t) /\ FrameVars /\ UNCHANGED caller
  /\ IF frame.terminated THEN UNCHANGED <<tasks, running, frame>>
     ELSE queue(Info(t)) /\ End(t, {})

\* DispatchReturns: the count that fetch_sub returns is taken for the new one.
WrongResumeFrame(t) ==
  /\ At(t, "next") /\ FrameVars /\ UNCHANGED <<left, caller>>
  /\ IF frame.terminated THEN UNCHANGED frame /\ Step(t, "body", {})
     ELSE /\ frame' = [frame EXCEPT !.pending_count = @ - 1]
          /\ Step(t, IF frame.pending_count = 0 THEN "complete" ELSE "body", {})
\* The resume_t of await_resume is a temporary: it calls next() when await_resume returns,
\* and not when the coroutine has done its part of the frame.
ResumeFrame(t) ==
  /\ At(t, "next") /\ FrameVars /\ UNCHANGED <<left, caller>>
  /\ IF frame.terminated THEN UNCHANGED frame /\ Step(t, "body", {})
     ELSE /\ frame' = [frame EXCEPT !.pending_count = @ - 1]
          /\ Step(t, IF frame.pending_count = 1 THEN "complete" ELSE "body", {})
Complete(t) ==                   \* frame_complete.store(1)
  /\ At(t, "complete") /\ FrameVars /\ UNCHANGED <<left, caller>>
  /\ frame' = [frame EXCEPT !.complete = TRUE] /\ Step(t, "body", {})

DispatchStep(p, from, to) ==
  /\ caller[p] = from /\ caller' = [caller EXCEPT ![p] = to] /\ FrameVars /\ UNCHANGED left
dispatch(p) ==                   \* the mark that ends the frame
  /\ DispatchStep(p, "idle", "test") /\ \A q \in 1 .. p - 1 : caller[q] = "done"
  /\ queue(Nobody) /\ Same
TestPending(p) ==
  /\ DispatchStep(p, "test", IF frame.pending_count # 0 THEN "wait" ELSE "running")
  /\ UNCHANGED frame /\ Same
WaitComplete(p) ==
  /\ frame.complete /\ DispatchStep(p, "wait", "clear") /\ UNCHANGED frame /\ Same
ClearComplete(p) ==
  /\ DispatchStep(p, "clear", "running") /\ frame' = [frame EXCEPT !.complete = FALSE] /\ Same
SetTerminated(p) ==              \* dispatch(false) is the last one
  /\ DispatchStep(p, "running", "next") /\ Same
  /\ frame' = [frame EXCEPT !.terminated = (p = MaxCalls)]

DispatchNext(p) ==
  LET info == Head(frame.handles)
  IN  /\ caller[p] = "next"
      /\ IF info = Nobody
         THEN DispatchStep(p, "next", "done") /\ frame' = [frame EXCEPT !.handles = Tail(@)] /\ Same
         ELSE /\ DispatchStep(p, "next", "next") /\ UNCHANGED running
              /\ frame' = [frame EXCEPT !.handles = Tail(@), !.pending_count = @ + 1]
              /\ tasks' = tasks \cup ToDispatch(info, "next")
-----------------------------------------------------------------------------
EventNext == notify \/ reset \/ \E t \in running : Event(t) \/ EventWait(t)
PipeNext  ==
  \/ \E t \in running : Pipe(t) \/ PipeWait(t) \/ Receive(t)
  \/ \E p \in Callers : emplace(p) \/ FlushWaiting(p) \/ TakeHandle(p) \/ Prepare(p)
BarrierNext == \E t \in running : Barrier(t) \/ Store(t) \/ Release(t) \/ Count(t)
FrameNext ==
  \/ \E t \in running : Frame(t) \/ ResumeFrame(t) \/ Complete(t)
  \/ \E p \in Callers : dispatch(p) \/ TestPending(p) \/ WaitComplete(p) \/ ClearComplete(p)
                         \/ SetTerminated(p) \/ DispatchNext(p)

Handles == event.handles \cup ToSet(pipe.handles) \cup (ToSet(frame.handles) \ {Nobody})

(* A coroutine that has suspended is resumed once: no two threads are in it, and while a *)
(* thread is, no list holds its handle.  A barrier that opens early breaks this.         *)
ResumedOnce ==
  ~barrier.early => \A c \in Coroutines :
    LET threads == {t \in tasks \cup running : t.c = c /\ t.op \notin {"loop", "func", "resume_one"}}
    IN  Cardinality(threads) + Cardinality({h \in Handles : h.c = c}) <= 1

(* When the event is set, nobody waits who might not be notified again.                  *)
EventLeavesNobody == event.signaled => event.handles = {}

(* An element and a coroutine never wait for each other, and every coroutine that is on  *)
(* its way to await_resume finds an element there.                                       *)
PipeBalanced ==
  LET emplacing(pcs) == Cardinality({p \in Callers : caller[p] \in pcs})
      receiving      == Cardinality({t \in tasks \cup running : t.op = "receive"})
  IN  /\ pipe.waiting_count = 0 \/ pipe.prepared_count = 0
      /\ Len(pipe.handles) = pipe.waiting_count + emplacing({"take"})
      /\ Len(pipe.elements) = pipe.prepared_count + receiving + emplacing({"flush", "prepare", "take"})

(* "barrier-like multiple coroutine sychronization": nobody is through the barrier for   *)
(* the n-th time before all have arrived n times, and each time one of them, and no      *)
(* other, is told that it is the first.                                                  *)
BarrierTogether ==
  /\ \A c, d \in Coroutines : barrier.passed[c] <= MaxAwaits[kind] - left[d]
  /\ barrier.firsts = Max({barrier.passed[c] : c \in Coroutines})

(* dispatch() does not wait for ever for the frame before, though frame_complete may     *)
(* still be set, or be set late, on account of an earlier frame.                         *)
DispatchReturns == \A p \in Callers : caller[p] = "test" ~> caller[p] = "done"
=============================================================================
