--------------------------- MODULE Coroutines_proofs ---------------------------
(***************************************************************************)
(* Proofs about module Coroutines, for any number of coroutines, warps,    *)
(* calls and awaits.                                                       *)
(***************************************************************************)
EXTENDS Coroutines, FiniteSetTheorems, SequenceTheorems, TLAPS

(* Threads are records, of which a step changes one field or two.          *)
LEMMA ChangeOp ==
  ASSUME NEW t, Whole(t), NEW x
  PROVE  \E u : /\ u = [t EXCEPT !.op = x] /\ Whole(u)
                /\ u.c = t.c /\ u.op = x /\ u.k = t.k /\ u.at = t.at /\ u.on = t.on
<1>1. ASSUME NEW u, u = [t EXCEPT !.op = x]
      PROVE  u = [c |-> t.c, op |-> x, k |-> t.k, at |-> t.at, on |-> t.on, first |-> t.first]
  BY <1>1 DEF Whole
<1>2. ASSUME NEW u, u = [t EXCEPT !.op = x]
      PROVE  Whole(u) /\ u.c = t.c /\ u.op = x /\ u.k = t.k /\ u.at = t.at /\ u.on = t.on
  BY <1>1, <1>2 DEF Whole
<1> QED BY <1>2, Zenon

LEMMA ChangeK ==
  ASSUME NEW t, Whole(t), NEW x
  PROVE  \E u : /\ u = [t EXCEPT !.k = x] /\ Whole(u)
                /\ u.c = t.c /\ u.op = t.op /\ u.k = x /\ u.at = t.at /\ u.on = t.on
<1>1. ASSUME NEW u, u = [t EXCEPT !.k = x]
      PROVE  u = [c |-> t.c, op |-> t.op, k |-> x, at |-> t.at, on |-> t.on, first |-> t.first]
  BY <1>1 DEF Whole
<1>2. ASSUME NEW u, u = [t EXCEPT !.k = x]
      PROVE  Whole(u) /\ u.c = t.c /\ u.op = t.op /\ u.k = x /\ u.at = t.at /\ u.on = t.on
  BY <1>1, <1>2 DEF Whole
<1> QED BY <1>2, Zenon

LEMMA ChangeBoth ==
  ASSUME NEW t, Whole(t), NEW x, NEW y
  PROVE  [t EXCEPT !.op = x, !.k = y] = [c |-> t.c, op |-> x, k |-> y, at |-> t.at, on |-> t.on, first |-> t.first]
<1>1. PICK w : /\ w = [t EXCEPT !.op = x] /\ Whole(w) /\ w.c = t.c /\ w.op = x /\ w.at = t.at /\ w.on = t.on
               /\ w.first = t.first
  <2>1. ASSUME NEW u, u = [t EXCEPT !.op = x]
        PROVE  u = [c |-> t.c, op |-> x, k |-> t.k, at |-> t.at, on |-> t.on, first |-> t.first]
    BY <2>1 DEF Whole
  <2>2. ASSUME NEW u, u = [t EXCEPT !.op = x]
        PROVE  Whole(u) /\ u.c = t.c /\ u.op = x /\ u.at = t.at /\ u.on = t.on /\ u.first = t.first
    BY <2>1, <2>2 DEF Whole
  <2> QED BY <2>2, Zenon
<1>2. Whole(w)
  BY <1>1
<1>3. ASSUME NEW u, u = [w EXCEPT !.k = y]
      PROVE  u = [c |-> w.c, op |-> w.op, k |-> y, at |-> w.at, on |-> w.on, first |-> w.first]
  BY <1>2, <1>3 DEF Whole
<1>4. [t EXCEPT !.op = x, !.k = y] = [w EXCEPT !.k = y]
  BY <1>1, Zenon
<1>5. w.c = t.c /\ w.op = x /\ w.at = t.at /\ w.on = t.on /\ w.first = t.first
  BY <1>1
<1> QED BY <1>3, <1>4, <1>5, Zenon

LEMMA TaskIs ==
  ASSUME NEW c, NEW op, NEW at
  PROVE  /\ Whole(Task(c, op, at)) /\ Task(c, op, at).c = c /\ Task(c, op, at).op = op
         /\ Task(c, op, at).k = 0 /\ Task(c, op, at).at = at /\ Task(c, op, at).on = Pool
BY DEF Task, Whole

-----------------------------------------------------------------------------
(* Each program keeps to the closures and the objects of its kind.         *)

Threads(queued, run, k) ==
  /\ \A t \in queued \cup run : Whole(t) /\ t.op \in OpsOf[k]
  /\ \A t \in queued : t.op \in QueuedOf[k]

LEMMA ThreadsStep ==
  ASSUME NEW q, NEW r, NEW k, Threads(q, r, k), NEW t \in r, NEW new, NEW u, Whole(u), u.op \in OpsOf[k],
         \A x \in new : Whole(x) /\ x.op \in OpsOf[k] /\ x.op \in QueuedOf[k]
  PROVE  /\ Threads(q \cup new, (r \ {t}) \cup {u}, k) /\ Threads(q \cup new, r \ {t}, k)
         /\ Threads(q \cup new, r, k)
         /\ Threads(q, (r \ {t}) \cup {u}, k) /\ Threads(q, r \ {t}, k)
BY DEF Threads

LEMMA Ops ==
  /\ OpsOf["await"] = {"body", "loop", "func", "resume_one", "notify"} /\ OpsOf["event"] = {"body", "event", "notify"}
  /\ OpsOf["pipe"] = {"body", "pipe", "receive", "notify"} /\ OpsOf["frame"] = {"body", "next", "complete", "notify"}
  /\ OpsOf["barrier"] = {"body", "store", "release", "count", "notify"}
  /\ QueuedOf["await"] = {"body", "func"} /\ QueuedOf["event"] = {"body"} /\ QueuedOf["pipe"] = {"body", "receive"}
  /\ QueuedOf["barrier"] = {"body", "count"} /\ QueuedOf["frame"] = {"body", "next"}
  /\ CallsOf["await"] = {"idle"} /\ CallsOf["event"] = {"idle"} /\ CallsOf["barrier"] = {"idle"}
  /\ CallsOf["pipe"] = {"idle", "flush", "take", "prepare", "done"}
  /\ CallsOf["frame"] = {"idle", "test", "wait", "clear", "running", "next", "done"}
  /\ Kinds = {"await", "event", "pipe", "barrier", "frame"}
BY DEF OpsOf, QueuedOf, CallsOf, Kinds

\* What KindInv says of all but the threads.
Objects ==
  /\ kind \in Kinds
  /\ caller \in [Callers -> CallsOf[kind]]
  /\ kind # "event" => event = [signaled |-> FALSE, handles |-> {}]
  /\ kind # "pipe" => pipe = [prepared_count |-> 0, waiting_count |-> 0, handles |-> <<>>, elements |-> <<>>]
  /\ kind # "barrier" => barrier.firsts = 0 /\ barrier.passed = [c \in Coroutines |-> 0] /\ ~barrier.early
  /\ kind # "frame" => frame.handles = <<>>
  /\ kind # "await" => joiner = [c \in Coroutines |-> "none"]
  /\ left \in [Coroutines -> 0 .. MaxAwaits[kind]]

LEMMA KindParts == KindInv <=> Threads(tasks, running, kind) /\ Objects
BY DEF KindInv, All, Threads, Objects

LEMMA LeftStays ==
  ASSUME Objects, NEW c, left[c] > 0
  PROVE  [left EXCEPT ![c] = @ - 1] \in [Coroutines -> 0 .. MaxAwaits[kind]]
<1>1. MaxAwaits[kind] \in Nat
  BY CoroutineAssumption DEF Objects
<1>2. CASE c \in Coroutines
  <2>1. left[c] \in 1 .. MaxAwaits[kind]
    BY <1>1, <1>2 DEF Objects
  <2>2. left[c] - 1 \in 0 .. MaxAwaits[kind]
    BY <1>1, <2>1
  <2> QED BY <2>2 DEF Objects
<1>3. CASE c \notin Coroutines
  <2>1. [left EXCEPT ![c] = @ - 1] = left
    BY <1>3 DEF Objects
  <2> QED BY <2>1 DEF Objects
<1> QED BY <1>2, <1>3

LEMMA LeftChanges ==
  ASSUME Objects, UNCHANGED left \/ \E t \in running : Awaiting(t)
  PROVE  left' \in [Coroutines -> 0 .. MaxAwaits[kind]]
<1>1. CASE UNCHANGED left
  BY <1>1 DEF Objects
<1>2. CASE \E t \in running : Awaiting(t)
  BY <1>2, LeftStays DEF Awaiting
<1> QED BY <1>1, <1>2

LEMMA KindStarts ==
  ASSUME KindInv, NEW t \in tasks, Starts(t)
  PROVE  KindInv'
<1>1. Threads(tasks, running, kind) /\ Objects
  BY KindParts
<1>2. tasks' = tasks \ {t} /\ running' = running \cup {t} /\ UNCHANGED <<kind, left, joiner, svars>>
  BY DEF Starts, Start, jvars
<1>3. Threads(tasks', running', kind')
  BY <1>1, <1>2 DEF Threads
<1>4. Objects'
  BY <1>1, <1>2 DEF Objects, svars
<1> QED BY <1>3, <1>4 DEF KindInv, All, Threads, Objects

LEMMA KindReturns ==
  ASSUME KindInv, NEW t \in running, Returns(t)
  PROVE  KindInv'
<1>1. Threads(tasks, running, kind) /\ Objects /\ Whole(t)
  BY KindParts DEF Threads
<1> PICK u : /\ u = [t EXCEPT !.op = "notify"] /\ Whole(u)
             /\ u.c = t.c /\ u.op = "notify" /\ u.k = t.k /\ u.at = t.at /\ u.on = t.on
  BY <1>1, ChangeOp, Zenon
<1>2. UNCHANGED <<kind, svars, left>> /\ UNCHANGED tasks
  BY DEF Returns, Return, Notify, End, Step
<1>3. running' = running \ {t} \/ running' = (running \ {t}) \cup {u}
  BY DEF Returns, Return, Notify, End, Step
<1>4. "notify" \in OpsOf[kind] /\ Whole(u) /\ u.op = "notify"
  BY <1>1, Ops DEF Objects
<1>5. Threads(tasks', running', kind')
  BY <1>1, <1>2, <1>3, <1>4 DEF Threads
<1>6. kind # "await" => joiner' = [c \in Coroutines |-> "none"]
  <2> SUFFICES ASSUME kind # "await" PROVE joiner' = [c \in Coroutines |-> "none"]
    OBVIOUS
  <2>1. joiner = [c \in Coroutines |-> "none"]
    BY <1>1 DEF Objects
  <2>2. joiner' = joiner \/ joiner' = [joiner EXCEPT ![t.c] = IF @ = "sleep" THEN "run" ELSE @]
    BY DEF Returns, Return, Notify
  <2> QED BY <2>1, <2>2
<1>7. Objects'
  BY <1>1, <1>2, <1>6 DEF Objects, svars
<1> QED BY <1>5, <1>7 DEF KindInv, All, Threads, Objects

LEMMA KindWaits ==
  ASSUME KindInv, NEW c \in Coroutines, Waits(c)
  PROVE  KindInv'
<1>1. Threads(tasks, running, kind) /\ Objects
  BY KindParts
<1>2. UNCHANGED <<tasks, running, left, svars, kind>> /\ joiner[c] = "run"
  BY DEF Waits, Wait
<1>3. kind = "await"
  BY <1>1, <1>2 DEF Objects
<1>4. Objects'
  BY <1>1, <1>2, <1>3 DEF Objects, svars
<1> QED BY <1>1, <1>2, <1>4 DEF KindInv, All, Threads, Objects

LEMMA StepKeeps ==
  ASSUME Threads(tasks, running, kind), NEW t \in running, NEW op \in OpsOf[kind], NEW new, Step(t, op, new),
         \A x \in new : Whole(x) /\ x.op \in OpsOf[kind] /\ x.op \in QueuedOf[kind]
  PROVE  Threads(tasks', running', kind)
<1>1. Whole(t)
  BY DEF Threads
<1>2. PICK u : /\ u = [t EXCEPT !.op = op] /\ Whole(u)
               /\ u.c = t.c /\ u.op = op /\ u.k = t.k /\ u.at = t.at /\ u.on = t.on
  BY <1>1, ChangeOp, Zenon
<1>3. running' = (running \ {t}) \cup {u} /\ tasks' = tasks \cup new
  BY <1>2 DEF Step
<1> QED BY <1>2, <1>3 DEF Threads

LEMMA EndKeeps ==
  ASSUME Threads(tasks, running, kind), NEW t \in running, NEW new, End(t, new),
         \A x \in new : Whole(x) /\ x.op \in OpsOf[kind] /\ x.op \in QueuedOf[kind]
  PROVE  Threads(tasks', running', kind)
BY DEF Threads, End

LEMMA DispatchIs ==
  ASSUME NEW info, NEW op
  PROVE  \A x \in ToDispatch(info, op) :
           Whole(x) /\ x.op = op /\ x.c = info.c /\ x.at = info.at /\ x.k = 0 /\ x.on = Pool
<1>1. ToDispatch(info, op) = {Task(info.c, op, info.at)}
  BY DEF ToDispatch
<1> QED BY <1>1, TaskIs

LEMMA KindAwaits ==
  ASSUME KindInv, Awaits
  PROVE  KindInv'
<1>1. Threads(tasks, running, kind) /\ Objects
  BY KindParts
<1>2. kind = "await" /\ UNCHANGED <<svars, kind, joiner>>
  BY DEF Awaits, jvars
<1>3. PICK t \in running : AwaitAny(t) \/ AwaitStep(t)
  BY DEF Awaits
<1>4. Whole(t)
  BY <1>1 DEF Threads
<1>5. left' \in [Coroutines -> 0 .. MaxAwaits[kind]]
  <2>1. UNCHANGED left \/ Awaiting(t)
    BY <1>3 DEF AwaitAny, AwaitHere, AwaitOne, AwaitMultiple, Switch, AwaitStep, QueueOne, Queued, Func, resume_one
  <2> QED BY <1>1, <2>1, LeftStays DEF Awaiting, Objects
<1>6. Objects'
  BY <1>1, <1>2, <1>5 DEF Objects, svars
<1>7. Threads(tasks', running', kind)
  <2>1. CASE AwaitHere(t)
    BY <1>1, <2>1 DEF AwaitHere
  <2>2. CASE \E multiple, targets : Suspend(t, multiple, targets)
    <3>1. PICK u : /\ u = [t EXCEPT !.op = "loop", !.k = 1] /\ Whole(u)
                   /\ u.c = t.c /\ u.op = "loop" /\ u.k = 1 /\ u.at = t.at /\ u.on = t.on
      <4>1. PICK u : u = [t EXCEPT !.op = "loop", !.k = 1]
        OBVIOUS
      <4>2. u = [c |-> t.c, op |-> "loop", k |-> 1, at |-> t.at, on |-> t.on, first |-> t.first]
        BY <1>4, <4>1, ChangeBoth, Zenon
      <4>3. Whole(u) /\ u.c = t.c /\ u.op = "loop" /\ u.k = 1 /\ u.at = t.at /\ u.on = t.on
        BY <4>2 DEF Whole
      <4> QED BY <4>1, <4>3
    <3>2. running' = (running \ {t}) \cup {u} /\ UNCHANGED tasks
      BY <2>2, <3>1 DEF Suspend
    <3> QED BY <1>1, <1>2, <3>1, <3>2, Ops DEF Threads
  <2>3. CASE \E place : Switch(t, place)
    <3>1. PICK place : Switch(t, place)
      BY <2>3
    <3>2. CASE UNCHANGED <<tasks, running>>
      BY <1>1, <3>2
    <3>3. CASE End(t, {Task(t.c, "body", place)})
      BY <1>1, <1>2, <3>3, EndKeeps, TaskIs, Ops
    <3> QED BY <3>1, <3>2, <3>3 DEF Switch
  <2>4. CASE QueueOne(t)
    <3>1. PICK u : /\ u = [t EXCEPT !.k = @ + 1] /\ Whole(u)
                   /\ u.c = t.c /\ u.op = t.op /\ u.k = t.k + 1 /\ u.at = t.at /\ u.on = t.on
      BY <1>4, ChangeK, Zenon
    <3> DEFINE new == {[c |-> t.c, op |-> "func", k |-> t.k, on |-> aw[t.c].targets[t.k][1], first |-> FALSE,
                 at |-> IF aw[t.c].targets[t.k][2] THEN Pool ELSE aw[t.c].targets[t.k][1]]}
    <3>2. running' = (running \ {t}) \cup {u} /\ tasks' = tasks \cup new
      BY <2>4, <3>1 DEF QueueOne
    <3>3. \A x \in new : Whole(x) /\ x.op = "func"
      BY DEF Whole
    <3> HIDE DEF new
    <3> QED BY <1>1, <1>2, <3>1, <3>2, <3>3, Ops DEF Threads
  <2>5. CASE Queued(t)
    BY <1>1, <2>5, EndKeeps DEF Queued
  <2>6. CASE Func(t)
    BY <1>1, <1>2, <2>6, StepKeeps, Ops DEF Func
  <2>7. CASE resume_one(t)
    <3>1. CASE End(t, {})
      BY <1>1, <3>1, EndKeeps
    <3>2. CASE End(t, {Task(t.c, "body", aw[t.c].caller)})
      BY <1>1, <1>2, <3>2, EndKeeps, TaskIs, Ops
    <3>3. CASE running' = (running \ {t}) \cup {Task(t.c, "body", t.at)} /\ UNCHANGED tasks
      <4>1. Whole(Task(t.c, "body", t.at)) /\ Task(t.c, "body", t.at).op \in OpsOf[kind]
        BY <1>2, TaskIs, Ops
      <4> QED BY <1>1, <3>3, <4>1 DEF Threads
    <3> QED BY <2>7, <3>1, <3>2, <3>3 DEF resume_one
  <2> QED BY <1>3, <2>1, <2>2, <2>3, <2>4, <2>5, <2>6, <2>7 DEF AwaitAny, AwaitStep, AwaitOne, AwaitMultiple
<1> QED BY <1>2, <1>6, <1>7 DEF KindInv, All, Threads, Objects

LEMMA KindEvents ==
  ASSUME KindInv, Syncs, kind = "event"
  PROVE  KindInv'
<1>1. Threads(tasks, running, kind) /\ Objects
  BY KindParts
<1>2. EventNext /\ UNCHANGED <<kind, joiner, pipe, barrier, frame, caller>>
  BY DEF Syncs, jvars, EventNext, EventVars, notify, reset, Event, EventWait
<1>3. left' \in [Coroutines -> 0 .. MaxAwaits[kind]]
  <2>1. UNCHANGED left \/ \E t \in running : Awaiting(t)
    BY <1>2, Zenon DEF EventNext, notify, reset, Event, EventWait
  <2> QED BY <1>1, <1>2, <2>1, LeftChanges
<1>4. Objects'
  BY <1>1, <1>2, <1>3 DEF Objects
<1>5. Threads(tasks', running', kind)
  <2>1. CASE notify
    <3>1. running' = running /\ \A x \in tasks' : x \in tasks \/ \E i : x \in ToDispatch(i, "body")
      BY <2>1 DEF notify
    <3>2. \A x \in tasks' : x \in tasks \/ (Whole(x) /\ x.op = "body")
      BY <3>1, DispatchIs
    <3> QED BY <1>1, <3>1, <3>2, Ops DEF Threads
  <2>2. CASE reset
    BY <1>1, <2>2 DEF reset
  <2>3. ASSUME NEW t \in running, Event(t) PROVE Threads(tasks', running', kind)
    BY <1>1, <2>3, StepKeeps, Ops DEF Event
  <2>4. ASSUME NEW t \in running, EventWait(t) PROVE Threads(tasks', running', kind)
    <3>1. End(t, {}) \/ End(t, ToDispatch(Info(t), "body"))
      BY <2>4 DEF EventWait
    <3>2. "body" \in OpsOf[kind] /\ "body" \in QueuedOf[kind]
      BY Ops
    <3> QED BY <1>1, <3>1, <3>2, EndKeeps, DispatchIs
  <2> QED BY <1>2, <2>1, <2>2, <2>3, <2>4 DEF EventNext
<1> QED BY <1>2, <1>4, <1>5 DEF KindInv, All, Threads, Objects

LEMMA CallerSteps ==
  ASSUME Objects, NEW p, NEW to \in CallsOf[kind], caller' = [caller EXCEPT ![p] = to]
  PROVE  caller' \in [Callers -> CallsOf[kind]]
BY DEF Objects

LEMMA KindPipes ==
  ASSUME KindInv, Syncs, kind = "pipe"
  PROVE  KindInv'
<1>1. Threads(tasks, running, kind) /\ Objects
  BY KindParts
<1>2. PipeNext /\ UNCHANGED <<kind, joiner>>
  BY DEF Syncs, jvars
<1>3. "body" \in OpsOf[kind] /\ "pipe" \in OpsOf[kind] /\ "receive" \in OpsOf[kind] /\ "receive" \in QueuedOf[kind]
  BY Ops
<1>4. \A x \in {"idle", "flush", "take", "prepare", "done"} : x \in CallsOf[kind]
  BY Ops
<1>5. ASSUME NEW t \in running, Pipe(t) \/ PipeWait(t) \/ Receive(t)
      PROVE  /\ UNCHANGED <<event, barrier, frame, caller>> /\ Threads(tasks', running', kind)
             /\ UNCHANGED left \/ Awaiting(t)
  <2>1. UNCHANGED <<event, barrier, frame, caller>> /\ (UNCHANGED left \/ Awaiting(t))
    BY <1>5, Zenon DEF Pipe, PipeWait, Receive, PipeVars
  <2>2. ASSUME Step(t, "pipe", {}) \/ Step(t, "body", {}) PROVE Threads(tasks', running', kind)
    BY <1>1, <1>3, <2>2, StepKeeps
  <2>3. ASSUME End(t, {}) \/ End(t, ToDispatch(Info(t), "receive")) PROVE Threads(tasks', running', kind)
    BY <1>1, <1>3, <2>3, EndKeeps, DispatchIs
  <2> QED BY <1>5, <2>1, <2>2, <2>3 DEF Pipe, PipeWait, Receive
<1>6. ASSUME NEW p \in Callers, emplace(p) \/ FlushWaiting(p) \/ TakeHandle(p) \/ Prepare(p)
      PROVE  /\ UNCHANGED <<event, barrier, frame, left>> /\ caller' \in [Callers -> CallsOf[kind]]
             /\ Threads(tasks', running', kind)
  <2>1. \E from : \E to \in {"idle", "flush", "take", "prepare", "done"} : EmplaceStep(p, from, to)
    BY <1>6, Zenon DEF emplace, FlushWaiting, TakeHandle, Prepare
  <2>2. PICK to \in {"idle", "flush", "take", "prepare", "done"} : \E from : EmplaceStep(p, from, to)
    BY <2>1
  <2>3. UNCHANGED <<event, barrier, frame, left>> /\ caller' = [caller EXCEPT ![p] = to]
    BY <2>2 DEF EmplaceStep, PipeVars
  <2>4. UNCHANGED running /\ (tasks' = tasks \/ \E i : tasks' = tasks \cup ToDispatch(i, "receive"))
    BY <1>6, Zenon DEF emplace, FlushWaiting, TakeHandle, Prepare, Same
  <2>5. Threads(tasks', running', kind)
    BY <1>1, <1>3, <2>4, DispatchIs DEF Threads
  <2> QED BY <1>1, <1>4, <2>3, <2>5, CallerSteps
<1>7. CASE \E t \in running : Pipe(t) \/ PipeWait(t) \/ Receive(t)
  <2>1. /\ UNCHANGED <<event, barrier, frame, caller>> /\ Threads(tasks', running', kind)
        /\ UNCHANGED left \/ \E t \in running : Awaiting(t)
    BY <1>5, <1>7
  <2>2. left' \in [Coroutines -> 0 .. MaxAwaits[kind]]
    BY <1>1, <2>1, LeftChanges
  <2> QED BY <1>1, <1>2, <2>1, <2>2 DEF KindInv, All, Threads, Objects
<1>8. CASE \E p \in Callers : emplace(p) \/ FlushWaiting(p) \/ TakeHandle(p) \/ Prepare(p)
  <2>1. /\ UNCHANGED <<event, barrier, frame, left>> /\ caller' \in [Callers -> CallsOf[kind]]
        /\ Threads(tasks', running', kind)
    BY <1>6, <1>8
  <2> QED BY <1>1, <1>2, <2>1 DEF KindInv, All, Threads, Objects
<1> QED BY <1>2, <1>7, <1>8 DEF PipeNext

LEMMA KindFrames ==
  ASSUME KindInv, Syncs, kind = "frame"
  PROVE  KindInv'
<1>1. Threads(tasks, running, kind) /\ Objects
  BY KindParts
<1>2. FrameNext /\ UNCHANGED <<kind, joiner>>
  BY DEF Syncs, jvars
<1>3. "body" \in OpsOf[kind] /\ "next" \in OpsOf[kind] /\ "complete" \in OpsOf[kind] /\ "next" \in QueuedOf[kind]
  BY Ops
<1>4. \A x \in {"idle", "test", "wait", "clear", "running", "next", "done"} : x \in CallsOf[kind]
  BY Ops
<1>5. ASSUME NEW t \in running, Frame(t) \/ ResumeFrame(t) \/ Complete(t)
      PROVE  /\ UNCHANGED <<event, barrier, pipe, caller>> /\ Threads(tasks', running', kind)
             /\ UNCHANGED left \/ Awaiting(t)
  <2>1. UNCHANGED <<event, barrier, pipe, caller>> /\ (UNCHANGED left \/ Awaiting(t))
    BY <1>5, Zenon DEF Frame, ResumeFrame, Complete, FrameVars
  <2>2. ASSUME Step(t, "complete", {}) \/ Step(t, "body", {}) PROVE Threads(tasks', running', kind)
    BY <1>1, <1>3, <2>2, StepKeeps
  <2>3. ASSUME End(t, {}) PROVE Threads(tasks', running', kind)
    BY <1>1, <1>3, <2>3, EndKeeps
  <2>4. ASSUME UNCHANGED <<tasks, running>> PROVE Threads(tasks', running', kind)
    BY <1>1, <2>4
  <2> QED BY <1>5, <2>1, <2>2, <2>3, <2>4 DEF Frame, ResumeFrame, Complete
<1>6. ASSUME NEW p \in Callers,
             dispatch(p) \/ TestPending(p) \/ WaitComplete(p) \/ ClearComplete(p) \/ SetTerminated(p) \/ DispatchNext(p)
      PROVE  /\ UNCHANGED <<event, barrier, pipe, left>> /\ caller' \in [Callers -> CallsOf[kind]]
             /\ Threads(tasks', running', kind)
  <2>1. \E from : \E to \in {"idle", "test", "wait", "clear", "running", "next", "done"} : DispatchStep(p, from, to)
    BY <1>6, Zenon DEF dispatch, TestPending, WaitComplete, ClearComplete, SetTerminated, DispatchNext
  <2>2. PICK to \in {"idle", "test", "wait", "clear", "running", "next", "done"} : \E from : DispatchStep(p, from, to)
    BY <2>1
  <2>3. UNCHANGED <<event, barrier, pipe, left>> /\ caller' = [caller EXCEPT ![p] = to]
    BY <2>2 DEF DispatchStep, FrameVars
  <2>4. UNCHANGED running /\ (tasks' = tasks \/ \E i : tasks' = tasks \cup ToDispatch(i, "next"))
    BY <1>6, Zenon DEF dispatch, TestPending, WaitComplete, ClearComplete, SetTerminated, DispatchNext, Same
  <2>5. Threads(tasks', running', kind)
    BY <1>1, <1>3, <2>4, DispatchIs DEF Threads
  <2> QED BY <1>1, <1>4, <2>3, <2>5, CallerSteps
<1>7. CASE \E t \in running : Frame(t) \/ ResumeFrame(t) \/ Complete(t)
  <2>1. /\ UNCHANGED <<event, barrier, pipe, caller>> /\ Threads(tasks', running', kind)
        /\ UNCHANGED left \/ \E t \in running : Awaiting(t)
    BY <1>5, <1>7
  <2>2. left' \in [Coroutines -> 0 .. MaxAwaits[kind]]
    BY <1>1, <2>1, LeftChanges
  <2> QED BY <1>1, <1>2, <2>1, <2>2 DEF KindInv, All, Threads, Objects
<1>8. CASE \E p \in Callers : dispatch(p) \/ TestPending(p) \/ WaitComplete(p) \/ ClearComplete(p)
                              \/ SetTerminated(p) \/ DispatchNext(p)
  <2>1. /\ UNCHANGED <<event, barrier, pipe, left>> /\ caller' \in [Callers -> CallsOf[kind]]
        /\ Threads(tasks', running', kind)
    BY <1>6, <1>8
  <2> QED BY <1>1, <1>2, <2>1 DEF KindInv, All, Threads, Objects
<1> QED BY <1>2, <1>7, <1>8 DEF FrameNext

LEMMA KindBarriers ==
  ASSUME KindInv, Syncs, kind = "barrier"
  PROVE  KindInv'
<1>1. Threads(tasks, running, kind) /\ Objects
  BY KindParts
<1>2. UNCHANGED <<kind, joiner>>
  BY DEF Syncs, jvars
<1>3. /\ "body" \in OpsOf[kind] /\ "store" \in OpsOf[kind] /\ "release" \in OpsOf[kind] /\ "count" \in OpsOf[kind]
      /\ "count" \in QueuedOf[kind]
  BY Ops
<1>4. PICK t \in running : Barrier(t) \/ Store(t) \/ Release(t) \/ Count(t)
  BY DEF Syncs, BarrierNext
<1>5. UNCHANGED <<event, pipe, frame, caller>> /\ (UNCHANGED left \/ Awaiting(t))
  BY <1>4, Zenon DEF Barrier, Store, Release, Count, BarrierVars
<1>6. Whole(t)
  BY <1>1 DEF Threads
<1>7. Threads(tasks', running', kind)
  <2>1. CASE Step(t, "body", {})
    BY <1>1, <1>3, <2>1, StepKeeps
  <2>2. CASE End(t, {}) \/ \E i : End(t, ToDispatch(i, "count"))
    BY <1>1, <1>3, <2>2, EndKeeps, DispatchIs
  <2>3. CASE \E x \in {"store", "release"} : \E y :
               UNCHANGED tasks /\ running' = (running \ {t}) \cup {[t EXCEPT !.op = x, !.k = y]}
    <3>1. PICK x \in {"store", "release"} :
               \E y : UNCHANGED tasks /\ running' = (running \ {t}) \cup {[t EXCEPT !.op = x, !.k = y]}
      BY <2>3
    <3>2. PICK y : UNCHANGED tasks /\ running' = (running \ {t}) \cup {[t EXCEPT !.op = x, !.k = y]}
      BY <3>1
    <3>3. [t EXCEPT !.op = x, !.k = y] = [c |-> t.c, op |-> x, k |-> y, at |-> t.at, on |-> t.on, first |-> t.first]
      BY <1>6, ChangeBoth, Zenon
    <3>4. PICK u : u = [c |-> t.c, op |-> x, k |-> y, at |-> t.at, on |-> t.on, first |-> t.first]
      OBVIOUS
    <3>5. Whole(u) /\ u.op = x
      BY <3>4 DEF Whole
    <3>6. running' = (running \ {t}) \cup {u}
      BY <3>2, <3>3, <3>4
    <3> QED BY <1>1, <1>3, <3>2, <3>5, <3>6 DEF Threads
  <2>4. CASE Release(t)
    <3>1. PICK u : /\ u = [t EXCEPT !.k = @ + 1] /\ Whole(u)
                   /\ u.c = t.c /\ u.op = t.op /\ u.k = t.k + 1 /\ u.at = t.at /\ u.on = t.on
      BY <1>6, ChangeK, Zenon
    <3>2. running' = running \ {t} \/ running' = (running \ {t}) \cup {u}
      BY <2>4, <3>1 DEF Release
    <3>3. u.op = "release"
      BY <2>4, <3>1 DEF Release, At
    <3>4. \A x \in tasks' : x \in tasks \/ \E i : x \in ToDispatch(i, "count")
      BY <2>4 DEF Release
    <3>5. \A x \in tasks' : x \in tasks \/ (Whole(x) /\ x.op = "count")
      BY <3>4, DispatchIs
    <3> QED BY <1>1, <1>3, <3>1, <3>2, <3>3, <3>5 DEF Threads
  <2> QED BY <1>4, <2>1, <2>2, <2>3, <2>4 DEF Barrier, Store, Count
<1>8. left' \in [Coroutines -> 0 .. MaxAwaits[kind]]
  BY <1>1, <1>5, LeftChanges
<1> QED BY <1>1, <1>2, <1>5, <1>7, <1>8 DEF KindInv, All, Threads, Objects

LEMMA KindStays == ASSUME KindInv, [Next]_vars PROVE KindInv'
<1>1. CASE UNCHANGED vars
  BY <1>1 DEF KindInv, All, Threads, Objects, vars, avars, tvars, svars
<1>2. CASE Awaits
  BY <1>2, KindAwaits
<1>3. CASE Syncs
  <2>1. kind \in {"event", "pipe", "barrier", "frame"}
    BY <1>3 DEF Syncs
  <2> QED BY <1>3, <2>1, KindEvents, KindPipes, KindBarriers, KindFrames
<1>4. CASE \E t \in tasks : Starts(t)
  BY <1>4, KindStarts
<1>5. CASE \E t \in running : Returns(t)
  BY <1>5, KindReturns
<1>6. CASE \E c \in Coroutines : Waits(c)
  BY <1>6, KindWaits
<1> QED BY <1>1, <1>2, <1>3, <1>4, <1>5, <1>6 DEF Next

(* At first each coroutine has a task where it is to start.                *)
LEMMA FirstTasks ==
  ASSUME Init
  PROVE  /\ \A t \in tasks : Whole(t) /\ t.op = "body" /\ t.k = 0 /\ t.c \in Coroutines /\ t.at \in Places
         /\ \A t, u \in tasks : t.c = u.c => t = u
         /\ \A c \in Coroutines : \E t \in tasks : t.c = c
         /\ kind # "await" => joiner = [c \in Coroutines |-> "none"]
<1>1. PICK place \in [Coroutines -> Places] :
        LET joined(c) == kind = "await" /\ c \in Joined /\ place[c] = Pool
        IN  /\ tasks = {[Task(c, "body", place[c]) EXCEPT !.first = joined(c)] : c \in Coroutines}
            /\ joiner = [c \in Coroutines |-> IF joined(c) THEN "run" ELSE "none"]
  BY DEF Init, TasksInit
<1> DEFINE joined(c) == kind = "await" /\ c \in Joined /\ place[c] = Pool
           first(c)  == [Task(c, "body", place[c]) EXCEPT !.first = joined(c)]
<1>2. tasks = {first(c) : c \in Coroutines} /\ joiner = [c \in Coroutines |-> IF joined(c) THEN "run" ELSE "none"]
  BY <1>1
<1>3. ASSUME NEW c \in Coroutines, NEW u, u = first(c)
      PROVE  Whole(u) /\ u.op = "body" /\ u.c = c /\ u.at = place[c] /\ u.k = 0
  <2>1. ASSUME NEW x, u = [Task(c, "body", place[c]) EXCEPT !.first = x]
        PROVE  u = [c |-> c, op |-> "body", k |-> 0, at |-> place[c], on |-> Pool, first |-> x]
    BY <2>1 DEF Task
  <2>2. \E x : u = [Task(c, "body", place[c]) EXCEPT !.first = x]
    BY <1>3
  <2>3. \E x : u = [c |-> c, op |-> "body", k |-> 0, at |-> place[c], on |-> Pool, first |-> x]
    BY <2>1, <2>2
  <2> QED BY <2>3 DEF Whole
<1>4. kind # "await" => joiner = [c \in Coroutines |-> "none"]
  BY <1>2
<1> HIDE DEF first, joined
<1>5. \A t \in tasks : \E c \in Coroutines : t = first(c)
  BY <1>2
<1>6. \A t \in tasks : Whole(t) /\ t.op = "body" /\ t.k = 0 /\ t.c \in Coroutines /\ t.at \in Places
  BY <1>3, <1>5
<1>7. \A t, u \in tasks : t.c = u.c => t = u
  BY <1>3, <1>5
<1>8. \A c \in Coroutines : first(c) \in tasks /\ first(c).c = c
  BY <1>2, <1>3
<1> QED BY <1>4, <1>6, <1>7, <1>8

LEMMA KindAtFirst == Init => KindInv
<1> SUFFICES ASSUME Init PROVE KindInv
  OBVIOUS
<1>1. /\ kind \in Kinds /\ running = {} /\ left \in [Coroutines -> 0 .. MaxAwaits[kind]]
      /\ caller = [p \in Callers |-> "idle"] /\ MaxAwaits[kind] \in Nat
  BY CoroutineAssumption DEF Init, TasksInit, SyncInit
<1>4. \A t \in tasks : Whole(t) /\ t.op = "body"
  BY FirstTasks
<1>5. Threads(tasks, running, kind)
  <2>1. "body" \in OpsOf[kind] /\ "body" \in QueuedOf[kind]
    BY <1>1, Ops
  <2> QED BY <1>1, <1>4, <2>1 DEF Threads
<1>6. "idle" \in CallsOf[kind]
  BY <1>1, Ops
<1>7. kind # "await" => joiner = [c \in Coroutines |-> "none"]
  BY FirstTasks
<1>8. /\ event = [signaled |-> FALSE, handles |-> {}]
      /\ pipe = [prepared_count |-> 0, waiting_count |-> 0, handles |-> <<>>, elements |-> <<>>]
      /\ barrier.firsts = 0 /\ barrier.passed = [c \in Coroutines |-> 0] /\ ~barrier.early
      /\ frame.handles = <<>>
  BY DEF Init, SyncInit
<1>9. Objects
  BY <1>1, <1>6, <1>7, <1>8 DEF Objects
<1> QED BY <1>5, <1>9, KindParts

-----------------------------------------------------------------------------
(* Every coroutine is in one place, and stays where it is at home.         *)

Typed(t) == t.c \in Coroutines /\ t.k \in Nat /\ t.at \in Places
Placed(q, r, held) ==
  /\ q \cap r = {} /\ Unique(q \cup r, held)
  /\ \A t \in q \cup r : Typed(t)
  /\ held \subseteq Infos
  /\ \A x \in q \cup r \cup held : x.at = aw[x.c].caller

LEMMA StartsPlaced ==
  ASSUME NEW q, NEW r, NEW held, Placed(q, r, held), NEW t \in q
  PROVE  Placed(q \ {t}, r \cup {t}, held)
<1>1. (q \ {t}) \cup (r \cup {t}) = q \cup r
  OBVIOUS
<1> QED BY <1>1 DEF Placed

\* A thread goes on, or hands the coroutine over to a queue, or ends.
LEMMA GoesOn ==
  ASSUME NEW q, NEW r, NEW held, Placed(q, r, held), NEW t \in r, NEW u, u.c = t.c, u.at = t.at, u.k \in Nat
  PROVE  Placed(q, (r \ {t}) \cup {u}, held) /\ Placed(q \cup {u}, r \ {t}, held)
<1>1. Typed(u) /\ u.at = aw[u.c].caller
  BY DEF Placed, Typed
<1>2. \A x \in (q \cup r) \ {t} : x.c # u.c
  BY DEF Placed, Unique
<1>3. t.c = u.c /\ \A h \in held : h.c # u.c
  BY DEF Placed, Unique
<1>4. Unique((q \cup r) \ {t}, held)
  BY DEF Placed, Unique
<1>5. Unique(((q \cup r) \ {t}) \cup {u}, held)
  BY <1>2, <1>3, <1>4, Zenon DEF Unique
<1>6. t \notin q /\ q \cap r = {}
  BY DEF Placed
<1>7. u \notin q /\ (u \in r => u = t)
  BY <1>2, <1>6
<1>8. /\ q \cup ((r \ {t}) \cup {u}) = ((q \cup r) \ {t}) \cup {u}
      /\ (q \cup {u}) \cup (r \ {t}) = ((q \cup r) \ {t}) \cup {u}
      /\ q \cup (r \ {t}) = (q \cup r) \ {t}
  BY <1>6
<1>9. Placed(q, (r \ {t}) \cup {u}, held)
  BY <1>1, <1>5, <1>6, <1>7, <1>8 DEF Placed
<1>10. Placed(q \cup {u}, r \ {t}, held)
  BY <1>1, <1>5, <1>6, <1>7, <1>8 DEF Placed
<1> QED BY <1>9, <1>10

LEMMA Ends ==
  ASSUME NEW q, NEW r, NEW held, Placed(q, r, held), NEW t \in r
  PROVE  Placed(q, r \ {t}, held)
BY DEF Placed, Unique

LEMMA StepPlaced ==
  ASSUME NEW held, Placed(tasks, running, held), NEW t \in running, Whole(t), NEW op, Step(t, op, {})
  PROVE  Placed(tasks', running', held)
<1>1. PICK u : /\ u = [t EXCEPT !.op = op] /\ Whole(u)
               /\ u.c = t.c /\ u.op = op /\ u.k = t.k /\ u.at = t.at /\ u.on = t.on
  BY ChangeOp, Zenon
<1>2. running' = (running \ {t}) \cup {u} /\ tasks' = tasks
  BY <1>1 DEF Step
<1>3. u.k \in Nat
  BY <1>1 DEF Placed, Typed
<1> QED BY <1>1, <1>2, <1>3, GoesOn

LEMMA EndPlaced ==
  ASSUME NEW held, Placed(tasks, running, held), NEW t \in running
  PROVE  /\ End(t, {}) => Placed(tasks', running', held)
         /\ \A op : End(t, ToDispatch(Info(t), op)) => Placed(tasks', running', held)
<1>1. ASSUME End(t, {}) PROVE Placed(tasks', running', held)
  BY <1>1, Ends DEF End
<1>2. ASSUME NEW op, End(t, ToDispatch(Info(t), op)) PROVE Placed(tasks', running', held)
  <2>1. PICK u : u = Task(t.c, op, t.at)
    OBVIOUS
  <2>2. u.c = t.c /\ u.at = t.at /\ u.k \in Nat
    BY <2>1, TaskIs
  <2>3. ToDispatch(Info(t), op) = {u}
    BY <2>1 DEF ToDispatch, Info
  <2> QED BY <1>2, <2>2, <2>3, GoesOn DEF End
<1> QED BY <1>1, <1>2

\* A coroutine suspends and leaves its handle in a list.
LEMMA Parks ==
  ASSUME NEW q, NEW r, NEW held, Placed(q, r, held), NEW t \in r
  PROVE  Placed(q, r \ {t}, held \cup {Info(t)}) /\ Info(t) \in Infos /\ Info(t) \notin held
<1>1. Info(t) = [c |-> t.c, at |-> t.at]
  BY DEF Info
<1>2. PICK h : h = Info(t)
  OBVIOUS
<1>3. h.c = t.c /\ h.at = t.at /\ h = [c |-> t.c, at |-> t.at]
  BY <1>1, <1>2
<1>4. t.c \in Coroutines /\ t.at \in Places
  BY DEF Placed, Typed
<1>5. h \in Infos
  BY <1>3, <1>4 DEF Infos
<1>6. \A x \in held : x.c # h.c
  BY <1>3 DEF Placed, Unique
<1>7. \A x \in (q \cup r) \ {t} : x.c # h.c
  BY <1>3 DEF Placed, Unique
<1>8. Unique((q \cup r) \ {t}, held)
  BY DEF Placed, Unique
<1>9. Unique((q \cup r) \ {t}, held \cup {h})
  BY <1>6, <1>7, <1>8, Zenon DEF Unique
<1>10. q \cup (r \ {t}) = (q \cup r) \ {t} /\ q \cap (r \ {t}) = {}
  BY DEF Placed
<1>11. h.at = aw[h.c].caller
  BY <1>3 DEF Placed
<1>12. Placed(q, r \ {t}, held \cup {h})
  BY <1>5, <1>9, <1>10, <1>11 DEF Placed
<1> QED BY <1>2, <1>5, <1>6, <1>12

\* Handles are taken off a list, and their coroutines are queued.
Dispatched(D, op) == UNION {ToDispatch(i, op) : i \in D}

LEMMA Dispatches ==
  ASSUME NEW q, NEW r, NEW held, Placed(q, r, held), NEW D, D \subseteq held, NEW op
  PROVE  Placed(q \cup Dispatched(D, op), r, held \ D)
<1> PICK new : new = Dispatched(D, op)
  OBVIOUS
<1>1. \A x \in new : \E i \in D : x \in ToDispatch(i, op)
  BY DEF Dispatched
<1>2. \A i \in D : ToDispatch(i, op) = {Task(i.c, op, i.at)}
  BY DEF ToDispatch
<1>3. \A x \in new : \E i \in D : x = Task(i.c, op, i.at)
  BY <1>1, <1>2
<1>4. \A x \in new : \E i \in D : x.c = i.c /\ x.at = i.at /\ x.k = 0 /\ x = Task(i.c, op, i.at)
  BY <1>3, TaskIs
<1>5. \A i \in D : i \in held /\ i.c \in Coroutines /\ i.at \in Places /\ i.at = aw[i.c].caller
  BY DEF Placed, Infos
<1>6. \A x \in new : Typed(x) /\ x.at = aw[x.c].caller
  BY <1>4, <1>5 DEF Typed
<1>7. \A x, y \in new : x.c = y.c => x = y
  <2> SUFFICES ASSUME NEW x \in new, NEW y \in new, x.c = y.c PROVE x = y
    OBVIOUS
  <2>1. PICK i \in D : x.c = i.c /\ x.at = i.at /\ x = Task(i.c, op, i.at)
    BY <1>4
  <2>2. PICK j \in D : y.c = j.c /\ y.at = j.at /\ y = Task(j.c, op, j.at)
    BY <1>4
  <2>3. i = j
    BY <1>5, <2>1, <2>2 DEF Placed, Unique
  <2> QED BY <2>1, <2>2, <2>3
<1>8. \A x \in new, y \in q \cup r : x.c # y.c
  BY <1>4, <1>5 DEF Placed, Unique
<1>9. \A x \in new, h \in held \ D : x.c # h.c
  BY <1>4, <1>5 DEF Placed, Unique
<1>10. Unique(q \cup r, held)
  BY DEF Placed
<1>11. Unique((q \cup r) \cup new, held \ D)
  <2>1. PICK threads : threads = q \cup r /\ Unique(threads, held) /\ \A x \in new, y \in threads : x.c # y.c
    BY <1>8, <1>10
  <2>2. \A x, y \in threads \cup new : x.c = y.c => x = y
    BY <1>7, <2>1 DEF Unique
  <2>3. \A h, g \in held \ D : h.c = g.c => h = g
    BY <2>1 DEF Unique
  <2>4. \A x \in threads \cup new, h \in held \ D : x.c # h.c
    BY <1>9, <2>1 DEF Unique
  <2> QED BY <2>1, <2>2, <2>3, <2>4 DEF Unique
<1>12. (q \cup new) \cup r = (q \cup r) \cup new /\ (q \cup new) \cap r = {}
  BY <1>8 DEF Placed
<1> QED BY <1>6, <1>11, <1>12 DEF Placed

(* The lists of handles, in which only the mark of a frame may come twice. *)
LEMMA AppendHandle ==
  ASSUME NEW S, NEW s \in Seq(S), NEW x \in S
  PROVE  /\ Append(s, x) \in Seq(S) /\ ToSet(Append(s, x)) = ToSet(s) \cup {x}
         /\ Len(Append(s, x)) = Len(s) + 1
         /\ Once(s) /\ (x = Nobody \/ x \notin ToSet(s)) => Once(Append(s, x))
<1> DEFINE q == Append(s, x)
<1>1. /\ q \in Seq(S) /\ Len(q) = Len(s) + 1 /\ q[Len(s) + 1] = x /\ Len(s) \in Nat
      /\ \A i \in 1 .. Len(s) : q[i] = s[i]
  OBVIOUS
<1>2. DOMAIN q = 1 .. Len(s) + 1 /\ DOMAIN s = 1 .. Len(s)
  BY <1>1
<1> HIDE DEF q
<1>3. \A i \in DOMAIN q : i = Len(s) + 1 \/ (i \in DOMAIN s /\ q[i] = s[i])
  BY <1>1, <1>2
<1>4. Len(s) + 1 \in DOMAIN q /\ \A i \in DOMAIN s : i \in DOMAIN q /\ q[i] = s[i]
  BY <1>1, <1>2
<1>5. ToSet(q) = ToSet(s) \cup {x}
  <2>1. ToSet(q) \subseteq ToSet(s) \cup {x}
    BY <1>1, <1>3 DEF ToSet
  <2>2. ToSet(s) \cup {x} \subseteq ToSet(q)
    BY <1>1, <1>4 DEF ToSet
  <2> QED BY <2>1, <2>2
<1>6. ASSUME Once(s), x = Nobody \/ x \notin ToSet(s) PROVE Once(q)
  <2> SUFFICES ASSUME NEW i \in DOMAIN q, NEW j \in DOMAIN q, q[i] = q[j] PROVE i = j \/ q[i] = Nobody
    BY DEF Once
  <2>1. CASE i \in DOMAIN s /\ j \in DOMAIN s
    BY <1>4, <1>6, <2>1 DEF Once
  <2>2. CASE i \notin DOMAIN s \/ j \notin DOMAIN s
    <3>1. \A k \in DOMAIN s : s[k] \in ToSet(s)
      BY DEF ToSet
    <3> QED BY <1>1, <1>3, <1>6, <2>2, <3>1
  <2> QED BY <2>1, <2>2
<1> QED BY <1>1, <1>5, <1>6 DEF q

LEMMA TakeFirst ==
  ASSUME NEW S, NEW s \in Seq(S), Len(s) > 0
  PROVE  /\ Tail(s) \in Seq(S) /\ Head(s) \in S /\ ToSet(s) = {Head(s)} \cup ToSet(Tail(s))
         /\ Len(Tail(s)) = Len(s) - 1
         /\ Once(s) => Once(Tail(s)) /\ ToSet(Tail(s)) \ {Nobody} = (ToSet(s) \ {Nobody}) \ {Head(s)}
<1> DEFINE r == Tail(s)
<1>1. /\ r \in Seq(S) /\ Len(r) = Len(s) - 1 /\ Head(s) = s[1] /\ Len(s) \in Nat \ {0} /\ Head(s) \in S
      /\ \A i \in 1 .. Len(r) : r[i] = s[i + 1]
  <2>1. Len(s) \in Nat \ {0} /\ Head(s) = s[1] /\ s # <<>> /\ s[1] \in S
    OBVIOUS
  <2> QED BY <2>1, HeadTailProperties
<1>2. DOMAIN r = 1 .. Len(s) - 1 /\ DOMAIN s = 1 .. Len(s)
  BY <1>1
<1> HIDE DEF r
<1>3. 1 \in DOMAIN s /\ \A i \in DOMAIN r : i + 1 \in DOMAIN s /\ r[i] = s[i + 1] /\ i + 1 # 1
  BY <1>1, <1>2
<1>4. \A i \in DOMAIN s : i = 1 \/ (i - 1 \in DOMAIN r /\ r[i - 1] = s[i])
  BY <1>1, <1>2
<1>5. ToSet(s) = {Head(s)} \cup ToSet(r)
  <2>1. ToSet(s) \subseteq {Head(s)} \cup ToSet(r)
    BY <1>1, <1>4 DEF ToSet
  <2>2. {Head(s)} \cup ToSet(r) \subseteq ToSet(s)
    BY <1>1, <1>3 DEF ToSet
  <2> QED BY <2>1, <2>2
<1>6. ASSUME Once(s) PROVE Once(r)
  <2> SUFFICES ASSUME NEW i \in DOMAIN r, NEW j \in DOMAIN r, r[i] = r[j], r[i] # Nobody PROVE i = j
    BY DEF Once
  <2>1. i + 1 = j + 1
    BY <1>3, <1>6 DEF Once
  <2> QED BY <1>2, <2>1
<1>7. ASSUME Once(s), Head(s) \in ToSet(r) PROVE Head(s) = Nobody
  <2>1. PICK i \in DOMAIN r : r[i] = Head(s)
    BY <1>7 DEF ToSet
  <2>2. i + 1 \in DOMAIN s /\ i + 1 # 1 /\ s[i + 1] = s[1]
    BY <1>1, <1>3, <2>1
  <2>3. s[i + 1] = Nobody
    BY <1>3, <1>7, <2>2 DEF Once
  <2> QED BY <1>1, <2>2, <2>3
<1>8. ASSUME Once(s) PROVE ToSet(r) \ {Nobody} = (ToSet(s) \ {Nobody}) \ {Head(s)}
  BY <1>5, <1>7, <1>8
<1> QED BY <1>1, <1>5, <1>6, <1>8 DEF r

LEMMA NobodyIs == Nobody \notin Infos /\ Nobody.c = 0
<1>1. Nobody.c = 0 /\ \A i \in Infos : i.c \in Coroutines
  BY DEF Nobody, Infos
<1> QED BY <1>1, SyncAssumption

LEMMA NoHandles == ToSet(<<>>) = {} /\ Once(<<>>)
BY DEF ToSet, Once

\* The handles of each kind of program.
LEMMA HeldIs ==
  ASSUME KindInv
  PROVE  /\ kind = "event" => Held = event.handles
         /\ kind = "pipe" => Held = ToSet(pipe.handles)
         /\ kind = "frame" => Held = ToSet(frame.handles) \ {Nobody}
         /\ kind = "barrier" => Held = {barrier.handles[i] : i \in Parked}
<1>1. /\ kind # "event" => event.handles = {}
      /\ kind # "pipe" => ToSet(pipe.handles) = {}
      /\ kind # "frame" => ToSet(frame.handles) = {}
  BY NoHandles DEF KindInv
<1>2. CASE kind = "event"
  BY <1>1, <1>2 DEF Held, Handles
<1>3. CASE kind = "pipe"
  BY <1>1, <1>3 DEF Held, Handles
<1>4. CASE kind = "frame"
  BY <1>1, <1>4 DEF Held, Handles
<1>5. CASE kind = "barrier"
  BY <1>1, <1>5 DEF Held, Handles
<1> QED BY <1>2, <1>3, <1>4, <1>5

LEMMA HeldNext ==
  ASSUME KindInv'
  PROVE  /\ kind' = "event" => Held' = event'.handles
         /\ kind' = "pipe" => Held' = ToSet(pipe'.handles)
         /\ kind' = "frame" => Held' = ToSet(frame'.handles) \ {Nobody}
         /\ kind' = "barrier" => Held' = {barrier'.handles[i] : i \in Parked'}
<1>1. /\ kind' # "event" => event'.handles = {}
      /\ kind' # "pipe" => ToSet(pipe'.handles) = {}
      /\ kind' # "frame" => ToSet(frame'.handles) = {}
  BY NoHandles DEF KindInv
<1>2. CASE kind' = "event"
  BY <1>1, <1>2 DEF Held, Handles
<1>3. CASE kind' = "pipe"
  BY <1>1, <1>3 DEF Held, Handles
<1>4. CASE kind' = "frame"
  BY <1>1, <1>4 DEF Held, Handles
<1>5. CASE kind' = "barrier"
  BY <1>1, <1>5 DEF Held, Handles
<1> QED BY <1>2, <1>3, <1>4, <1>5

Lists ==
  /\ event \in [signaled : BOOLEAN, handles : SUBSET Infos]
  /\ pipe \in [prepared_count : Nat, waiting_count : Nat, handles : Seq(Infos), elements : Seq(Callers)]
  /\ barrier \in BarrierType
  /\ frame \in [handles : Seq(Infos \cup {Nobody}), pending_count : Int, complete : BOOLEAN, terminated : BOOLEAN]
  /\ Once(pipe.handles) /\ Once(frame.handles)
SyncInv == TypeInv /\ UniqueInv /\ HomeInv

LEMMA SyncParts ==
  ASSUME kind # "await", SyncInv
  PROVE  Placed(tasks, running, Held) /\ Lists /\ Homes
<1>1. Placed(tasks, running, Held)
  BY DEF SyncInv, TypeInv, UniqueInv, HomeInv, Placed, Typed, All
<1> QED BY <1>1 DEF SyncInv, TypeInv, UniqueInv, HomeInv, Lists, Homes

LEMMA SyncNext ==
  ASSUME kind' # "await", UNCHANGED aw, Placed(tasks', running', Held'), Lists', Homes
  PROVE  SyncInv'
<1>1. TypeInv'
  BY DEF TypeInv, Placed, Typed, All, Lists
<1>2. UniqueInv'
  BY DEF UniqueInv, Placed, All, Lists
<1>3. HomeInv'
  BY DEF HomeInv, Placed, All, Homes
<1> QED BY <1>1, <1>2, <1>3 DEF SyncInv

\* What does not touch the barrier leaves its handles where they are.
LEMMA HeldStays ==
  ASSUME UNCHANGED <<kind, svars>>, NEW t, t.op # "store", t.op # "release",
         running' = running \ {t} \/ running' = running \cup {t}
  PROVE  Held' = Held
<1>1. \A x : x.op \in {"store", "release"} => (x \in running' <=> x \in running)
  OBVIOUS
<1>2. \A i : (Storing(i)' <=> Storing(i)) /\ (Opening(i)' <=> Opening(i))
  BY <1>1 DEF Storing, Opening
<1>3. UNCHANGED <<barrier, event, pipe, frame>>
  BY DEF svars
<1>4. Parked' = Parked
  BY <1>2, <1>3 DEF Parked, Taken
<1> QED BY <1>3, <1>4 DEF Held, Handles

\* The beginning and the end of a run of a coroutine.
LEMMA CommonSteps ==
  ASSUME kind # "await", KindInv, SyncInv,
         (\E t \in tasks : Starts(t)) \/ \E t \in running : Returns(t)
  PROVE  /\ UNCHANGED <<kind, aw, svars, left>>
         /\ \/ \E t \in tasks : /\ t.op \in QueuedOf[kind] /\ (t.at \in Warps => \A r \in running : r.at # t.at)
                              /\ tasks' = tasks \ {t} /\ running' = running \cup {t}
            \/ \E t \in running : /\ t.op \in {"body", "notify"}
                                /\ tasks' = tasks /\ running' = running \ {t}
<1>1. UNCHANGED <<kind, aw, svars, left>>
  BY DEF Starts, Returns, Start, Return, Notify
<1>2. CASE \E t \in tasks : Starts(t)
  <2>1. PICK t \in tasks : Starts(t)
    BY <1>2
  <2>2. t.op \in QueuedOf[kind]
    BY DEF KindInv
  <2>3. /\ t.at \in Warps => \A r \in running : r.at # t.at
        /\ tasks' = tasks \ {t} /\ running' = running \cup {t}
    BY <2>1 DEF Starts, Start
  <2> QED BY <1>1, <2>2, <2>3
<1>3. CASE \E t \in running : Returns(t)
  <2>1. PICK t \in running : Returns(t)
    BY <1>3
  <2>2. joiner[t.c] = "none"
    BY DEF KindInv, SyncInv, TypeInv, All
  <2>3. t.op = "body" \/ t.op = "notify"
    BY <2>1 DEF Returns, Return, Notify, At
  <2>4. End(t, {})
    BY <2>1, <2>2 DEF Returns, Return, Notify
  <2>5. tasks' = tasks /\ running' = running \ {t}
    BY <2>4 DEF End
  <2> QED BY <1>1, <2>3, <2>5
<1> QED BY <1>2, <1>3

LEMMA QueuedOps ==
  ASSUME KindInv, kind # "await", NEW op \in QueuedOf[kind]
  PROVE  op \in {"body", "receive", "count", "next"}
BY Ops DEF KindInv

LEMMA SyncCommon ==
  ASSUME kind # "await", KindInv, SyncInv,
         (\E t \in tasks : Starts(t)) \/ \E t \in running : Returns(t)
  PROVE  SyncInv' /\ Held' = Held
<1>1. Placed(tasks, running, Held) /\ Lists /\ Homes
  BY SyncParts
<1>2. UNCHANGED <<kind, aw, svars, left>>
  BY CommonSteps
<1>3. Lists'
  BY <1>1, <1>2 DEF Lists, svars
<1>4. CASE \E t \in tasks : t.op \in QueuedOf[kind] /\ tasks' = tasks \ {t} /\ running' = running \cup {t}
  <2>1. PICK t \in tasks : t.op \in QueuedOf[kind] /\ tasks' = tasks \ {t} /\ running' = running \cup {t}
    BY <1>4
  <2>2. t.op # "store" /\ t.op # "release"
    BY <2>1, QueuedOps
  <2>3. Held' = Held
    BY <1>2, <2>1, <2>2, HeldStays
  <2>4. Placed(tasks', running', Held')
    BY <1>1, <2>1, <2>3, StartsPlaced
  <2> QED BY <1>1, <1>2, <1>3, <2>3, <2>4, SyncNext
<1>5. CASE \E t \in running : t.op \in {"body", "notify"} /\ tasks' = tasks /\ running' = running \ {t}
  <2>1. PICK t \in running : t.op \in {"body", "notify"} /\ tasks' = tasks /\ running' = running \ {t}
    BY <1>5
  <2>2. t.op # "store" /\ t.op # "release"
    BY <2>1
  <2>3. Held' = Held
    BY <1>2, <2>1, <2>2, HeldStays
  <2>4. Placed(tasks', running', Held')
    BY <1>1, <2>1, <2>3, Ends
  <2> QED BY <1>1, <1>2, <1>3, <2>3, <2>4, SyncNext
<1> QED BY <1>4, <1>5, CommonSteps

(* The event *)
LEMMA EventSteps ==
  ASSUME kind = "event", KindInv, KindInv', SyncInv, Syncs
  PROVE  SyncInv'
<1>1. Placed(tasks, running, Held) /\ Lists /\ Homes /\ Held = event.handles
  BY SyncParts, HeldIs
<1>2. EventNext /\ UNCHANGED <<kind, aw, pipe, frame>>
  BY DEF Syncs, jvars, EventNext, EventVars, notify, reset, Event, EventWait
<1>3. UNCHANGED <<pipe, barrier, frame>>
  BY DEF Syncs, jvars, EventNext, EventVars, notify, reset, Event, EventWait
<1>4. Held' = event'.handles
  BY <1>2, HeldNext
<1>5. ASSUME event' \in [signaled : BOOLEAN, handles : SUBSET Infos], Placed(tasks', running', event'.handles) PROVE SyncInv'
  <2>1. Lists'
    BY <1>1, <1>3, <1>5 DEF Lists
  <2> QED BY <1>1, <1>2, <1>4, <1>5, <2>1, SyncNext
<1>6. CASE notify
  <2>1. /\ event' = [signaled |-> TRUE, handles |-> {}] /\ running' = running
        /\ tasks' = tasks \cup UNION {ToDispatch(i, "body") : i \in event.handles}
    BY <1>6 DEF notify
  <2>2. Placed(tasks', running, Held \ event.handles)
    <3>1. PICK new : new = Dispatched(event.handles, "body")
      OBVIOUS
    <3>2. Placed(tasks \cup new, running, Held \ event.handles)
      BY <1>1, <3>1, Dispatches
    <3>3. tasks' = tasks \cup new
      BY <2>1, <3>1 DEF Dispatched
    <3> QED BY <2>1, <3>2, <3>3
  <2>3. Held \ event.handles = event'.handles
    BY <1>1, <2>1
  <2> QED BY <1>5, <2>1, <2>2, <2>3
<1>7. CASE reset
  <2>1. event' = [event EXCEPT !.signaled = FALSE] /\ tasks' = tasks /\ running' = running
    BY <1>7 DEF reset
  <2>2. event' \in [signaled : BOOLEAN, handles : SUBSET Infos] /\ event'.handles = event.handles
    BY <1>1, <2>1 DEF Lists
  <2> QED BY <1>1, <1>5, <2>1, <2>2
<1>8. ASSUME NEW t \in running, Event(t) PROVE SyncInv'
  <2>1. event' = event /\ Whole(t)
    BY <1>8 DEF Event, KindInv, All
  <2>2. (UNCHANGED <<tasks, running>>) \/ Step(t, "event", {})
    BY <1>8 DEF Event
  <2>3. Placed(tasks', running', Held)
    BY <1>1, <2>1, <2>2, StepPlaced
  <2>4. event' \in [signaled : BOOLEAN, handles : SUBSET Infos]
    BY <1>1, <2>1 DEF Lists
  <2> QED BY <1>1, <1>5, <2>1, <2>3, <2>4
<1>9. ASSUME NEW t \in running, EventWait(t) PROVE SyncInv'
  <2>1. CASE event.signaled
    <3>1. event' = event /\ End(t, ToDispatch(Info(t), "body"))
      BY <1>9, <2>1 DEF EventWait
    <3>2. Placed(tasks', running', Held)
      BY <1>1, <3>1, EndPlaced
    <3>3. event' \in [signaled : BOOLEAN, handles : SUBSET Infos]
      BY <1>1, <3>1 DEF Lists
    <3> QED BY <1>1, <1>5, <3>1, <3>2, <3>3
  <2>2. CASE ~event.signaled
    <3>1. event' = [event EXCEPT !.handles = @ \cup {Info(t)}] /\ End(t, {})
      BY <1>9, <2>2 DEF EventWait
    <3>2. Placed(tasks', running', Held \cup {Info(t)}) /\ Info(t) \in Infos
      BY <1>1, <3>1, Parks DEF End
    <3>3. event' \in [signaled : BOOLEAN, handles : SUBSET Infos] /\ event'.handles = event.handles \cup {Info(t)}
      BY <1>1, <3>1, <3>2 DEF Lists
    <3> QED BY <1>1, <1>5, <3>2, <3>3
  <2> QED BY <2>1, <2>2
<1> QED BY <1>2, <1>6, <1>7, <1>8, <1>9 DEF EventNext

(* The pipe.  What is counted: threads that are about to receive, and calls of emplace(). *)
Receiving(threads) == Cardinality({t \in threads : t.op = "receive"})
Emplacing(f, pcs)  == Cardinality({p \in Callers : f[p] \in pcs})
Pushing == {"flush", "prepare", "take"}
Balanced(w, p, handles, elements, f, threads) ==
  /\ w = 0 \/ p = 0
  /\ Len(handles) = w + Emplacing(f, {"take"})
  /\ Len(elements) = p + Receiving(threads) + Emplacing(f, Pushing)

LEMMA CallersFinite == IsFiniteSet(Callers) /\ \A pcs, f : Emplacing(f, pcs) \in Nat
<1>1. IsFiniteSet(Callers)
  BY FS_Interval, SyncAssumption DEF Callers
<1>2. ASSUME NEW pcs, NEW f PROVE Emplacing(f, pcs) \in Nat
  <2>1. IsFiniteSet({p \in Callers : f[p] \in pcs})
    BY <1>1, FS_Subset
  <2> QED BY <2>1, FS_CardinalityType DEF Emplacing
<1> QED BY <1>1, <1>2

LEMMA CallerMoves ==
  ASSUME NEW f, NEW g, NEW p \in Callers, \A x \in Callers : x # p => g[x] = f[x], NEW pcs
  PROVE  \E n \in Nat :
           /\ n = Emplacing(f, pcs)
           /\ (f[p] \in pcs <=> g[p] \in pcs) => Emplacing(g, pcs) = n
           /\ f[p] \notin pcs /\ g[p] \in pcs => Emplacing(g, pcs) = n + 1
           /\ f[p] \in pcs /\ g[p] \notin pcs => Emplacing(g, pcs) = n - 1 /\ n > 0
<1> DEFINE F == {x \in Callers : f[x] \in pcs}
           G == {x \in Callers : g[x] \in pcs}
<1>2. IsFiniteSet(F)
  BY CallersFinite, FS_Subset
<1>3. Cardinality(F) \in Nat
  BY <1>2, FS_CardinalityType
<1>4. (f[p] \in pcs <=> g[p] \in pcs) => G = F
  OBVIOUS
<1>5. f[p] \notin pcs /\ g[p] \in pcs => G = F \cup {p} /\ p \notin F
  OBVIOUS
<1>6. f[p] \in pcs /\ g[p] \notin pcs => G = F \ {p} /\ p \in F
  OBVIOUS
<1>7. f[p] \in pcs => p \in F
  OBVIOUS
<1> HIDE DEF F, G
<1>8. Cardinality(F \cup {p}) = IF p \in F THEN Cardinality(F) ELSE Cardinality(F) + 1
  BY <1>2, FS_AddElement
<1>9. Cardinality(F \ {p}) = IF p \in F THEN Cardinality(F) - 1 ELSE Cardinality(F)
  BY <1>2, FS_RemoveElement
<1>10. p \in F => Cardinality(F) > 0
  <2>1. p \in F => Cardinality(F) # 0
    BY <1>2, FS_EmptySet
  <2> QED BY <1>3, <2>1
<1>11. Emplacing(f, pcs) = Cardinality(F) /\ Emplacing(g, pcs) = Cardinality(G)
  BY DEF Emplacing, F, G
<1> QED BY <1>3, <1>4, <1>5, <1>6, <1>7, <1>8, <1>9, <1>10, <1>11

LEMMA ThreadMoves ==
  ASSUME NEW S, IsFiniteSet(S), NEW u
  PROVE  /\ Receiving(S) \in Nat
         /\ u \notin S /\ u.op = "receive" => Receiving(S \cup {u}) = Receiving(S) + 1
         /\ u.op # "receive" => Receiving(S \cup {u}) = Receiving(S)
         /\ u \in S /\ u.op = "receive" => Receiving(S \ {u}) = Receiving(S) - 1 /\ Receiving(S) > 0
         /\ u.op # "receive" => Receiving(S \ {u}) = Receiving(S)
<1> DEFINE F == {x \in S : x.op = "receive"}
<1>1. IsFiniteSet(F)
  BY FS_Subset
<1>2. Cardinality(F) \in Nat
  BY <1>1, FS_CardinalityType
<1>3. u.op = "receive" => {x \in S \cup {u} : x.op = "receive"} = F \cup {u} /\ {x \in S \ {u} : x.op = "receive"} = F \ {u}
  OBVIOUS
<1>4. u.op # "receive" => {x \in S \cup {u} : x.op = "receive"} = F /\ {x \in S \ {u} : x.op = "receive"} = F
  OBVIOUS
<1>5. u.op = "receive" => (u \in S <=> u \in F)
  OBVIOUS
<1> HIDE DEF F
<1>6. Cardinality(F \cup {u}) = IF u \in F THEN Cardinality(F) ELSE Cardinality(F) + 1
  BY <1>1, FS_AddElement
<1>7. Cardinality(F \ {u}) = IF u \in F THEN Cardinality(F) - 1 ELSE Cardinality(F)
  BY <1>1, FS_RemoveElement
<1>8. u \in F => Cardinality(F) > 0
  <2>1. u \in F => Cardinality(F) # 0
    BY <1>1, FS_EmptySet
  <2> QED BY <1>2, <2>1
<1>9. Receiving(S) = Cardinality(F)
  BY DEF Receiving, F
<1>10. u.op = "receive" => Receiving(S \cup {u}) = Cardinality(F \cup {u}) /\ Receiving(S \ {u}) = Cardinality(F \ {u})
  BY <1>3 DEF Receiving
<1>11. u.op # "receive" => Receiving(S \cup {u}) = Cardinality(F) /\ Receiving(S \ {u}) = Cardinality(F)
  BY <1>4 DEF Receiving
<1> QED BY <1>2, <1>5, <1>6, <1>7, <1>8, <1>9, <1>10, <1>11

\* There are no more threads than coroutines.
LEMMA ThreadsFinite ==
  ASSUME NEW q, NEW r, NEW held, Placed(q, r, held)
  PROVE  IsFiniteSet(q \cup r)
<1> DEFINE f == [t \in q \cup r |-> t.c]
<1>1. f \in [q \cup r -> Coroutines]
  BY DEF Placed, Typed
<1>2. \A t, u \in q \cup r : f[t] = f[u] => t = u
  BY DEF Placed, Unique
<1>3. f \in Injection(q \cup r, Coroutines)
  BY <1>1, <1>2 DEF Injection, IsInjective
<1> QED BY <1>3, FS_Injection, SyncAssumption

\* These changes, of the threads of the program.
LEMMA Counts ==
  ASSUME NEW held, Placed(tasks, running, held), NEW t \in running
  PROVE  /\ Receiving(All) \in Nat
         /\ t.op = "receive" => Receiving(All) > 0
         /\ t.op # "receive" /\ End(t, {}) => Receiving(All') = Receiving(All)
         /\ t.op # "receive" /\ End(t, ToDispatch(Info(t), "receive")) => Receiving(All') = Receiving(All) + 1
         /\ Whole(t) /\ t.op # "receive" => \A op : op # "receive" /\ Step(t, op, {}) => Receiving(All') = Receiving(All)
         /\ Whole(t) /\ t.op = "receive" => \A op : op # "receive" /\ Step(t, op, {}) => Receiving(All') = Receiving(All) - 1
<1>1. PICK A, B : A = tasks \cup running /\ B = A \ {t}
  OBVIOUS
<1>2. ASSUME NEW u, u.c = t.c, NEW C, C = B \cup {u}
      PROVE  /\ Receiving(A) \in Nat
             /\ t.op = "receive" => Receiving(A) > 0 /\ Receiving(B) = Receiving(A) - 1
             /\ t.op # "receive" => Receiving(B) = Receiving(A)
             /\ u.op = "receive" => Receiving(C) = Receiving(B) + 1
             /\ u.op # "receive" => Receiving(C) = Receiving(B)
  <2>1. IsFiniteSet(A) /\ IsFiniteSet(B)
    BY <1>1, ThreadsFinite, FS_RemoveElement
  <2>2. u \notin B /\ t \in A
    BY <1>1, <1>2 DEF Placed, Unique
  <2>3. /\ Receiving(A) \in Nat
        /\ t.op = "receive" => Receiving(A \ {t}) = Receiving(A) - 1 /\ Receiving(A) > 0
        /\ t.op # "receive" => Receiving(A \ {t}) = Receiving(A)
    BY <2>1, <2>2, ThreadMoves
  <2>4. /\ u.op = "receive" => Receiving(B \cup {u}) = Receiving(B) + 1
        /\ u.op # "receive" => Receiving(B \cup {u}) = Receiving(B)
    BY <2>1, <2>2, ThreadMoves
  <2> QED BY <1>1, <1>2, <2>3, <2>4
<1>3. /\ Receiving(A) \in Nat
      /\ t.op = "receive" => Receiving(A) > 0 /\ Receiving(B) = Receiving(A) - 1
      /\ t.op # "receive" => Receiving(B) = Receiving(A)
  BY <1>2
<1>4. A = All /\ t \notin tasks
  BY <1>1 DEF All, Placed
<1>5. ASSUME t.op # "receive", End(t, {}) PROVE Receiving(All') = Receiving(All)
  <2>1. All' = B
    BY <1>1, <1>4, <1>5 DEF All, End
  <2> QED BY <1>3, <1>4, <1>5, <2>1
<1>6. ASSUME t.op # "receive", End(t, ToDispatch(Info(t), "receive")) PROVE Receiving(All') = Receiving(All) + 1
  <2>1. PICK u : u = Task(t.c, "receive", t.at)
    OBVIOUS
  <2>2. u.c = t.c /\ u.op = "receive" /\ ToDispatch(Info(t), "receive") = {u}
    BY <2>1, TaskIs DEF ToDispatch, Info
  <2>3. All' = B \cup {u}
    BY <1>1, <1>4, <1>6, <2>2 DEF All, End
  <2>4. PICK C : C = B \cup {u}
    OBVIOUS
  <2>5. Receiving(C) = Receiving(B) + 1
    BY <1>2, <2>2, <2>4
  <2> QED BY <1>3, <1>4, <1>6, <2>3, <2>4, <2>5
<1>7. ASSUME Whole(t), NEW op, op # "receive", Step(t, op, {})
      PROVE  /\ t.op # "receive" => Receiving(All') = Receiving(All)
             /\ t.op = "receive" => Receiving(All') = Receiving(All) - 1
  <2>1. PICK u : /\ u = [t EXCEPT !.op = op] /\ Whole(u)
                 /\ u.c = t.c /\ u.op = op /\ u.k = t.k /\ u.at = t.at /\ u.on = t.on
    BY <1>7, ChangeOp, Zenon
  <2>2. All' = B \cup {u}
    BY <1>1, <1>4, <1>7, <2>1 DEF All, Step
  <2>3. PICK C : C = B \cup {u}
    OBVIOUS
  <2>4. Receiving(C) = Receiving(B)
    BY <1>2, <1>7, <2>1, <2>3
  <2> QED BY <1>3, <1>4, <2>2, <2>3, <2>4
<1> QED BY <1>3, <1>4, <1>5, <1>6, <1>7

PipeType == [prepared_count : Nat, waiting_count : Nat, handles : Seq(Infos), elements : Seq(Callers)]
BalancedNow  == Balanced(pipe.waiting_count, pipe.prepared_count, pipe.handles, pipe.elements, caller, All)

LEMMA PipeThreads ==
  ASSUME kind = "pipe", KindInv, KindInv', SyncInv, BalancedNow, UNCHANGED <<kind, aw>>,
         NEW t \in running, Pipe(t) \/ PipeWait(t) \/ Receive(t)
  PROVE  SyncInv' /\ BalancedNow'
<1>1. Placed(tasks, running, Held) /\ Lists /\ Homes /\ Held = ToSet(pipe.handles) /\ Whole(t)
  BY SyncParts, HeldIs DEF KindInv, All
<1>2. UNCHANGED <<event, barrier, frame, caller>> /\ Held' = ToSet(pipe'.handles)
  BY HeldNext, Zenon DEF Pipe, PipeWait, Receive, PipeVars
<1>3. ASSUME pipe' \in PipeType, Once(pipe'.handles), Placed(tasks', running', ToSet(pipe'.handles)) PROVE SyncInv'
  <2>1. Lists'
    BY <1>1, <1>2, <1>3 DEF Lists, PipeType
  <2> QED BY <1>1, <1>2, <1>3, <2>1, SyncNext
<1>4. /\ pipe \in PipeType /\ Once(pipe.handles) /\ Receiving(All) \in Nat
      /\ Emplacing(caller, Pushing) \in Nat /\ Emplacing(caller, {"take"}) \in Nat
      /\ Len(pipe.handles) \in Nat /\ Len(pipe.elements) \in Nat
      /\ pipe.waiting_count \in Nat /\ pipe.prepared_count \in Nat
  <2>1. Emplacing(caller, Pushing) \in Nat /\ Emplacing(caller, {"take"}) \in Nat
    BY CallersFinite
  <2>2. Receiving(All) \in Nat
    BY <1>1, Counts
  <2>3. pipe \in PipeType /\ Once(pipe.handles)
    BY <1>1 DEF Lists, PipeType
  <2> QED BY <2>1, <2>2, <2>3 DEF PipeType
<1>5. /\ pipe.waiting_count = 0 \/ pipe.prepared_count = 0
      /\ Len(pipe.handles) = pipe.waiting_count + Emplacing(caller, {"take"})
      /\ Len(pipe.elements) = pipe.prepared_count + Receiving(All) + Emplacing(caller, Pushing)
  BY DEF BalancedNow, Balanced
\* The coroutine takes what is prepared, and goes on.
<1>6. ASSUME t.op # "receive", flush_prepared, pipe' = [pipe EXCEPT !.prepared_count = @ - 1],
             End(t, ToDispatch(Info(t), "receive"))
      PROVE  SyncInv' /\ BalancedNow'
  <2>1. pipe.prepared_count > 0
    BY <1>6 DEF flush_prepared
  <2>2. /\ pipe' \in PipeType /\ pipe'.prepared_count = pipe.prepared_count - 1
        /\ pipe'.waiting_count = pipe.waiting_count /\ pipe'.handles = pipe.handles /\ pipe'.elements = pipe.elements
    BY <1>4, <1>6, <2>1 DEF PipeType
  <2>3. Placed(tasks', running', Held)
    BY <1>1, <1>6, EndPlaced
  <2>6. Receiving(All') = Receiving(All) + 1
    BY <1>1, <1>6, Counts
  <2>7. BalancedNow'
    <3>1. pipe.waiting_count = 0
      BY <1>5, <2>1
    <3>2. Len(pipe.elements) = (pipe.prepared_count - 1) + (Receiving(All) + 1) + Emplacing(caller, Pushing)
      <4>1. \A a, b, c \in Nat : a + b + c = (a - 1) + (b + 1) + c
        OBVIOUS
      <4> QED BY <1>4, <1>5, <4>1
    <3> QED BY <1>2, <1>5, <2>2, <2>6, <3>1, <3>2 DEF BalancedNow, Balanced
  <2> QED BY <1>1, <1>3, <1>4, <2>2, <2>3, <2>7
<1>7. CASE Pipe(t)
  <2>1. t.op # "receive"
    BY <1>7 DEF Pipe, Awaiting, At
  <2>2. CASE flush_prepared
    BY <1>6, <1>7, <2>1, <2>2 DEF Pipe
  <2>3. CASE ~flush_prepared
    <3>1. pipe' = pipe /\ Step(t, "pipe", {})
      BY <1>7, <2>3 DEF Pipe
    <3>2. Placed(tasks', running', Held)
      BY <1>1, <3>1, StepPlaced
    <3>4. Receiving(All') = Receiving(All)
      BY <1>1, <2>1, <3>1, Counts
    <3>5. BalancedNow'
      BY <1>2, <1>5, <3>1, <3>4 DEF BalancedNow, Balanced
    <3> QED BY <1>1, <1>3, <1>4, <3>1, <3>2, <3>5
  <2> QED BY <2>2, <2>3
<1>8. CASE PipeWait(t)
  <2>1. t.op # "receive"
    BY <1>8 DEF PipeWait, At
  <2>2. CASE flush_prepared
    BY <1>6, <1>8, <2>1, <2>2 DEF PipeWait
  <2>3. CASE ~flush_prepared
    <3>1. /\ pipe' = [pipe EXCEPT !.handles = Append(@, Info(t)), !.waiting_count = @ + 1]
          /\ End(t, {}) /\ pipe.prepared_count = 0
      BY <1>4, <1>8, <2>3 DEF PipeWait, flush_prepared
    <3>2. Placed(tasks', running', Held \cup {Info(t)}) /\ Info(t) \in Infos /\ Info(t) \notin Held
      BY <1>1, <3>1, Parks DEF End
    <3>3. PICK h : h = Info(t)
      OBVIOUS
    <3>4. PICK s : s = Append(pipe.handles, h)
      OBVIOUS
    <3>5. s \in Seq(Infos) /\ ToSet(s) = Held \cup {h} /\ Len(s) = Len(pipe.handles) + 1 /\ Once(s)
      BY <1>1, <1>4, <3>2, <3>3, <3>4, AppendHandle DEF PipeType
    <3>6. /\ pipe' \in PipeType /\ pipe'.prepared_count = pipe.prepared_count
          /\ pipe'.waiting_count = pipe.waiting_count + 1 /\ pipe'.handles = s /\ pipe'.elements = pipe.elements
      <4>1. pipe' = [pipe EXCEPT !.handles = s, !.waiting_count = pipe.waiting_count + 1]
        BY <3>1, <3>3, <3>4
      <4>2. pipe.waiting_count + 1 \in Nat /\ s \in Seq(Infos)
        BY <1>4, <3>5
      <4> QED BY <1>4, <4>1, <4>2 DEF PipeType
    <3>7. Receiving(All') = Receiving(All)
      BY <1>1, <2>1, <3>1, Counts
    <3>8. BalancedNow'
      <4>1. PICK n, w, l, k : n = pipe.prepared_count /\ w = pipe.waiting_count /\ l = Len(pipe.handles) /\ k = Emplacing(caller, {"take"})
        OBVIOUS
      <4>2. n = 0 /\ w \in Nat /\ l \in Nat /\ k \in Nat /\ l = w + k
        BY <1>4, <1>5, <3>1, <4>1
      <4>3. l + 1 = (w + 1) + k
        BY <4>2
      <4>4. /\ pipe'.prepared_count = 0 /\ Len(pipe'.handles) = l + 1 /\ pipe'.waiting_count = w + 1
            /\ caller' = caller /\ pipe'.elements = pipe.elements
        BY <1>2, <3>1, <3>5, <3>6, <4>1
      <4>5. Len(pipe'.handles) = pipe'.waiting_count + Emplacing(caller', {"take"})
        BY <4>1, <4>3, <4>4
      <4>6. Len(pipe'.elements) = pipe'.prepared_count + Receiving(All') + Emplacing(caller', Pushing)
        BY <1>5, <3>1, <3>7, <4>4
      <4> QED BY <4>4, <4>5, <4>6 DEF BalancedNow, Balanced
    <3> QED BY <1>3, <3>2, <3>3, <3>5, <3>6, <3>8
  <2> QED BY <2>2, <2>3
<1>9. CASE Receive(t)
  <2>1. t.op = "receive" /\ pipe' = [pipe EXCEPT !.elements = Tail(@)] /\ Step(t, "body", {})
    BY <1>9 DEF Receive, At
  <2>2. Placed(tasks', running', Held)
    BY <1>1, <2>1, StepPlaced
  <2>4. Receiving(All') = Receiving(All) - 1 /\ Receiving(All) > 0
    BY <1>1, <2>1, Counts
  <2>5. Len(pipe.elements) > 0
    BY <1>4, <1>5, <2>4
  <2>6. Tail(pipe.elements) \in Seq(Callers) /\ Len(Tail(pipe.elements)) = Len(pipe.elements) - 1
    BY <1>4, <2>5, TakeFirst DEF PipeType
  <2>7. /\ pipe' \in PipeType /\ pipe'.prepared_count = pipe.prepared_count
        /\ pipe'.waiting_count = pipe.waiting_count /\ pipe'.handles = pipe.handles
        /\ pipe'.elements = Tail(pipe.elements)
    BY <1>4, <2>1, <2>6 DEF PipeType
  <2>8. BalancedNow'
    BY <1>2, <1>4, <1>5, <2>4, <2>6, <2>7 DEF BalancedNow, Balanced
  <2> QED BY <1>1, <1>3, <1>4, <2>2, <2>7, <2>8
<1> QED BY <1>7, <1>8, <1>9

\* The first handle is taken, and its coroutine is to receive.
LEMMA TakesHandle ==
  ASSUME Placed(tasks, running, ToSet(pipe.handles)), pipe \in PipeType, Once(pipe.handles), Len(pipe.handles) > 0,
         tasks' = tasks \cup ToDispatch(Head(pipe.handles), "receive"), running' = running,
         NEW s, s = Tail(pipe.handles)
  PROVE  /\ s \in Seq(Infos) /\ Len(s) = Len(pipe.handles) - 1 /\ Once(s)
         /\ Placed(tasks', running', ToSet(s))
         /\ Receiving(All') = Receiving(All) + 1
<1>1. PICK h : h = Head(pipe.handles)
  OBVIOUS
<1>2. /\ s \in Seq(Infos) /\ Len(s) = Len(pipe.handles) - 1 /\ Once(s) /\ h \in Infos
      /\ ToSet(pipe.handles) = {h} \cup ToSet(s)
      /\ ToSet(s) \ {Nobody} = (ToSet(pipe.handles) \ {Nobody}) \ {h}
  BY <1>1, TakeFirst DEF PipeType
<1>3. Nobody \notin ToSet(pipe.handles)
  BY NobodyIs DEF Placed
<1>4. ToSet(s) = ToSet(pipe.handles) \ {h}
  BY <1>2, <1>3
<1>5. PICK u : u = Task(h.c, "receive", h.at)
  OBVIOUS
<1>6. u.c = h.c /\ u.op = "receive" /\ ToDispatch(h, "receive") = {u}
  BY <1>5, TaskIs DEF ToDispatch
<1>7. Placed(tasks', running', ToSet(s))
  <2>1. PICK new : new = Dispatched({h}, "receive")
    OBVIOUS
  <2>2. new = {u}
    BY <1>6, <2>1 DEF Dispatched
  <2>3. {h} \subseteq ToSet(pipe.handles)
    BY <1>2
  <2>4. Placed(tasks \cup new, running, ToSet(pipe.handles) \ {h})
    BY <2>1, <2>3, Dispatches
  <2> QED BY <1>1, <1>4, <1>6, <2>2, <2>4
<1>8. Receiving(All') = Receiving(All) + 1
  <2>1. PICK A : A = tasks \cup running
    OBVIOUS
  <2>2. u \notin A
    BY <1>2, <1>6, <2>1 DEF Placed, Unique
  <2>3. IsFiniteSet(A)
    BY <2>1, ThreadsFinite
  <2>4. Receiving(A \cup {u}) = Receiving(A) + 1
    BY <1>6, <2>2, <2>3, ThreadMoves
  <2>5. All = A /\ All' = A \cup {u}
    BY <1>1, <1>6, <2>1 DEF All
  <2> QED BY <2>4, <2>5
<1> QED BY <1>2, <1>7, <1>8

LEMMA PipeCalls ==
  ASSUME kind = "pipe", KindInv, KindInv', SyncInv, BalancedNow, UNCHANGED <<kind, aw>>,
         NEW p \in Callers, emplace(p) \/ FlushWaiting(p) \/ TakeHandle(p) \/ Prepare(p)
  PROVE  SyncInv' /\ BalancedNow'
<1>1. Placed(tasks, running, Held) /\ Lists /\ Homes /\ Held = ToSet(pipe.handles)
  BY SyncParts, HeldIs
<1>2. UNCHANGED <<event, barrier, frame>> /\ Held' = ToSet(pipe'.handles)
  BY HeldNext, Zenon DEF emplace, FlushWaiting, TakeHandle, Prepare, EmplaceStep, PipeVars
<1>3. ASSUME pipe' \in PipeType, Once(pipe'.handles), Placed(tasks', running', ToSet(pipe'.handles)) PROVE SyncInv'
  <2>1. Lists'
    BY <1>1, <1>2, <1>3 DEF Lists, PipeType
  <2> QED BY <1>1, <1>2, <1>3, <2>1, SyncNext
<1>4. /\ pipe \in PipeType /\ Once(pipe.handles) /\ Receiving(All) \in Nat
      /\ Emplacing(caller, Pushing) \in Nat /\ Emplacing(caller, {"take"}) \in Nat
      /\ Len(pipe.handles) \in Nat /\ Len(pipe.elements) \in Nat
      /\ pipe.waiting_count \in Nat /\ pipe.prepared_count \in Nat
      /\ pipe.handles \in Seq(Infos) /\ pipe.elements \in Seq(Callers)
  <2>1. Emplacing(caller, Pushing) \in Nat /\ Emplacing(caller, {"take"}) \in Nat
    BY CallersFinite
  <2>2. Receiving(All) \in Nat
    <3>1. IsFiniteSet(All)
      BY <1>1, ThreadsFinite DEF All
    <3> QED BY <3>1, ThreadMoves
  <2>3. pipe \in PipeType /\ Once(pipe.handles)
    BY <1>1 DEF Lists, PipeType
  <2> QED BY <2>1, <2>2, <2>3 DEF PipeType
<1>5. /\ pipe.waiting_count = 0 \/ pipe.prepared_count = 0
      /\ Len(pipe.handles) = pipe.waiting_count + Emplacing(caller, {"take"})
      /\ Len(pipe.elements) = pipe.prepared_count + Receiving(All) + Emplacing(caller, Pushing)
  BY DEF BalancedNow, Balanced
<1>6. caller \in [Callers -> CallsOf[kind]]
  BY DEF KindInv
<1>15. PICK w, n, l, e, r, f, k \in Nat :
         /\ w = pipe.waiting_count /\ n = pipe.prepared_count /\ l = Len(pipe.handles) /\ e = Len(pipe.elements)
         /\ r = Receiving(All) /\ f = Emplacing(caller, Pushing) /\ k = Emplacing(caller, {"take"})
  BY <1>4
<1>16. (w = 0 \/ n = 0) /\ l = w + k /\ e = n + r + f
  BY <1>5, <1>15
<1>7. ASSUME NEW from, NEW to, EmplaceStep(p, from, to)
      PROVE  /\ (from \in Pushing <=> to \in Pushing) => Emplacing(caller', Pushing) = f
             /\ from \notin Pushing /\ to \in Pushing => Emplacing(caller', Pushing) = f + 1
             /\ from \in Pushing /\ to \notin Pushing => Emplacing(caller', Pushing) = f - 1
             /\ from # "take" /\ to # "take" => Emplacing(caller', {"take"}) = k
             /\ from # "take" /\ to = "take" => Emplacing(caller', {"take"}) = k + 1
             /\ from = "take" /\ to # "take" => /\ Emplacing(caller', {"take"}) = k - 1
                                                /\ k > 0
  <2>1. PICK g : g = [caller EXCEPT ![p] = to]
    OBVIOUS
  <2>2. caller' = g /\ caller[p] = from /\ g[p] = to /\ \A x \in Callers : x # p => g[x] = caller[x]
    BY <1>6, <1>7, <2>1 DEF EmplaceStep
  <2>3. PICK P, Q : P = Pushing /\ Q = {"take"}
    OBVIOUS
  <2>4. ASSUME NEW R
        PROVE  \E m \in Nat :
                 /\ m = Emplacing(caller, R)
                 /\ (caller[p] \in R <=> g[p] \in R) => Emplacing(g, R) = m
                 /\ caller[p] \notin R /\ g[p] \in R => Emplacing(g, R) = m + 1
                 /\ caller[p] \in R /\ g[p] \notin R => Emplacing(g, R) = m - 1 /\ m > 0
    <3>1. PICK c : c = caller
      OBVIOUS
    <3>2. \A x \in Callers : x # p => g[x] = c[x]
      BY <2>2, <3>1
    <3>3. \E m \in Nat :
                 /\ m = Emplacing(c, R)
                 /\ (c[p] \in R <=> g[p] \in R) => Emplacing(g, R) = m
                 /\ c[p] \notin R /\ g[p] \in R => Emplacing(g, R) = m + 1
                 /\ c[p] \in R /\ g[p] \notin R => Emplacing(g, R) = m - 1 /\ m > 0
      BY <3>2, CallerMoves, SMT
    <3> QED BY <3>1, <3>3
  <2>5. /\ (from \in P <=> to \in P) => Emplacing(g, P) = f
        /\ from \notin P /\ to \in P => Emplacing(g, P) = f + 1
        /\ from \in P /\ to \notin P => Emplacing(g, P) = f - 1
    BY <1>15, <2>2, <2>3, <2>4
  <2>6. /\ (from \in Q <=> to \in Q) => Emplacing(g, Q) = k
        /\ from \notin Q /\ to \in Q => Emplacing(g, Q) = k + 1
        /\ from \in Q /\ to \notin Q => Emplacing(g, Q) = k - 1 /\ k > 0
    BY <1>15, <2>2, <2>3, <2>4
  <2>7. (from \in Q <=> from = "take") /\ (to \in Q <=> to = "take")
    BY <2>3
  <2> QED BY <2>2, <2>3, <2>5, <2>6, <2>7
\* What is left to show of each call.
<1>17. ASSUME NEW w2, NEW n2, NEW l2, NEW e2, NEW r2, NEW f2, NEW k2,
              pipe' \in PipeType, Once(pipe'.handles), Placed(tasks', running', ToSet(pipe'.handles)),
              pipe'.waiting_count = w2, pipe'.prepared_count = n2, Len(pipe'.handles) = l2, Len(pipe'.elements) = e2,
              Receiving(All') = r2, Emplacing(caller', Pushing) = f2, Emplacing(caller', {"take"}) = k2,
              w2 = 0 \/ n2 = 0, l2 = w2 + k2, e2 = n2 + r2 + f2
       PROVE  SyncInv' /\ BalancedNow'
  <2>1. BalancedNow'
    BY <1>17 DEF BalancedNow, Balanced
  <2> QED BY <1>3, <1>17, <2>1
<1>18. ASSUME Same PROVE Receiving(All') = r /\ Placed(tasks', running', ToSet(pipe.handles))
  <2>1. All' = All /\ tasks' = tasks /\ running' = running
    BY <1>18 DEF All, Same
  <2> QED BY <1>1, <1>15, <2>1
<1>8. CASE emplace(p)
  <2>1. EmplaceStep(p, "idle", "flush") /\ pipe' = [pipe EXCEPT !.elements = Append(@, p)] /\ Same
    BY <1>8 DEF emplace
  <2>2. Emplacing(caller', Pushing) = f + 1 /\ Emplacing(caller', {"take"}) = k
    BY <1>7, <2>1 DEF Pushing
  <2>3. PICK s : s = Append(pipe.elements, p)
    OBVIOUS
  <2>4. s \in Seq(Callers) /\ Len(s) = e + 1
    BY <1>4, <1>15, <2>3
  <2>5. /\ pipe' \in PipeType /\ pipe'.prepared_count = n /\ pipe'.elements = s
        /\ pipe'.waiting_count = w /\ pipe'.handles = pipe.handles
    BY <1>4, <1>15, <2>1, <2>3, <2>4 DEF PipeType
  <2>6. Receiving(All') = r /\ Placed(tasks', running', ToSet(pipe'.handles)) /\ Len(pipe'.handles) = l
    BY <1>15, <1>18, <2>1, <2>5
  <2>7. e + 1 = n + r + (f + 1)
    BY <1>16
  <2> QED BY <1>4, <1>16, <1>17, <2>2, <2>4, <2>5, <2>6, <2>7
<1>9. CASE FlushWaiting(p)
  <2>1. /\ EmplaceStep(p, "flush", IF w > 0 THEN "take" ELSE "prepare") /\ Same
        /\ pipe' = [pipe EXCEPT !.waiting_count = Max({w, 1}) - 1]
    BY <1>9, <1>15 DEF FlushWaiting
  <2>2. PICK v : v = IF w > 0 THEN w - 1 ELSE 0
    OBVIOUS
  <2>3. Max({w, 1}) - 1 = v /\ v \in Nat
    <3>1. ASSUME w > 0 PROVE Max({w, 1}) = w
      BY <3>1 DEF Max
    <3>2. ASSUME ~(w > 0) PROVE Max({w, 1}) = 1
      BY <3>2 DEF Max
    <3> QED BY <2>2, <3>1, <3>2
  <2>4. /\ pipe' \in PipeType /\ pipe'.prepared_count = n /\ pipe'.elements = pipe.elements
        /\ pipe'.handles = pipe.handles /\ pipe'.waiting_count = v
    BY <1>4, <1>15, <2>1, <2>3 DEF PipeType
  <2>5. /\ Receiving(All') = r /\ Placed(tasks', running', ToSet(pipe'.handles))
        /\ Len(pipe'.handles) = l /\ Len(pipe'.elements) = e
    BY <1>15, <1>18, <2>1, <2>4
  <2>6. CASE w > 0
    <3>1. EmplaceStep(p, "flush", "take")
      BY <2>1, <2>6
    <3>2. Emplacing(caller', Pushing) = f /\ Emplacing(caller', {"take"}) = k + 1
      BY <1>7, <3>1 DEF Pushing
    <3>3. (v = 0 \/ n = 0) /\ l = v + (k + 1)
      BY <1>16, <2>2, <2>6
    <3> QED BY <1>4, <1>16, <1>17, <2>4, <2>5, <3>2, <3>3
  <2>7. CASE ~(w > 0)
    <3>1. EmplaceStep(p, "flush", "prepare")
      BY <2>1, <2>7
    <3>2. Emplacing(caller', Pushing) = f /\ Emplacing(caller', {"take"}) = k
      BY <1>7, <3>1 DEF Pushing
    <3>3. (v = 0 \/ n = 0) /\ l = v + k
      BY <1>16, <2>2, <2>7
    <3> QED BY <1>4, <1>16, <1>17, <2>4, <2>5, <3>2, <3>3
  <2> QED BY <2>6, <2>7
\* TakeHandle, and Prepare when somebody has begun to wait.
<1>10. PICK s : s = Tail(pipe.handles)
  OBVIOUS
<1>11. ASSUME l > 0, tasks' = tasks \cup ToDispatch(Head(pipe.handles), "receive"), running' = running
       PROVE  /\ s \in Seq(Infos) /\ Len(s) = l - 1 /\ Once(s)
              /\ Placed(tasks', running', ToSet(s)) /\ Receiving(All') = r + 1
  BY <1>1, <1>4, <1>10, <1>11, <1>15, TakesHandle
<1>12. CASE TakeHandle(p)
  <2>1. /\ EmplaceStep(p, "take", "done") /\ running' = running /\ pipe' = [pipe EXCEPT !.handles = s]
        /\ tasks' = tasks \cup ToDispatch(Head(pipe.handles), "receive")
    BY <1>10, <1>12 DEF TakeHandle
  <2>2. Emplacing(caller', Pushing) = f - 1 /\ Emplacing(caller', {"take"}) = k - 1 /\ k > 0
    BY <1>7, <2>1 DEF Pushing
  <2>3. l > 0
    BY <1>16, <2>2
  <2>4. /\ s \in Seq(Infos) /\ Len(s) = l - 1 /\ Once(s)
        /\ Placed(tasks', running', ToSet(s)) /\ Receiving(All') = r + 1
    BY <1>11, <2>1, <2>3
  <2>5. /\ pipe' \in PipeType /\ pipe'.prepared_count = n /\ pipe'.elements = pipe.elements
        /\ pipe'.waiting_count = w /\ pipe'.handles = s
    BY <1>4, <1>15, <2>1, <2>4 DEF PipeType
  <2>6. l - 1 = w + (k - 1) /\ e = n + (r + 1) + (f - 1)
    BY <1>16
  <2>7. Len(pipe'.elements) = e
    BY <1>15, <2>5
  <2> QED BY <1>16, <1>17, <2>2, <2>4, <2>5, <2>6, <2>7
<1>13. CASE Prepare(p)
  <2>1. EmplaceStep(p, "prepare", "done")
    BY <1>13 DEF Prepare
  <2>2. Emplacing(caller', Pushing) = f - 1 /\ Emplacing(caller', {"take"}) = k
    BY <1>7, <2>1 DEF Pushing
  <2>3. CASE w > 0
    <3>1. /\ running' = running /\ pipe' = [pipe EXCEPT !.waiting_count = w - 1, !.handles = s]
          /\ tasks' = tasks \cup ToDispatch(Head(pipe.handles), "receive")
      BY <1>10, <1>13, <1>15, <2>3 DEF Prepare
    <3>2. l > 0 /\ w - 1 \in Nat
      BY <1>16, <2>3
    <3>3. /\ s \in Seq(Infos) /\ Len(s) = l - 1 /\ Once(s)
          /\ Placed(tasks', running', ToSet(s)) /\ Receiving(All') = r + 1
      BY <1>11, <3>1, <3>2
    <3>4. /\ pipe' \in PipeType /\ pipe'.prepared_count = n /\ pipe'.elements = pipe.elements
          /\ pipe'.waiting_count = w - 1 /\ pipe'.handles = s
      BY <1>4, <1>15, <3>1, <3>2, <3>3 DEF PipeType
    <3>5. (w - 1 = 0 \/ n = 0) /\ l - 1 = (w - 1) + k /\ e = n + (r + 1) + (f - 1)
      BY <1>16, <2>3
    <3>6. Len(pipe'.elements) = e
      BY <1>15, <3>4
    <3> QED BY <1>17, <2>2, <3>3, <3>4, <3>5, <3>6
  <2>4. CASE ~(w > 0)
    <3>1. pipe' = [pipe EXCEPT !.prepared_count = n + 1] /\ Same
      BY <1>13, <1>15, <2>4 DEF Prepare
    <3>2. /\ pipe' \in PipeType /\ pipe'.prepared_count = n + 1 /\ pipe'.elements = pipe.elements
          /\ pipe'.waiting_count = w /\ pipe'.handles = pipe.handles
      <4>1. n + 1 \in Nat /\ pipe' = [pipe EXCEPT !.prepared_count = n + 1]
        BY <1>4, <1>15, <3>1 DEF PipeType
      <4>2. PICK m \in Nat : m = n + 1
        BY <4>1
      <4>3. pipe' = [pipe EXCEPT !.prepared_count = m]
        BY <4>1, <4>2
      <4>4. /\ pipe' \in PipeType /\ pipe'.prepared_count = m /\ pipe'.elements = pipe.elements
            /\ pipe'.waiting_count = pipe.waiting_count /\ pipe'.handles = pipe.handles
        BY <1>4, <4>3 DEF PipeType
      <4> QED BY <1>15, <4>2, <4>4
    <3>3. /\ Receiving(All') = r /\ Placed(tasks', running', ToSet(pipe'.handles))
          /\ Len(pipe'.handles) = l /\ Len(pipe'.elements) = e
      BY <1>15, <1>18, <3>1, <3>2
    <3>4. w = 0 /\ l = w + k /\ e = (n + 1) + r + (f - 1)
      BY <1>16, <2>4
    <3> QED BY <1>4, <1>17, <2>2, <3>2, <3>3, <3>4
  <2> QED BY <2>3, <2>4
<1> QED BY <1>8, <1>9, <1>12, <1>13

(* The frame *)
FrameType == [handles : Seq(Infos \cup {Nobody}), pending_count : Int, complete : BOOLEAN, terminated : BOOLEAN]
Marks(f, handles) ==
  \A p \in Callers :
    /\ f[p] # "idle" => \A q \in 1 .. p - 1 : f[q] = "done"
    /\ f[p] \notin {"idle", "done"} => Nobody \in ToSet(handles)

LEMMA FrameThreads ==
  ASSUME kind = "frame", KindInv, KindInv', SyncInv, FrameInv, UNCHANGED <<kind, aw>>,
         NEW t \in running, Frame(t) \/ ResumeFrame(t) \/ Complete(t)
  PROVE  SyncInv' /\ FrameInv'
<1>1. Placed(tasks, running, Held) /\ Lists /\ Homes /\ Held = ToSet(frame.handles) \ {Nobody} /\ Whole(t)
  BY SyncParts, HeldIs DEF KindInv, All
<1>2. UNCHANGED <<event, barrier, pipe, caller>> /\ Held' = ToSet(frame'.handles) \ {Nobody}
  BY HeldNext, Zenon DEF Frame, ResumeFrame, Complete, FrameVars
<1>3. frame \in FrameType /\ Once(frame.handles) /\ Marks(caller, frame.handles)
  BY <1>1 DEF Lists, FrameType, FrameInv, Marks
<1>4. ASSUME frame' \in FrameType, Once(frame'.handles), Placed(tasks', running', ToSet(frame'.handles) \ {Nobody}),
             ToSet(frame.handles) \subseteq ToSet(frame'.handles)
      PROVE  SyncInv' /\ FrameInv'
  <2>1. Lists'
    BY <1>1, <1>2, <1>4 DEF Lists, FrameType
  <2>2. SyncInv'
    BY <1>1, <1>2, <1>4, <2>1, SyncNext
  <2>3. FrameInv'
    BY <1>2, <1>3, <1>4 DEF FrameInv, Marks
  <2> QED BY <2>2, <2>3
<1>5. ASSUME UNCHANGED frame, NEW op, Step(t, op, {}) PROVE SyncInv' /\ FrameInv'
  <2>1. Placed(tasks', running', Held)
    BY <1>1, <1>5, StepPlaced
  <2> QED BY <1>1, <1>3, <1>4, <1>5, <2>1
<1>6. CASE Frame(t)
  <2>1. CASE frame.terminated
    <3>1. UNCHANGED <<tasks, running, frame>>
      BY <1>6, <2>1 DEF Frame
    <3> QED BY <1>1, <1>3, <1>4, <3>1
  <2>2. CASE ~frame.terminated
    <3>1. frame' = [frame EXCEPT !.handles = Append(@, Info(t))] /\ End(t, {})
      BY <1>6, <2>2 DEF Frame, queue
    <3>2. Placed(tasks', running', Held \cup {Info(t)}) /\ Info(t) \in Infos /\ Info(t) \notin Held
      <4>1. Placed(tasks, running, Held)
        BY <1>1
      <4>2. Placed(tasks, running \ {t}, Held \cup {Info(t)}) /\ Info(t) \in Infos /\ Info(t) \notin Held
        BY <4>1, Parks
      <4>3. tasks' = tasks /\ running' = running \ {t}
        BY <3>1 DEF End
      <4> QED BY <4>2, <4>3
    <3>3. PICK h : h = Info(t)
      OBVIOUS
    <3>4. h \in Infos /\ h # Nobody /\ h \notin ToSet(frame.handles)
      BY <1>1, <3>2, <3>3, NobodyIs
    <3>5. PICK s : s = Append(frame.handles, h)
      OBVIOUS
    <3>6. frame.handles \in Seq(Infos \cup {Nobody}) /\ h \in Infos \cup {Nobody}
      BY <1>3, <3>4 DEF FrameType
    <3>7. s \in Seq(Infos \cup {Nobody}) /\ ToSet(s) = ToSet(frame.handles) \cup {h} /\ Once(s)
      BY <1>3, <3>4, <3>5, <3>6, AppendHandle
    <3>8. frame' \in FrameType /\ frame'.handles = s
      BY <1>3, <3>1, <3>3, <3>5, <3>7 DEF FrameType
    <3>9. ToSet(s) \ {Nobody} = Held \cup {h}
      BY <1>1, <3>4, <3>7
    <3> QED BY <1>4, <3>2, <3>3, <3>7, <3>8, <3>9
  <2> QED BY <2>1, <2>2
<1>7. ASSUME frame' \in FrameType, UNCHANGED <<frame.handles>>, NEW op, Step(t, op, {}) PROVE SyncInv' /\ FrameInv'
  <2>1. Placed(tasks', running', Held)
    BY <1>1, <1>7, StepPlaced
  <2> QED BY <1>1, <1>3, <1>4, <1>7, <2>1
<1>8. CASE ResumeFrame(t)
  <2>1. CASE frame.terminated
    BY <1>5, <1>8, <2>1 DEF ResumeFrame
  <2>2. CASE ~frame.terminated
    <3>1. PICK op : Step(t, op, {})
      BY <1>8, <2>2 DEF ResumeFrame
    <3>2. frame' = [frame EXCEPT !.pending_count = @ - 1]
      BY <1>8, <2>2 DEF ResumeFrame
    <3>3. frame' \in FrameType /\ frame'.handles = frame.handles
      BY <1>3, <3>2 DEF FrameType
    <3> QED BY <1>7, <3>1, <3>3
  <2> QED BY <2>1, <2>2
<1>9. CASE Complete(t)
  <2>1. frame' = [frame EXCEPT !.complete = TRUE] /\ Step(t, "body", {})
    BY <1>9 DEF Complete
  <2>2. frame' \in FrameType /\ frame'.handles = frame.handles
    BY <1>3, <2>1 DEF FrameType
  <2> QED BY <1>7, <2>1, <2>2
<1> QED BY <1>6, <1>8, <1>9

LEMMA FrameCalls ==
  ASSUME kind = "frame", KindInv, KindInv', SyncInv, FrameInv, UNCHANGED <<kind, aw>>, NEW p \in Callers,
         dispatch(p) \/ TestPending(p) \/ WaitComplete(p) \/ ClearComplete(p) \/ SetTerminated(p) \/ DispatchNext(p)
  PROVE  SyncInv' /\ FrameInv'
<1>1. Placed(tasks, running, Held) /\ Lists /\ Homes /\ Held = ToSet(frame.handles) \ {Nobody}
  BY SyncParts, HeldIs
<1>2. UNCHANGED <<event, barrier, pipe, running>> /\ Held' = ToSet(frame'.handles) \ {Nobody}
  BY HeldNext, Zenon DEF dispatch, TestPending, WaitComplete, ClearComplete, SetTerminated, DispatchNext,
                         DispatchStep, FrameVars, Same
<1>3. frame \in FrameType /\ Once(frame.handles) /\ Marks(caller, frame.handles) /\ Callers \subseteq Nat
      /\ frame.handles \in Seq(Infos \cup {Nobody})
  BY <1>1, SyncAssumption DEF Lists, FrameType, FrameInv, Marks, Callers
<1>4. caller \in [Callers -> CallsOf[kind]]
  BY DEF KindInv
<1>15. \A q \in Callers : \A r \in 1 .. q - 1 : r \in Callers /\ r # q
  BY SyncAssumption DEF Callers
<1>5. ASSUME frame' \in FrameType, Once(frame'.handles), Placed(tasks', running', ToSet(frame'.handles) \ {Nobody}),
             Marks(caller', frame'.handles)
      PROVE  SyncInv' /\ FrameInv'
  <2>1. Lists'
    BY <1>1, <1>2, <1>5 DEF Lists, FrameType
  <2>2. SyncInv'
    BY <1>1, <1>2, <1>5, <2>1, SyncNext
  <2>3. FrameInv'
    BY <1>5 DEF FrameInv, Marks
  <2> QED BY <2>2, <2>3
\* Going on with a frame.
<1>6. ASSUME NEW from, NEW to, DispatchStep(p, from, to), from \notin {"idle", "done"}, to # "idle", NEW handles,
             Nobody \in ToSet(handles) \/ to = "done"
      PROVE  Marks(caller', handles)
  <2>1. caller[p] = from /\ caller' = [caller EXCEPT ![p] = to]
    BY <1>6 DEF DispatchStep
  <2>2. \A q \in Callers : caller'[q] = IF q = p THEN to ELSE caller[q]
    BY <1>4, <2>1
  <2>3. \A q \in 1 .. p - 1 : caller[q] = "done" /\ q # p /\ q \in Callers
    BY <1>3, <1>6, <1>15, <2>1 DEF Marks
  <2>4. \A q \in Callers : q > p => caller[q] = "idle"
    <3> SUFFICES ASSUME NEW q \in Callers, q > p, caller[q] # "idle" PROVE FALSE
      OBVIOUS
    <3>1. p \in 1 .. q - 1
      BY <1>3 DEF Callers
    <3> QED BY <1>3, <1>6, <2>1, <3>1 DEF Marks
  <2>5. \A q \in Callers : q = p \/ q \in 1 .. p - 1 \/ q > p
    BY <1>3 DEF Callers
  <2>6. ASSUME NEW q \in Callers, caller'[q] # "idle", NEW r \in 1 .. q - 1 PROVE caller'[r] = "done"
    <3>1. q = p \/ q \in 1 .. p - 1
      BY <2>2, <2>4, <2>5, <2>6
    <3>2. r \in 1 .. p - 1
      BY <1>3, <3>1 DEF Callers
    <3> QED BY <2>2, <2>3, <3>2
  <2>7. ASSUME NEW q \in Callers, caller'[q] \notin {"idle", "done"} PROVE Nobody \in ToSet(handles)
    <3>1. q = p
      BY <2>2, <2>3, <2>4, <2>5, <2>7
    <3> QED BY <1>6, <2>2, <2>7, <3>1
  <2> QED BY <2>6, <2>7 DEF Marks
<1>7. ASSUME Same, frame' \in FrameType, frame'.handles = frame.handles, Marks(caller', frame.handles)
      PROVE  SyncInv' /\ FrameInv'
  <2>1. Placed(tasks', running', Held)
    BY <1>1, <1>7 DEF Same
  <2> QED BY <1>1, <1>3, <1>5, <1>7, <2>1
<1>8. ASSUME caller[p] \notin {"idle", "done"} PROVE Nobody \in ToSet(frame.handles) /\ Len(frame.handles) > 0
  <2>1. Nobody \in ToSet(frame.handles)
    BY <1>3, <1>8 DEF Marks
  <2> QED BY <1>3, <2>1 DEF ToSet
<1>9. CASE dispatch(p)
  <2>1. /\ caller[p] = "idle" /\ caller' = [caller EXCEPT ![p] = "test"] /\ Same
        /\ \A q \in 1 .. p - 1 : caller[q] = "done"
        /\ frame' = [frame EXCEPT !.handles = Append(@, Nobody)]
    BY <1>9 DEF dispatch, DispatchStep, queue
  <2>2. PICK s : s = Append(frame.handles, Nobody)
    OBVIOUS
  <2>3. s \in Seq(Infos \cup {Nobody}) /\ ToSet(s) = ToSet(frame.handles) \cup {Nobody} /\ Once(s)
    BY <1>3, <2>2, AppendHandle
  <2>4. frame' \in FrameType /\ frame'.handles = s
    BY <1>3, <2>1, <2>2, <2>3 DEF FrameType
  <2>5. ToSet(s) \ {Nobody} = Held /\ Nobody \in ToSet(s)
    BY <1>1, <2>3
  <2>6. Marks(caller', s)
    <3>1. \A q \in Callers : caller'[q] = IF q = p THEN "test" ELSE caller[q]
      BY <1>4, <2>1
    <3>2. \A q \in Callers : q > p => caller[q] = "idle"
      <4> SUFFICES ASSUME NEW q \in Callers, q > p, caller[q] # "idle" PROVE FALSE
        OBVIOUS
      <4>1. p \in 1 .. q - 1
        BY <1>3 DEF Callers
      <4> QED BY <1>3, <2>1, <4>1 DEF Marks
    <3>3. ASSUME NEW q \in Callers, caller'[q] # "idle", NEW r \in 1 .. q - 1 PROVE caller'[r] = "done"
      <4>1. q <= p
        BY <1>3, <3>1, <3>2, <3>3
      <4>2. r \in 1 .. p - 1
        BY <1>3, <4>1 DEF Callers
      <4>3. r \in Callers /\ r # p
        BY <1>15, <4>2
      <4> QED BY <2>1, <3>1, <4>2, <4>3
    <3> QED BY <2>5, <3>3 DEF Marks
  <2>7. Placed(tasks', running', Held)
    BY <1>1, <2>1 DEF Same
  <2> QED BY <1>5, <2>3, <2>4, <2>5, <2>6, <2>7
<1>10. CASE TestPending(p)
  <2>1. PICK to \in {"wait", "running"} : DispatchStep(p, "test", to)
    BY <1>10 DEF TestPending
  <2>2. Same /\ frame' = frame /\ caller[p] = "test"
    BY <1>10 DEF TestPending, DispatchStep
  <2>3. Marks(caller', frame.handles)
    BY <1>6, <1>8, <2>1, <2>2
  <2> QED BY <1>3, <1>7, <2>2, <2>3
<1>11. CASE WaitComplete(p)
  <2>1. DispatchStep(p, "wait", "clear")
    BY <1>11 DEF WaitComplete
  <2>2. Same /\ frame' = frame /\ caller[p] = "wait"
    BY <1>11 DEF WaitComplete, DispatchStep
  <2>3. Marks(caller', frame.handles)
    BY <1>6, <1>8, <2>1, <2>2
  <2> QED BY <1>3, <1>7, <2>2, <2>3
<1>12. CASE ClearComplete(p)
  <2>1. DispatchStep(p, "clear", "running")
    BY <1>12 DEF ClearComplete
  <2>2. Same /\ frame' = [frame EXCEPT !.complete = FALSE] /\ caller[p] = "clear"
    BY <1>12 DEF ClearComplete, DispatchStep
  <2>3. Marks(caller', frame.handles)
    BY <1>6, <1>8, <2>1, <2>2
  <2>4. frame' \in FrameType /\ frame'.handles = frame.handles
    BY <1>3, <2>2 DEF FrameType
  <2> QED BY <1>7, <2>2, <2>3, <2>4
<1>13. CASE SetTerminated(p)
  <2>1. DispatchStep(p, "running", "next")
    BY <1>13 DEF SetTerminated
  <2>2. Same /\ caller[p] = "running" /\ \E b \in BOOLEAN : frame' = [frame EXCEPT !.terminated = b]
    BY <1>13 DEF SetTerminated, DispatchStep
  <2>3. Marks(caller', frame.handles)
    BY <1>6, <1>8, <2>1, <2>2
  <2>4. frame' \in FrameType /\ frame'.handles = frame.handles
    BY <1>3, <2>2 DEF FrameType
  <2> QED BY <1>7, <2>2, <2>3, <2>4
<1>14. CASE DispatchNext(p)
  <2>1. PICK h, s : h = Head(frame.handles) /\ s = Tail(frame.handles)
    OBVIOUS
  <2>2. caller[p] = "next"
    BY <1>14 DEF DispatchNext
  <2>3. Nobody \in ToSet(frame.handles) /\ Len(frame.handles) > 0
    BY <1>8, <2>2
  <2>4. /\ s \in Seq(Infos \cup {Nobody}) /\ Once(s) /\ ToSet(frame.handles) = {h} \cup ToSet(s)
        /\ ToSet(s) \ {Nobody} = (ToSet(frame.handles) \ {Nobody}) \ {h}
    BY <1>3, <2>1, <2>3, TakeFirst
  <2>5. CASE h = Nobody
    <3>1. DispatchStep(p, "next", "done") /\ frame' = [frame EXCEPT !.handles = s] /\ Same
      BY <1>14, <2>1, <2>5 DEF DispatchNext
    <3>2. frame' \in FrameType /\ frame'.handles = s
      BY <1>3, <2>4, <3>1 DEF FrameType
    <3>3. Marks(caller', s)
      BY <1>6, <3>1
    <3>4. ToSet(s) \ {Nobody} = Held
      BY <1>1, <2>4, <2>5
    <3>5. Placed(tasks', running', Held)
      BY <1>1, <3>1 DEF Same
    <3> QED BY <1>5, <2>4, <3>2, <3>3, <3>4, <3>5
  <2>6. CASE h # Nobody
    <3>1. /\ DispatchStep(p, "next", "next") /\ running' = running
          /\ frame' = [frame EXCEPT !.handles = s, !.pending_count = @ + 1]
          /\ tasks' = tasks \cup ToDispatch(h, "next")
      BY <1>14, <2>1, <2>6 DEF DispatchNext
    <3>2. frame' \in FrameType /\ frame'.handles = s
      <4>1. PICK n \in Int : n = frame.pending_count + 1
        BY <1>3 DEF FrameType
      <4>2. frame' = [frame EXCEPT !.handles = s, !.pending_count = n]
        BY <3>1, <4>1
      <4> QED BY <1>3, <2>4, <4>2 DEF FrameType
    <3>3. Marks(caller', s)
      BY <1>6, <2>3, <2>4, <2>6, <3>1
    <3>4. ToSet(s) \ {Nobody} = Held \ {h} /\ {h} \subseteq Held
      BY <1>1, <2>4, <2>6
    <3>5. Placed(tasks', running', Held \ {h})
      <4>1. PICK new : new = Dispatched({h}, "next")
        OBVIOUS
      <4>2. new = ToDispatch(h, "next")
        BY <4>1 DEF Dispatched, ToDispatch
      <4>3. PICK held, D : held = Held /\ D = {h}
        OBVIOUS
      <4>4. Placed(tasks, running, held) /\ D \subseteq held /\ new = Dispatched(D, "next")
        BY <1>1, <3>4, <4>1, <4>3
      <4>5. Placed(tasks \cup new, running, held \ D)
        BY <4>4, Dispatches
      <4> QED BY <3>1, <4>2, <4>3, <4>5
    <3> QED BY <1>5, <2>4, <3>2, <3>3, <3>4, <3>5
  <2> QED BY <2>5, <2>6
<1> QED BY <1>9, <1>10, <1>11, <1>12, <1>13, <1>14

LEMMA PipeIs == PipeBalanced <=> BalancedNow
BY DEF PipeBalanced, BalancedNow, Balanced, Emplacing, Receiving, Pushing, All

\* Without a pipe nobody is counted.
LEMMA NoPipe == KindInv /\ kind # "pipe" => BalancedNow
<1> SUFFICES ASSUME KindInv, kind # "pipe" PROVE BalancedNow
  OBVIOUS
<1>1. pipe = [prepared_count |-> 0, waiting_count |-> 0, handles |-> <<>>, elements |-> <<>>]
  BY DEF KindInv
<1>2. {t \in All : t.op = "receive"} = {}
  <2>1. kind \in {"await", "event", "barrier", "frame"} /\ \A t \in All : t.op \in OpsOf[kind]
    BY Ops DEF KindInv
  <2>2. "receive" \notin OpsOf[kind]
    BY <2>1, Ops
  <2> QED BY <2>1, <2>2
<1>3. {p \in Callers : caller[p] \in Pushing} = {} /\ {p \in Callers : caller[p] \in {"take"}} = {}
  <2>1. "flush" \notin CallsOf[kind] /\ "prepare" \notin CallsOf[kind] /\ "take" \notin CallsOf[kind]
    <3>1. kind \in {"await", "event", "barrier", "frame"}
      BY Ops DEF KindInv
    <3>2. CallsOf[kind] = {"idle"} \/ CallsOf[kind] = {"idle", "test", "wait", "clear", "running", "next", "done"}
      BY <3>1, Ops
    <3> QED BY <3>2
  <2>2. \A p \in Callers : caller[p] \in CallsOf[kind]
    BY DEF KindInv
  <2> QED BY <2>1, <2>2 DEF Pushing
<1>4. Receiving(All) = 0 /\ Emplacing(caller, Pushing) = 0 /\ Emplacing(caller, {"take"}) = 0
  BY <1>2, <1>3, FS_EmptySet DEF Receiving, Emplacing
<1>5. pipe.waiting_count = 0 /\ pipe.prepared_count = 0 /\ Len(pipe.handles) = 0 /\ Len(pipe.elements) = 0
  BY <1>1
<1> QED BY <1>4, <1>5 DEF BalancedNow, Balanced

LEMMA NoEvent == KindInv /\ kind # "event" => EventLeavesNobody
BY DEF KindInv, EventLeavesNobody


LEMMA NoAwaits ==
  ASSUME kind # "await", KindInv, Next
  PROVE  Syncs \/ (\E t \in tasks : Starts(t)) \/ (\E t \in running : Returns(t))
<1>1. ~Awaits
  BY DEF Awaits
<1>2. \A c \in Coroutines : ~Waits(c)
  BY DEF Waits, Wait, KindInv
<1> QED BY <1>1, <1>2 DEF Next

LEMMA EventKeeps ==
  ASSUME kind = "event", KindInv, KindInv', SyncInv, EventLeavesNobody, Next
  PROVE  SyncInv' /\ EventLeavesNobody'
<1>1. Syncs \/ (\E t \in tasks : Starts(t)) \/ (\E t \in running : Returns(t))
  BY NoAwaits
<1>2. ASSUME Syncs PROVE SyncInv' /\ EventLeavesNobody'
  <2>1. SyncInv'
    BY <1>2, EventSteps
  <2>2. EventNext
    BY <1>2 DEF Syncs
  <2>3. EventLeavesNobody'
    <3>1. event \in [signaled : BOOLEAN, handles : SUBSET Infos]
      BY SyncParts DEF Lists
    <3>2. CASE notify
      BY <3>2 DEF notify, EventLeavesNobody
    <3>3. CASE reset
      <4>1. event' = [event EXCEPT !.signaled = FALSE]
        BY <3>3 DEF reset
      <4>2. event'.signaled = FALSE
        BY <3>1, <4>1
      <4> QED BY <4>2 DEF EventLeavesNobody
    <3>4. ASSUME NEW t \in running, Event(t) PROVE EventLeavesNobody'
      BY <3>4 DEF Event, EventLeavesNobody
    <3>5. ASSUME NEW t \in running, EventWait(t) PROVE EventLeavesNobody'
      <4>1. CASE event.signaled
        BY <3>5, <4>1 DEF EventWait, EventLeavesNobody
      <4>2. CASE ~event.signaled
        <5>1. event' = [event EXCEPT !.handles = @ \cup {Info(t)}]
          BY <3>5, <4>2 DEF EventWait
        <5>2. event'.signaled = event.signaled
          BY <3>1, <5>1
        <5> QED BY <4>2, <5>2 DEF EventLeavesNobody
      <4> QED BY <4>1, <4>2
    <3> QED BY <2>2, <3>2, <3>3, <3>4, <3>5 DEF EventNext
  <2> QED BY <2>1, <2>3
<1>3. ASSUME (\E t \in tasks : Starts(t)) \/ (\E t \in running : Returns(t)) PROVE SyncInv' /\ EventLeavesNobody'
  <2>1. SyncInv' /\ event' = event
    BY <1>3, SyncCommon, CommonSteps DEF svars
  <2> QED BY <2>1 DEF EventLeavesNobody
<1> QED BY <1>1, <1>2, <1>3

LEMMA PipeKeeps ==
  ASSUME kind = "pipe", KindInv, KindInv', SyncInv, BalancedNow, Next
  PROVE  SyncInv' /\ BalancedNow'
<1>1. Syncs \/ (\E t \in tasks : Starts(t)) \/ (\E t \in running : Returns(t))
  BY NoAwaits
<1>2. ASSUME Syncs PROVE SyncInv' /\ BalancedNow'
  <2>1. PipeNext /\ UNCHANGED <<kind, aw>>
    BY <1>2 DEF Syncs
  <2> QED BY <2>1, PipeThreads, PipeCalls DEF PipeNext
<1>3. ASSUME (\E t \in tasks : Starts(t)) \/ (\E t \in running : Returns(t)) PROVE SyncInv' /\ BalancedNow'
  <2>1. SyncInv' /\ UNCHANGED <<pipe, caller>>
    BY <1>3, SyncCommon, CommonSteps DEF svars
  <2>2. \A x : x.op = "receive" => (x \in All' <=> x \in All)
    <3>1. CASE \E t \in tasks : tasks' = tasks \ {t} /\ running' = running \cup {t}
      BY <3>1 DEF All
    <3>2. CASE \E t \in running : t.op \in {"body", "notify"} /\ tasks' = tasks /\ running' = running \ {t}
      BY <3>2 DEF All
    <3> QED BY <1>3, <3>1, <3>2, CommonSteps
  <2>3. Receiving(All') = Receiving(All)
    <3>1. {x \in All' : x.op = "receive"} = {x \in All : x.op = "receive"}
      BY <2>2
    <3> QED BY <3>1 DEF Receiving
  <2> QED BY <2>1, <2>3 DEF BalancedNow, Balanced
<1> QED BY <1>1, <1>2, <1>3

LEMMA FrameKeeps ==
  ASSUME kind = "frame", KindInv, KindInv', SyncInv, FrameInv, Next
  PROVE  SyncInv' /\ FrameInv'
<1>1. Syncs \/ (\E t \in tasks : Starts(t)) \/ (\E t \in running : Returns(t))
  BY NoAwaits
<1>2. ASSUME Syncs PROVE SyncInv' /\ FrameInv'
  <2>1. FrameNext /\ UNCHANGED <<kind, aw>>
    BY <1>2 DEF Syncs
  <2> QED BY <2>1, FrameThreads, FrameCalls DEF FrameNext
<1>3. ASSUME (\E t \in tasks : Starts(t)) \/ (\E t \in running : Returns(t)) PROVE SyncInv' /\ FrameInv'
  <2>1. SyncInv' /\ UNCHANGED <<frame, caller, kind>>
    BY <1>3, SyncCommon, CommonSteps DEF svars
  <2> QED BY <2>1 DEF FrameInv
<1> QED BY <1>1, <1>2, <1>3

(* What holds at first. *)
LEMMA AtFirst ==
  ASSUME Init
  PROVE  /\ running = {} /\ Parked = {} /\ Taken = {} /\ Held = {} /\ yield_max \in Nat \ {0}
         /\ Placed(tasks, {}, {}) /\ Lists /\ Homes /\ KindInv
         /\ \A t \in tasks : t.op = "body"
         /\ barrier.yield_count = 0 /\ barrier.resume_count = 0 /\ barrier.firsts = 0
         /\ barrier.passed = [c \in Coroutines |-> 0]
         /\ kind # "await" => left = [c \in Coroutines |-> MaxAwaits[kind]]
         /\ caller = [p \in Callers |-> "idle"]
<1>1. /\ running = {} /\ caller = [p \in Callers |-> "idle"]
      /\ kind # "await" => left = [c \in Coroutines |-> MaxAwaits[kind]]
      /\ event = [signaled |-> FALSE, handles |-> {}]
      /\ pipe = [prepared_count |-> 0, waiting_count |-> 0, handles |-> <<>>, elements |-> <<>>]
      /\ barrier = [yield_count |-> 0, resume_count |-> 0, firsts |-> 0, passed |-> [c \in Coroutines |-> 0],
                    handles |-> [i \in 1 .. yield_max |-> Nobody], early |-> FALSE]
      /\ frame = [handles |-> <<>>, pending_count |-> 0, complete |-> FALSE, terminated |-> FALSE]
  BY DEF Init, TasksInit, SyncInit, yield_max
<1>2. KindInv
  BY KindAtFirst
<1>3. yield_max \in Nat \ {0}
  BY SyncAssumption, FS_CardinalityType, FS_EmptySet DEF yield_max
<1>4. Parked = {} /\ Taken = {}
  BY <1>1, <1>3 DEF Parked, Taken, Opening
<1>5. Held = {}
  BY <1>1, <1>4, NoHandles DEF Held, Handles
<1>6. Lists
  <2>1. event \in [signaled : BOOLEAN, handles : SUBSET Infos]
    BY <1>1
  <2>2. pipe \in [prepared_count : Nat, waiting_count : Nat, handles : Seq(Infos), elements : Seq(Callers)]
    BY <1>1
  <2>3. barrier \in BarrierType
    BY <1>1 DEF BarrierType
  <2>4. frame \in [handles : Seq(Infos \cup {Nobody}), pending_count : Int, complete : BOOLEAN, terminated : BOOLEAN]
    BY <1>1
  <2>5. Once(pipe.handles) /\ Once(frame.handles)
    BY <1>1, NoHandles
  <2> QED BY <2>1, <2>2, <2>3, <2>4, <2>5 DEF Lists
<1>7. aw = [c \in Coroutines |-> NoAwait((CHOOSE t \in tasks : t.c = c).at, FALSE)]
  BY DEF Init, AwaitInit
<1>8. Homes
  <2> SUFFICES ASSUME NEW c \in Coroutines PROVE aw[c].pending = 0 /\ aw[c].done = {} /\ aw[c].targets = <<>>
    BY DEF Homes
  <2>1. PICK place : aw[c] = NoAwait(place, FALSE)
    BY <1>7
  <2> QED BY <2>1 DEF NoAwait
<1>9. ASSUME NEW t \in tasks PROVE t.at = aw[t.c].caller
  <2>1. t.c \in Coroutines /\ \A u \in tasks : u.c = t.c => u = t
    BY FirstTasks
  <2>2. (CHOOSE u \in tasks : u.c = t.c) = t
    BY <2>1
  <2>3. aw[t.c] = NoAwait(t.at, FALSE)
    BY <1>7, <2>1, <2>2
  <2> QED BY <2>3 DEF NoAwait
<1>10. \A t \in tasks : t.c \in Coroutines /\ t.k = 0 /\ t.at \in Places /\ t.op = "body"
  BY FirstTasks
<1>11. \A t, u \in tasks : t.c = u.c => t = u
  BY FirstTasks
<1>12. Placed(tasks, {}, {})
  BY <1>9, <1>10, <1>11 DEF Placed, Unique, Typed
<1> QED BY <1>1, <1>2, <1>3, <1>4, <1>5, <1>6, <1>8, <1>10, <1>12

LEMMA SyncAtFirst == Init => SyncInv /\ FrameInv /\ EventLeavesNobody
<1> SUFFICES ASSUME Init PROVE SyncInv /\ FrameInv /\ EventLeavesNobody
  OBVIOUS
<1>1. Placed(tasks, running, Held) /\ Lists /\ Homes
  BY AtFirst
<1>2. SyncInv
  BY <1>1 DEF SyncInv, TypeInv, UniqueInv, HomeInv, Placed, Typed, Lists, Homes, All
<1>3. FrameInv
  BY AtFirst DEF FrameInv
<1>4. EventLeavesNobody
  BY DEF Init, SyncInit, EventLeavesNobody
<1> QED BY <1>2, <1>3, <1>4

LEMMA BalancedAtFirst == Init => BalancedNow
<1> SUFFICES ASSUME Init PROVE BalancedNow
  OBVIOUS
<1>1. pipe = [prepared_count |-> 0, waiting_count |-> 0, handles |-> <<>>, elements |-> <<>>]
  BY DEF Init, SyncInit
<1>2. {t \in All : t.op = "receive"} = {}
  BY AtFirst DEF All
<1>3. {p \in Callers : caller[p] \in Pushing} = {} /\ {p \in Callers : caller[p] \in {"take"}} = {}
  BY AtFirst DEF Pushing
<1>4. Receiving(All) = 0 /\ Emplacing(caller, Pushing) = 0 /\ Emplacing(caller, {"take"}) = 0
  BY <1>2, <1>3, FS_EmptySet DEF Receiving, Emplacing
<1>5. pipe.waiting_count = 0 /\ pipe.prepared_count = 0 /\ Len(pipe.handles) = 0 /\ Len(pipe.elements) = 0
  BY <1>1
<1> QED BY <1>4, <1>5 DEF BalancedNow, Balanced

(* The barrier, of a record b and running threads r. *)
TakenOf(y, r) ==
  {i \in 1 .. yield_max : i <= y \/ (i < yield_max /\ \E t \in r : t.op = "release" /\ t.k <= i)}
ParkedOf(y, r) == {i \in TakenOf(y, r) : \A t \in r : t.op = "store" => t.k # i}
HeldOf(b, r) == {b.handles[i] : i \in ParkedOf(b.yield_count, r)}
Seat(b, r, c, i) ==
  \/ \E t \in r : t.c = c /\ t.op = "store" /\ t.k = i
  \/ i \in ParkedOf(b.yield_count, r) /\ b.handles[i].c = c
Apart(r) == \A t, u \in r : t.at = u.at /\ t.at \in Warps => t = u
Gate(b, r) ==
  /\ Apart(r)
  /\ b.yield_count <= yield_max
  /\ \A t, u \in r : t.op = "release" /\ u.op = "release" => t = u
  /\ \A t \in r : t.op = "release" =>
       t.k \in 1 .. yield_max /\ b.yield_count < t.k /\ b.handles[yield_max] = Info(t)
  /\ \A t \in r : t.op = "store" => t.k \in TakenOf(b.yield_count, r)
  /\ \A t, u \in r : t.op = "store" /\ u.op = "store" /\ t.k = u.k => t = u
  /\ \A i, j \in ParkedOf(b.yield_count, r) : b.handles[i] = b.handles[j] => i = j
\* Who is passing, and who is arriving.
Through(threads, b, r) ==
  {c \in Coroutines : \/ \E t \in threads : t.c = c /\ t.op \in {"count", "release"}
                      \/ \E i \in TakenOf(b.yield_count, r) : i > b.yield_count /\ Seat(b, r, c, i)}
Coming(b, r) == {c \in Coroutines : \E i \in TakenOf(b.yield_count, r) : i <= b.yield_count /\ Seat(b, r, c, i)}
Rounds(g, P, A, b, l) ==
  /\ \A c \in Coroutines :
       /\ b.passed[c] = IF c \in P THEN g - 1 ELSE g
       /\ MaxAwaits["barrier"] - l[c] = IF c \in A THEN g + 1 ELSE g
  /\ IF b.resume_count = 0
     THEN \A c \in Coroutines : b.passed[c] = b.firsts
     ELSE b.firsts = g /\ \E c \in Coroutines : b.passed[c] = g

LEMMA BarrierNow ==
  ASSUME kind = "barrier", KindInv, SyncInv, BarrierInv
  PROVE  /\ Placed(tasks, running, HeldOf(barrier, running)) /\ Held = HeldOf(barrier, running)
         /\ barrier \in BarrierType /\ Lists /\ Homes /\ Gate(barrier, running)
         /\ \E g \in 0 .. MaxAwaits["barrier"] :
              Rounds(g, Through(All, barrier, running), Coming(barrier, running), barrier, left)
<1>1. Taken = TakenOf(barrier.yield_count, running)
  BY DEF Taken, Opening, TakenOf
<1>2. Parked = ParkedOf(barrier.yield_count, running)
  BY <1>1 DEF Parked, Storing, ParkedOf
<1>3. Held = HeldOf(barrier, running)
  BY <1>2, HeldIs DEF HeldOf
<1>4. Placed(tasks, running, Held) /\ Lists /\ Homes
  BY SyncParts
<1>5. barrier \in BarrierType
  BY <1>4 DEF Lists
<1>6. Gate(barrier, running)
  BY <1>1, <1>2, Zenon DEF BarrierInv, Gate, Apart, Stores, Releases
<1>7. PICK g \in 0 .. MaxAwaits["barrier"] : Round(g)
  BY DEF BarrierInv
<1>8. \A c, i : Sits(c, i) <=> Seat(barrier, running, c, i)
  BY <1>2 DEF Sits, Seat
<1>9. ASSUME NEW c \in Coroutines
      PROVE  /\ Passing(c) <=> c \in Through(All, barrier, running)
             /\ Arriving(c) <=> c \in Coming(barrier, running)
  BY <1>1, <1>8 DEF Passing, Arriving, Through, Coming
<1>10. Rounds(g, Through(All, barrier, running), Coming(barrier, running), barrier, left)
  BY <1>7, <1>9 DEF Round, Rounds, Arrived
<1> QED BY <1>3, <1>4, <1>5, <1>6, <1>10

LEMMA BarrierThen ==
  ASSUME kind' = "barrier", KindInv', UNCHANGED <<aw, event, pipe, frame>>, Lists, Homes,
         barrier' \in BarrierType, Gate(barrier', running'),
         Placed(tasks', running', HeldOf(barrier', running')),
         NEW g \in 0 .. MaxAwaits["barrier"],
         Rounds(g, Through(All', barrier', running'), Coming(barrier', running'), barrier', left')
  PROVE  SyncInv' /\ BarrierInv'
<1>1. Taken' = TakenOf(barrier'.yield_count, running')
  BY DEF Taken, Opening, TakenOf
<1>2. Parked' = ParkedOf(barrier'.yield_count, running')
  BY <1>1 DEF Parked, Storing, ParkedOf
<1>3. Held' = HeldOf(barrier', running')
  BY <1>2, HeldNext DEF HeldOf
<1>4. Lists'
  BY DEF Lists, BarrierType
<1>5. SyncInv'
  BY <1>3, <1>4, SyncNext
<1>6. \A c, i : Sits(c, i)' <=> Seat(barrier', running', c, i)
  BY <1>2 DEF Sits, Seat
<1>7. ASSUME NEW c \in Coroutines
      PROVE  /\ Passing(c)' <=> c \in Through(All', barrier', running')
             /\ Arriving(c)' <=> c \in Coming(barrier', running')
  BY <1>1, <1>6 DEF Passing, Arriving, Through, Coming
<1>8. Round(g)'
  BY <1>7 DEF Round, Rounds, Arrived
<1>9. BarrierInv'
  <2>1. \E x \in 0 .. MaxAwaits[kind'] : Round(x)'
    BY <1>8
  <2> QED BY <1>1, <1>2, <2>1 DEF BarrierInv, Gate, Apart, Stores, Releases
<1> QED BY <1>5, <1>9

\* A coroutine has one place, and each place that is taken one coroutine.
LEMMA Seated ==
  ASSUME NEW b \in BarrierType, NEW q, NEW r, Placed(q, r, HeldOf(b, r)), Gate(b, r)
  PROVE  /\ \A c, i : Seat(b, r, c, i) => c \in Coroutines /\ i \in TakenOf(b.yield_count, r)
         /\ \A c, i, j : Seat(b, r, c, i) /\ Seat(b, r, c, j) => i = j
         /\ \A c, d, i : Seat(b, r, c, i) /\ Seat(b, r, d, i) => c = d
         /\ \A i \in TakenOf(b.yield_count, r) : \E c \in Coroutines : Seat(b, r, c, i)
         /\ \A c, i : Seat(b, r, c, i) => \A x \in q \cup r : x.c = c => x \in r /\ x.op = "store" /\ x.k = i
         /\ \A c, i : Seat(b, r, c, i) /\ i \notin ParkedOf(b.yield_count, r)
                        => \E t \in r : t.c = c /\ t.op = "store" /\ t.k = i
<1>1. PICK P, held : P = ParkedOf(b.yield_count, r) /\ held = HeldOf(b, r)
  OBVIOUS
<1>2. \A i \in P : b.handles[i] \in held
  BY <1>1 DEF HeldOf
<1>3. /\ \A h \in held : h.c \in Coroutines
      /\ \A t, u \in q \cup r : t.c = u.c => t = u
      /\ \A h, k \in held : h.c = k.c => h = k
      /\ \A t \in q \cup r, h \in held : t.c # h.c
      /\ \A t \in q \cup r : t.c \in Coroutines
  BY <1>1 DEF Placed, Unique, Infos, Typed
<1>4. /\ \A t \in r : t.op = "store" => t.k \in TakenOf(b.yield_count, r) /\ t.k \notin P
      /\ \A t, u \in r : t.op = "store" /\ u.op = "store" /\ t.k = u.k => t = u
      /\ \A i, j \in P : b.handles[i] = b.handles[j] => i = j
      /\ P \subseteq TakenOf(b.yield_count, r)
      /\ \A i \in TakenOf(b.yield_count, r) : i \in P \/ \E t \in r : t.op = "store" /\ t.k = i
  BY <1>1 DEF Gate, ParkedOf
<1>5. \A c, i : Seat(b, r, c, i)
               <=> (\E t \in r : t.c = c /\ t.op = "store" /\ t.k = i) \/ (i \in P /\ b.handles[i].c = c)
  BY <1>1 DEF Seat
<1>6. ASSUME NEW c, NEW i, NEW j, Seat(b, r, c, i), Seat(b, r, c, j) PROVE i = j
  BY <1>2, <1>3, <1>4, <1>5, <1>6
<1>7. ASSUME NEW c, NEW d, NEW i, Seat(b, r, c, i), Seat(b, r, d, i) PROVE c = d
  BY <1>4, <1>5, <1>7
<1>8. ASSUME NEW c, NEW i, Seat(b, r, c, i)
      PROVE  /\ c \in Coroutines /\ i \in TakenOf(b.yield_count, r)
             /\ \A x \in q \cup r : x.c = c => x \in r /\ x.op = "store" /\ x.k = i
             /\ i \notin P => \E t \in r : t.c = c /\ t.op = "store" /\ t.k = i
  <2>1. CASE \E t \in r : t.c = c /\ t.op = "store" /\ t.k = i
    BY <1>3, <1>4, <2>1
  <2>2. CASE i \in P /\ b.handles[i].c = c
    BY <1>2, <1>3, <1>4, <2>2
  <2> QED BY <1>5, <1>8, <2>1, <2>2
<1>9. ASSUME NEW i \in TakenOf(b.yield_count, r) PROVE \E c \in Coroutines : Seat(b, r, c, i)
  <2>1. CASE i \in P
    <3>1. Seat(b, r, b.handles[i].c, i) /\ b.handles[i].c \in Coroutines
      BY <1>2, <1>3, <1>5, <2>1
    <3> QED BY <3>1
  <2>2. ASSUME NEW t \in r, t.op = "store", t.k = i PROVE \E c \in Coroutines : Seat(b, r, c, i)
    <3>1. Seat(b, r, t.c, i) /\ t.c \in Coroutines
      BY <1>3, <1>5, <2>2
    <3> QED BY <3>1
  <2> QED BY <1>4, <2>1, <2>2
<1> QED BY <1>1, <1>6, <1>7, <1>8, <1>9

\* If all places are taken, the last one be it by the thread that releases, every coroutine is there.
LEMMA Everybody ==
  ASSUME NEW b \in BarrierType, NEW q, NEW r, Placed(q, r, HeldOf(b, r)), Gate(b, r),
         \A i \in 1 .. yield_max : \/ i \in TakenOf(b.yield_count, r)
                                   \/ i = yield_max /\ \E t \in r : t.op = "release"
  PROVE  \A c \in Coroutines : \/ \E i \in 1 .. yield_max : Seat(b, r, c, i)
                               \/ \E t \in r : t.c = c /\ t.op = "release"
<1>1. PICK n, T : n \in Nat \ {0} /\ n = yield_max /\ T = TakenOf(b.yield_count, r)
  BY SyncAssumption, FS_CardinalityType, FS_EmptySet DEF yield_max
<1> DEFINE There(i, c) == Seat(b, r, c, i) \/ (i \notin T /\ \E t \in r : t.c = c /\ t.op = "release")
           f == [i \in 1 .. n |-> CHOOSE c \in Coroutines : There(i, c)]
<1>2. /\ \A c, i : Seat(b, r, c, i) => c \in Coroutines /\ i \in T
      /\ \A c, i, j : Seat(b, r, c, i) /\ Seat(b, r, c, j) => i = j
      /\ \A i \in T : \E c \in Coroutines : Seat(b, r, c, i)
      /\ \A c, i : Seat(b, r, c, i) => \A x \in q \cup r : x.c = c => x.op = "store"
  BY <1>1, Seated
<1>3. \A t \in r : t.c \in Coroutines
  BY DEF Placed, Typed
<1>4. \A i \in 1 .. n : i \in T \/ (i = n /\ \E t \in r : t.op = "release")
  BY <1>1
<1>5. \A i \in 1 .. n : \E c \in Coroutines : There(i, c)
  BY <1>2, <1>3, <1>4
<1>6. \A i \in 1 .. n : f[i] \in Coroutines /\ There(i, f[i])
  BY <1>5
<1>7. f \in [1 .. n -> Coroutines]
  BY <1>6
<1>8. ASSUME NEW i \in 1 .. n, NEW j \in 1 .. n, NEW c, There(i, c), There(j, c) PROVE i = j
  <2>1. CASE Seat(b, r, c, i) /\ Seat(b, r, c, j)
    BY <1>2, <2>1
  <2>2. CASE i \notin T /\ j \notin T
    BY <1>4, <2>2
  <2>3. CASE Seat(b, r, c, i) /\ \E t \in r : t.c = c /\ t.op = "release"
    BY <1>2, <2>3
  <2>4. CASE Seat(b, r, c, j) /\ \E t \in r : t.c = c /\ t.op = "release"
    BY <1>2, <2>4
  <2> QED BY <1>8, <2>1, <2>2, <2>3, <2>4
<1> HIDE DEF f
<1>9. \A i, j \in 1 .. n : f[i] = f[j] => i = j
  BY <1>6, <1>8
<1>10. f \in Injection(1 .. n, Coroutines)
  BY <1>7, <1>9 DEF Injection, IsInjective
<1>11. Cardinality(1 .. n) = n
  BY <1>1, FS_Interval
<1>12. f \in Surjection(1 .. n, Coroutines)
  BY <1>1, <1>10, <1>11, FS_Injection, SyncAssumption DEF yield_max
<1>13. ASSUME NEW c \in Coroutines
       PROVE  (\E i \in 1 .. n : Seat(b, r, c, i)) \/ \E t \in r : t.c = c /\ t.op = "release"
  <2>1. PICK i \in 1 .. n : f[i] = c
    BY <1>12 DEF Surjection
  <2>2. There(i, c)
    BY <1>6, <2>1
  <2> QED BY <2>2
<1> QED BY <1>1, <1>13

\* There is room for a coroutine that comes.
LEMMA Room ==
  ASSUME NEW b \in BarrierType, NEW q, NEW r, Placed(q, r, HeldOf(b, r)), Gate(b, r), NEW t \in r, t.op = "body"
  PROVE  b.yield_count < yield_max /\ \A x \in r : x.op = "release" => b.yield_count + 1 < x.k
<1>1. PICK n, y : n \in Nat \ {0} /\ n = yield_max /\ y \in Nat /\ y = b.yield_count /\ y <= n
  BY SyncAssumption, FS_CardinalityType, FS_EmptySet DEF yield_max, BarrierType, Gate
<1>2. /\ \A i : ~Seat(b, r, t.c, i)
      /\ \A x \in r : x.c = t.c => x.op # "release"
      /\ t.c \in Coroutines
  <2>1. \A x \in r : x.c = t.c => x = t
    BY DEF Placed, Unique
  <2>2. \A i : ~Seat(b, r, t.c, i)
    BY Seated
  <2>3. t.c \in Coroutines
    BY DEF Placed, Typed
  <2> QED BY <2>1, <2>2, <2>3
<1>3. PICK i \in 1 .. n : i \notin TakenOf(y, r) /\ (i = n => \A x \in r : x.op # "release")
  <2>1. ASSUME \A i \in 1 .. n : i \in TakenOf(y, r) \/ (i = n /\ \E x \in r : x.op = "release") PROVE FALSE
    <3>1. \A i \in 1 .. yield_max : i \in TakenOf(b.yield_count, r) \/ (i = yield_max /\ \E x \in r : x.op = "release")
      BY <1>1, <2>1
    <3> QED BY <1>2, <3>1, Everybody
  <2> QED BY <2>1
<1>4. ~(i <= y)
  BY <1>1, <1>3 DEF TakenOf
<1>5. ASSUME NEW x \in r, x.op = "release" PROVE y + 1 < x.k
  <2>1. x.k \in 1 .. n /\ y < x.k
    BY <1>1, <1>5 DEF Gate
  <2>2. i # n
    BY <1>3, <1>5
  <2>3. ~(x.k <= i)
    BY <1>1, <1>3, <1>5, <2>2 DEF TakenOf
  <2> QED BY <1>1, <1>4, <2>1, <2>3
<1> QED BY <1>1, <1>4, <1>5

\* What neither comes, nor stores, nor releases leaves the places as they are.
LEMMA SeatsStay ==
  ASSUME NEW b, NEW r, NEW d, NEW s, d.yield_count = b.yield_count, d.handles = b.handles,
         \A x : x.op \in {"store", "release"} => (x \in r <=> x \in s)
  PROVE  /\ TakenOf(d.yield_count, s) = TakenOf(b.yield_count, r)
         /\ ParkedOf(d.yield_count, s) = ParkedOf(b.yield_count, r)
         /\ HeldOf(d, s) = HeldOf(b, r) /\ Coming(d, s) = Coming(b, r)
         /\ \A c, i : Seat(d, s, c, i) <=> Seat(b, r, c, i)
         /\ Gate(b, r) /\ Apart(s) => Gate(d, s)
<1>1. PICK y : y = b.yield_count /\ y = d.yield_count
  OBVIOUS
<1>2. TakenOf(y, s) = TakenOf(y, r)
  BY DEF TakenOf
<1>3. ParkedOf(y, s) = ParkedOf(y, r)
  BY <1>2 DEF ParkedOf
<1>4. HeldOf(d, s) = HeldOf(b, r)
  BY <1>1, <1>3 DEF HeldOf
<1>5. \A c, i : Seat(d, s, c, i) <=> Seat(b, r, c, i)
  BY <1>1, <1>3 DEF Seat
<1>6. Coming(d, s) = Coming(b, r)
  BY <1>1, <1>2, <1>5 DEF Coming
<1>7. ASSUME Gate(b, r), Apart(s) PROVE Gate(d, s)
  BY <1>1, <1>2, <1>3, <1>7 DEF Gate
<1> QED BY <1>1, <1>2, <1>3, <1>4, <1>5, <1>6, <1>7

\* A thread that goes on where it is keeps apart from the others.
LEMMA StaysApart ==
  ASSUME NEW r, Apart(r), NEW t \in r
  PROVE  /\ Apart(r \ {t})
         /\ \A u : u.at = t.at => Apart((r \ {t}) \cup {u})
BY DEF Apart

LEMMA BarrierCommon ==
  ASSUME kind = "barrier", KindInv, KindInv', SyncInv, BarrierInv,
         (\E t \in tasks : Starts(t)) \/ \E t \in running : Returns(t)
  PROVE  SyncInv' /\ BarrierInv'
<1>1. /\ Placed(tasks, running, HeldOf(barrier, running)) /\ Held = HeldOf(barrier, running)
      /\ barrier \in BarrierType /\ Lists /\ Homes /\ Gate(barrier, running)
  BY BarrierNow
<1>2. PICK g \in 0 .. MaxAwaits["barrier"] :
        Rounds(g, Through(All, barrier, running), Coming(barrier, running), barrier, left)
  BY BarrierNow
<1>3. SyncInv' /\ Held' = Held /\ UNCHANGED <<kind, aw, svars, left>>
  BY SyncCommon, CommonSteps
<1>4. UNCHANGED <<barrier, event, pipe, frame>>
  BY <1>3 DEF svars
<1>5. \A x : x.op \in {"store", "release"} => (x \in running <=> x \in running')
  BY CommonSteps, QueuedOps
<1>6. Apart(running')
  <2>1. CASE \E t \in tasks : /\ t.op \in QueuedOf[kind] /\ (t.at \in Warps => \A r \in running : r.at # t.at)
                              /\ tasks' = tasks \ {t} /\ running' = running \cup {t}
    BY <1>1, <2>1 DEF Gate, Apart
  <2>2. CASE \E t \in running : t.op \in {"body", "notify"} /\ tasks' = tasks /\ running' = running \ {t}
    BY <1>1, <2>2, StaysApart DEF Gate
  <2> QED BY <2>1, <2>2, CommonSteps
<1>7. PICK b : b = barrier /\ b = barrier'
  BY <1>4
<1>8. PICK r, s : r = running /\ s = running'
  OBVIOUS
<1>9. /\ TakenOf(b.yield_count, s) = TakenOf(b.yield_count, r)
      /\ HeldOf(b, s) = HeldOf(b, r) /\ Coming(b, s) = Coming(b, r)
      /\ \A c, i : Seat(b, s, c, i) <=> Seat(b, r, c, i)
      /\ Gate(b, r) /\ Apart(s) => Gate(b, s)
  BY <1>5, <1>8, SeatsStay
<1>10. Placed(tasks', running', Held)
  BY <1>3, SyncParts DEF SyncInv, TypeInv, UniqueInv, HomeInv, Placed, Typed, All
<1>11. \A t : t.op \in {"count", "release"} => (t \in All' <=> t \in All)
  <2>1. CASE \E t \in tasks : tasks' = tasks \ {t} /\ running' = running \cup {t}
    BY <2>1 DEF All
  <2>2. CASE \E t \in running : t.op \in {"body", "notify"} /\ tasks' = tasks /\ running' = running \ {t}
    BY <2>2 DEF All
  <2> QED BY <2>1, <2>2, CommonSteps
<1>12. Through(All', b, s) = Through(All, b, r)
  BY <1>9, <1>11 DEF Through
<1>13. Rounds(g, Through(All', barrier', running'), Coming(barrier', running'), barrier', left')
  BY <1>2, <1>3, <1>7, <1>8, <1>9, <1>12
<1>14. /\ barrier' \in BarrierType /\ Gate(barrier', running')
       /\ Placed(tasks', running', HeldOf(barrier', running'))
  BY <1>1, <1>6, <1>7, <1>8, <1>9, <1>10
<1> QED BY <1>1, <1>3, <1>4, <1>13, <1>14, BarrierThen

\* A coroutine takes the next place.
LEMMA BarrierArrives ==
  ASSUME kind = "barrier", KindInv, KindInv', SyncInv, BarrierInv, UNCHANGED <<kind, aw>>,
         NEW t \in running, Barrier(t)
  PROVE  SyncInv' /\ BarrierInv'
<1>1. /\ Placed(tasks, running, HeldOf(barrier, running))
      /\ barrier \in BarrierType /\ Lists /\ Homes /\ Gate(barrier, running)
  BY BarrierNow
<1>2. PICK g \in 0 .. MaxAwaits["barrier"] :
        Rounds(g, Through(All, barrier, running), Coming(barrier, running), barrier, left)
  BY BarrierNow
<1>3. PICK y, n, held : /\ y \in Nat /\ n \in Nat /\ y = barrier.yield_count /\ n = yield_max
                        /\ held = HeldOf(barrier, running)
  BY <1>1, SyncAssumption, FS_CardinalityType DEF BarrierType, yield_max
<1>4. /\ t.op = "body" /\ left' = [left EXCEPT ![t.c] = @ - 1] /\ UNCHANGED <<tasks, event, pipe, frame, caller>>
      /\ running' = (running \ {t}) \cup {[t EXCEPT !.op = "store", !.k = y + 1]}
      /\ barrier' = [barrier EXCEPT !.yield_count = y + 1]
  BY <1>3 DEF Barrier, Awaiting, At, BarrierVars
<1>5. Whole(t) /\ t.c \in Coroutines /\ t.at \in Places
  BY <1>1 DEF KindInv, All, Placed, Typed
<1>6. PICK u : u = [c |-> t.c, op |-> "store", k |-> y + 1, at |-> t.at, on |-> t.on, first |-> t.first]
  OBVIOUS
<1>7. u.c = t.c /\ u.op = "store" /\ u.k = y + 1 /\ u.at = t.at
  BY <1>6
<1>8. running' = (running \ {t}) \cup {u}
  <2>1. [t EXCEPT !.op = "store", !.k = y + 1]
          = [c |-> t.c, op |-> "store", k |-> y + 1, at |-> t.at, on |-> t.on, first |-> t.first]
    BY <1>5, ChangeBoth, Zenon
  <2> QED BY <1>4, <1>6, <2>1
<1>9. PICK b, d, r, s : b = barrier /\ d = barrier' /\ r = running /\ s = running' /\ s = (r \ {t}) \cup {u} /\ t \in r
  BY <1>8
<1>10. /\ d \in BarrierType /\ d.yield_count = y + 1 /\ d.resume_count = b.resume_count
       /\ d.firsts = b.firsts /\ d.passed = b.passed /\ d.handles = b.handles
  <2>1. y + 1 \in Nat
    BY <1>3
  <2>2. d = [b EXCEPT !.yield_count = y + 1]
    BY <1>4, <1>9
  <2>3. d \in BarrierType
    BY <1>1, <1>9, <2>1, <2>2 DEF BarrierType
  <2> QED BY <1>1, <1>9, <2>2, <2>3 DEF BarrierType
<1>11. y < n /\ \A x \in r : x.op = "release" => x.k \in 1 .. n /\ y + 1 < x.k
  BY <1>1, <1>3, <1>4, <1>9, Room DEF Gate
<1>12. TakenOf(y + 1, s) = TakenOf(y, r) \cup {y + 1} /\ y + 1 \notin TakenOf(y, r)
  <2>1. \A x : x.op = "release" => (x \in r <=> x \in s)
    BY <1>4, <1>7, <1>9
  <2>2. TakenOf(y + 1, s) = {i \in 1 .. n : i <= y + 1 \/ (i < n /\ \E x \in r : x.op = "release" /\ x.k <= i)}
    BY <1>3, <2>1 DEF TakenOf
  <2>3. TakenOf(y, r) = {i \in 1 .. n : i <= y \/ (i < n /\ \E x \in r : x.op = "release" /\ x.k <= i)}
    BY <1>3 DEF TakenOf
  <2>4. \A i \in 1 .. n : i <= y + 1 <=> i <= y \/ i = y + 1
    BY <1>3
  <2>5. y + 1 \in 1 .. n /\ ~(y + 1 <= y) /\ \A x \in r : x.op = "release" => ~(x.k <= y + 1)
    BY <1>3, <1>11
  <2> QED BY <2>2, <2>3, <2>4, <2>5
<1>13. ParkedOf(y + 1, s) = ParkedOf(y, r)
  <2>1. \A i : i # y + 1 => ((\A x \in s : x.op = "store" => x.k # i) <=> (\A x \in r : x.op = "store" => x.k # i))
    BY <1>4, <1>7, <1>9
  <2>2. ~(\A x \in s : x.op = "store" => x.k # y + 1)
    BY <1>7, <1>9
  <2> QED BY <1>12, <2>1, <2>2 DEF ParkedOf
<1>14. HeldOf(d, s) = held
  BY <1>3, <1>9, <1>10, <1>13 DEF HeldOf
<1>15. Placed(tasks', running', held)
  <2>1. Placed(tasks, running, held) /\ u.k \in Nat
    BY <1>1, <1>3, <1>7
  <2>2. Placed(tasks, (running \ {t}) \cup {u}, held)
    BY <1>7, <2>1, GoesOn
  <2> QED BY <1>4, <1>8, <2>2
<1>16. \A c, i : Seat(d, s, c, i) <=> Seat(b, r, c, i) \/ (c = t.c /\ i = y + 1)
  <2>1. \A x : x.op = "store" => (x \in s <=> x \in r \/ x = u)
    BY <1>4, <1>7, <1>9
  <2>2. \A c, i : (\E x \in s : x.c = c /\ x.op = "store" /\ x.k = i)
                    <=> (\E x \in r : x.c = c /\ x.op = "store" /\ x.k = i) \/ (c = t.c /\ i = y + 1)
    BY <1>7, <1>9, <2>1
  <2>3. \A c, i : Seat(d, s, c, i) <=> \/ \E x \in s : x.c = c /\ x.op = "store" /\ x.k = i
                                       \/ i \in ParkedOf(y, r) /\ b.handles[i].c = c
    BY <1>10, <1>13 DEF Seat
  <2>4. \A c, i : Seat(b, r, c, i) <=> \/ \E x \in r : x.c = c /\ x.op = "store" /\ x.k = i
                                       \/ i \in ParkedOf(y, r) /\ b.handles[i].c = c
    BY <1>3, <1>9 DEF Seat
  <2> QED BY <2>2, <2>3, <2>4
<1>17. Gate(d, s)
  <2>1. /\ Apart(r) /\ \A x, z \in r : x.op = "release" /\ z.op = "release" => x = z
        /\ \A x \in r : x.op = "release" => x.k \in 1 .. yield_max /\ b.handles[yield_max] = Info(x)
        /\ \A x \in r : x.op = "store" => x.k \in TakenOf(y, r)
        /\ \A x, z \in r : x.op = "store" /\ z.op = "store" /\ x.k = z.k => x = z
        /\ \A i, j \in ParkedOf(y, r) : b.handles[i] = b.handles[j] => i = j
    BY <1>1, <1>3, <1>9 DEF Gate
  <2>2. Apart(s)
    BY <1>7, <1>9, <2>1 DEF Apart
  <2>3. d.yield_count <= yield_max
    BY <1>3, <1>10, <1>11
  <2>4. \A x \in s : x.op = "release" => x \in r
    BY <1>7, <1>9
  <2>5. \A x \in s : x.op = "release" =>
          x.k \in 1 .. yield_max /\ d.yield_count < x.k /\ d.handles[yield_max] = Info(x)
    BY <1>3, <1>10, <1>11, <2>1, <2>4
  <2>6. \A x \in s : x.op = "store" => x = u \/ (x \in r /\ x.k # y + 1)
    BY <1>9, <1>12, <2>1
  <2>7. \A x \in s : x.op = "store" => x.k \in TakenOf(d.yield_count, s)
    BY <1>7, <1>10, <1>12, <2>1, <2>6
  <2>8. \A x, z \in s : x.op = "store" /\ z.op = "store" /\ x.k = z.k => x = z
    BY <1>7, <2>1, <2>6
  <2>9. \A i, j \in ParkedOf(d.yield_count, s) : d.handles[i] = d.handles[j] => i = j
    BY <1>10, <1>13, <2>1
  <2> QED BY <2>1, <2>2, <2>3, <2>4, <2>5, <2>7, <2>8, <2>9 DEF Gate
\* Its coroutine is arriving now, and was neither passing nor arriving.
<1>18. PICK P, A : P = Through(All, b, r) /\ A = Coming(b, r)
  OBVIOUS
<1>19. /\ \A c, i : Seat(b, r, c, i) => i \in TakenOf(y, r)
       /\ \A i : ~Seat(b, r, t.c, i)
  <2>1. b \in BarrierType /\ Placed(tasks, r, HeldOf(b, r)) /\ Gate(b, r) /\ y = b.yield_count
    BY <1>1, <1>3, <1>9
  <2> QED BY <1>4, <1>9, <2>1, Seated
<1>20. \A i \in TakenOf(y, r) : i \in TakenOf(y + 1, s) /\ i \in Int /\ (i > y <=> i > y + 1) /\ (i <= y <=> i <= y + 1)
  <2>1. \A i \in TakenOf(y, r) : i \in 1 .. n /\ i # y + 1
    BY <1>3, <1>12 DEF TakenOf
  <2> QED BY <1>3, <1>12, <2>1
<1>21. Through(All', d, s) = P
  <2>1. \A x : x.op \in {"count", "release"} => (x \in All <=> x \in All')
    BY <1>4, <1>7, <1>8 DEF All
  <2>2. \A c : (\E i \in TakenOf(y + 1, s) : i > y + 1 /\ Seat(d, s, c, i))
                 <=> (\E i \in TakenOf(y, r) : i > y /\ Seat(b, r, c, i))
    BY <1>3, <1>16, <1>19, <1>20
  <2>3. y = b.yield_count /\ d.yield_count = y + 1
    BY <1>3, <1>9, <1>10
  <2>4. Through(All', d, s) = {c \in Coroutines : \/ \E x \in All' : x.c = c /\ x.op \in {"count", "release"}
                                                  \/ \E i \in TakenOf(y + 1, s) : i > y + 1 /\ Seat(d, s, c, i)}
    BY <2>3 DEF Through
  <2>5. P = {c \in Coroutines : \/ \E x \in All : x.c = c /\ x.op \in {"count", "release"}
                                \/ \E i \in TakenOf(y, r) : i > y /\ Seat(b, r, c, i)}
    BY <1>18, <2>3 DEF Through
  <2> QED BY <2>1, <2>2, <2>4, <2>5
<1>22. Coming(d, s) = A \cup {t.c} /\ t.c \notin A
  <2>1. \A c : (\E i \in TakenOf(y + 1, s) : i <= y + 1 /\ Seat(d, s, c, i))
                 <=> (\E i \in TakenOf(y, r) : i <= y /\ Seat(b, r, c, i)) \/ c = t.c
    BY <1>3, <1>12, <1>16, <1>19, <1>20
  <2>2. t.c \notin A
    BY <1>18, <1>19 DEF Coming
  <2> QED BY <1>3, <1>5, <1>9, <1>10, <1>18, <2>1, <2>2 DEF Coming
<1>23. Rounds(g, P, A \cup {t.c}, d, left')
  <2>1. Rounds(g, P, A, b, left)
    BY <1>2, <1>9, <1>18
  <2>2. /\ \A c \in Coroutines : left[c] \in Int /\ left'[c] = IF c = t.c THEN left[c] - 1 ELSE left[c]
        /\ MaxAwaits["barrier"] \in Nat
    BY <1>4, CoroutineAssumption DEF KindInv, Kinds
  <2>3. ASSUME NEW c \in Coroutines PROVE MaxAwaits["barrier"] - left'[c] = IF c \in A \cup {t.c} THEN g + 1 ELSE g
    <3>1. MaxAwaits["barrier"] - left[c] = IF c \in A THEN g + 1 ELSE g
      BY <2>1 DEF Rounds
    <3>2. CASE c = t.c
      BY <1>22, <2>2, <3>1, <3>2
    <3>3. CASE c # t.c
      BY <1>22, <2>2, <3>1, <3>3
    <3> QED BY <3>2, <3>3
  <2> QED BY <1>10, <2>1, <2>3 DEF Rounds
<1>24. kind' = "barrier" /\ UNCHANGED <<aw, event, pipe, frame>>
  BY <1>4
<1>25. Rounds(g, Through(All', barrier', running'), Coming(barrier', running'), barrier', left')
  BY <1>9, <1>21, <1>22, <1>23
<1> QED BY <1>1, <1>9, <1>10, <1>14, <1>15, <1>17, <1>24, <1>25, BarrierThen

\* One that is not the last leaves its handle.
LEMMA BarrierStores ==
  ASSUME kind = "barrier", KindInv, KindInv', SyncInv, BarrierInv, UNCHANGED <<kind, aw>>,
         NEW t \in running, Store(t), t.k # yield_max
  PROVE  SyncInv' /\ BarrierInv'
<1>1. /\ Placed(tasks, running, HeldOf(barrier, running))
      /\ barrier \in BarrierType /\ Lists /\ Homes /\ Gate(barrier, running)
  BY BarrierNow
<1>2. PICK g \in 0 .. MaxAwaits["barrier"] :
        Rounds(g, Through(All, barrier, running), Coming(barrier, running), barrier, left)
  BY BarrierNow
<1>3. PICK y, n, k, h, held : /\ n \in Nat /\ n = yield_max /\ y = barrier.yield_count /\ k = t.k /\ h = Info(t)
                              /\ held = HeldOf(barrier, running)
  BY SyncAssumption, FS_CardinalityType DEF yield_max
<1>4. t.op = "store" /\ k \in TakenOf(y, running) /\ k \in 1 .. n /\ k # n
  <2>1. t.op = "store"
    BY DEF Store, At
  <2>2. k \in TakenOf(y, running)
    BY <1>1, <1>3, <2>1 DEF Gate
  <2> QED BY <1>3, <2>1, <2>2 DEF TakenOf
<1>5. /\ UNCHANGED <<tasks, left, event, pipe, frame, caller>> /\ running' = running \ {t}
      /\ barrier' = [barrier EXCEPT !.handles[k] = h]
  <2>1. barrier' = [barrier EXCEPT !.handles[t.k] = Info(t)] /\ End(t, {})
    BY DEF Store
  <2>2. UNCHANGED <<left, event, pipe, frame, caller>>
    BY DEF Store, BarrierVars
  <2> QED BY <1>3, <2>1, <2>2 DEF End
<1>6. Placed(tasks', running', held \cup {h}) /\ h \in Infos /\ h \notin held /\ h.c = t.c
  <2>1. Placed(tasks, running, held)
    BY <1>1, <1>3
  <2>2. Placed(tasks, running \ {t}, held \cup {Info(t)}) /\ Info(t) \in Infos /\ Info(t) \notin held
    BY <2>1, Parks
  <2>3. Info(t).c = t.c
    BY DEF Info
  <2> QED BY <1>3, <1>5, <2>2, <2>3
<1>7. PICK b, d, r, s : b = barrier /\ d = barrier' /\ r = running /\ s = running' /\ s = r \ {t} /\ t \in r
  BY <1>5
<1>8. /\ d \in BarrierType /\ d.yield_count = y /\ d.resume_count = b.resume_count
      /\ d.firsts = b.firsts /\ d.passed = b.passed
      /\ \A i \in 1 .. n : d.handles[i] = IF i = k THEN h ELSE b.handles[i]
  <2>1. PICK f : f = [b.handles EXCEPT ![k] = h]
    OBVIOUS
  <2>2. f \in [1 .. n -> Infos \cup {Nobody}] /\ \A i \in 1 .. n : f[i] = IF i = k THEN h ELSE b.handles[i]
    BY <1>1, <1>3, <1>6, <1>7, <2>1 DEF BarrierType
  <2>3. d = [b EXCEPT !.handles = f]
    BY <1>5, <1>7, <2>1
  <2>4. d \in BarrierType
    BY <1>1, <1>3, <1>7, <2>2, <2>3 DEF BarrierType
  <2> QED BY <1>1, <1>3, <1>7, <2>2, <2>3 DEF BarrierType
<1>9. TakenOf(y, s) = TakenOf(y, r)
  <2>1. \A x : x.op = "release" => (x \in r <=> x \in s)
    BY <1>4, <1>7
  <2> QED BY <2>1 DEF TakenOf
<1>10. \A i : (\A x \in s : x.op = "store" => x.k # i) <=> i = k \/ (\A x \in r : x.op = "store" => x.k # i)
  <2>1. \A x \in r : x.op = "store" /\ x.k = k => x = t
    BY <1>1, <1>3, <1>4, <1>7 DEF Gate
  <2>2. \A x \in s : x.op = "store" => x.k # k
    BY <1>7, <2>1
  <2> QED BY <1>3, <1>7, <2>2
<1>11. ParkedOf(y, s) = ParkedOf(y, r) \cup {k} /\ k \notin ParkedOf(y, r)
  <2>1. ParkedOf(y, s) = {i \in TakenOf(y, r) : i = k \/ \A x \in r : x.op = "store" => x.k # i}
    BY <1>9, <1>10 DEF ParkedOf
  <2>2. k \in TakenOf(y, r) /\ ~(\A x \in r : x.op = "store" => x.k # k)
    BY <1>3, <1>4, <1>7
  <2> QED BY <2>1, <2>2 DEF ParkedOf
<1>12. \A i \in ParkedOf(y, s) : i \in 1 .. n
  BY <1>3 DEF ParkedOf, TakenOf
<1>13. HeldOf(d, s) = held \cup {h}
  <2>1. held = {b.handles[i] : i \in ParkedOf(y, r)} /\ HeldOf(d, s) = {d.handles[i] : i \in ParkedOf(y, s)}
    BY <1>3, <1>7, <1>8 DEF HeldOf
  <2> QED BY <1>8, <1>11, <1>12, <2>1
<1>14. \A c, i : Seat(d, s, c, i) <=> Seat(b, r, c, i)
  <2>1. \A x : x.op = "store" => (x \in r <=> x \in s \/ x = t)
    BY <1>4, <1>7
  <2>2. \A c, i : (\E x \in r : x.c = c /\ x.op = "store" /\ x.k = i)
                    <=> (\E x \in s : x.c = c /\ x.op = "store" /\ x.k = i) \/ (c = t.c /\ i = k)
    BY <1>3, <1>4, <1>7, <2>1
  <2>3. \A c, i : (i \in ParkedOf(y, s) /\ d.handles[i].c = c)
                    <=> (i \in ParkedOf(y, r) /\ b.handles[i].c = c) \/ (c = t.c /\ i = k)
    <3>1. d.handles[k].c = t.c
      BY <1>4, <1>6, <1>8
    <3>2. \A i \in ParkedOf(y, r) : d.handles[i] = b.handles[i]
      BY <1>8, <1>11, <1>12
    <3> QED BY <1>11, <3>1, <3>2
  <2>4. \A c, i : Seat(d, s, c, i) <=> \/ \E x \in s : x.c = c /\ x.op = "store" /\ x.k = i
                                       \/ i \in ParkedOf(y, s) /\ d.handles[i].c = c
    BY <1>8 DEF Seat
  <2>5. \A c, i : Seat(b, r, c, i) <=> \/ \E x \in r : x.c = c /\ x.op = "store" /\ x.k = i
                                       \/ i \in ParkedOf(y, r) /\ b.handles[i].c = c
    BY <1>3, <1>7 DEF Seat
  <2> QED BY <2>2, <2>3, <2>4, <2>5
<1>15. Gate(d, s)
  <2>1. /\ Apart(r) /\ y <= yield_max /\ \A x, z \in r : x.op = "release" /\ z.op = "release" => x = z
        /\ \A x \in r : x.op = "release" => x.k \in 1 .. yield_max /\ y < x.k /\ b.handles[yield_max] = Info(x)
        /\ \A x \in r : x.op = "store" => x.k \in TakenOf(y, r)
        /\ \A x, z \in r : x.op = "store" /\ z.op = "store" /\ x.k = z.k => x = z
        /\ \A i, j \in ParkedOf(y, r) : b.handles[i] = b.handles[j] => i = j
    BY <1>1, <1>3, <1>7 DEF Gate
  <2>2. Apart(s)
    BY <1>7, <2>1, StaysApart
  <2>3. ASSUME NEW x \in s, x.op = "release"
        PROVE  x.k \in 1 .. yield_max /\ d.yield_count < x.k /\ d.handles[yield_max] = Info(x)
    <3>1. x.k \in 1 .. n /\ y < x.k /\ b.handles[n] = Info(x)
      BY <1>3, <1>7, <2>1, <2>3
    <3>2. n \in 1 .. n /\ n # k
      BY <1>3, <1>4
    <3>3. d.handles[n] = b.handles[n]
      BY <1>8, <3>2
    <3> QED BY <1>3, <1>8, <3>1, <3>3
  <2>4. \A i, j \in ParkedOf(y, s) : d.handles[i] = d.handles[j] => i = j
    <3>1. \A i \in ParkedOf(y, r) : b.handles[i] \in held
      BY <1>3, <1>7 DEF HeldOf
    <3> QED BY <1>6, <1>8, <1>11, <1>12, <2>1, <3>1
  <2>5. \A x \in s : x \in r
    BY <1>7
  <2>6. d.yield_count <= yield_max /\ \A x \in s : x.op = "store" => x.k \in TakenOf(d.yield_count, s)
    BY <1>8, <1>9, <2>1, <2>5
  <2>7. \A i, j \in ParkedOf(d.yield_count, s) : d.handles[i] = d.handles[j] => i = j
    BY <1>8, <2>4
  <2>8. /\ \A x, z \in s : x.op = "release" /\ z.op = "release" => x = z
        /\ \A x, z \in s : x.op = "store" /\ z.op = "store" /\ x.k = z.k => x = z
    BY <2>1, <2>5
  <2> QED BY <2>2, <2>3, <2>6, <2>7, <2>8 DEF Gate
<1>16. Through(All', d, s) = Through(All, b, r)
  <2>1. \A x : x.op \in {"count", "release"} => (x \in All <=> x \in All')
    BY <1>4, <1>5 DEF All
  <2> QED BY <1>3, <1>7, <1>8, <1>9, <1>14, <2>1 DEF Through
<1>17. Coming(d, s) = Coming(b, r)
  BY <1>3, <1>7, <1>8, <1>9, <1>14 DEF Coming
<1>18. Rounds(g, Through(All', d, s), Coming(d, s), d, left')
  <2>1. PICK P, A : P = Through(All, b, r) /\ A = Coming(b, r) /\ Rounds(g, P, A, b, left)
    BY <1>2, <1>7
  <2>2. Rounds(g, P, A, d, left')
    BY <1>5, <1>8, <2>1 DEF Rounds
  <2> QED BY <1>16, <1>17, <2>1, <2>2
<1>19. kind' = "barrier" /\ UNCHANGED <<aw, event, pipe, frame>>
  BY <1>5
<1> QED BY <1>1, <1>6, <1>7, <1>8, <1>13, <1>15, <1>18, <1>19, BarrierThen

\* The last one finds all the others there, and lets them through.
LEMMA BarrierOpens ==
  ASSUME kind = "barrier", KindInv, KindInv', SyncInv, BarrierInv, UNCHANGED <<kind, aw>>,
         NEW t \in running, Store(t), t.k = yield_max
  PROVE  SyncInv' /\ BarrierInv'
<1>1. /\ Placed(tasks, running, HeldOf(barrier, running))
      /\ barrier \in BarrierType /\ Lists /\ Homes /\ Gate(barrier, running)
  BY BarrierNow
<1>2. PICK g \in 0 .. MaxAwaits["barrier"] :
        Rounds(g, Through(All, barrier, running), Coming(barrier, running), barrier, left)
  BY BarrierNow
<1>3. PICK n, h, held : /\ n \in Nat \ {0} /\ n = yield_max /\ h = Info(t)
                        /\ held = HeldOf(barrier, running)
  BY SyncAssumption, FS_CardinalityType, FS_EmptySet DEF yield_max
<1>4. t.op = "store" /\ t.k = n /\ barrier.yield_count = n
  <2>1. t.op = "store"
    BY DEF Store, At
  <2>2. n \in TakenOf(barrier.yield_count, running) /\ barrier.yield_count <= n /\ barrier.yield_count \in Nat
    BY <1>1, <1>3, <2>1 DEF Gate, BarrierType
  <2>3. n <= barrier.yield_count
    BY <1>3, <2>2 DEF TakenOf
  <2> QED BY <1>3, <2>1, <2>2, <2>3
<1>5. /\ UNCHANGED <<tasks, left, event, pipe, frame, caller>>
      /\ running' = (running \ {t}) \cup {[t EXCEPT !.op = "release", !.k = 1]}
      /\ barrier' = [barrier EXCEPT !.handles[n] = h, !.yield_count = 0, !.resume_count = 0]
  <2>1. /\ barrier' = [barrier EXCEPT !.handles[t.k] = Info(t), !.yield_count = 0, !.resume_count = 0]
        /\ running' = (running \ {t}) \cup {[t EXCEPT !.op = "release", !.k = 1]} /\ UNCHANGED tasks
    BY DEF Store
  <2>2. UNCHANGED <<left, event, pipe, frame, caller>>
    BY DEF Store, BarrierVars
  <2> QED BY <1>3, <1>4, <2>1, <2>2
<1>6. Whole(t) /\ t.c \in Coroutines /\ t.at \in Places /\ h.c = t.c /\ h = [c |-> t.c, at |-> t.at]
  BY <1>1, <1>3 DEF KindInv, All, Placed, Typed, Info
<1>7. PICK u : u = [c |-> t.c, op |-> "release", k |-> 1, at |-> t.at, on |-> t.on, first |-> t.first]
  OBVIOUS
<1>8. u.c = t.c /\ u.op = "release" /\ u.k = 1 /\ u.at = t.at /\ running' = (running \ {t}) \cup {u}
  <2>3. Whole(t)
    BY <1>6
  <2>1. [t EXCEPT !.op = "release", !.k = 1]
          = [c |-> t.c, op |-> "release", k |-> 1, at |-> t.at, on |-> t.on, first |-> t.first]
    <3>1. PICK x, y : x = "release" /\ y = 1
      OBVIOUS
    <3>2. [t EXCEPT !.op = x, !.k = y] = [c |-> t.c, op |-> x, k |-> y, at |-> t.at, on |-> t.on, first |-> t.first]
      BY <2>3, ChangeBoth, Zenon
    <3> QED BY <3>1, <3>2
  <2>2. u.c = t.c /\ u.op = "release" /\ u.k = 1 /\ u.at = t.at
    BY <1>7
  <2> QED BY <1>5, <1>7, <2>1, <2>2
<1>9. PICK b, d, r, s : b = barrier /\ d = barrier' /\ r = running /\ s = running' /\ s = (r \ {t}) \cup {u} /\ t \in r
  BY <1>8
<1>10. /\ d \in BarrierType /\ d.yield_count = 0 /\ d.resume_count = 0
       /\ d.firsts = b.firsts /\ d.passed = b.passed
       /\ d.handles[n] = h /\ \A i \in 1 .. n : i # n => d.handles[i] = b.handles[i]
  <2>1. PICK f : f = [b.handles EXCEPT ![n] = h]
    OBVIOUS
  <2>2. h \in Infos \cup {Nobody} /\ n \in 1 .. n
    BY <1>3, <1>4, <1>6 DEF Infos
  <2>3. f \in [1 .. n -> Infos \cup {Nobody}] /\ f[n] = h /\ \A i \in 1 .. n : i # n => f[i] = b.handles[i]
    BY <1>1, <1>3, <1>9, <2>1, <2>2 DEF BarrierType
  <2>4. d = [b EXCEPT !.handles = f, !.yield_count = 0, !.resume_count = 0]
    BY <1>5, <1>9, <2>1
  <2>8. 0 \in Nat /\ b \in BarrierType /\ f \in [1 .. yield_max -> Infos \cup {Nobody}]
    BY <1>1, <1>3, <1>9, <2>3
  <2>9. [b EXCEPT !.handles = f] \in BarrierType
    BY <2>8 DEF BarrierType
  <2>10. [[b EXCEPT !.handles = f] EXCEPT !.yield_count = 0] \in BarrierType
    BY <2>8, <2>9 DEF BarrierType
  <2>11. [[[b EXCEPT !.handles = f] EXCEPT !.yield_count = 0] EXCEPT !.resume_count = 0] \in BarrierType
    BY <2>8, <2>10 DEF BarrierType
  <2>5. d \in BarrierType
    BY <2>4, <2>11
  <2>6. d.yield_count = 0 /\ d.resume_count = 0 /\ d.handles = f
    BY <1>1, <1>9, <2>4 DEF BarrierType
  <2>7. d.firsts = b.firsts /\ d.passed = b.passed
    BY <1>1, <1>9, <2>4 DEF BarrierType
  <2> QED BY <2>3, <2>5, <2>6, <2>7
\* Nobody else is dispatching now.
<1>11. \A x \in r : x.op # "release"
  <2> SUFFICES ASSUME NEW x \in r, x.op = "release" PROVE FALSE
    OBVIOUS
  <2>1. x.k \in 1 .. n /\ n < x.k
    BY <1>1, <1>3, <1>4, <1>9 DEF Gate
  <2> QED BY <1>3, <2>1
<1>12. TakenOf(n, r) = 1 .. n
  BY <1>3 DEF TakenOf
<1>13. TakenOf(0, s) = 1 .. n \ {n}
  <2>1. \A x \in s : x.op = "release" <=> x = u
    BY <1>8, <1>9, <1>11
  <2>2. TakenOf(0, s) = {i \in 1 .. n : i <= 0 \/ (i < n /\ 1 <= i)}
    BY <1>3, <1>8, <1>9, <2>1 DEF TakenOf
  <2>3. \A i \in 1 .. n : (i <= 0 \/ (i < n /\ 1 <= i)) <=> i # n
    BY <1>3
  <2> QED BY <2>2, <2>3
<1>14. \A x \in r : x.op = "store" /\ x.k = n => x = t
  BY <1>1, <1>4, <1>9 DEF Gate
<1>15. ParkedOf(0, s) = ParkedOf(n, r) /\ \A i \in ParkedOf(n, r) : i \in 1 .. n /\ i # n
  <2>1. \A i : i # n => ((\A x \in s : x.op = "store" => x.k # i) <=> (\A x \in r : x.op = "store" => x.k # i))
    BY <1>4, <1>8, <1>9
  <2>2. ~(\A x \in r : x.op = "store" => x.k # n)
    BY <1>4, <1>9
  <2> QED BY <1>12, <1>13, <2>1, <2>2 DEF ParkedOf
<1>16. HeldOf(d, s) = held
  <2>1. HeldOf(d, s) = {d.handles[i] : i \in ParkedOf(n, r)} /\ held = {b.handles[i] : i \in ParkedOf(n, r)}
    BY <1>3, <1>4, <1>9, <1>10, <1>15 DEF HeldOf
  <2> QED BY <1>10, <1>15, <2>1
<1>17. Placed(tasks', running', held)
  <2>1. Placed(tasks, running, held) /\ u.k \in Nat
    BY <1>1, <1>3, <1>8
  <2>2. Placed(tasks, (running \ {t}) \cup {u}, held)
    BY <1>8, <2>1, GoesOn
  <2> QED BY <1>5, <1>8, <2>2
<1>18. \A c, i : Seat(d, s, c, i) <=> Seat(b, r, c, i) /\ i # n
  <2>1. \A x : x.op = "store" => (x \in s <=> x \in r /\ x # t)
    BY <1>8, <1>9
  <2>2. \A c, i : (\E x \in s : x.c = c /\ x.op = "store" /\ x.k = i)
                    <=> (\E x \in r : x.c = c /\ x.op = "store" /\ x.k = i) /\ i # n
    BY <1>4, <1>9, <1>14, <2>1
  <2>3. \A c, i : (i \in ParkedOf(0, s) /\ d.handles[i].c = c)
                    <=> (i \in ParkedOf(n, r) /\ b.handles[i].c = c) /\ i # n
    BY <1>10, <1>15
  <2>4. \A c, i : Seat(d, s, c, i) <=> \/ \E x \in s : x.c = c /\ x.op = "store" /\ x.k = i
                                       \/ i \in ParkedOf(0, s) /\ d.handles[i].c = c
    BY <1>10 DEF Seat
  <2>5. \A c, i : Seat(b, r, c, i) <=> \/ \E x \in r : x.c = c /\ x.op = "store" /\ x.k = i
                                       \/ i \in ParkedOf(n, r) /\ b.handles[i].c = c
    BY <1>4, <1>9 DEF Seat
  <2> QED BY <2>2, <2>3, <2>4, <2>5
<1>19. Gate(d, s)
  <2>1. /\ Apart(r)
        /\ \A x \in r : x.op = "store" => x.k \in TakenOf(n, r)
        /\ \A x, z \in r : x.op = "store" /\ z.op = "store" /\ x.k = z.k => x = z
        /\ \A i, j \in ParkedOf(n, r) : b.handles[i] = b.handles[j] => i = j
    BY <1>1, <1>4, <1>9 DEF Gate
  <2>2. Apart(s)
    BY <1>8, <1>9, <2>1 DEF Apart
  <2>3. Info(u) = h
    BY <1>6, <1>8 DEF Info
  <2>4. \A x \in s : x.op = "release" => x = u
    BY <1>9, <1>11
  <2>5. u.k \in 1 .. yield_max /\ d.yield_count < u.k /\ d.handles[yield_max] = Info(u) /\ d.yield_count <= yield_max
    BY <1>3, <1>8, <1>10, <2>3
  <2>6. \A x \in s : x.op = "store" => x \in r /\ x # t
    BY <1>8, <1>9
  <2>7. \A x \in s : x.op = "store" => x.k \in TakenOf(d.yield_count, s)
    BY <1>10, <1>12, <1>13, <1>14, <2>1, <2>6
  <2>8. \A i, j \in ParkedOf(d.yield_count, s) : d.handles[i] = d.handles[j] => i = j
    BY <1>10, <1>15, <2>1
  <2> QED BY <2>1, <2>2, <2>4, <2>5, <2>6, <2>7, <2>8 DEF Gate
\* All were arriving, and all are passing now.
<1>20. b \in BarrierType /\ Placed(tasks, r, HeldOf(b, r)) /\ Gate(b, r) /\ b.yield_count = n
  BY <1>1, <1>4, <1>9
<1>21. \A c \in Coroutines : \E i \in 1 .. n : Seat(b, r, c, i)
  <2>1. \A i \in 1 .. yield_max : i \in TakenOf(b.yield_count, r)
    BY <1>3, <1>12, <1>20
  <2>2. \A c \in Coroutines : (\E i \in 1 .. yield_max : Seat(b, r, c, i)) \/ \E x \in r : x.c = c /\ x.op = "release"
    BY <1>20, <2>1, Everybody
  <2> QED BY <1>3, <1>11, <2>2
<1>22. /\ \A c, i : Seat(b, r, c, i) => i \in 1 .. n
       /\ \A c, d1, i : Seat(b, r, c, i) /\ Seat(b, r, d1, i) => c = d1
       /\ \A c, i : Seat(b, r, c, i) => \A x \in tasks \cup r : x.c = c => x.op = "store"
  <2>1. \A c, i : Seat(b, r, c, i) => c \in Coroutines /\ i \in TakenOf(b.yield_count, r)
    BY <1>20, Seated
  <2>2. \A c, d1, i : Seat(b, r, c, i) /\ Seat(b, r, d1, i) => c = d1
    BY <1>20, Seated
  <2>3. \A c, i : Seat(b, r, c, i) => \A x \in tasks \cup r : x.c = c => x \in r /\ x.op = "store" /\ x.k = i
    BY <1>20, Seated
  <2> QED BY <1>12, <1>20, <2>1, <2>2, <2>3
<1>23. PICK P, A : P = Through(All, b, r) /\ A = Coming(b, r)
  OBVIOUS
<1>24. A = Coroutines
  <2>1. \A i \in 1 .. n : i <= n
    BY <1>3
  <2> QED BY <1>12, <1>20, <1>21, <1>23, <2>1 DEF Coming
<1>25. P = {}
  <2>1. \A i \in TakenOf(n, r) : ~(i > n)
    BY <1>3, <1>12
  <2>2. \A c \in Coroutines : \A x \in All : x.c = c => x.op = "store"
    BY <1>9, <1>21, <1>22 DEF All
  <2> QED BY <1>20, <1>23, <2>1, <2>2 DEF Through
<1>26. Through(All', d, s) = Coroutines
  <2>1. Seat(b, r, t.c, n)
    BY <1>4, <1>9 DEF Seat
  <2>2. ASSUME NEW c \in Coroutines
        PROVE  \/ \E x \in All' : x.c = c /\ x.op \in {"count", "release"}
               \/ \E i \in TakenOf(0, s) : i > 0 /\ Seat(d, s, c, i)
    <3>1. PICK i \in 1 .. n : Seat(b, r, c, i)
      BY <1>21
    <3>2. CASE i = n
      BY <1>8, <1>22, <2>1, <3>1, <3>2 DEF All
    <3>3. CASE i # n
      BY <1>13, <1>18, <3>1, <3>3
    <3> QED BY <3>2, <3>3
  <2> QED BY <1>10, <2>2 DEF Through
<1>27. Coming(d, s) = {}
  <2>1. \A i \in TakenOf(0, s) : ~(i <= 0)
    BY <1>13
  <2> QED BY <1>10, <2>1 DEF Coming
<1>28. Rounds(g, {}, Coroutines, b, left)
  BY <1>2, <1>9, <1>23, <1>24, <1>25
<1>29. /\ \A c \in Coroutines : b.passed[c] = g /\ MaxAwaits["barrier"] - left[c] = g + 1
       /\ b.firsts = g
  <2>1. \A c \in Coroutines : b.passed[c] = g /\ MaxAwaits["barrier"] - left[c] = g + 1
    BY <1>28 DEF Rounds
  <2> QED BY <1>6, <1>28, <2>1 DEF Rounds
<1>30. g + 1 \in 0 .. MaxAwaits["barrier"] /\ g = (g + 1) - 1
  <2>1. left[t.c] \in 0 .. MaxAwaits["barrier"] /\ MaxAwaits["barrier"] \in Nat
    BY <1>6, CoroutineAssumption DEF KindInv, Kinds
  <2>2. MaxAwaits["barrier"] - left[t.c] = g + 1
    BY <1>6, <1>29
  <2> QED BY <2>1, <2>2
<1>31. Rounds(g + 1, Coroutines, {}, d, left')
  BY <1>5, <1>10, <1>29, <1>30 DEF Rounds
<1>32. kind' = "barrier" /\ UNCHANGED <<aw, event, pipe, frame>>
  BY <1>5
<1>33. Rounds(g + 1, Through(All', barrier', running'), Coming(barrier', running'), barrier', left')
  BY <1>9, <1>26, <1>27, <1>31
<1> QED BY <1>1, <1>9, <1>10, <1>16, <1>17, <1>19, <1>30, <1>32, <1>33, BarrierThen

\* One dispatches the handles, and none of them early.
LEMMA BarrierReleases ==
  ASSUME kind = "barrier", KindInv, KindInv', SyncInv, BarrierInv, UNCHANGED <<kind, aw>>,
         NEW t \in running, Release(t), ~barrier'.early
  PROVE  SyncInv' /\ BarrierInv'
<1>1. /\ Placed(tasks, running, HeldOf(barrier, running))
      /\ barrier \in BarrierType /\ Lists /\ Homes /\ Gate(barrier, running)
  BY BarrierNow
<1>2. PICK g \in 0 .. MaxAwaits["barrier"] :
        Rounds(g, Through(All, barrier, running), Coming(barrier, running), barrier, left)
  BY BarrierNow
<1>3. PICK y, n, k, held : /\ n \in Nat /\ n = yield_max /\ y \in Nat /\ y = barrier.yield_count /\ k = t.k
                           /\ held = HeldOf(barrier, running)
  BY <1>1, SyncAssumption, FS_CardinalityType DEF yield_max, BarrierType
<1>4. UNCHANGED <<left, barrier, event, pipe, frame, caller>> /\ \A u \in running : u.op = "store" => u.k # k
  <2>1. PICK e : /\ e = (barrier.early \/ \E u \in running : u.op = "store" /\ u.k = t.k)
                 /\ barrier' = [barrier EXCEPT !.early = e]
    BY DEF Release
  <2>2. barrier'.early = e
    BY <1>1, <2>1 DEF BarrierType
  <2>3. e = FALSE /\ barrier.early = FALSE
    BY <1>1, <2>1, <2>2 DEF BarrierType
  <2>4. barrier' = barrier
    BY <1>1, <2>1, <2>3 DEF BarrierType
  <2>5. UNCHANGED <<left, event, pipe, frame, caller>>
    BY DEF Release, BarrierVars
  <2> QED BY <1>3, <2>1, <2>3, <2>4, <2>5
<1>5. /\ t.op = "release" /\ k \in 1 .. n /\ y < k /\ barrier.handles[n] = Info(t)
      /\ \A x \in running : x.op = "release" => x = t
  <2>1. t.op = "release"
    BY DEF Release, At
  <2> QED BY <1>1, <1>3, <2>1 DEF Gate
<1>6. Whole(t) /\ t.c \in Coroutines /\ t.at \in Places
  BY <1>1 DEF KindInv, All, Placed, Typed
<1>7. PICK b, r, s : b = barrier /\ b = barrier' /\ r = running /\ s = running' /\ t \in r
  BY <1>4
<1>8. /\ Apart(r) /\ y <= yield_max
      /\ \A x \in r : x.op = "store" => x.k \in TakenOf(y, r)
      /\ \A x, z \in r : x.op = "store" /\ z.op = "store" /\ x.k = z.k => x = z
      /\ \A i, j \in ParkedOf(y, r) : b.handles[i] = b.handles[j] => i = j
  BY <1>1, <1>3, <1>7 DEF Gate
\* Nobody begins or ends to pass.
<1>9. ASSUME Placed(tasks', s, HeldOf(b, s)), Gate(b, s), Through(All', b, s) = Through(All, b, r),
             Coming(b, s) = Coming(b, r)
      PROVE  SyncInv' /\ BarrierInv'
  <2>1. Rounds(g, Through(All', barrier', running'), Coming(barrier', running'), barrier', left')
    BY <1>2, <1>4, <1>7, <1>9
  <2>2. kind' = "barrier" /\ UNCHANGED <<aw, event, pipe, frame>> /\ barrier' \in BarrierType
    BY <1>1, <1>4
  <2>3. Placed(tasks', running', HeldOf(barrier', running')) /\ Gate(barrier', running')
    BY <1>7, <1>9
  <2> QED BY <1>1, <2>1, <2>2, <2>3, BarrierThen
<1>10. \A c, i : Seat(b, r, c, i) <=> \/ \E x \in r : x.c = c /\ x.op = "store" /\ x.k = i
                                      \/ i \in ParkedOf(y, r) /\ b.handles[i].c = c
  BY <1>3, <1>7 DEF Seat
<1>11. \A c, i : Seat(b, s, c, i) <=> \/ \E x \in s : x.c = c /\ x.op = "store" /\ x.k = i
                                      \/ i \in ParkedOf(y, s) /\ b.handles[i].c = c
  BY <1>3, <1>7 DEF Seat
<1>12. \A A, z : Through(A, b, z) = {c \in Coroutines : \/ \E x \in A : x.c = c /\ x.op \in {"count", "release"}
                                                        \/ \E i \in TakenOf(y, z) : i > y /\ Seat(b, z, c, i)}
  BY <1>3, <1>7 DEF Through
<1>13. \A z : Coming(b, z) = {c \in Coroutines : \E i \in TakenOf(y, z) : i <= y /\ Seat(b, z, c, i)}
  BY <1>3, <1>7 DEF Coming
<1>14. CASE k = n
  <2>1. Info(t) # Nobody
    BY <1>6, NobodyIs DEF Info, Infos
  <2>2. PICK v : v = Task(t.c, "count", t.at)
    OBVIOUS
  <2>3. v.c = t.c /\ v.op = "count" /\ v.at = t.at /\ v.k = 0 /\ ToDispatch(Info(t), "count") = {v}
    BY <2>2, TaskIs DEF ToDispatch, Info
  <2>4. tasks' = tasks \cup {v} /\ s = r \ {t}
    <3>1. /\ tasks' = tasks \cup UNION {ToDispatch(i, "count") : i \in {barrier.handles[t.k]} \ {Nobody}}
          /\ running' = (running \ {t}) \cup {}
      BY <1>3, <1>14 DEF Release
    <3>2. {barrier.handles[t.k]} \ {Nobody} = {Info(t)}
      BY <1>3, <1>5, <1>14, <2>1
    <3>3. UNION {ToDispatch(i, "count") : i \in {Info(t)}} = {v}
      BY <2>3
    <3> QED BY <1>7, <3>1, <3>2, <3>3
  <2>5. Placed(tasks', s, held)
    <3>1. v.k \in Nat /\ Placed(tasks, r, held) /\ t \in r /\ v.c = t.c /\ v.at = t.at
      BY <1>1, <1>3, <1>7, <2>3
    <3>2. Placed(tasks \cup {v}, r \ {t}, held)
      BY <3>1, GoesOn
    <3> QED BY <2>4, <3>2
  <2>6. TakenOf(y, s) = TakenOf(y, r)
    <3>1. \A i \in 1 .. n : i < n => ~(n <= i)
      BY <1>3
    <3>2. \A x \in s : x.op # "release"
      BY <1>5, <1>7, <2>4
    <3>3. \A i \in 1 .. n : i < n => ~\E x \in r : x.op = "release" /\ x.k <= i
      BY <1>3, <1>5, <1>7, <1>14, <3>1
    <3> QED BY <1>3, <3>2, <3>3 DEF TakenOf
  <2>7. \A x : x.op = "store" => (x \in s <=> x \in r)
    BY <1>5, <2>4
  <2>8. ParkedOf(y, s) = ParkedOf(y, r)
    BY <2>6, <2>7 DEF ParkedOf
  <2>9. held = HeldOf(b, s)
    BY <1>3, <1>7, <2>8 DEF HeldOf
  <2>10. \A c, i : Seat(b, s, c, i) <=> Seat(b, r, c, i)
    BY <1>10, <1>11, <2>7, <2>8
  <2>11. Gate(b, s)
    <3>1. Apart(s)
      BY <1>8, <1>7, <2>4, StaysApart
    <3>2. \A x \in s : x.op # "release"
      BY <1>5, <1>7, <2>4
    <3>3. \A x \in s : x \in r
      BY <2>4
    <3>4. \A x \in s : x.op = "store" => x.k \in TakenOf(b.yield_count, s)
      BY <1>3, <1>7, <1>8, <2>6, <3>3
    <3>5. \A x, z \in s : x.op = "store" /\ z.op = "store" /\ x.k = z.k => x = z
      BY <1>8, <3>3
    <3>6. /\ b.yield_count <= yield_max
          /\ \A i, j \in ParkedOf(b.yield_count, s) : b.handles[i] = b.handles[j] => i = j
      BY <1>3, <1>7, <1>8, <2>8
    <3> QED BY <3>1, <3>2, <3>4, <3>5, <3>6 DEF Gate
  <2>12. Through(All', b, s) = Through(All, b, r)
    <3>1. \A c : (\E x \in All' : x.c = c /\ x.op \in {"count", "release"})
                  <=> (\E x \in All : x.c = c /\ x.op \in {"count", "release"})
      <4>1. \A x \in All' : x = v \/ x \in All
        BY <1>7, <2>4 DEF All
      <4>2. v \in All' /\ t \in All /\ \A x \in All : x = t \/ x \in All'
        BY <1>7, <2>4 DEF All
      <4> QED BY <1>5, <2>3, <4>1, <4>2
    <3>2. Through(All, b, r) = {c \in Coroutines : \/ \E x \in All : x.c = c /\ x.op \in {"count", "release"}
                                                   \/ \E i \in TakenOf(y, r) : i > y /\ Seat(b, r, c, i)}
      BY <1>12
    <3>3. Through(All', b, s) = {c \in Coroutines : \/ \E x \in All' : x.c = c /\ x.op \in {"count", "release"}
                                                    \/ \E i \in TakenOf(y, s) : i > y /\ Seat(b, s, c, i)}
      BY <1>12
    <3> QED BY <2>6, <2>10, <3>1, <3>2, <3>3
  <2>13. Coming(b, s) = Coming(b, r)
    BY <1>13, <2>6, <2>10
  <2> QED BY <1>9, <2>5, <2>9, <2>11, <2>12, <2>13
<1>15. CASE k # n
  <2>1. k \in ParkedOf(y, r) /\ k < n
    <3>1. k < n /\ k <= k
      BY <1>3, <1>5, <1>15
    <3>2. k \in TakenOf(y, r)
      BY <1>3, <1>5, <1>7, <3>1 DEF TakenOf
    <3> QED BY <1>4, <1>7, <3>1, <3>2 DEF ParkedOf
  <2>2. PICK h : h = b.handles[k] /\ h \in held /\ h \in Infos /\ h # Nobody
    <3>1. b.handles[k] \in held
      BY <1>3, <1>7, <2>1 DEF HeldOf
    <3>2. held \subseteq Infos
      BY <1>1, <1>3 DEF Placed
    <3> QED BY <3>1, <3>2, NobodyIs
  <2>3. PICK v : v = Task(h.c, "count", h.at)
    OBVIOUS
  <2>4. v.c = h.c /\ v.op = "count" /\ ToDispatch(h, "count") = {v}
    BY <2>3, TaskIs DEF ToDispatch
  <2>5. PICK u : /\ u = [t EXCEPT !.k = t.k + 1] /\ Whole(u)
                 /\ u.c = t.c /\ u.op = t.op /\ u.k = t.k + 1 /\ u.at = t.at /\ u.on = t.on
    <3>1. Whole(t)
      BY <1>6
    <3> QED BY <3>1, ChangeK, Zenon
  <2>6. tasks' = tasks \cup {v} /\ s = (r \ {t}) \cup {u} /\ u.op = "release" /\ u.k = k + 1
    <3>1. /\ tasks' = tasks \cup UNION {ToDispatch(i, "count") : i \in {barrier.handles[t.k]} \ {Nobody}}
          /\ running' = (running \ {t}) \cup {[t EXCEPT !.k = @ + 1]}
      BY <1>3, <1>15 DEF Release
    <3>2. {barrier.handles[t.k]} \ {Nobody} = {h}
      BY <1>3, <1>7, <2>2
    <3>3. UNION {ToDispatch(i, "count") : i \in {h}} = {v}
      BY <2>4
    <3> QED BY <1>3, <1>5, <1>7, <2>5, <3>1, <3>2, <3>3
  <2>7. k + 1 \in 1 .. n /\ y < k + 1 /\ u.k \in Nat
    BY <1>3, <1>5, <2>1, <2>6
  <2>8. Placed(tasks', s, held \ {h})
    <3>1. PICK new, D : D = {h} /\ new = Dispatched(D, "count")
      OBVIOUS
    <3>2. new = {v}
      BY <2>4, <3>1 DEF Dispatched
    <3>3. Placed(tasks, r, held) /\ D \subseteq held /\ new = Dispatched(D, "count")
      BY <1>1, <1>3, <1>7, <2>2, <3>1
    <3>4. Placed(tasks \cup new, r, held \ D)
      BY <3>3, Dispatches
    <3>5. Placed(tasks', r, held \ {h})
      BY <2>6, <3>1, <3>2, <3>4
    <3>6. u.c = t.c /\ u.at = t.at /\ u.k \in Nat /\ t \in r
      BY <1>7, <2>5, <2>7
    <3>7. Placed(tasks', (r \ {t}) \cup {u}, held \ {h})
      BY <3>5, <3>6, GoesOn
    <3> QED BY <2>6, <3>7
  <2>9. TakenOf(y, s) = TakenOf(y, r) \ {k}
    <3>1. \A i \in 1 .. n : (\E x \in r : x.op = "release" /\ x.k <= i) <=> k <= i
      BY <1>3, <1>5, <1>7
    <3>2. \A i \in 1 .. n : (\E x \in s : x.op = "release" /\ x.k <= i) <=> k + 1 <= i
      BY <1>5, <1>7, <2>6
    <3>3. TakenOf(y, r) = {i \in 1 .. n : i <= y \/ (i < n /\ k <= i)}
      BY <1>3, <3>1 DEF TakenOf
    <3>4. TakenOf(y, s) = {i \in 1 .. n : i <= y \/ (i < n /\ k + 1 <= i)}
      BY <1>3, <3>2 DEF TakenOf
    <3>5. \A i \in 1 .. n : (i <= y \/ (i < n /\ k + 1 <= i)) <=> (i <= y \/ (i < n /\ k <= i)) /\ i # k
      BY <1>3, <1>5
    <3> QED BY <3>3, <3>4, <3>5
  <2>10. \A x : x.op = "store" => (x \in s <=> x \in r)
    BY <1>5, <2>6
  <2>11. ParkedOf(y, s) = ParkedOf(y, r) \ {k}
    BY <2>9, <2>10 DEF ParkedOf
  <2>12. HeldOf(b, s) = held \ {h}
    <3>1. held = {b.handles[i] : i \in ParkedOf(y, r)} /\ HeldOf(b, s) = {b.handles[i] : i \in ParkedOf(y, s)}
      BY <1>3, <1>7 DEF HeldOf
    <3>2. \A i \in ParkedOf(y, r) : b.handles[i] = h => i = k
      BY <1>8, <2>1, <2>2
    <3> QED BY <2>2, <2>11, <3>1, <3>2
  <2>13. \A c, i : Seat(b, s, c, i) <=> Seat(b, r, c, i) /\ i # k
    <3>1. \A c, i : (\E x \in s : x.c = c /\ x.op = "store" /\ x.k = i)
                      <=> (\E x \in r : x.c = c /\ x.op = "store" /\ x.k = i)
      BY <2>10
    <3>2. \A x \in r : x.op = "store" => x.k # k
      BY <1>4, <1>7
    <3> QED BY <1>10, <1>11, <2>11, <3>1, <3>2
  <2>14. Gate(b, s)
    <3>1. Apart(s)
      <4>1. u.at = t.at /\ t \in r /\ Apart(r)
        BY <1>7, <1>8, <2>5
      <4>2. Apart((r \ {t}) \cup {u})
        BY <4>1, StaysApart
      <4> QED BY <2>6, <4>2
    <3>2. \A x \in s : x.op = "release" => x = u
      BY <1>5, <1>7, <2>6
    <3>3. Info(u) = Info(t)
      BY <2>5 DEF Info
    <3>4. u.k \in 1 .. yield_max /\ b.yield_count < u.k /\ b.handles[yield_max] = Info(u) /\ b.yield_count <= yield_max
      BY <1>3, <1>5, <1>7, <1>8, <2>6, <2>7, <3>3
    <3>5. \A x \in s : x.op = "store" => x \in r
      BY <2>10
    <3>6. \A x \in s : x.op = "store" => x.k \in TakenOf(b.yield_count, s)
      BY <1>3, <1>4, <1>7, <1>8, <2>9, <3>5
    <3>7. \A x, z \in s : x.op = "store" /\ z.op = "store" /\ x.k = z.k => x = z
      BY <1>8, <3>5
    <3>8. \A i, j \in ParkedOf(b.yield_count, s) : b.handles[i] = b.handles[j] => i = j
      BY <1>3, <1>7, <1>8, <2>11
    <3> QED BY <3>1, <3>2, <3>4, <3>6, <3>7, <3>8 DEF Gate
  <2>15. Through(All', b, s) = Through(All, b, r)
    <3>1. \A x \in All' : x = u \/ x = v \/ x \in All
      BY <1>7, <2>6 DEF All
    <3>2. v \in All' /\ u \in All' /\ t \in All /\ \A x \in All : x = t \/ x \in All'
      BY <1>7, <2>6 DEF All
    <3>3. \A c : (\E x \in All' : x.c = c /\ x.op \in {"count", "release"})
                  <=> (\E x \in All : x.c = c /\ x.op \in {"count", "release"}) \/ c = h.c
      BY <1>5, <2>4, <2>5, <3>1, <3>2
    <3>4. \A c : Seat(b, r, c, k) <=> c = h.c
      <4>1. ASSUME NEW x \in r, x.op = "store" PROVE x.k # k
        BY <1>4, <1>7, <4>1
      <4> QED BY <1>10, <2>1, <2>2, <4>1
    <3>5. k \in TakenOf(y, r) /\ k > y
      BY <1>3, <1>5, <2>1 DEF ParkedOf
    <3>6. \A c : (\E i \in TakenOf(y, r) : i > y /\ Seat(b, r, c, i))
                  <=> (\E i \in TakenOf(y, s) : i > y /\ Seat(b, s, c, i)) \/ c = h.c
      BY <2>9, <2>13, <3>4, <3>5
    <3>7. \A c : (\/ \E x \in All' : x.c = c /\ x.op \in {"count", "release"}
                  \/ \E i \in TakenOf(y, s) : i > y /\ Seat(b, s, c, i))
             <=> (\/ \E x \in All : x.c = c /\ x.op \in {"count", "release"}
                  \/ \E i \in TakenOf(y, r) : i > y /\ Seat(b, r, c, i))
      BY <3>3, <3>6
    <3>8. Through(All, b, r) = {c \in Coroutines : \/ \E x \in All : x.c = c /\ x.op \in {"count", "release"}
                                                   \/ \E i \in TakenOf(y, r) : i > y /\ Seat(b, r, c, i)}
      BY <1>12
    <3>9. Through(All', b, s) = {c \in Coroutines : \/ \E x \in All' : x.c = c /\ x.op \in {"count", "release"}
                                                    \/ \E i \in TakenOf(y, s) : i > y /\ Seat(b, s, c, i)}
      BY <1>12
    <3> QED BY <3>7, <3>8, <3>9
  <2>16. Coming(b, s) = Coming(b, r)
    <3>1. ~(k <= y)
      BY <1>3, <1>5
    <3>2. \A c : (\E i \in TakenOf(y, s) : i <= y /\ Seat(b, s, c, i))
                  <=> (\E i \in TakenOf(y, r) : i <= y /\ Seat(b, r, c, i))
      BY <2>9, <2>13, <3>1
    <3> QED BY <1>13, <3>2
  <2> QED BY <1>9, <2>8, <2>12, <2>14, <2>15, <2>16
<1> QED BY <1>14, <1>15

\* One goes on.
LEMMA BarrierCounts ==
  ASSUME kind = "barrier", KindInv, KindInv', SyncInv, BarrierInv, UNCHANGED <<kind, aw>>,
         NEW t \in running, Count(t)
  PROVE  SyncInv' /\ BarrierInv'
<1>1. /\ Placed(tasks, running, HeldOf(barrier, running))
      /\ barrier \in BarrierType /\ Lists /\ Homes /\ Gate(barrier, running)
  BY BarrierNow
<1>2. PICK g \in 0 .. MaxAwaits["barrier"] :
        Rounds(g, Through(All, barrier, running), Coming(barrier, running), barrier, left)
  BY BarrierNow
<1>3. PICK y, held : y \in Nat /\ y = barrier.yield_count /\ held = HeldOf(barrier, running)
  BY <1>1 DEF BarrierType
<1>4. t.op = "count" /\ Whole(t) /\ t.c \in Coroutines
  <2>1. t.op = "count"
    BY DEF Count, At
  <2>2. Whole(t) /\ t.c \in Coroutines
    BY <1>1 DEF KindInv, All, Placed, Typed
  <2> QED BY <2>1, <2>2
<1>5. PICK m, q, f : m = barrier.resume_count /\ q = barrier.passed /\ f = barrier.firsts
  OBVIOUS
<1>6. m \in Nat /\ f \in Nat /\ q \in [Coroutines -> Nat]
  BY <1>1, <1>5 DEF BarrierType
<1>7. /\ Step(t, "body", {}) /\ UNCHANGED <<left, event, pipe, frame, caller>>
      /\ barrier' = [barrier EXCEPT !.resume_count = m + 1, !.passed[t.c] = @ + 1,
                                    !.firsts = f + (IF m = 0 THEN 1 ELSE 0)]
  BY <1>5 DEF Count, BarrierVars
<1>8. PICK u : /\ u = [t EXCEPT !.op = "body"] /\ Whole(u)
               /\ u.c = t.c /\ u.op = "body" /\ u.k = t.k /\ u.at = t.at /\ u.on = t.on
  <2>1. Whole(t)
    BY <1>4
  <2> QED BY <2>1, ChangeOp, Zenon
<1>9. running' = (running \ {t}) \cup {u} /\ tasks' = tasks
  BY <1>7, <1>8 DEF Step
<1>10. PICK b, d, r, s : b = barrier /\ d = barrier' /\ r = running /\ s = running' /\ s = (r \ {t}) \cup {u} /\ t \in r
  BY <1>9
<1>11. Placed(tasks', s, held)
  <2>1. Placed(tasks, running, held) /\ Whole(t)
    BY <1>1, <1>3, <1>4
  <2> QED BY <1>7, <1>10, <2>1, StepPlaced
<1>12. PICK q2, f2 : q2 = [q EXCEPT ![t.c] = @ + 1] /\ f2 = IF m = 0 THEN f + 1 ELSE f
  OBVIOUS
<1>13. /\ q2 \in [Coroutines -> Nat] /\ f2 \in Nat /\ m + 1 \in Nat /\ m + 1 # 0
       /\ \A c \in Coroutines : q2[c] = IF c = t.c THEN q[c] + 1 ELSE q[c]
  BY <1>4, <1>6, <1>12
<1>14. d = [b EXCEPT !.resume_count = m + 1, !.passed = q2, !.firsts = f2]
  <2>1. f2 = f + (IF m = 0 THEN 1 ELSE 0)
    BY <1>6, <1>12
  <2> QED BY <1>5, <1>7, <1>10, <1>12, <2>1
<1>15. d \in BarrierType
  BY <1>1, <1>10, <1>13, <1>14 DEF BarrierType
<1>16. d.resume_count = m + 1 /\ d.passed = q2 /\ d.firsts = f2
  BY <1>1, <1>10, <1>14 DEF BarrierType
<1>17. d.yield_count = b.yield_count /\ d.handles = b.handles /\ b.yield_count = y
  BY <1>1, <1>3, <1>10, <1>14 DEF BarrierType
<1>18. \A x : x.op \in {"store", "release"} => (x \in r <=> x \in s)
  BY <1>4, <1>8, <1>10
<1>19. /\ TakenOf(d.yield_count, s) = TakenOf(b.yield_count, r)
       /\ HeldOf(d, s) = HeldOf(b, r) /\ Coming(d, s) = Coming(b, r)
       /\ \A c, i : Seat(d, s, c, i) <=> Seat(b, r, c, i)
       /\ Gate(b, r) /\ Apart(s) => Gate(d, s)
  BY <1>17, <1>18, SeatsStay
<1>20. Gate(d, s)
  <2>1. Gate(b, r) /\ Apart(r) /\ t \in r /\ u.at = t.at
    BY <1>1, <1>8, <1>10 DEF Gate
  <2>2. Apart((r \ {t}) \cup {u})
    BY <2>1, StaysApart
  <2> QED BY <1>10, <1>19, <2>1, <2>2
<1>21. PICK P, A : P = Through(All, b, r) /\ A = Coming(b, r)
  OBVIOUS
<1>22. \A i : ~Seat(b, r, t.c, i)
  <2>1. b \in BarrierType /\ Placed(tasks, r, HeldOf(b, r)) /\ Gate(b, r)
    BY <1>1, <1>10
  <2>2. \A c, i : Seat(b, r, c, i) => \A x \in tasks \cup r : x.c = c => x \in r /\ x.op = "store" /\ x.k = i
    BY <2>1, Seated
  <2> QED BY <1>4, <1>10, <2>2
<1>23. t.c \in P /\ Through(All', d, s) = P \ {t.c}
  <2>1. t \in All /\ \A x \in All : x.c = t.c => x = t
    BY <1>1 DEF Placed, Unique, All
  <2>2. t \notin tasks
    BY <1>1 DEF Placed
  <2>3. \A x : x \in All' <=> x = u \/ (x \in All /\ x # t)
    BY <1>9, <2>2 DEF All
  <2>4. \A c : (\E x \in All' : x.c = c /\ x.op \in {"count", "release"})
                <=> (\E x \in All : x.c = c /\ x.op \in {"count", "release"}) /\ c # t.c
    BY <1>8, <2>1, <2>3
  <2>5. P = {c \in Coroutines : \/ \E x \in All : x.c = c /\ x.op \in {"count", "release"}
                                \/ \E i \in TakenOf(b.yield_count, r) : i > b.yield_count /\ Seat(b, r, c, i)}
    BY <1>21 DEF Through
  <2>6. Through(All', d, s) = {c \in Coroutines : \/ \E x \in All' : x.c = c /\ x.op \in {"count", "release"}
                                                  \/ \E i \in TakenOf(d.yield_count, s) : i > d.yield_count /\ Seat(d, s, c, i)}
    BY DEF Through
  <2>7. \A c : (\E i \in TakenOf(d.yield_count, s) : i > d.yield_count /\ Seat(d, s, c, i))
                <=> (\E i \in TakenOf(b.yield_count, r) : i > b.yield_count /\ Seat(b, r, c, i)) /\ c # t.c
    BY <1>17, <1>19, <1>22
  <2> QED BY <1>4, <2>1, <2>4, <2>5, <2>6, <2>7
<1>24. Rounds(g, P, A, b, left)
  BY <1>2, <1>10, <1>21
<1>25. Rounds(g, P \ {t.c}, A, d, left')
  <2>1. ASSUME NEW c \in Coroutines
        PROVE  q[c] = (IF c \in P THEN g - 1 ELSE g) /\ MaxAwaits["barrier"] - left[c] = (IF c \in A THEN g + 1 ELSE g)
    BY <1>5, <1>10, <1>24 DEF Rounds
  <2>2. IF m = 0 THEN \A c \in Coroutines : q[c] = f ELSE f = g
    BY <1>5, <1>10, <1>24 DEF Rounds
  <2>3. ASSUME NEW c \in Coroutines PROVE q2[c] = IF c \in P \ {t.c} THEN g - 1 ELSE g
    BY <1>13, <1>23, <2>1
  <2>4. f2 = g
    <3>1. q[t.c] = g - 1
      BY <1>4, <1>23, <2>1
    <3> QED BY <1>4, <1>12, <2>2, <3>1
  <2>5. q2[t.c] = g
    BY <1>4, <2>3
  <2> QED BY <1>4, <1>7, <1>13, <1>16, <2>1, <2>3, <2>4, <2>5 DEF Rounds
<1>26. kind' = "barrier" /\ UNCHANGED <<aw, event, pipe, frame>>
  BY <1>7
<1>27. /\ Placed(tasks', running', HeldOf(barrier', running')) /\ Gate(barrier', running') /\ barrier' \in BarrierType
       /\ Rounds(g, Through(All', barrier', running'), Coming(barrier', running'), barrier', left')
  BY <1>3, <1>10, <1>11, <1>15, <1>19, <1>20, <1>21, <1>23, <1>25
<1> QED BY <1>1, <1>26, <1>27, BarrierThen

\* A barrier that has opened early has done so for ever.
LEMMA EarlyStays ==
  ASSUME KindInv, KindInv', Next, barrier.early, kind = "barrier" => barrier \in BarrierType
  PROVE  barrier'.early
<1>1. kind = "barrier" /\ barrier \in BarrierType
  BY DEF KindInv
<1>2. UNCHANGED svars \/ \E t \in running : Barrier(t) \/ Store(t) \/ Release(t) \/ Count(t)
  BY <1>1 DEF Next, Awaits, Starts, Returns, Waits, Syncs, BarrierNext
<1>3. CASE UNCHANGED svars
  BY <1>3 DEF svars
<1>4. ASSUME NEW t \in running, Barrier(t) \/ Store(t) \/ Release(t) \/ Count(t) PROVE barrier'.early
  BY <1>1, <1>4 DEF Barrier, Store, Release, Count, BarrierType
<1> QED BY <1>2, <1>3, <1>4

\* On one warp one thread runs at a time, so that none is left behind by the last.
LEMMA OneWarpWaits ==
  ASSUME kind = "barrier", KindInv, SyncInv, BarrierInv, OnOneWarp, ~barrier.early, Next
  PROVE  ~barrier'.early
<1>1. PICK w \in Warps : \A c \in Coroutines : aw[c].caller = w
  BY DEF OnOneWarp
<1>2. /\ Placed(tasks, running, HeldOf(barrier, running)) /\ barrier \in BarrierType /\ Gate(barrier, running)
  BY BarrierNow
<1>3. \A t \in running : t.at \in Warps /\ t.at = w
  BY <1>1, <1>2 DEF Placed, Typed
<1>4. \A t, u \in running : t = u
  BY <1>2, <1>3 DEF Gate, Apart
<1>5. UNCHANGED svars \/ \E t \in running : Barrier(t) \/ Store(t) \/ Release(t) \/ Count(t)
  BY DEF Next, Awaits, Starts, Returns, Waits, Syncs, BarrierNext
<1>6. CASE UNCHANGED svars
  BY <1>6 DEF svars
<1>7. ASSUME NEW t \in running, Barrier(t) \/ Store(t) \/ Count(t) PROVE ~barrier'.early
  BY <1>2, <1>7 DEF Barrier, Store, Count, BarrierType
<1>8. ASSUME NEW t \in running, Release(t) PROVE ~barrier'.early
  <2>1. t.op = "release" /\ \A u \in running : u.op # "store"
    BY <1>4, <1>8 DEF Release, At
  <2>2. barrier' = [barrier EXCEPT !.early = @ \/ \E u \in running : u.op = "store" /\ u.k = t.k]
    BY <1>8 DEF Release
  <2>3. barrier'.early <=> barrier.early \/ \E u \in running : u.op = "store" /\ u.k = t.k
    BY <1>2, <2>2 DEF BarrierType
  <2> QED BY <2>1, <2>3
<1> QED BY <1>5, <1>6, <1>7, <1>8

LEMMA BarrierKeeps ==
  ASSUME kind = "barrier", KindInv, KindInv', SyncInv, BarrierInv, Next, ~barrier'.early
  PROVE  SyncInv' /\ BarrierInv'
<1>1. Syncs \/ (\E t \in tasks : Starts(t)) \/ (\E t \in running : Returns(t))
  BY NoAwaits
<1>2. ASSUME Syncs PROVE SyncInv' /\ BarrierInv'
  <2>1. BarrierNext /\ UNCHANGED <<kind, aw>>
    BY <1>2 DEF Syncs
  <2>2. PICK t \in running : Barrier(t) \/ Store(t) \/ Release(t) \/ Count(t)
    BY <2>1 DEF BarrierNext
  <2> QED BY <2>1, <2>2, BarrierArrives, BarrierStores, BarrierOpens, BarrierReleases, BarrierCounts
<1>3. ASSUME (\E t \in tasks : Starts(t)) \/ (\E t \in running : Returns(t)) PROVE SyncInv' /\ BarrierInv'
  BY <1>3, BarrierCommon
<1> QED BY <1>1, <1>2, <1>3

LEMMA BarrierAtFirst == Init => BarrierInv
<1> SUFFICES ASSUME Init, kind = "barrier" PROVE BarrierInv
  BY DEF BarrierInv
<1>1. /\ running = {} /\ Parked = {} /\ Taken = {} /\ yield_max \in Nat \ {0}
      /\ \A t \in tasks : t.op = "body"
      /\ barrier.yield_count = 0 /\ barrier.resume_count = 0 /\ barrier.firsts = 0
      /\ barrier.passed = [c \in Coroutines |-> 0] /\ left = [c \in Coroutines |-> MaxAwaits[kind]]
  BY AtFirst
<1>2. MaxAwaits[kind] \in Nat
  BY CoroutineAssumption DEF Kinds
<1>3. Round(0)
  <2>1. \A c \in Coroutines : ~Passing(c) /\ ~Arriving(c)
    BY <1>1 DEF Passing, Arriving, All
  <2>2. \A c \in Coroutines : Arrived(c) = 0
    BY <1>1, <1>2 DEF Arrived
  <2> QED BY <1>1, <2>1, <2>2 DEF Round
<1>4. \E g \in 0 .. MaxAwaits[kind] : Round(g)
  BY <1>2, <1>3
<1>5. barrier.yield_count <= yield_max
  BY <1>1
<1> QED BY <1>1, <1>4, <1>5 DEF BarrierInv, Stores, Releases

LEMMA GreatestIs ==
  ASSUME NEW S, NEW x \in S, S \subseteq Int, \A y \in S : y <= x
  PROVE  Max(S) = x
<1>1. Max(S) \in S /\ \A y \in S : Max(S) >= y
  BY DEF Max
<1>2. x \in Int /\ Max(S) \in Int
  BY <1>1
<1> QED BY <1>1, <1>2

LEMMA OpensTogether == KindInv /\ (kind = "barrier" => SyncInv /\ BarrierInv) => BarrierTogether
<1> SUFFICES ASSUME KindInv, kind = "barrier" => SyncInv /\ BarrierInv PROVE BarrierTogether
  OBVIOUS
<1>1. PICK passed : passed = {barrier.passed[c] : c \in Coroutines}
  OBVIOUS
<1>2. \A c \in Coroutines : left[c] \in 0 .. MaxAwaits[kind] /\ MaxAwaits[kind] \in Nat
  BY CoroutineAssumption DEF KindInv
<1>3. CASE kind # "barrier"
  <2>1. barrier.firsts = 0 /\ \A c \in Coroutines : barrier.passed[c] = 0
    BY <1>3 DEF KindInv
  <2>2. passed = {0}
    BY <1>1, <2>1, SyncAssumption
  <2>3. Max(passed) = 0
    BY <2>2, GreatestIs
  <2>4. \A c, d \in Coroutines : barrier.passed[c] <= MaxAwaits[kind] - left[d]
    BY <1>2, <2>1
  <2> QED BY <1>1, <2>1, <2>3, <2>4 DEF BarrierTogether
<1>4. CASE kind = "barrier"
  <2>1. PICK g \in 0 .. MaxAwaits[kind] : Round(g)
    BY <1>4 DEF BarrierInv
  <2>2. \A c \in Coroutines : /\ barrier.passed[c] \in Int /\ barrier.passed[c] <= g
                              /\ g <= Arrived(c)
    BY <2>1 DEF Round
  <2>3. \A c, d \in Coroutines : barrier.passed[c] <= MaxAwaits[kind] - left[d]
    BY <1>2, <2>2 DEF Arrived
  <2>4. Max(passed) = barrier.firsts
    <3>1. CASE barrier.resume_count = 0
      <4>1. \A c \in Coroutines : barrier.passed[c] = barrier.firsts
        BY <2>1, <3>1 DEF Round
      <4>2. barrier.firsts \in passed /\ passed \subseteq Int /\ \A x \in passed : x <= barrier.firsts
        BY <1>1, <2>2, <4>1, SyncAssumption
      <4> QED BY <4>2, GreatestIs
    <3>2. CASE barrier.resume_count # 0
      <4>1. barrier.firsts = g /\ \E c \in Coroutines : barrier.passed[c] = g
        BY <2>1, <3>2 DEF Round
      <4>2. barrier.firsts \in passed /\ passed \subseteq Int /\ \A x \in passed : x <= barrier.firsts
        BY <1>1, <2>2, <4>1
      <4> QED BY <4>2, GreatestIs
    <3> QED BY <3>1, <3>2
  <2> QED BY <1>1, <2>3, <2>4 DEF BarrierTogether
<1> QED BY <1>3, <1>4

(* Where the threads and the handles of a barrier are, early or not. *)
AtHome(x) == x.c \in Coroutines /\ x.at \in Places /\ x.at = aw[x.c].caller
Inside(t) == AtHome(t) /\ (t.op = "release" => t.k \in 1 .. yield_max)

LEMMA HomeIs ==
  ASSUME kind = "barrier"
  PROVE  BarrierHome <=> /\ barrier \in BarrierType /\ Homes /\ \A x \in All : Inside(x)
                         /\ \A i \in 1 .. yield_max : barrier.handles[i] # Nobody => AtHome(barrier.handles[i])
BY DEF BarrierHome, AtHome, Inside

LEMMA HomeNext ==
  ASSUME kind = "barrier", BarrierHome, UNCHANGED <<kind, aw>>, barrier' \in BarrierType,
         \A x \in All' : Inside(x),
         \A i \in 1 .. yield_max : barrier'.handles[i] # Nobody => AtHome(barrier'.handles[i])
  PROVE  BarrierHome'
<1>1. Homes'
  BY DEF BarrierHome, Homes
<1> QED BY <1>1 DEF BarrierHome, AtHome, Inside, yield_max

LEMMA HomeKeeps ==
  ASSUME kind = "barrier", KindInv, BarrierHome, Next
  PROVE  BarrierHome'
<1>1. /\ barrier \in BarrierType /\ \A x \in All : Inside(x) /\ Whole(x)
      /\ \A i \in 1 .. yield_max : barrier.handles[i] # Nobody => AtHome(barrier.handles[i])
  BY HomeIs DEF KindInv
<1>2. UNCHANGED <<kind, aw>>
  BY DEF Next, Awaits, Starts, Returns, Waits, Syncs
\* Those that keep their coroutine and their place.
<1>3. ASSUME NEW t \in All, NEW op, NEW u, u = [t EXCEPT !.op = op], op # "release" PROVE Inside(u)
  <2>1. Whole(t) /\ AtHome(t)
    BY <1>1 DEF Inside
  <2>2. PICK v : /\ v = [t EXCEPT !.op = op] /\ Whole(v)
                 /\ v.c = t.c /\ v.op = op /\ v.k = t.k /\ v.at = t.at /\ v.on = t.on
    BY <2>1, ChangeOp, Zenon
  <2>3. u = v
    BY <1>3, <2>2
  <2> QED BY <1>3, <2>1, <2>2, <2>3 DEF AtHome, Inside
<1>4. ASSUME NEW t \in All, NEW k, NEW u, u = [t EXCEPT !.k = k], k \in 1 .. yield_max PROVE Inside(u)
  <2>1. Whole(t) /\ AtHome(t)
    BY <1>1 DEF Inside
  <2>2. PICK v : /\ v = [t EXCEPT !.k = k] /\ Whole(v)
                 /\ v.c = t.c /\ v.op = t.op /\ v.k = k /\ v.at = t.at /\ v.on = t.on
    BY <2>1, ChangeK, Zenon
  <2>3. u = v
    BY <1>4, <2>2
  <2> QED BY <1>4, <2>1, <2>2, <2>3 DEF AtHome, Inside
<1>5. ASSUME NEW t \in All, NEW op, NEW k, NEW u, u = [t EXCEPT !.op = op, !.k = k],
             op = "release" => k \in 1 .. yield_max
      PROVE  Inside(u)
  <2>1. Whole(t) /\ AtHome(t)
    BY <1>1 DEF Inside
  <2>2. u = [c |-> t.c, op |-> op, k |-> k, at |-> t.at, on |-> t.on, first |-> t.first]
    BY <1>5, <2>1, ChangeBoth, Zenon
  <2>3. u.c = t.c /\ u.at = t.at /\ u.op = op /\ u.k = k
    BY <2>2
  <2> QED BY <1>5, <2>1, <2>3 DEF AtHome, Inside
<1>6. ASSUME barrier' = barrier, \A x \in All' : Inside(x) PROVE BarrierHome'
  BY <1>1, <1>2, <1>6, HomeNext
<1>7. ASSUME NEW t \in tasks, Starts(t) PROVE BarrierHome'
  <2>1. All' = All /\ barrier' = barrier
    BY <1>7 DEF Starts, Start, All, svars
  <2> QED BY <1>1, <1>6, <2>1
<1>8. ASSUME NEW t \in running, Returns(t) PROVE BarrierHome'
  <2>1. barrier' = barrier /\ (End(t, {}) \/ Step(t, "notify", {}))
    BY <1>8 DEF Returns, Return, Notify, svars
  <2>2. \A x \in All' : x \in All \/ x = [t EXCEPT !.op = "notify"]
    BY <2>1 DEF End, Step, All
  <2> QED BY <1>1, <1>3, <1>6, <2>1, <2>2 DEF All
<1>9. ASSUME NEW c \in Coroutines, Waits(c) PROVE BarrierHome'
  <2>1. All' = All /\ barrier' = barrier
    BY <1>9 DEF Waits, Wait, All, svars
  <2> QED BY <1>1, <1>6, <2>1
<1>10. ASSUME NEW t \in running, Barrier(t) PROVE BarrierHome'
  <2>1. PICK y : y = barrier.yield_count /\ y \in Nat
    BY <1>1 DEF BarrierType
  <2>2. /\ running' = (running \ {t}) \cup {[t EXCEPT !.op = "store", !.k = y + 1]} /\ UNCHANGED tasks
        /\ barrier' = [barrier EXCEPT !.yield_count = y + 1]
    BY <1>10, <2>1 DEF Barrier
  <2>3. y + 1 \in Nat
    BY <2>1
  <2>4. barrier' \in BarrierType /\ barrier'.handles = barrier.handles
    BY <1>1, <2>2, <2>3 DEF BarrierType
  <2>5. PICK u : u = [t EXCEPT !.op = "store", !.k = y + 1]
    OBVIOUS
  <2>6. \A x \in All' : Inside(x)
    <3>1. t \in All /\ \A x \in All' : x \in All \/ x = u
      BY <2>2, <2>5 DEF All
    <3>2. Inside(u)
      <4>1. Whole(t) /\ AtHome(t)
        BY <1>1, <3>1 DEF Inside
      <4>2. PICK k, op : k = y + 1 /\ op = "store"
        OBVIOUS
      <4>3. u = [c |-> t.c, op |-> op, k |-> k, at |-> t.at, on |-> t.on, first |-> t.first]
        BY <2>5, <4>1, <4>2, ChangeBoth, Zenon
      <4>4. u.c = t.c /\ u.at = t.at /\ u.op = "store"
        BY <4>2, <4>3
      <4> QED BY <4>1, <4>4 DEF AtHome, Inside
    <3> QED BY <1>1, <3>1, <3>2
  <2> QED BY <1>1, <1>2, <2>4, <2>6, HomeNext
<1>11. ASSUME NEW t \in running, Store(t) PROVE BarrierHome'
  <2>1. PICK f, h : f = [barrier.handles EXCEPT ![t.k] = h] /\ h = Info(t)
    OBVIOUS
  <2>2. AtHome(h) /\ h \in Infos
    <3>1. t \in All
      BY DEF All
    <3>2. AtHome(t) /\ h = [c |-> t.c, at |-> t.at]
      BY <1>1, <2>1, <3>1 DEF Info, Inside
    <3> QED BY <3>2 DEF AtHome, Infos
  <2>3. /\ f \in [1 .. yield_max -> Infos \cup {Nobody}]
        /\ \A i \in 1 .. yield_max : f[i] = h \/ f[i] = barrier.handles[i]
    BY <1>1, <2>1, <2>2 DEF BarrierType
  <2>4. barrier' = [barrier EXCEPT !.handles = f]
        \/ barrier' = [[[barrier EXCEPT !.handles = f] EXCEPT !.yield_count = 0] EXCEPT !.resume_count = 0]
    BY <1>1, <1>11, <2>1 DEF Store, BarrierType
  <2>5. PICK b : b = [barrier EXCEPT !.handles = f]
    OBVIOUS
  <2>6. b \in BarrierType /\ b.handles = f /\ 0 \in Nat
    BY <1>1, <2>3, <2>5 DEF BarrierType
  <2>7. [b EXCEPT !.yield_count = 0] \in BarrierType /\ [b EXCEPT !.yield_count = 0].handles = f
    BY <2>6 DEF BarrierType
  <2>8. /\ [[b EXCEPT !.yield_count = 0] EXCEPT !.resume_count = 0] \in BarrierType
        /\ [[b EXCEPT !.yield_count = 0] EXCEPT !.resume_count = 0].handles = f
    BY <2>6, <2>7 DEF BarrierType
  <2>9. barrier' \in BarrierType /\ barrier'.handles = f
    BY <2>4, <2>5, <2>6, <2>8
  <2>10. PICK u : u = [t EXCEPT !.op = "release", !.k = 1]
    OBVIOUS
  <2>11. \A x \in All' : Inside(x)
    <3>1. t \in All /\ \A x \in All' : x \in All \/ x = u
      BY <1>11, <2>10 DEF Store, End, All
    <3>2. 1 \in 1 .. yield_max
      BY SyncAssumption, FS_CardinalityType, FS_EmptySet DEF yield_max
    <3>3. Inside(u)
      BY <1>5, <2>10, <3>1, <3>2
    <3> QED BY <1>1, <3>1, <3>3
  <2> QED BY <1>1, <1>2, <2>2, <2>3, <2>9, <2>11, HomeNext
<1>12. ASSUME NEW t \in running, Release(t) PROVE BarrierHome'
  <2>1. PICK e : e \in BOOLEAN /\ barrier' = [barrier EXCEPT !.early = e]
    <3>1. PICK e : /\ e = (barrier.early \/ \E u \in running : u.op = "store" /\ u.k = t.k)
                   /\ barrier' = [barrier EXCEPT !.early = e]
      BY <1>12 DEF Release
    <3>2. e \in BOOLEAN
      BY <1>1, <3>1 DEF BarrierType
    <3> QED BY <3>1, <3>2
  <2>2. barrier' \in BarrierType /\ barrier'.handles = barrier.handles
    BY <1>1, <2>1 DEF BarrierType
  <2>3. PICK h : h = barrier.handles[t.k]
    OBVIOUS
  <2>9. t \in All /\ t.op = "release" /\ t.k \in 1 .. yield_max
    BY <1>1, <1>12 DEF Release, At, All, Inside
  <2>4. \A x \in tasks' : x \in tasks \/ (h # Nobody /\ x \in ToDispatch(h, "count"))
    BY <1>12, <2>3 DEF Release
  <2>5. \A x \in running' : x \in running \/ (t.k # yield_max /\ x = [t EXCEPT !.k = t.k + 1])
    BY <1>12 DEF Release
  <2>6. h # Nobody => AtHome(h)
    BY <1>1, <2>3, <2>9
  <2>7. \A x \in ToDispatch(h, "count") : x.c = h.c /\ x.at = h.at /\ x.op = "count"
    BY DispatchIs
  <2>8. \A x \in All' : Inside(x)
    <3>1. ASSUME NEW x \in tasks' PROVE Inside(x)
      BY <1>1, <2>4, <2>6, <2>7 DEF AtHome, All, Inside
    <3>2. ASSUME NEW x \in running' PROVE Inside(x)
      <4>1. CASE x \in running
        BY <1>1, <4>1 DEF All
      <4>2. CASE t.k # yield_max /\ x = [t EXCEPT !.k = t.k + 1]
        <5>1. t.k + 1 \in 1 .. yield_max
          BY <2>9, <4>2, SyncAssumption, FS_CardinalityType DEF yield_max
        <5>2. PICK k : k = t.k + 1
          OBVIOUS
        <5> QED BY <1>4, <2>9, <4>2, <5>1, <5>2
      <4> QED BY <2>5, <4>1, <4>2
    <3> QED BY <3>1, <3>2 DEF All
  <2> QED BY <1>1, <1>2, <2>2, <2>8, HomeNext
<1>13. ASSUME NEW t \in running, Count(t) PROVE BarrierHome'
  <2>1. PICK m, q, f : /\ m = barrier.resume_count + 1 /\ q = [barrier.passed EXCEPT ![t.c] = @ + 1]
                       /\ f = barrier.firsts + (IF barrier.resume_count = 0 THEN 1 ELSE 0)
    OBVIOUS
  <2>2. m \in Nat /\ q \in [Coroutines -> Nat] /\ f \in Nat
    <3>1. barrier.passed \in [Coroutines -> Nat] /\ barrier.resume_count \in Nat /\ barrier.firsts \in Nat
      BY <1>1 DEF BarrierType
    <3>2. t.c \in Coroutines
      BY <1>1, <1>13 DEF All, Inside, AtHome
    <3> QED BY <2>1, <3>1, <3>2
  <2>3. barrier' = [barrier EXCEPT !.resume_count = m, !.passed = q, !.firsts = f]
    BY <1>13, <2>1 DEF Count
  <2>4. barrier' \in BarrierType /\ barrier'.handles = barrier.handles
    BY <1>1, <2>2, <2>3 DEF BarrierType
  <2>5. t \in All /\ \A x \in All' : x \in All \/ x = [t EXCEPT !.op = "body"]
    BY <1>13 DEF Count, Step, All
  <2>6. \A x \in All' : Inside(x)
    BY <1>1, <1>3, <2>5
  <2> QED BY <1>1, <1>2, <2>4, <2>6, HomeNext
<1>14. Syncs \/ (\E t \in tasks : Starts(t)) \/ (\E t \in running : Returns(t)) \/ \E c \in Coroutines : Waits(c)
  BY DEF Next, Awaits
<1>15. Syncs => \E t \in running : Barrier(t) \/ Store(t) \/ Release(t) \/ Count(t)
  BY DEF Syncs, BarrierNext
<1> QED BY <1>7, <1>8, <1>9, <1>10, <1>11, <1>12, <1>13, <1>14, <1>15

LEMMA HomeAtFirst == Init => BarrierHome
<1> SUFFICES ASSUME Init, kind = "barrier" PROVE BarrierHome
  BY DEF BarrierHome
<1>1. running = {} /\ Placed(tasks, {}, {}) /\ Lists /\ Homes
  BY AtFirst
<1>2. barrier \in BarrierType /\ \A x \in All : Inside(x)
  BY <1>1, AtFirst DEF Lists, Placed, Typed, AtHome, All, Inside
<1>3. barrier.handles = [i \in 1 .. yield_max |-> Nobody]
  BY DEF Init, SyncInit, yield_max
<1> QED BY <1>1, <1>2, <1>3, HomeIs

-----------------------------------------------------------------------------
(* The awaitables.  What each step does to the threads of its coroutine.    *)

\* What AwaitOk says of the threads B, L and F, and of the functions U, N and O.
Counted(B, L, F, U, N, O, w) ==
  /\ Kept(w)
  /\ w.pending = Cardinality(O) /\ w.done = DOMAIN w.targets \ N
  /\ \A t, u \in B : t = u
  /\ \A t, u \in L : t = u
  /\ \A t, u \in F : t.k = u.k => t = u
  /\ \A t \in L : t.k \in 1 .. Len(w.targets) + 1
  /\ \A t \in F : t.k \in DOMAIN w.targets /\ t.k \notin U
  /\ B # {} => O = {}
  /\ \A t \in B : t.at = w.caller

LEMMA OkIs ==
  ASSUME NEW S, NEW w
  PROVE  AwaitOk(S, w)
           <=> Counted(Bodies(S), Loops(S), Funcs(S), Unqueued(S, w), Unrun(S, w), Open(S, w), w)
BY DEF AwaitOk, Counted

LEMMA NobodyAwaited ==
  ASSUME NEW place, NEW o, NEW u, u.op = "body", u.at = place
  PROVE  AwaitOk({u}, NoAwait(place, o))
<1>1. PICK w : w = NoAwait(place, o)
  OBVIOUS
<1>2. /\ w.caller = place /\ w.targets = <<>> /\ w.pending = 0 /\ w.done = {} /\ w.multiple = FALSE
      /\ Kept(w) /\ DOMAIN w.targets = {}
  BY <1>1 DEF NoAwait, Kept
<1>3. Bodies({u}) = {u} /\ Loops({u}) = {} /\ Funcs({u}) = {}
  BY DEF Bodies, Loops, Funcs
<1>4. Unqueued({u}, w) = {} /\ Open({u}, w) = {} /\ Unrun({u}, w) = {}
  BY <1>2, <1>3 DEF Unqueued, Open, Unrun
<1>5. Cardinality(Open({u}, w)) = 0
  BY <1>4, FS_EmptySet
<1>6. AwaitOk({u}, w)
  BY <1>2, <1>3, <1>4, <1>5 DEF AwaitOk
<1> QED BY <1>1, <1>6

LEMMA AwaitsAlone ==
  ASSUME NEW S, NEW w, AwaitOk(S, w), Loops(S) = {}, NEW t \in S, t.op = "body",
         \A x \in S : x.op \in OpsOf["await"]
  PROVE  S = {t}
<1>1. Funcs(S) = {} /\ \A x, u \in Bodies(S) : x = u
  <2>1. t \in Bodies(S)
    BY DEF Bodies
  <2>2. Open(S, w) = {}
    BY <2>1 DEF AwaitOk
  <2> QED BY <2>2 DEF Open, AwaitOk
<1>2. \A x \in S : x \in Bodies(S)
  BY <1>1, Ops DEF Bodies, Loops, Funcs
<1> QED BY <1>1, <1>2

LEMMA SuspendsOk ==
  ASSUME NEW u, u.op = "loop", u.k = 1, NEW w, Kept(w), w.targets \in Seq(Targets),
         w.pending = Len(w.targets), w.done = {}
  PROVE  AwaitOk({u}, w)
<1>1. PICK n \in Nat : n = Len(w.targets) /\ DOMAIN w.targets = 1 .. n
  OBVIOUS
<1>2. Bodies({u}) = {} /\ Loops({u}) = {u} /\ Funcs({u}) = {}
  BY DEF Bodies, Loops, Funcs
<1>3. Unqueued({u}, w) = 1 .. n
  <2>1. Unqueued({u}, w) = {k \in 1 .. n : u.k <= k}
    BY <1>1, <1>2 DEF Unqueued
  <2>2. \A k \in 1 .. n : u.k <= k
    OBVIOUS
  <2> QED BY <2>1, <2>2
<1>4. Open({u}, w) = 1 .. n /\ Unrun({u}, w) = 1 .. n
  BY <1>2, <1>3 DEF Open, Unrun
<1>5. Cardinality(1 .. n) = n
  BY <1>1, FS_Interval
<1>7. u.k \in 1 .. Len(w.targets) + 1
  BY <1>1
<1>8. Counted({}, {u}, {}, 1 .. n, 1 .. n, 1 .. n, w)
  BY <1>1, <1>5, <1>7 DEF Counted
<1> QED BY <1>2, <1>3, <1>4, <1>8, OkIs

LEMMA BodyOk ==
  ASSUME NEW S, NEW w, AwaitOk(S, w), NEW t \in S, t.op \in {"body", "notify"}, NEW u, u.op = "notify", u.at = t.at,
         NEW T, T = S \ {t} \/ T = (S \ {t}) \cup {u}
  PROVE  AwaitOk(T, w)
<1>1. Loops(T) = Loops(S) /\ Funcs(T) = Funcs(S)
  BY DEF Loops, Funcs
<1>2. {x \in T : x.op = "func"} = {x \in S : x.op = "func"}
  OBVIOUS
<1>3. Unqueued(T, w) = Unqueued(S, w) /\ Open(T, w) = Open(S, w) /\ Unrun(T, w) = Unrun(S, w)
  BY <1>1, <1>2 DEF Unqueued, Open, Unrun
<1>4. Bodies(S) # {} /\ \A x \in Bodies(S) : x = t
  BY DEF AwaitOk, Bodies
<1>5. \A x \in Bodies(T) : x = u
  BY <1>4 DEF Bodies
<1> QED BY <1>1, <1>3, <1>4, <1>5 DEF AwaitOk

LEMMA QueuedOk ==
  ASSUME NEW S, NEW w, AwaitOk(S, w), NEW t \in S, t.op = "loop", t.k > Len(w.targets),
         w.targets \in Seq(Targets), NEW T, T = S \ {t}
  PROVE  AwaitOk(T, w)
<1>1. PICK n \in Nat : n = Len(w.targets) /\ DOMAIN w.targets = 1 .. n
  OBVIOUS
<1>2. Loops(S) = {t} /\ Loops(T) = {}
  BY DEF Loops, AwaitOk
<1>3. Funcs(T) = Funcs(S) /\ Bodies(T) = Bodies(S)
  BY DEF Funcs, Bodies
<1>4. {x \in T : x.op = "func"} = {x \in S : x.op = "func"}
  OBVIOUS
<1>5. Unqueued(S, w) = {} /\ Unqueued(T, w) = {}
  <2>1. \A k \in 1 .. n : ~(t.k <= k)
    BY <1>1, <1>2 DEF AwaitOk
  <2> QED BY <1>1, <1>2, <2>1 DEF Unqueued
<1>6. Open(T, w) = Open(S, w) /\ Unrun(T, w) = Unrun(S, w)
  BY <1>3, <1>4, <1>5 DEF Open, Unrun
<1>7. \A x \in Loops(T) : FALSE
  BY <1>2
<1> QED BY <1>2, <1>3, <1>5, <1>6, <1>7 DEF AwaitOk

LEMMA FuncOk ==
  ASSUME NEW S, NEW w, AwaitOk(S, w), NEW t \in S, t.op = "func", NEW u, u.op = "resume_one", u.k = t.k,
         NEW T, T = (S \ {t}) \cup {u}, NEW v, Kept(v), v.caller = w.caller, v.targets = w.targets,
         v.pending = w.pending, v.done = w.done \cup {t.k}
  PROVE  AwaitOk(T, v)
<1>1. Loops(T) = Loops(S) /\ Bodies(T) = Bodies(S)
  BY DEF Loops, Bodies
<1>2. t \in Funcs(S) /\ Funcs(T) = (Funcs(S) \ {t}) \cup {u}
  BY DEF Funcs
<1>3. t.k \in DOMAIN w.targets /\ t.k \notin Unqueued(S, w) /\ \A x \in Funcs(S) : x.k = t.k => x = t
  BY <1>2 DEF AwaitOk
<1>4. Unqueued(T, v) = Unqueued(S, w)
  BY <1>1 DEF Unqueued
<1>5. Open(T, v) = Open(S, w)
  <2>1. {x.k : x \in Funcs(T)} = {x.k : x \in Funcs(S)}
    BY <1>2
  <2> QED BY <1>4, <2>1 DEF Open
<1>6. Unrun(T, v) = Unrun(S, w) \ {t.k}
  <2>1. {x \in T : x.op = "func"} = {x \in S : x.op = "func"} \ {t}
    OBVIOUS
  <2>2. \A x \in {x \in S : x.op = "func"} : x.k = t.k => x = t
    BY <1>3 DEF Funcs
  <2> QED BY <1>3, <1>4, <2>1, <2>2 DEF Unrun
<1>7. v.done = DOMAIN v.targets \ Unrun(T, v)
  BY <1>3, <1>6 DEF AwaitOk
<1>8. /\ \A x, y \in Funcs(T) : x.k = y.k => x = y
      /\ \A x \in Funcs(T) : x.k \in DOMAIN v.targets /\ x.k \notin Unqueued(T, v)
  <2>1. /\ \A x, y \in Funcs(S) : x.k = y.k => x = y
        /\ \A x \in Funcs(S) : x.k \in DOMAIN w.targets /\ x.k \notin Unqueued(S, w)
    BY DEF AwaitOk
  <2>2. \A x, y \in Funcs(T) : x.k = y.k => x = y
    BY <1>2, <1>3, <2>1
  <2>3. \A x \in Funcs(T) : x.k \in DOMAIN w.targets /\ x.k \notin Unqueued(S, w)
    BY <1>2, <1>3, <2>1
  <2> QED BY <1>4, <2>2, <2>3
<1> QED BY <1>1, <1>4, <1>5, <1>7, <1>8 DEF AwaitOk

LEMMA QueuesOk ==
  ASSUME NEW S, NEW w, AwaitOk(S, w), NEW t \in S, t.op = "loop", NEW m, m = Len(w.targets), t.k <= m,
         w.targets \in Seq(Targets), NEW u, u.op = "loop", NEW l, l = t.k + 1, u.k = l, NEW x, x.op = "func", x.k = t.k,
         NEW T, T = (S \ {t}) \cup {u, x}
  PROVE  AwaitOk(T, w) /\ x \notin S
<1>1. PICK n \in Nat : n = Len(w.targets) /\ DOMAIN w.targets = 1 .. n
  OBVIOUS
<1>2. t \in Loops(S) /\ Loops(S) = {t} /\ t.k \in 1 .. n
  BY <1>1 DEF Loops, AwaitOk
<1>3. Loops(T) = {u} /\ Funcs(T) = Funcs(S) \cup {x} /\ Bodies(T) = Bodies(S)
  <2>1. \A y \in Loops(S) : y = t
    BY <1>2
  <2>2. Loops(T) = {u}
    BY <2>1 DEF Loops
  <2>3. Funcs(T) = Funcs(S) \cup {x} /\ Bodies(T) = Bodies(S)
    BY DEF Funcs, Bodies
  <2> QED BY <2>2, <2>3
<1>4. Unqueued(S, w) = {k \in 1 .. n : t.k <= k} /\ Unqueued(T, w) = {k \in 1 .. n : t.k + 1 <= k}
  BY <1>1, <1>2, <1>3 DEF Unqueued
<1>5. Unqueued(T, w) = Unqueued(S, w) \ {t.k} /\ t.k \in Unqueued(S, w)
  <2>1. PICK q \in 1 .. n : q = t.k
    BY <1>2
  <2>2. \A k \in 1 .. n : q + 1 <= k <=> q <= k /\ k # q
    OBVIOUS
  <2>3. Unqueued(S, w) = {k \in 1 .. n : q <= k} /\ Unqueued(T, w) = {k \in 1 .. n : q + 1 <= k}
    BY <1>4, <2>1
  <2>4. q \in Unqueued(S, w) /\ Unqueued(T, w) = Unqueued(S, w) \ {q}
    <3>1. q \in {k \in 1 .. n : q <= k} /\ {k \in 1 .. n : q + 1 <= k} = {k \in 1 .. n : q <= k} \ {q}
      BY <2>2
    <3> QED BY <2>3, <3>1
  <2> QED BY <2>1, <2>4
<1>6. Open(T, w) = Open(S, w)
  BY <1>3, <1>5 DEF Open
<1>7. Unrun(T, w) = Unrun(S, w)
  <2>1. {y \in T : y.op = "func"} = {y \in S : y.op = "func"} \cup {x}
    OBVIOUS
  <2>2. {y.k : y \in {z \in T : z.op = "func"}} = {y.k : y \in {z \in S : z.op = "func"}} \cup {t.k}
    BY <2>1
  <2> QED BY <1>5, <2>2 DEF Unrun
<1>8. Bodies(T) = {}
  <2>1. t.k \in Open(S, w)
    BY <1>5 DEF Open
  <2> QED BY <1>3, <2>1 DEF AwaitOk
<1>9. /\ \A y, z \in Funcs(T) : y.k = z.k => y = z
      /\ \A y \in Funcs(T) : y.k \in DOMAIN w.targets /\ y.k \notin Unqueued(T, w)
  <2>1. /\ \A y, z \in Funcs(S) : y.k = z.k => y = z
        /\ \A y \in Funcs(S) : y.k \in DOMAIN w.targets /\ y.k \notin Unqueued(S, w)
    BY DEF AwaitOk
  <2>2. \A y \in Funcs(S) : y.k # x.k
    BY <1>5, <2>1
  <2>3. x.k \in DOMAIN w.targets /\ x.k \notin Unqueued(T, w)
    BY <1>1, <1>2, <1>5
  <2> QED BY <1>3, <1>5, <2>1, <2>2, <2>3
<1>10. \A y \in Loops(T) : y = u
  BY <1>3
<1>11. u.k \in 1 .. Len(w.targets) + 1
  BY <1>1, <1>2
<1>13. AwaitOk(T, w)
  BY <1>6, <1>7, <1>8, <1>9, <1>10, <1>11 DEF AwaitOk
<1>14. x \notin S
  <2>1. \A y \in Funcs(S) : y.k # t.k
    BY <1>5 DEF AwaitOk
  <2> QED BY <2>1 DEF Funcs
<1> QED BY <1>13, <1>14

LEMMA CountsOk ==
  ASSUME NEW S, NEW w, AwaitOk(S, w), NEW t \in S, t.op = "resume_one",
         w.targets \in Seq(Targets), NEW u, u.op = "body", u.at = w.caller,
         NEW T, IF w.pending = 1 THEN T = (S \ {t}) \cup {u} ELSE T = S \ {t},
         NEW v, Kept(v), v.caller = w.caller, v.targets = w.targets, v.pending = w.pending - 1, v.done = w.done
  PROVE  AwaitOk(T, v) /\ u \notin S
<1>1. PICK n \in Nat : n = Len(w.targets) /\ DOMAIN w.targets = 1 .. n
  OBVIOUS
<1>2. t \in Funcs(S) /\ Funcs(T) = Funcs(S) \ {t} /\ Loops(T) = Loops(S)
  BY DEF Funcs, Loops
<1>3. t.k \in DOMAIN w.targets /\ t.k \notin Unqueued(S, w) /\ \A x \in Funcs(S) : x.k = t.k => x = t
  BY <1>2 DEF AwaitOk
<1>4. Unqueued(T, v) = Unqueued(S, w)
  BY <1>2 DEF Unqueued
<1>5. Open(T, v) = Open(S, w) \ {t.k} /\ t.k \in Open(S, w)
  BY <1>2, <1>3, <1>4 DEF Open
<1>6. IsFiniteSet(Open(S, w)) /\ Open(S, w) \subseteq 1 .. n
  <2>1. \A x \in Funcs(S) : x.k \in 1 .. n
    BY <1>1 DEF AwaitOk
  <2>2. Open(S, w) \subseteq 1 .. n
    BY <1>1, <2>1 DEF Open, Unqueued
  <2>3. IsFiniteSet(1 .. n)
    BY FS_Interval
  <2> QED BY <2>2, <2>3, FS_Subset
<1>7. PICK o \in Nat : o = Cardinality(Open(S, w))
  BY <1>6, FS_CardinalityType
<1>8. Cardinality(Open(T, v)) = o - 1
  BY <1>5, <1>6, <1>7, FS_RemoveElement
<1>9. w.pending = o /\ v.pending = Cardinality(Open(T, v))
  BY <1>7, <1>8 DEF AwaitOk
<1>10. Unrun(T, v) = Unrun(S, w)
  <2>1. {x \in T : x.op = "func"} = {x \in S : x.op = "func"}
    OBVIOUS
  <2> QED BY <1>4, <2>1 DEF Unrun
<1>11. Bodies(S) = {}
  BY <1>5 DEF AwaitOk
<1>12. \A x \in Bodies(T) : x = u /\ w.pending = 1
  BY <1>11 DEF Bodies
<1>13. Bodies(T) # {} => Open(T, v) = {}
  <2>1. ASSUME w.pending = 1 PROVE Open(T, v) = {}
    <3>1. IsFiniteSet(Open(T, v)) /\ Cardinality(Open(T, v)) = 0
      BY <1>5, <1>6, <1>8, <1>9, <2>1, FS_RemoveElement
    <3> QED BY <3>1, FS_EmptySet
  <2> QED BY <1>12, <2>1
<1>14. /\ \A x, y \in Funcs(T) : x.k = y.k => x = y
       /\ \A x \in Funcs(T) : x.k \in DOMAIN v.targets /\ x.k \notin Unqueued(T, v)
       /\ v.done = DOMAIN v.targets \ Unrun(T, v)
  BY <1>2, <1>4, <1>10 DEF AwaitOk
<1>15. u \notin S
  BY <1>11 DEF Bodies
<1>16. /\ \A x, y \in Loops(T) : x = y
       /\ \A x \in Loops(T) : x.k \in 1 .. Len(v.targets) + 1
  BY <1>2 DEF AwaitOk
<1> QED BY <1>9, <1>12, <1>13, <1>14, <1>15, <1>16 DEF AwaitOk

\* A step of one thread leaves the other coroutines alone.
LEMMA AwaitMoves ==
  ASSUME kind = "await", TypeInv, AwaitInv, UNCHANGED <<svars, kind>>,
         NEW t \in running, NEW Q, NEW R, running' = (running \ {t}) \cup R, tasks' = tasks \cup Q,
         \A x \in Q \cup R : x.c = t.c /\ Typed(x) /\ (x.op = "loop" => x.k > 0),
         NEW w, aw' = [aw EXCEPT ![t.c] = w], w.caller \in Places, w.targets \in Seq(Targets),
         ~w.overtaken => /\ ~aw[t.c].overtaken
                         /\ AwaitOk((Mine(All, t.c) \ {t}) \cup (Q \cup R), w)
                         /\ Q \cap (running \ {t}) = {} /\ R \cap tasks = {} /\ Q \cap R = {}
  PROVE  SyncInv' /\ AwaitInv'
<1>1. /\ aw = [c \in Coroutines |-> aw[c]]
      /\ \A c \in Coroutines : aw[c].caller \in Places /\ aw[c].targets \in Seq(Targets)
      /\ \A x \in All : x.op = "loop" => x.k > 0
      /\ \A c \in Coroutines : ~aw[c].overtaken => AwaitOk(Mine(All, c), aw[c]) /\ Mine(tasks, c) \cap running = {}
  BY DEF AwaitInv
<1>2. t.c \in Coroutines
  BY DEF TypeInv, All
<1>3. \A x \in All' : x \in All \/ x \in Q \cup R
  BY DEF All
<1>4. aw' = [c \in Coroutines |-> IF c = t.c THEN w ELSE aw[c]]
  BY <1>1
<1>5. ASSUME NEW c \in Coroutines, c # t.c, ~aw'[c].overtaken
      PROVE  AwaitOk(Mine(All', c), aw'[c]) /\ Mine(tasks', c) \cap running' = {}
  <2>1. aw'[c] = aw[c]
    BY <1>4, <1>5
  <2>2. Mine(All', c) = Mine(All, c)
    BY <1>5 DEF Mine, All
  <2>3. \A x : x \in Mine(tasks', c) /\ x \in running' => x \in Mine(tasks, c) /\ x \in running
    BY <1>5 DEF Mine
  <2>4. AwaitOk(Mine(All, c), aw[c]) /\ Mine(tasks, c) \cap running = {}
    BY <1>1, <1>5, <2>1
  <2>5. Mine(tasks', c) \cap running' = {}
    BY <2>3, <2>4
  <2> QED BY <2>1, <2>2, <2>4, <2>5
<1>6. ASSUME ~aw'[t.c].overtaken
      PROVE  AwaitOk(Mine(All', t.c), aw'[t.c]) /\ Mine(tasks', t.c) \cap running' = {}
  <2>1. aw'[t.c] = w
    BY <1>2, <1>4
  <2>2. /\ ~aw[t.c].overtaken /\ AwaitOk((Mine(All, t.c) \ {t}) \cup (Q \cup R), w)
        /\ Q \cap (running \ {t}) = {} /\ R \cap tasks = {} /\ Q \cap R = {}
    BY <1>6, <2>1
  <2>3. Mine(tasks, t.c) \cap running = {} /\ t \notin tasks
    <3>1. Mine(tasks, t.c) \cap running = {}
      BY <1>1, <1>2, <2>2
    <3> QED BY <3>1 DEF Mine
  <2>4. Mine(All', t.c) = (Mine(All, t.c) \ {t}) \cup (Q \cup R)
    BY <2>3 DEF Mine, All
  <2>5. Mine(tasks', t.c) \cap running' = {}
    BY <2>2, <2>3 DEF Mine
  <2> QED BY <2>1, <2>2, <2>4, <2>5
<1>7. AwaitInv'
  <2>1. aw' = [c \in Coroutines |-> aw'[c]]
    BY <1>4
  <2>2. \A c \in Coroutines : aw'[c].caller \in Places /\ aw'[c].targets \in Seq(Targets)
    BY <1>1, <1>4
  <2>3. \A x \in All' : x.op = "loop" => x.k > 0
    BY <1>1, <1>3
  <2>4. \A c \in Coroutines : ~aw'[c].overtaken => AwaitOk(Mine(All', c), aw'[c]) /\ Mine(tasks', c) \cap running' = {}
    BY <1>5, <1>6
  <2> QED BY <2>1, <2>2, <2>3, <2>4 DEF AwaitInv
<1>8. TypeInv'
  <2>1. \A x \in All' : x.c \in Coroutines /\ x.k \in Nat /\ x.at \in Places
    BY <1>3 DEF TypeInv, Typed
  <2>2. Held' = Held
    BY DEF svars, Held, Handles
  <2> QED BY <2>1, <2>2 DEF TypeInv, svars, BarrierType
<1>9. UniqueInv' /\ HomeInv'
  BY DEF UniqueInv, HomeInv
<1> QED BY <1>7, <1>8, <1>9 DEF SyncInv

\* What is known of the coroutine t.c of a running thread t.
LEMMA AwaitingIs ==
  ASSUME kind = "await", KindInv, TypeInv, AwaitInv, NEW t \in running
  PROVE  /\ Whole(t) /\ Typed(t) /\ t.c \in Coroutines /\ t \in Mine(All, t.c) /\ (t.op = "loop" => t.k > 0)
         /\ aw[t.c].caller \in Places /\ aw[t.c].targets \in Seq(Targets)
         /\ ~aw[t.c].overtaken => AwaitOk(Mine(All, t.c), aw[t.c]) /\ t \notin tasks
         /\ \A x \in Mine(All, t.c) : x.op \in OpsOf["await"]
         /\ \A x \in tasks : x.op \in {"body", "func"}
         /\ aw = [c \in Coroutines |-> aw[c]]
<1>1. t \in All /\ t.c \in Coroutines
  BY DEF All, TypeInv
<1>2. Whole(t) /\ Typed(t)
  BY <1>1 DEF KindInv, TypeInv, Typed
<1>3. /\ aw[t.c].caller \in Places /\ aw[t.c].targets \in Seq(Targets) /\ aw = [c \in Coroutines |-> aw[c]]
      /\ t.op = "loop" => t.k > 0
      /\ ~aw[t.c].overtaken => AwaitOk(Mine(All, t.c), aw[t.c]) /\ Mine(tasks, t.c) \cap running = {}
  BY <1>1 DEF AwaitInv
<1>4. Mine(tasks, t.c) \cap running = {} => t \notin tasks
  BY DEF Mine
<1>5. \A x \in tasks : x.op \in {"body", "func"}
  BY Ops DEF KindInv
<1>6. \A x \in Mine(All, t.c) : x.op \in OpsOf["await"]
  BY DEF KindInv, Mine
<1> QED BY <1>1, <1>2, <1>3, <1>4, <1>5, <1>6 DEF Mine

LEMMA AwaitCommon ==
  ASSUME kind = "await", KindInv, SyncInv, AwaitInv,
         (\E t \in tasks : Starts(t)) \/ (\E t \in running : Returns(t)) \/ (\E c \in Coroutines : Waits(c))
  PROVE  SyncInv' /\ AwaitInv'
<1>1. UNCHANGED <<kind, aw, svars, left>>
  BY DEF Starts, Returns, Waits, Start, Return, Notify, Wait
<1>2. ASSUME All' = All, \A c : Mine(tasks, c) \cap running = {} => Mine(tasks', c) \cap running' = {}
      PROVE  SyncInv' /\ AwaitInv'
  <2>1. AwaitInv'
    BY <1>1, <1>2 DEF AwaitInv
  <2>2. Held' = Held
    BY <1>1 DEF svars, Held, Handles
  <2>3. TypeInv'
    BY <1>1, <1>2, <2>2 DEF TypeInv, SyncInv, svars, BarrierType
  <2>4. UniqueInv' /\ HomeInv'
    BY <1>1 DEF UniqueInv, HomeInv
  <2> QED BY <2>1, <2>3, <2>4 DEF SyncInv
<1>3. ASSUME NEW t \in tasks, Starts(t) PROVE SyncInv' /\ AwaitInv'
  <2>1. tasks' = tasks \ {t} /\ running' = running \cup {t}
    BY <1>3 DEF Starts, Start
  <2>2. \A c : Mine(tasks, c) \cap running = {} => Mine(tasks', c) \cap running' = {}
    BY <2>1 DEF Mine
  <2> QED BY <1>2, <2>1, <2>2 DEF All
<1>4. ASSUME NEW c \in Coroutines, Waits(c) PROVE SyncInv' /\ AwaitInv'
  <2>1. tasks' = tasks /\ running' = running
    BY <1>4 DEF Waits, Wait
  <2> QED BY <1>2, <2>1 DEF All, Mine
<1>5. ASSUME NEW t \in running, Returns(t) PROVE SyncInv' /\ AwaitInv'
  <2>1. /\ Whole(t) /\ Typed(t) /\ t.c \in Coroutines /\ t \in Mine(All, t.c)
        /\ aw[t.c].caller \in Places /\ aw[t.c].targets \in Seq(Targets)
        /\ ~aw[t.c].overtaken => AwaitOk(Mine(All, t.c), aw[t.c]) /\ t \notin tasks
        /\ aw = [c \in Coroutines |-> aw[c]]
        /\ \A x \in tasks : x.op \in {"body", "func"}
    BY AwaitingIs DEF SyncInv
  <2> PICK u : /\ u = [t EXCEPT !.op = "notify"] /\ Whole(u)
               /\ u.c = t.c /\ u.op = "notify" /\ u.k = t.k /\ u.at = t.at /\ u.on = t.on
    BY <2>1, ChangeOp, Zenon
  <2>2. tasks' = tasks \cup {} /\ t.op \in {"body", "notify"}
    BY <1>5 DEF Returns, Return, Notify, End, Step, At
  <2>3. PICK R : running' = (running \ {t}) \cup R /\ (R = {} \/ R = {u})
    BY <1>5 DEF Returns, Return, Notify, End, Step
  <2>4. PICK S, w : S = Mine(All, t.c) /\ w = aw[t.c]
    OBVIOUS
  <2>5. ~w.overtaken => AwaitOk((S \ {t}) \cup ({} \cup R), w)
    <3>1. PICK T : T = (S \ {t}) \cup ({} \cup R)
      OBVIOUS
    <3>2. (T = S \ {t} \/ T = (S \ {t}) \cup {u}) /\ t \in S
      BY <2>1, <2>3, <2>4, <3>1
    <3>3. ~w.overtaken => AwaitOk(S, w)
      BY <2>1, <2>4
    <3>4. ~w.overtaken => AwaitOk(T, w)
      BY <2>2, <3>2, <3>3, BodyOk
    <3> QED BY <3>1, <3>4
  <2>6. R \cap tasks = {} /\ \A x \in {} \cup R : x.c = t.c /\ Typed(x) /\ (x.op = "loop" => x.k > 0)
    BY <2>1, <2>3 DEF Typed
  <2>7. aw' = [aw EXCEPT ![t.c] = w] /\ w.caller \in Places /\ w.targets \in Seq(Targets)
    BY <1>1, <2>1, <2>4
  <2>8. TypeInv /\ UNCHANGED <<svars, kind>>
    BY <1>1 DEF SyncInv
  <2>9. ~w.overtaken => /\ ~aw[t.c].overtaken /\ AwaitOk((Mine(All, t.c) \ {t}) \cup ({} \cup R), w)
                        /\ {} \cap (running \ {t}) = {} /\ R \cap tasks = {} /\ {} \cap R = {}
    BY <2>4, <2>5, <2>6
  <2>10. PICK Q : Q = {}
    OBVIOUS
  <2>11. /\ running' = (running \ {t}) \cup R /\ tasks' = tasks \cup Q
         /\ \A x \in Q \cup R : x.c = t.c /\ Typed(x) /\ (x.op = "loop" => x.k > 0)
         /\ ~w.overtaken => /\ ~aw[t.c].overtaken /\ AwaitOk((Mine(All, t.c) \ {t}) \cup (Q \cup R), w)
                            /\ Q \cap (running \ {t}) = {} /\ R \cap tasks = {} /\ Q \cap R = {}
    BY <2>2, <2>3, <2>6, <2>9, <2>10
  <2> QED BY <2>7, <2>8, <2>11, AwaitMoves
<1> QED BY <1>3, <1>4, <1>5

LEMMA AwaitBegins ==
  ASSUME kind = "await", KindInv, SyncInv, AwaitInv, UNCHANGED <<svars, kind>>,
         NEW t \in running, AwaitAny(t)
  PROVE  SyncInv' /\ AwaitInv'
<1>1. /\ Whole(t) /\ Typed(t) /\ t.c \in Coroutines /\ t \in Mine(All, t.c)
      /\ ~aw[t.c].overtaken => AwaitOk(Mine(All, t.c), aw[t.c]) /\ t \notin tasks
      /\ \A x \in Mine(All, t.c) : x.op \in OpsOf["await"]
      /\ \A x \in tasks : x.op \in {"body", "func"}
      /\ TypeInv
  BY AwaitingIs DEF SyncInv
<1>2. t.op = "body"
  BY DEF AwaitAny, AwaitHere, AwaitOne, AwaitMultiple, Switch, Awaiting, At
<1>3. PICK o \in BOOLEAN : o = Overtakes(t.c)
  BY DEF Overtakes
\* If it does not overtake a loop, it is alone.
<1>4. ASSUME ~o PROVE ~aw[t.c].overtaken /\ Mine(All, t.c) = {t} /\ t \notin tasks
  <2>1. ~aw[t.c].overtaken /\ \A x \in running : x.c = t.c => x.op # "loop"
    BY <1>3, <1>4 DEF Overtakes
  <2>2. PICK S, w : S = Mine(All, t.c) /\ w = aw[t.c]
    OBVIOUS
  <2>3. Loops(S) = {}
    BY <1>1, <2>1, <2>2 DEF Loops, Mine, All
  <2>4. AwaitOk(S, w) /\ t \in S /\ \A x \in S : x.op \in OpsOf["await"]
    BY <1>1, <2>1, <2>2
  <2>5. S = {t}
    BY <1>2, <2>3, <2>4, AwaitsAlone
  <2> QED BY <1>1, <2>1, <2>2, <2>5
<1>5. ASSUME NEW u, u.c = t.c, Typed(u), u.op = "loop" => u.k > 0, ~o => u \notin tasks /\ u \notin running \ {t},
             NEW w, aw' = [aw EXCEPT ![t.c] = w], w.caller \in Places, w.targets \in Seq(Targets),
             w.overtaken = o, AwaitOk({u}, w),
             \/ running' = (running \ {t}) \cup {u} /\ tasks' = tasks
             \/ running' = running \ {t} /\ tasks' = tasks \cup {u}
      PROVE  SyncInv' /\ AwaitInv'
  <2> DEFINE goesOn == running' = (running \ {t}) \cup {u} /\ tasks' = tasks
  <2>1. PICK Q, R : Q = (IF goesOn THEN {} ELSE {u}) /\ R = (IF goesOn THEN {u} ELSE {})
    OBVIOUS
  <2>2. /\ running' = (running \ {t}) \cup R /\ tasks' = tasks \cup Q
        /\ (Q = {u} /\ R = {}) \/ (Q = {} /\ R = {u})
    <3>1. CASE goesOn
      <4>1. Q = {} /\ R = {u}
        BY <2>1, <3>1
      <4> QED BY <3>1, <4>1
    <3>2. CASE ~goesOn
      <4>1. Q = {u} /\ R = {} /\ running' = running \ {t} /\ tasks' = tasks \cup {u}
        BY <1>5, <2>1, <3>2
      <4> QED BY <4>1
    <3> QED BY <3>1, <3>2
  <2> HIDE DEF goesOn
  <2>3. \A x \in Q \cup R : x.c = t.c /\ Typed(x) /\ (x.op = "loop" => x.k > 0)
    BY <1>5, <2>2
  <2>4. ASSUME ~o
        PROVE  /\ ~aw[t.c].overtaken /\ AwaitOk((Mine(All, t.c) \ {t}) \cup (Q \cup R), w)
               /\ Q \cap (running \ {t}) = {} /\ R \cap tasks = {} /\ Q \cap R = {}
    <3>1. ~aw[t.c].overtaken /\ Mine(All, t.c) = {t} /\ u \notin tasks /\ u \notin running \ {t}
      BY <1>4, <1>5, <2>4
    <3>2. (Mine(All, t.c) \ {t}) \cup (Q \cup R) = {u}
      BY <2>2, <3>1
    <3>3. Q \cap (running \ {t}) = {} /\ R \cap tasks = {} /\ Q \cap R = {}
      BY <2>2, <3>1
    <3> QED BY <1>5, <3>1, <3>2, <3>3
  <2>5. ~w.overtaken => /\ ~aw[t.c].overtaken /\ AwaitOk((Mine(All, t.c) \ {t}) \cup (Q \cup R), w)
                        /\ Q \cap (running \ {t}) = {} /\ R \cap tasks = {} /\ Q \cap R = {}
    BY <1>5, <2>4
  <2> QED BY <1>1, <1>5, <2>2, <2>3, <2>5, AwaitMoves
<1>6. ASSUME NEW place \in Places, NEW w, w = NoAwait(place, o)
      PROVE  w.caller \in Places /\ w.targets \in Seq(Targets) /\ w.overtaken = o
  BY <1>6 DEF NoAwait
<1>7. CASE AwaitHere(t)
  <2>1. PICK w, place : w = NoAwait(place, o) /\ place = t.at /\ place \in Places
    BY <1>1 DEF Typed
  <2>2. AwaitOk({t}, w)
    BY <1>2, <2>1, NobodyAwaited
  <2>3. aw' = [aw EXCEPT ![t.c] = w] /\ running' = (running \ {t}) \cup {t} /\ tasks' = tasks
    BY <1>3, <1>7, <2>1 DEF AwaitHere
  <2>4. w.caller \in Places /\ w.targets \in Seq(Targets) /\ w.overtaken = o
    BY <1>6, <2>1
  <2>5. t.op # "loop" /\ (~o => t \notin tasks /\ t \notin running \ {t})
    BY <1>2, <1>4
  <2> QED BY <1>1, <1>5, <2>2, <2>3, <2>4, <2>5
<1>8. ASSUME NEW multiple, NEW targets \in Seq(Targets), Suspend(t, multiple, targets) PROVE SyncInv' /\ AwaitInv'
  <2>1. PICK x, y : x = "loop" /\ y = 1
    OBVIOUS
  <2>2. PICK u : u = [t EXCEPT !.op = x, !.k = y]
    OBVIOUS
  <2>3. u = [c |-> t.c, op |-> x, k |-> y, at |-> t.at, on |-> t.on, first |-> t.first]
    BY <1>1, <2>2, ChangeBoth, Zenon
  <2>4. u.c = t.c /\ u.op = "loop" /\ u.k = 1 /\ u.at = t.at /\ Whole(u)
    BY <2>1, <2>3 DEF Whole
  <2>5. PICK w : w = [caller |-> t.at, multiple |-> multiple, targets |-> targets, pending |-> Len(targets),
                      done |-> {}, overtaken |-> o]
    OBVIOUS
  <2>6. /\ Kept(w) /\ w.caller = t.at /\ w.targets = targets /\ w.pending = Len(targets) /\ w.done = {}
        /\ w.overtaken = o
    BY <2>5 DEF Kept
  <2>7. w.caller \in Places /\ w.targets \in Seq(Targets)
    BY <1>1, <2>6 DEF Typed
  <2>8. AwaitOk({u}, w)
    BY <2>4, <2>6, <2>7, SuspendsOk
  <2>9. aw' = [aw EXCEPT ![t.c] = w] /\ running' = (running \ {t}) \cup {u} /\ tasks' = tasks
    BY <1>3, <1>8, <2>1, <2>2, <2>5 DEF Suspend
  <2>10. Typed(u) /\ (u.op = "loop" => u.k > 0)
    BY <1>1, <2>4 DEF Typed
  <2>11. u \notin tasks
    BY <1>1, <2>4
  <2>12. ~o => u \notin running \ {t}
    <3>1. ASSUME ~o, u \in running \ {t} PROVE FALSE
      <4>1. u \in Mine(All, t.c) /\ u # t
        BY <2>4, <3>1 DEF Mine, All
      <4> QED BY <1>4, <3>1, <4>1
    <3> QED BY <3>1
  <2> QED BY <1>5, <2>4, <2>6, <2>7, <2>8, <2>9, <2>10, <2>11, <2>12
<1>9. ASSUME NEW place \in Places, Switch(t, place) PROVE SyncInv' /\ AwaitInv'
  <2>1. PICK w : w = NoAwait(place, o)
    OBVIOUS
  <2>2. aw' = [aw EXCEPT ![t.c] = w]
    BY <1>3, <1>9, <2>1 DEF Switch
  <2>3. w.caller \in Places /\ w.targets \in Seq(Targets) /\ w.overtaken = o
    BY <1>6, <2>1
  <2>4. CASE place = t.at
    <3>1. running' = (running \ {t}) \cup {t} /\ tasks' = tasks
      BY <1>9, <2>4 DEF Switch
    <3>2. AwaitOk({t}, w)
      BY <1>2, <2>1, <2>4, NobodyAwaited
    <3>3. t.op # "loop" /\ (~o => t \notin tasks /\ t \notin running \ {t})
      BY <1>2, <1>4
    <3> QED BY <1>1, <1>5, <2>2, <2>3, <3>1, <3>2, <3>3
  <2>5. CASE place # t.at
    <3>1. PICK u : u = Task(t.c, "body", place)
      OBVIOUS
    <3>2. u.c = t.c /\ u.op = "body" /\ u.k = 0 /\ u.at = place
      BY <3>1, TaskIs
    <3>3. running' = running \ {t} /\ tasks' = tasks \cup {u}
      BY <1>9, <2>5, <3>1 DEF Switch, End
    <3>4. AwaitOk({u}, w)
      BY <2>1, <3>2, NobodyAwaited
    <3>5. Typed(u) /\ u.op # "loop"
      BY <1>1, <3>2 DEF Typed
    <3>6. ASSUME ~o, u \in tasks \/ u \in running \ {t} PROVE FALSE
      <4>1. u \in Mine(All, t.c) /\ u # t
        BY <1>4, <3>2, <3>6 DEF Mine, All
      <4> QED BY <1>4, <3>6, <4>1
    <3> QED BY <1>5, <2>2, <2>3, <3>2, <3>3, <3>4, <3>5, <3>6
  <2> QED BY <2>4, <2>5
<1>10. CASE \E x \in Targets : AwaitOne(t, x)
  <2>1. PICK x \in Targets : Suspend(t, FALSE, <<x>>)
    BY <1>10 DEF AwaitOne
  <2>2. <<x>> \in Seq(Targets)
    OBVIOUS
  <2> QED BY <1>8, <2>1, <2>2
<1>11. CASE \E x \in Programs : AwaitMultiple(t, x)
  BY <1>8, <1>11, AwaitAssumption DEF AwaitMultiple
<1> QED BY <1>7, <1>9, <1>10, <1>11 DEF AwaitAny

LEMMA AwaitSteps ==
  ASSUME kind = "await", KindInv, LoneInv, SyncInv, AwaitInv, UNCHANGED <<svars, kind>>, NEW t \in running, AwaitStep(t)
  PROVE  SyncInv' /\ AwaitInv'
<1>1. /\ Whole(t) /\ Typed(t) /\ t.c \in Coroutines /\ t \in Mine(All, t.c) /\ (t.op = "loop" => t.k > 0)
      /\ aw[t.c].caller \in Places /\ aw[t.c].targets \in Seq(Targets)
      /\ ~aw[t.c].overtaken => AwaitOk(Mine(All, t.c), aw[t.c]) /\ t \notin tasks
      /\ \A x \in tasks : x.op \in {"body", "func"}
      /\ aw = [c \in Coroutines |-> aw[c]] /\ TypeInv
  BY AwaitingIs DEF SyncInv
<1>2. PICK S, w, o : /\ S = Mine(All, t.c) /\ w = aw[t.c] /\ t \in S /\ o = ~w.overtaken
                     /\ o => AwaitOk(S, w) /\ t \notin tasks
  BY <1>1
<1>3. /\ Kept(w) /\ w.caller \in Places /\ w.targets \in Seq(Targets)
      /\ \A x \in All : x.c = t.c => x \in S
  BY <1>1, <1>2 DEF LoneInv, Mine
<1>5. ASSUME NEW Q, NEW R, running' = (running \ {t}) \cup R, tasks' = tasks \cup Q,
             \A x \in Q \cup R : x.c = t.c /\ Typed(x) /\ (x.op = "loop" => x.k > 0),
             NEW v, aw' = [aw EXCEPT ![t.c] = v], v.caller = w.caller, v.targets = w.targets,
             v.overtaken = w.overtaken, NEW T, T = (S \ {t}) \cup (Q \cup R),
             o => /\ AwaitOk(T, v)
                  /\ Q \cap (running \ {t}) = {} /\ R \cap tasks = {} /\ Q \cap R = {}
      PROVE  SyncInv' /\ AwaitInv'
  <2>1. ~v.overtaken => /\ ~aw[t.c].overtaken /\ AwaitOk((Mine(All, t.c) \ {t}) \cup (Q \cup R), v)
                        /\ Q \cap (running \ {t}) = {} /\ R \cap tasks = {} /\ Q \cap R = {}
    BY <1>2, <1>5
  <2>2. v.caller \in Places /\ v.targets \in Seq(Targets)
    BY <1>3, <1>5
  <2> QED BY <1>1, <1>5, <2>1, <2>2, AwaitMoves
<1>6. aw = [aw EXCEPT ![t.c] = w]
  BY <1>1, <1>2
<1>7. CASE QueueOne(t)
  <2>1. t.op = "loop" /\ t.k <= Len(w.targets)
    BY <1>2, <1>7 DEF QueueOne, At
  <2>2. PICK u : /\ u = [t EXCEPT !.k = @ + 1] /\ Whole(u)
                 /\ u.c = t.c /\ u.op = t.op /\ u.k = t.k + 1 /\ u.at = t.at /\ u.on = t.on
    BY <1>1, ChangeK, Zenon
  <2>3. PICK target : target = w.targets[t.k]
    OBVIOUS
  <2>4. PICK x : x = [c |-> t.c, op |-> "func", k |-> t.k, on |-> target[1], first |-> FALSE,
                      at |-> IF target[2] THEN Pool ELSE target[1]]
    OBVIOUS
  <2>5. x.c = t.c /\ x.op = "func" /\ x.k = t.k /\ x.at = IF target[2] THEN Pool ELSE target[1]
    BY <2>4
  <2>6. running' = (running \ {t}) \cup {u} /\ tasks' = tasks \cup {x} /\ aw' = aw
    BY <1>2, <1>7, <2>2, <2>3, <2>4 DEF QueueOne
  <2>7. PICK T : T = (S \ {t}) \cup {u, x}
    OBVIOUS
  <2>8. o => AwaitOk(T, w) /\ x \notin S
    <3>1. u.op = "loop" /\ u.k = t.k + 1 /\ x.op = "func" /\ x.k = t.k
      BY <2>1, <2>2, <2>5
    <3>2. (o => AwaitOk(S, w)) /\ t \in S /\ w.targets \in Seq(Targets)
      BY <1>2, <1>3
    <3>3. PICK m, l : m = Len(w.targets) /\ t.k <= m /\ l = t.k + 1 /\ u.k = l
      BY <2>1, <3>1
    <3>4. ASSUME o PROVE AwaitOk(T, w) /\ x \notin S
      <4>1. AwaitOk(S, w)
        BY <3>2, <3>4
      <4>2. t \in S
        BY <3>2
      <4>3. t.op = "loop"
        BY <2>1
      <4>4. w.targets \in Seq(Targets)
        BY <3>2
      <4>5. x.op = "func" /\ x.k = t.k
        BY <3>1
      <4>6. u.op = "loop"
        BY <3>1
      <4> QED BY <2>7, <3>3, <4>1, <4>2, <4>3, <4>4, <4>5, <4>6, QueuesOk
    <3> QED BY <3>4
  <2>9. (o => x \notin running) /\ u \notin tasks /\ u # x
    <3>1. o => x \notin running
      BY <1>3, <2>5, <2>8 DEF All
    <3>2. u \notin tasks /\ u # x
      BY <1>1, <2>1, <2>2, <2>5
    <3> QED BY <3>1, <3>2
  <2>10. Typed(u) /\ Typed(x)
    <3>1. t.k \in DOMAIN w.targets
      <4>1. t.k \in 1 .. Len(w.targets) + 1
        BY <1>1, <1>3, <2>1 DEF Typed
      <4>2. PICK n \in Nat : n = Len(w.targets) /\ DOMAIN w.targets = 1 .. n
        BY <1>3
      <4> QED BY <2>1, <4>1, <4>2
    <3>2. target \in Targets
      BY <1>3, <2>3, <3>1
    <3>3. target[1] \in Places /\ Pool \in Places
      BY <3>2 DEF Targets, Places
    <3>4. Typed(x)
      BY <1>1, <2>5, <3>3 DEF Typed
    <3>5. Typed(u)
      BY <1>1, <2>2 DEF Typed
    <3> QED BY <3>4, <3>5
  <2>11. T = (S \ {t}) \cup ({x} \cup {u})
    BY <2>7
  <2>12. aw' = [aw EXCEPT ![t.c] = w]
    BY <1>6, <2>6
  <2>13. /\ \A y \in {x} \cup {u} : y.c = t.c /\ Typed(y) /\ (y.op = "loop" => y.k > 0)
         /\ o => {x} \cap (running \ {t}) = {} /\ {u} \cap tasks = {} /\ {x} \cap {u} = {}
    <3>1. u.k > 0 /\ x.op # "loop"
      BY <1>1, <2>1, <2>2, <2>5 DEF Typed
    <3> QED BY <2>2, <2>5, <2>9, <2>10, <3>1
  <2> QED BY <1>5, <2>6, <2>8, <2>11, <2>12, <2>13
<1>8. CASE Queued(t)
  <2>1. t.op = "loop" /\ t.k > Len(w.targets)
    BY <1>2, <1>8 DEF Queued, At
  <2>2. running' = (running \ {t}) \cup {} /\ tasks' = tasks \cup {} /\ aw' = aw
    BY <1>8 DEF Queued, End
  <2>3. PICK T : T = S \ {t}
    OBVIOUS
  <2>4. (o => AwaitOk(T, w)) /\ T = (S \ {t}) \cup ({} \cup {})
    BY <1>2, <1>3, <2>1, <2>3, QueuedOk
  <2>5. /\ \A x \in {} \cup {} : x.c = t.c /\ Typed(x) /\ (x.op = "loop" => x.k > 0)
        /\ {} \cap (running \ {t}) = {} /\ {} \cap tasks = {} /\ {} \cap {} = {}
    OBVIOUS
  <2>6. aw' = [aw EXCEPT ![t.c] = w]
    BY <1>6, <2>2
  <2> QED BY <1>5, <2>2, <2>4, <2>5, <2>6
<1>9. CASE Func(t)
  <2>1. t.op = "func"
    BY <1>9 DEF Func, At
  <2>2. PICK u : /\ u = [t EXCEPT !.op = "resume_one"] /\ Whole(u)
                 /\ u.c = t.c /\ u.op = "resume_one" /\ u.k = t.k /\ u.at = t.at /\ u.on = t.on
    BY <1>1, ChangeOp, Zenon
  <2>3. PICK v : v = [caller |-> w.caller, multiple |-> w.multiple, targets |-> w.targets,
                      pending |-> w.pending, done |-> w.done \cup {t.k}, overtaken |-> w.overtaken]
    OBVIOUS
  <2>4. /\ Kept(v) /\ v.caller = w.caller /\ v.targets = w.targets
        /\ v.pending = w.pending /\ v.done = w.done \cup {t.k} /\ v.overtaken = w.overtaken
    BY <2>3 DEF Kept
  <2>5. aw' = [aw EXCEPT ![t.c] = v]
    <3>1. aw' = [aw EXCEPT ![t.c].done = @ \cup {t.k}]
      BY <1>9 DEF Func
    <3>2. [w EXCEPT !.done = @ \cup {t.k}] = v
      <4>1. PICK d : d = w.done \cup {t.k}
        OBVIOUS
      <4>2. v = [caller |-> w.caller, multiple |-> w.multiple, targets |-> w.targets,
                 pending |-> w.pending, done |-> d, overtaken |-> w.overtaken]
        BY <2>3, <4>1
      <4>3. w = [caller |-> w.caller, multiple |-> w.multiple, targets |-> w.targets,
                 pending |-> w.pending, done |-> w.done, overtaken |-> w.overtaken]
        BY <1>3 DEF Kept
      <4>4. [w EXCEPT !.done = d] = v
        BY <4>2, <4>3
      <4> QED BY <4>1, <4>4
    <3>3. aw' = [aw EXCEPT ![t.c] = [w EXCEPT !.done = @ \cup {t.k}]]
      BY <1>1, <1>2, <3>1
    <3> QED BY <3>2, <3>3
  <2>6. running' = (running \ {t}) \cup {u} /\ tasks' = tasks \cup {}
    BY <1>9, <2>2 DEF Func, Step
  <2>7. PICK T : T = (S \ {t}) \cup {u}
    OBVIOUS
  <2>8. (o => AwaitOk(T, v)) /\ T = (S \ {t}) \cup ({} \cup {u})
    <3>1. u.op = "resume_one" /\ u.k = t.k
      BY <2>2
    <3>2. o => AwaitOk(T, v)
      BY <1>2, <2>1, <2>4, <2>7, <3>1, FuncOk
    <3> QED BY <2>7, <3>2
  <2>9. u \notin tasks /\ Typed(u) /\ u.c = t.c
    BY <1>1, <2>2 DEF Typed
  <2>10. /\ \A x \in {} \cup {u} : x.c = t.c /\ Typed(x) /\ (x.op = "loop" => x.k > 0)
         /\ {} \cap (running \ {t}) = {} /\ {u} \cap tasks = {} /\ {} \cap {u} = {}
    BY <2>2, <2>9
  <2> QED BY <1>5, <2>4, <2>5, <2>6, <2>8, <2>10
<1>10. CASE resume_one(t)
  <2>1. t.op = "resume_one"
    BY <1>10 DEF resume_one, At
  <2>2. PICK u : u = Task(t.c, "body", w.caller)
    OBVIOUS
  <2>3. u.c = t.c /\ u.op = "body" /\ u.k = 0 /\ u.at = w.caller
    BY <2>2, TaskIs
  <2>4. PICK v : v = [caller |-> w.caller, multiple |-> w.multiple, targets |-> w.targets,
                      pending |-> w.pending - 1, done |-> w.done, overtaken |-> w.overtaken]
    OBVIOUS
  <2>5. /\ Kept(v) /\ v.caller = w.caller /\ v.targets = w.targets
        /\ v.pending = w.pending - 1 /\ v.done = w.done /\ v.overtaken = w.overtaken
    BY <2>4 DEF Kept
  <2>6. aw' = [aw EXCEPT ![t.c] = v]
    <3>1. aw' = [aw EXCEPT ![t.c].pending = @ - 1]
      BY <1>10 DEF resume_one
    <3>2. [w EXCEPT !.pending = @ - 1] = v
      BY <1>3, <2>4 DEF Kept
    <3>3. aw' = [aw EXCEPT ![t.c] = [w EXCEPT !.pending = @ - 1]]
      BY <1>1, <1>2, <3>1
    <3> QED BY <3>2, <3>3
  <2>7. PICK T : T = IF w.pending = 1 THEN (S \ {t}) \cup {u} ELSE S \ {t}
    OBVIOUS
  <2>8. o => AwaitOk(T, v) /\ u \notin S
    BY <1>2, <1>3, <2>1, <2>3, <2>5, <2>7, CountsOk
  <2>9. o => u \notin tasks /\ u \notin running
    BY <1>3, <2>3, <2>8 DEF All
  <2>10. Typed(u)
    BY <1>1, <1>3, <2>3 DEF Typed
  <2>11. CASE w.pending # 1
    <3>1. running' = (running \ {t}) \cup {} /\ tasks' = tasks \cup {}
      BY <1>2, <1>10, <2>11 DEF resume_one, Last1, End
    <3>2. T = (S \ {t}) \cup ({} \cup {})
      BY <2>7, <2>11
    <3>3. /\ \A x \in {} \cup {} : x.c = t.c /\ Typed(x) /\ (x.op = "loop" => x.k > 0)
          /\ {} \cap (running \ {t}) = {} /\ {} \cap tasks = {} /\ {} \cap {} = {}
      OBVIOUS
    <3> QED BY <1>5, <2>5, <2>6, <2>8, <3>1, <3>2, <3>3
  <2>12. CASE w.pending = 1 /\ InPlace(t)
    <3>1. t.at = w.caller
      BY <1>2, <2>12 DEF InPlace
    <3>2. running' = (running \ {t}) \cup {u} /\ tasks' = tasks \cup {}
      BY <1>2, <1>10, <2>2, <2>12, <3>1 DEF resume_one, Last1
    <3>3. T = (S \ {t}) \cup ({} \cup {u})
      BY <2>7, <2>12
    <3>4. /\ \A x \in {} \cup {u} : x.c = t.c /\ Typed(x) /\ (x.op = "loop" => x.k > 0)
          /\ o => {} \cap (running \ {t}) = {} /\ {u} \cap tasks = {} /\ {} \cap {u} = {}
      BY <2>3, <2>9, <2>10
    <3> QED BY <1>5, <2>5, <2>6, <2>8, <3>2, <3>3, <3>4
  <2>13. CASE w.pending = 1 /\ ~InPlace(t)
    <3>1. running' = (running \ {t}) \cup {} /\ tasks' = tasks \cup {u}
      BY <1>2, <1>10, <2>2, <2>13 DEF resume_one, Last1, End
    <3>2. T = (S \ {t}) \cup ({u} \cup {})
      BY <2>7, <2>13
    <3>3. /\ \A x \in {u} \cup {} : x.c = t.c /\ Typed(x) /\ (x.op = "loop" => x.k > 0)
          /\ o => {u} \cap (running \ {t}) = {} /\ {} \cap tasks = {} /\ {u} \cap {} = {}
      BY <2>3, <2>9, <2>10
    <3> QED BY <1>5, <2>5, <2>6, <2>8, <3>1, <3>2, <3>3
  <2> QED BY <2>11, <2>12, <2>13
<1> QED BY <1>7, <1>8, <1>9, <1>10 DEF AwaitStep

LEMMA AwaitKeeps ==
  ASSUME kind = "await", KindInv, LoneInv, SyncInv, AwaitInv, Next
  PROVE  SyncInv' /\ AwaitInv'
<1>1. CASE Awaits
  <2>1. PICK t \in running : AwaitAny(t) \/ AwaitStep(t)
    BY <1>1 DEF Awaits
  <2>2. UNCHANGED <<svars, kind>>
    BY <1>1 DEF Awaits
  <2> QED BY <2>1, <2>2, AwaitBegins, AwaitSteps
<1>2. CASE Syncs
  BY <1>2 DEF Syncs
<1>3. CASE (\E t \in tasks : Starts(t)) \/ (\E t \in running : Returns(t)) \/ (\E c \in Coroutines : Waits(c))
  BY <1>3, AwaitCommon
<1> QED BY <1>1, <1>2, <1>3 DEF Next

LEMMA AwaitAtFirst == Init => AwaitInv
<1> SUFFICES ASSUME Init PROVE AwaitInv
  OBVIOUS
<1>1. running = {} /\ aw = [c \in Coroutines |-> NoAwait((CHOOSE t \in tasks : t.c = c).at, FALSE)]
  BY DEF Init, TasksInit, AwaitInit
<1>2. ASSUME NEW c \in Coroutines
      PROVE  /\ AwaitOk(Mine(All, c), aw[c]) /\ Mine(tasks, c) \cap running = {}
             /\ aw[c].caller \in Places /\ aw[c].targets \in Seq(Targets)
  <2>1. PICK t \in tasks : t.c = c
    BY FirstTasks
  <2>2. t.op = "body" /\ t.at \in Places /\ \A u \in tasks : u.c = c => u = t
    BY <2>1, FirstTasks
  <2>3. Mine(All, c) = {t} /\ Mine(tasks, c) \cap running = {}
    BY <1>1, <2>1, <2>2 DEF Mine, All
  <2>4. (CHOOSE u \in tasks : u.c = c) = t
    BY <2>1, <2>2
  <2>5. aw[c] = NoAwait(t.at, FALSE)
    BY <1>1, <2>4
  <2>6. PICK place \in Places : place = t.at
    BY <2>2
  <2>7. AwaitOk(Mine(All, c), aw[c])
    BY <2>2, <2>3, <2>5, <2>6, NobodyAwaited
  <2>8. NoAwait(place, FALSE).caller = place /\ NoAwait(place, FALSE).targets = <<>> /\ <<>> \in Seq(Targets)
    BY DEF NoAwait
  <2> QED BY <2>3, <2>5, <2>6, <2>7, <2>8
<1>3. aw = [c \in Coroutines |-> aw[c]]
  BY <1>1
<1>4. \A t \in All : t.op # "loop"
  BY <1>1, FirstTasks DEF All
<1> QED BY <1>1, <1>2, <1>3, <1>4 DEF AwaitInv

-----------------------------------------------------------------------------
(* One thread is in a coroutine, however often it awaits.  A step of the thread t     *)
(* turns it into the closures Q, which are queued, and R, which it runs, and changes   *)
(* the awaitable of its coroutine to w.                                                *)
Alone(t, Q, R, w) ==
  /\ \A x \in Q \cup R : x.c = t.c
  /\ \A x, y \in Bodies(Q \cup R) : x = y
  /\ \A x \in Bodies(Q \cup R) : x \notin Q \cap R
  /\ Kept(w) /\ w.pending \in Int
  /\ Bodies(Q \cup R) # {} => w.pending <= 0 /\ (t \in Itself \/ aw[t.c].pending > 0)
  /\ t \notin Itself => w.pending <= aw[t.c].pending

LEMMA LoneMoves ==
  ASSUME kind = "await", kind' = kind, LoneInv, NEW t \in running,
         NEW Q, NEW R, running' = (running \ {t}) \cup R, tasks' = tasks \cup Q,
         NEW w, aw' = [aw EXCEPT ![t.c] = w], Alone(t, Q, R, w)
  PROVE  LoneInv'
<1>0. PICK B :
        /\ B = {x \in Q \cup R : x.op \in {"body", "notify"}}
        /\ \A x \in Q \cup R : x.c = t.c
        /\ \A x, y \in B : x = y
        /\ \A x \in B : x \notin Q \cap R
        /\ Kept(w) /\ w.pending \in Int
        /\ B # {} => w.pending <= 0 /\ (t \in Itself \/ aw[t.c].pending > 0)
        /\ t \notin Itself => w.pending <= aw[t.c].pending
  BY DEF Alone, Bodies
<1>1. /\ aw = [c \in Coroutines |-> aw[c]] /\ \A c \in Coroutines : Kept(aw[c]) /\ aw[c].pending \in Int
      /\ \A x \in All : x.c \in Coroutines
      /\ \A x \in Itself : x \notin tasks \cap running /\ aw[x.c].pending <= 0
      /\ \A x, y \in Itself : x.c = y.c => x = y
  BY DEF LoneInv
<1>2. t \in All /\ t.c \in Coroutines
  BY <1>0, <1>1 DEF All
<1>3. aw' = [c \in Coroutines |-> IF c = t.c THEN w ELSE aw[c]]
  BY <1>0, <1>1
<1>4. \A c \in Coroutines : aw'[c] = IF c = t.c THEN w ELSE aw[c]
  BY <1>0, <1>3
<1>5. /\ aw' = [c \in Coroutines |-> aw'[c]]
      /\ \A c \in Coroutines : Kept(aw'[c]) /\ aw'[c].pending \in Int
  BY <1>0, <1>1, <1>3, <1>4
<1>6. \A x \in All' : x.c \in Coroutines
  BY <1>0, <1>1, <1>2 DEF All
<1>7. Itself' \subseteq (Itself \ {x \in {t} : t \in Itself}) \cup B
  <2>1. ASSUME NEW x \in Itself', x \notin B PROVE x \in Itself /\ (t \in Itself => x # t)
    <3>1. x \in (running \ {t}) \cup tasks /\ x.op \in {"body", "notify"}
      BY <1>0, <2>1 DEF Itself, All
    <3>2. t \in Itself => t \notin tasks
      BY <1>0, <1>1
    <3> QED BY <3>1, <3>2 DEF Itself, All
  <2> QED BY <2>1
\* Of the coroutine of t there was no other, or nothing of it is left to count still.
<1>8. \A x \in Itself \ {t} : x.c = t.c => t \notin Itself
  BY <1>0, <1>1
<1>9. ASSUME NEW x \in Itself', x \notin B PROVE x \in Itself /\ (x.c = t.c => t \notin Itself)
  BY <1>0, <1>7, <1>8, <1>9
<1>10. ASSUME NEW x \in Itself' PROVE x \notin (tasks \cap running)' /\ aw'[x.c].pending <= 0
  <2>1. CASE x \in B
    <3>1. x.c = t.c /\ w.pending <= 0
      BY <1>0, <2>1
    <3>2. (x \notin running /\ x \notin tasks) \/ (x = t /\ t \notin tasks)
      <4>1. CASE t \in Itself
        <5>1. x \in Itself => x = t
          BY <1>0, <1>1, <3>1, <4>1
        <5>2. t \notin tasks
          BY <1>0, <1>1, <4>1
        <5>3. x \in All => x \in Itself
          BY <1>0, <2>1 DEF Itself
        <5> QED BY <5>1, <5>2, <5>3 DEF All
      <4>2. CASE t \notin Itself
        <5>1. aw[t.c].pending > 0 /\ aw[t.c].pending \in Int
          BY <1>0, <1>1, <1>2, <2>1, <4>2
        <5>2. \A y \in Itself : y.c # t.c
          BY <1>0, <1>1, <5>1
        <5>3. x \in All => x \in Itself
          BY <1>0, <2>1 DEF Itself
        <5> QED BY <3>1, <5>2, <5>3 DEF All
      <4> QED BY <4>1, <4>2
    <3>3. x \notin Q \cap R
      BY <1>0, <2>1
    <3>4. aw'[x.c] = w
      BY <1>0, <1>2, <1>4, <3>1
    <3> QED BY <3>1, <3>2, <3>3, <3>4
  <2>2. CASE x \notin B
    <3>1. x \in Itself /\ x.op \in {"body", "notify"} /\ x.c \in Coroutines
      BY <1>0, <1>1, <1>9, <2>2 DEF Itself
    <3>2. x \notin Q /\ x \notin R
      BY <1>0, <2>2, <3>1
    <3>3. x \notin (tasks \cap running)'
      BY <1>0, <1>1, <3>1, <3>2
    <3>4. aw'[x.c].pending <= 0
      <4>1. CASE x.c # t.c
        BY <1>0, <1>1, <1>4, <3>1, <4>1
      <4>2. CASE x.c = t.c
        <5>1. w.pending <= aw[t.c].pending /\ aw[t.c].pending <= 0 /\ aw[t.c].pending \in Int
          BY <1>0, <1>1, <1>2, <1>9, <2>2, <3>1, <4>2
        <5>2. w.pending <= 0
          BY <1>0, <5>1
        <5> QED BY <1>2, <1>4, <4>2, <5>2
      <4> QED BY <4>1, <4>2
    <3> QED BY <3>3, <3>4
  <2> QED BY <2>1, <2>2
<1>11. ASSUME NEW x \in Itself', NEW y \in Itself', x.c = y.c PROVE x = y
  <2>1. \A z \in B : z.c = t.c
    BY <1>0
  <2>2. ASSUME NEW z \in Itself', z \notin B, z.c = t.c PROVE B = {}
    <3>1. t \notin Itself /\ z \in Itself
      BY <1>0, <1>9, <2>2
    <3>2. aw[t.c].pending <= 0 /\ aw[t.c].pending \in Int
      BY <1>1, <1>2, <2>2, <3>1
    <3>3. ~(aw[t.c].pending > 0)
      BY <3>2
    <3> QED BY <1>0, <3>1, <3>3
  <2>3. CASE x \in B \/ y \in B
    BY <1>0, <1>11, <2>1, <2>2, <2>3
  <2>4. CASE x \notin B /\ y \notin B
    BY <1>0, <1>1, <1>9, <1>11, <2>4
  <2> QED BY <2>3, <2>4
<1> QED BY <1>5, <1>6, <1>10, <1>11 DEF LoneInv

LEMMA LoneBegins ==
  ASSUME kind = "await", kind' = kind, KindInv, LoneInv, NEW t \in running, AwaitAny(t)
  PROVE  LoneInv'
<1>1. /\ aw = [c \in Coroutines |-> aw[c]] /\ Whole(t) /\ t \in All /\ t.c \in Coroutines
      /\ Kept(aw[t.c]) /\ aw[t.c].pending \in Int
  BY DEF LoneInv, KindInv, All
<1>2. t.op = "body" /\ t \in Itself
  BY <1>1 DEF AwaitAny, AwaitHere, AwaitOne, AwaitMultiple, Switch, Awaiting, At, Itself
<1>3. ASSUME NEW place, NEW b PROVE Kept(NoAwait(place, b)) /\ NoAwait(place, b).pending = 0
  BY DEF NoAwait, Kept
<1>4. CASE AwaitHere(t)
  <2>1. aw' = [aw EXCEPT ![t.c] = NoAwait(t.at, Overtakes(t.c))] /\ tasks' = tasks \cup {} /\ running' = (running \ {t}) \cup {t}
    BY <1>4 DEF AwaitHere
  <2>2. PICK w : w = NoAwait(t.at, Overtakes(t.c)) /\ Kept(w) /\ w.pending = 0
    BY <1>3
  <2>3. Alone(t, {}, {t}, w)
    BY <1>2, <2>2 DEF Alone, Bodies
  <2> QED BY <2>1, <2>2, <2>3, LoneMoves
<1>5. ASSUME NEW m, NEW targets, Len(targets) \in Nat, Suspend(t, m, targets) PROVE LoneInv'
  <2>1. PICK u : /\ u = [t EXCEPT !.op = "loop", !.k = 1]
                 /\ u = [c |-> t.c, op |-> "loop", k |-> 1, at |-> t.at, on |-> t.on, first |-> t.first]
    BY <1>1, ChangeBoth
  <2>2. u.c = t.c /\ u.op = "loop"
    BY <2>1
  <2>3. PICK w : w = [caller |-> t.at, multiple |-> m, targets |-> targets, pending |-> Len(targets), done |-> {},
                      overtaken |-> Overtakes(t.c)]
    OBVIOUS
  <2>4. Kept(w) /\ w.pending \in Int
    BY <1>5, <2>3 DEF Kept
  <2>5. aw' = [aw EXCEPT ![t.c] = w] /\ running' = (running \ {t}) \cup {u} /\ tasks' = tasks \cup {}
    BY <1>5, <2>1, <2>3 DEF Suspend
  <2>6. Alone(t, {}, {u}, w)
    BY <1>2, <2>2, <2>4 DEF Alone, Bodies
  <2> QED BY <2>5, <2>6, LoneMoves
<1>6. ASSUME NEW x \in Targets, AwaitOne(t, x) PROVE LoneInv'
  BY <1>5, <1>6 DEF AwaitOne
<1>7. ASSUME NEW x \in Programs, AwaitMultiple(t, x) PROVE LoneInv'
  <2>1. Len(x) \in Nat
    BY AwaitAssumption
  <2> QED BY <1>5, <1>7, <2>1 DEF AwaitMultiple
<1>8. ASSUME NEW p \in Places, Switch(t, p) PROVE LoneInv'
  <2>1. PICK w : w = NoAwait(p, Overtakes(t.c)) /\ Kept(w) /\ w.pending = 0
    BY <1>3
  <2>2. PICK u : u = Task(t.c, "body", p) /\ u.c = t.c
    BY TaskIs
  <2>3. aw' = [aw EXCEPT ![t.c] = w]
    BY <1>8, <2>1 DEF Switch
  <2>4. \/ running' = (running \ {t}) \cup {} /\ tasks' = tasks \cup {u}
        \/ running' = (running \ {t}) \cup {t} /\ tasks' = tasks \cup {}
    BY <1>8, <2>2 DEF Switch, End
  <2>5. ASSUME NEW Q, NEW R, running' = (running \ {t}) \cup R, tasks' = tasks \cup Q,
               (Q = {u} /\ R = {}) \/ (Q = {} /\ R = {t})
        PROVE  LoneInv'
    <3>1. Alone(t, Q, R, w)
      BY <1>2, <2>1, <2>2, <2>5 DEF Alone, Bodies
    <3> QED BY <2>3, <2>5, <3>1, LoneMoves
  <2> QED BY <2>4, <2>5
<1> QED BY <1>4, <1>6, <1>7, <1>8 DEF AwaitAny

LEMMA LoneSteps ==
  ASSUME kind = "await", kind' = kind, KindInv, LoneInv, NEW t \in running, AwaitStep(t)
  PROVE  LoneInv'
<1>1. /\ aw = [c \in Coroutines |-> aw[c]] /\ Whole(t) /\ t \in All /\ t.c \in Coroutines
  BY DEF LoneInv, KindInv, All
<1>2. PICK w : w = aw[t.c] /\ Kept(w) /\ w.pending \in Int /\ aw = [aw EXCEPT ![t.c] = w]
  BY <1>1 DEF LoneInv
<1>3. t.op \in {"loop", "func", "resume_one"} /\ t \notin Itself
  BY DEF AwaitStep, QueueOne, Queued, Func, resume_one, At, Itself
<1>4. ASSUME NEW Q, NEW R, running' = (running \ {t}) \cup R, tasks' = tasks \cup Q,
             \A x \in Q \cup R : x.c = t.c /\ x.op \notin {"body", "notify"},
             NEW v, aw' = [aw EXCEPT ![t.c] = v], Kept(v), v.pending = w.pending
      PROVE  LoneInv'
  <2>1. Alone(t, Q, R, v)
    BY <1>2, <1>4 DEF Alone, Bodies
  <2> QED BY <1>4, <2>1, LoneMoves
<1>5. CASE QueueOne(t)
  <2>1. PICK u : /\ u = [t EXCEPT !.k = @ + 1] /\ Whole(u)
                 /\ u.c = t.c /\ u.op = t.op /\ u.k = t.k + 1 /\ u.at = t.at /\ u.on = t.on
    BY <1>1, ChangeK, Zenon
  <2>2. PICK target, place : target = w.targets[t.k] /\ place = IF target[2] THEN Pool ELSE target[1]
    OBVIOUS
  <2>3. PICK x : x = [c |-> t.c, op |-> "func", k |-> t.k, on |-> target[1], first |-> FALSE, at |-> place]
    OBVIOUS
  <2>4. running' = (running \ {t}) \cup {u} /\ tasks' = tasks \cup {x} /\ aw' = aw
    BY <1>2, <1>5, <2>1, <2>2, <2>3 DEF QueueOne
  <2>5. \A y \in {x} \cup {u} : y.c = t.c /\ y.op \notin {"body", "notify"}
    <3>1. x.c = t.c /\ x.op = "func"
      BY <2>3
    <3> QED BY <1>3, <2>1, <3>1
  <2> QED BY <1>2, <1>4, <2>4, <2>5
<1>6. CASE Queued(t)
  <2>1. running' = (running \ {t}) \cup {} /\ tasks' = tasks \cup {} /\ aw' = [aw EXCEPT ![t.c] = w]
    BY <1>2, <1>6 DEF Queued, End
  <2>2. \A x \in {} \cup {} : x.c = t.c /\ x.op \notin {"body", "notify"}
    OBVIOUS
  <2>3. Kept(w) /\ w.pending = w.pending
    BY <1>2
  <2> QED BY <1>4, <2>1, <2>2, <2>3
<1>7. CASE Func(t)
  <2>1. PICK u : /\ u = [t EXCEPT !.op = "resume_one"] /\ Whole(u)
                 /\ u.c = t.c /\ u.op = "resume_one" /\ u.k = t.k /\ u.at = t.at /\ u.on = t.on
    BY <1>1, ChangeOp, Zenon
  <2>2. PICK d : d = w.done \cup {t.k}
    OBVIOUS
  <2>3. PICK v : v = [caller |-> w.caller, multiple |-> w.multiple, targets |-> w.targets,
                      pending |-> w.pending, done |-> d, overtaken |-> w.overtaken]
    OBVIOUS
  <2>4. Kept(v) /\ v.pending = w.pending
    BY <2>3 DEF Kept
  <2>5. aw' = [aw EXCEPT ![t.c] = v]
    <3>1. aw' = [aw EXCEPT ![t.c] = [w EXCEPT !.done = @ \cup {t.k}]]
      BY <1>1, <1>2, <1>7 DEF Func
    <3>2. w = [caller |-> w.caller, multiple |-> w.multiple, targets |-> w.targets,
               pending |-> w.pending, done |-> w.done, overtaken |-> w.overtaken]
      BY <1>2 DEF Kept
    <3>3. [w EXCEPT !.done = d] = v
      BY <2>3, <3>2
    <3> QED BY <2>2, <3>1, <3>3
  <2>6. running' = (running \ {t}) \cup {u} /\ tasks' = tasks \cup {}
    BY <1>7, <2>1 DEF Func, Step
  <2>7. \A y \in {} \cup {u} : y.c = t.c /\ y.op \notin {"body", "notify"}
    BY <2>1
  <2> QED BY <1>4, <2>4, <2>5, <2>6, <2>7
<1>8. CASE resume_one(t)
  <2>1. PICK p : p = w.pending - 1 /\ p \in Int
    BY <1>2
  <2>2. PICK v : v = [caller |-> w.caller, multiple |-> w.multiple, targets |-> w.targets,
                      pending |-> p, done |-> w.done, overtaken |-> w.overtaken]
    OBVIOUS
  <2>3. Kept(v) /\ v.pending = p
    BY <2>2 DEF Kept
  <2>4. aw' = [aw EXCEPT ![t.c] = v]
    <3>1. aw' = [aw EXCEPT ![t.c] = [w EXCEPT !.pending = @ - 1]]
      BY <1>1, <1>2, <1>8 DEF resume_one
    <3>2. w = [caller |-> w.caller, multiple |-> w.multiple, targets |-> w.targets,
               pending |-> w.pending, done |-> w.done, overtaken |-> w.overtaken]
      BY <1>2 DEF Kept
    <3>3. [w EXCEPT !.pending = p] = v
      BY <2>2, <3>2
    <3> QED BY <2>1, <3>1, <3>3
  <2>5. ASSUME NEW place
        PROVE  Task(t.c, "body", place).c = t.c
    BY TaskIs
  <2>6. ASSUME NEW Q, NEW R, running' = (running \ {t}) \cup R, tasks' = tasks \cup Q, Q \cap R = {},
               NEW u, u.c = t.c, Q \cup R \subseteq {u}, Q \cup R # {} => w.pending = 1
        PROVE  LoneInv'
    <3>1. Bodies(Q \cup R) \subseteq Q \cup R
      BY DEF Bodies
    <3>2. v.pending <= aw[t.c].pending /\ v.pending \in Int
      BY <1>2, <2>1, <2>3
    <3>3. w.pending = 1 => v.pending <= 0 /\ aw[t.c].pending > 0
      BY <1>2, <2>1, <2>3
    <3>4. Alone(t, Q, R, v)
      BY <2>3, <2>6, <3>1, <3>2, <3>3 DEF Alone
    <3> QED BY <2>4, <2>6, <3>4, LoneMoves
  <2>7. CASE ~Last1(t)
    <3>1. running' = (running \ {t}) \cup {} /\ tasks' = tasks \cup {}
      BY <1>8, <2>7 DEF resume_one, End
    <3>2. {} \cap {} = {} /\ {} \cup {} \subseteq {t} /\ ({} \cup {} # {} => w.pending = 1)
      OBVIOUS
    <3> QED BY <2>6, <3>1, <3>2
  <2>8. CASE Last1(t) /\ InPlace(t)
    <3>1. PICK u : u = Task(t.c, "body", t.at) /\ u.c = t.c
      BY <2>5
    <3>2. running' = (running \ {t}) \cup {u} /\ tasks' = tasks \cup {} /\ w.pending = 1
      BY <1>2, <1>8, <2>8, <3>1 DEF resume_one, Last1
    <3>3. {} \cap {u} = {} /\ {} \cup {u} \subseteq {u} /\ ({} \cup {u} # {} => w.pending = 1)
      BY <3>2
    <3>4. running' = (running \ {t}) \cup {u} /\ tasks' = tasks \cup {} /\ u.c = t.c
      BY <3>1, <3>2
    <3> QED BY <2>6, <3>3, <3>4
  <2>9. CASE Last1(t) /\ ~InPlace(t)
    <3>1. PICK u : u = Task(t.c, "body", aw[t.c].caller) /\ u.c = t.c
      BY <2>5
    <3>2. running' = (running \ {t}) \cup {} /\ tasks' = tasks \cup {u} /\ w.pending = 1
      BY <1>2, <1>8, <2>9, <3>1 DEF resume_one, Last1, End
    <3>3. {u} \cap {} = {} /\ {u} \cup {} \subseteq {u} /\ ({u} \cup {} # {} => w.pending = 1)
      BY <3>2
    <3>4. running' = (running \ {t}) \cup {} /\ tasks' = tasks \cup {u} /\ u.c = t.c
      BY <3>1, <3>2
    <3> QED BY <2>6, <3>3, <3>4
  <2> QED BY <2>7, <2>8, <2>9
<1> QED BY <1>5, <1>6, <1>7, <1>8 DEF AwaitStep

LEMMA LoneStarts ==
  ASSUME LoneInv, kind' = kind, aw' = aw, All' \subseteq All, (tasks \cap running)' \cap Itself = {}
  PROVE  LoneInv'
<1>1. Itself' \subseteq Itself
  BY DEF Itself
<1>2. \A t \in Itself' : t \notin (tasks \cap running)'
  BY <1>1 DEF All, Itself
<1> QED BY <1>1, <1>2 DEF LoneInv

LEMMA LoneCommon ==
  ASSUME kind = "await", KindInv, LoneInv,
         (\E t \in tasks : Starts(t)) \/ (\E t \in running : Returns(t)) \/ (\E c \in Coroutines : Waits(c))
  PROVE  LoneInv'
<1>1. UNCHANGED <<kind, aw>>
  BY DEF Starts, Returns, Waits
<1>2. \A t \in Itself : t \notin tasks \cap running
  BY DEF LoneInv
<1>3. ASSUME NEW t \in tasks, Starts(t) PROVE LoneInv'
  <2>1. tasks' = tasks \ {t} /\ running' = running \cup {t}
    BY <1>3 DEF Starts, Start
  <2>2. All' \subseteq All /\ (tasks \cap running)' \subseteq tasks \cap running
    BY <2>1 DEF All
  <2> QED BY <1>1, <1>2, <2>2, LoneStarts
<1>4. ASSUME NEW c \in Coroutines, Waits(c) PROVE LoneInv'
  <2>1. tasks' = tasks /\ running' = running
    BY <1>4 DEF Waits, Wait
  <2>2. All' \subseteq All /\ (tasks \cap running)' \subseteq tasks \cap running
    BY <2>1 DEF All
  <2> QED BY <1>1, <1>2, <2>2, LoneStarts
<1>5. ASSUME NEW t \in running, Returns(t) PROVE LoneInv'
  <2>1. /\ aw = [c \in Coroutines |-> aw[c]] /\ Whole(t) /\ t \in All /\ t.c \in Coroutines
    BY DEF LoneInv, KindInv, All
  <2>2. t \in Itself
    BY <1>5, <2>1 DEF Returns, Return, Notify, At, Itself
  <2>3. PICK w : w = aw[t.c] /\ Kept(w) /\ w.pending \in Int /\ w.pending <= 0 /\ aw' = [aw EXCEPT ![t.c] = w]
    <3>1. Kept(aw[t.c]) /\ aw[t.c].pending \in Int /\ aw[t.c].pending <= 0
      BY <2>1, <2>2 DEF LoneInv
    <3>2. aw' = [aw EXCEPT ![t.c] = aw[t.c]]
      BY <1>1, <2>1
    <3> QED BY <3>1, <3>2
  <2>4. PICK u : /\ u = [t EXCEPT !.op = "notify"] /\ Whole(u)
                 /\ u.c = t.c /\ u.op = "notify" /\ u.k = t.k /\ u.at = t.at /\ u.on = t.on
    BY <2>1, ChangeOp, Zenon
  <2>5. PICK R : running' = (running \ {t}) \cup R /\ (R = {} \/ R = {u}) /\ tasks' = tasks \cup {}
    BY <1>5, <2>4 DEF Returns, Return, Notify, End, Step
  <2>6. Alone(t, {}, R, w)
    BY <2>2, <2>3, <2>4, <2>5 DEF Alone, Bodies
  <2> QED BY <1>1, <2>3, <2>5, <2>6, LoneMoves
<1> QED BY <1>3, <1>4, <1>5

LEMMA LoneKeeps == ASSUME kind = "await", KindInv, LoneInv, Next PROVE LoneInv'
<1>1. CASE Awaits
  <2>1. PICK t \in running : AwaitAny(t) \/ AwaitStep(t)
    BY <1>1 DEF Awaits
  <2>2. kind' = kind
    BY <1>1 DEF Awaits
  <2> QED BY <2>1, <2>2, LoneBegins, LoneSteps
<1>2. CASE Syncs
  BY <1>2 DEF Syncs
<1>3. CASE (\E t \in tasks : Starts(t)) \/ (\E t \in running : Returns(t)) \/ (\E c \in Coroutines : Waits(c))
  BY <1>3, LoneCommon
<1> QED BY <1>1, <1>2, <1>3 DEF Next

LEMMA LoneAtFirst == Init => LoneInv
<1> SUFFICES ASSUME Init PROVE LoneInv
  OBVIOUS
<1>1. running = {} /\ aw = [c \in Coroutines |-> NoAwait((CHOOSE t \in tasks : t.c = c).at, FALSE)]
  BY DEF Init, TasksInit, AwaitInit
<1>2. \A c \in Coroutines : Kept(aw[c]) /\ aw[c].pending = 0
  <2>1. ASSUME NEW place, NEW b PROVE Kept(NoAwait(place, b)) /\ NoAwait(place, b).pending = 0
    BY DEF NoAwait, Kept
  <2> QED BY <1>1, <2>1
<1>3. \A t \in All : t.c \in Coroutines
  BY <1>1, FirstTasks DEF All
<1>4. \A t, u \in Itself : t.c = u.c => t = u
  <2>1. \A t \in Itself : t \in tasks
    BY <1>1 DEF Itself, All
  <2>2. \A t, u \in tasks : t.c = u.c => t = u
    BY FirstTasks
  <2> QED BY <2>1, <2>2
<1>5. \A t \in Itself : t \notin tasks \cap running /\ aw[t.c].pending <= 0
  <2>1. \A t \in Itself : t.c \in Coroutines
    BY <1>3 DEF Itself
  <2>2. ASSUME NEW t \in Itself PROVE t \notin tasks \cap running /\ aw[t.c].pending <= 0
    <3>1. aw[t.c].pending = 0
      BY <1>2, <2>1
    <3>2. running = {}
      BY <1>1
    <3> QED BY <3>1, <3>2
  <2> QED BY <2>2
<1>6. aw = [c \in Coroutines |-> aw[c]]
  BY <1>1
<1>7. ASSUME NEW c \in Coroutines PROVE Kept(aw[c]) /\ aw[c].pending \in Int
  <2>1. Kept(aw[c]) /\ aw[c].pending = 0
    BY <1>2
  <2> QED BY <2>1
<1> QED BY <1>3, <1>4, <1>5, <1>6, <1>7 DEF LoneInv

-----------------------------------------------------------------------------
(* What the invariant says of the promises.                                 *)

LEMMA AtMostOne ==
  ASSUME NEW S, \A x, y \in S : x = y
  PROVE  Cardinality(S) \in Nat /\ Cardinality(S) <= 1 /\ (S = {} => Cardinality(S) = 0)
<1>1. CASE S = {}
  <2>1. Cardinality(S) = 0
    BY <1>1, FS_EmptySet
  <2> QED BY <2>1
<1>2. CASE S # {}
  <2>1. PICK x : S = {x}
    BY <1>2
  <2>2. Cardinality({x}) = 1
    BY FS_Singleton
  <2>3. Cardinality(S) = 1
    BY <2>1, <2>2
  <2> QED BY <1>2, <2>3
<1> QED BY <1>1, <1>2

LEMMA Resumes == IInv => ResumedOnce
<1> SUFFICES ASSUME IInv, ~barrier.early, NEW c \in Coroutines,
                    NEW threads, threads = {t \in tasks \cup running : t.c = c /\ t.op \notin {"loop", "func", "resume_one"}},
                    NEW handles, handles = {h \in Handles : h.c = c}
             PROVE  Cardinality(threads) + Cardinality(handles) <= 1
  BY DEF ResumedOnce
<1>1. (\A x, y \in threads : x = y) /\ (\A x, y \in handles : x = y) /\ (threads = {} \/ handles = {})
  <2>1. CASE kind # "await"
    <3>1. Unique(All, Held)
      BY <2>1 DEF IInv, UniqueInv
    <3>2. handles \subseteq Held /\ threads \subseteq All
      BY DEF Held, All
    <3>3. (\A x \in threads : x.c = c) /\ (\A x \in handles : x.c = c)
      OBVIOUS
    <3> QED BY <3>1, <3>2, <3>3 DEF Unique
  <2>2. CASE kind = "await"
    <3>1. handles = {}
      BY <2>2, NoHandles DEF IInv, KindInv, Handles
    <3>2. threads \subseteq Itself
      BY <2>2, Ops DEF IInv, KindInv, Itself, All
    <3>3. \A x, y \in threads : x = y
      BY <2>2, <3>2 DEF IInv, LoneInv
    <3> QED BY <3>1, <3>2, <3>3
  <2> QED BY <2>1, <2>2
<1>2. /\ Cardinality(threads) \in Nat /\ Cardinality(threads) <= 1 /\ (threads = {} => Cardinality(threads) = 0)
      /\ Cardinality(handles) \in Nat /\ Cardinality(handles) <= 1 /\ (handles = {} => Cardinality(handles) = 0)
  BY <1>1, AtMostOne
<1> QED BY <1>1, <1>2

LEMMA GoesHome == IInv => FuncsThenHome
<1> SUFFICES ASSUME IInv, NEW c \in Coroutines, ~aw[c].overtaken, NEW t \in Resumptions(c)
             PROVE  aw[c].pending = 0 /\ aw[c].done = DOMAIN aw[c].targets /\ t.at = aw[c].caller
  BY DEF FuncsThenHome
<1>1. t \in All /\ t.c = c /\ t.op \in Resumption
  BY DEF Resumptions, All
<1>2. CASE kind \notin {"await", "barrier"}
  <2>1. ~barrier.early
    BY <1>2 DEF IInv, KindInv
  <2>2. aw[c].pending = 0 /\ aw[c].done = {} /\ aw[c].targets = <<>> /\ t.at = aw[c].caller
    BY <1>1, <1>2, <2>1 DEF IInv, HomeInv, Homes
  <2> QED BY <2>2
<1>3. CASE kind = "barrier"
  <2>1. aw[c].pending = 0 /\ aw[c].done = {} /\ aw[c].targets = <<>> /\ t.at = aw[c].caller
    BY <1>1, <1>3 DEF IInv, BarrierHome, Homes
  <2> QED BY <2>1
<1>4. CASE kind = "await"
  <2>1. PICK S, w : S = Mine(All, c) /\ w = aw[c]
    OBVIOUS
  <2>2. AwaitOk(S, w)
    BY <1>4, <2>1 DEF IInv, AwaitInv
  <2>3. t \in Bodies(S)
    BY <1>1, <1>4, <2>1, Ops DEF IInv, KindInv, Resumption, Bodies, Mine
  <2>4. Open(S, w) = {} /\ t.at = w.caller
    BY <2>2, <2>3 DEF AwaitOk
  <2>5. Unrun(S, w) = {}
    BY <2>4 DEF Open, Unrun, Funcs
  <2>6. w.pending = 0 /\ w.done = DOMAIN w.targets
    BY <2>2, <2>4, <2>5, FS_EmptySet DEF AwaitOk
  <2> QED BY <2>1, <2>4, <2>6
<1> QED BY <1>2, <1>3, <1>4

LEMMA FirstIs == Init => IInv
<1> SUFFICES ASSUME Init PROVE IInv
  OBVIOUS
<1>1. /\ KindInv /\ LoneInv /\ SyncInv /\ FrameInv /\ EventLeavesNobody
      /\ BarrierInv /\ BarrierHome /\ AwaitInv
  BY KindAtFirst, LoneAtFirst, SyncAtFirst, AwaitAtFirst, BarrierAtFirst, HomeAtFirst
<1>2. PipeBalanced
  BY BalancedAtFirst, PipeIs
<1>3. ~barrier.early
  BY DEF Init, SyncInit
<1> QED BY <1>1, <1>2, <1>3 DEF IInv, SyncInv

LEMMA NextIs == ASSUME IInv, [Next]_vars PROVE IInv'
<1>1. KindInv' /\ KindInv
  BY KindStays DEF IInv
<1>2. kind' = kind
  BY DEF Next, vars, avars, tvars, Awaits, Syncs, Starts, Returns, Waits
<1>3. CASE Next
  <2>1. ~barrier.early => SyncInv /\ FrameInv /\ BarrierInv
    BY DEF IInv, SyncInv
  <2>2. CASE kind = "event"
    <3>1. SyncInv' /\ EventLeavesNobody'
      BY <1>1, <1>3, <2>1, <2>2, EventKeeps DEF IInv, KindInv
    <3>2. FrameInv' /\ BarrierInv' /\ AwaitInv' /\ BarrierHome' /\ LoneInv'
      BY <1>2, <2>2 DEF FrameInv, BarrierInv, AwaitInv, BarrierHome, LoneInv
    <3> QED BY <1>1, <1>2, <2>2, <3>1, <3>2 DEF IInv, SyncInv
  <2>3. CASE kind = "pipe"
    <3>1. BalancedNow /\ ~barrier.early
      BY <1>1, <2>3, PipeIs DEF IInv, KindInv
    <3>2. SyncInv' /\ BalancedNow'
      BY <1>1, <1>3, <2>1, <2>3, <3>1, PipeKeeps
    <3>3. PipeBalanced'
      BY <3>2 DEF PipeBalanced, BalancedNow, Balanced, Emplacing, Receiving, Pushing, All
    <3>4. FrameInv' /\ BarrierInv' /\ AwaitInv' /\ BarrierHome' /\ LoneInv'
      BY <1>2, <2>3 DEF FrameInv, BarrierInv, AwaitInv, BarrierHome, LoneInv
    <3> QED BY <1>1, <1>2, <2>3, <3>2, <3>3, <3>4 DEF IInv, SyncInv
  <2>4. CASE kind = "frame"
    <3>1. SyncInv' /\ FrameInv'
      BY <1>1, <1>3, <2>1, <2>4, FrameKeeps DEF KindInv
    <3>2. BarrierInv' /\ AwaitInv' /\ BarrierHome' /\ LoneInv'
      BY <1>2, <2>4 DEF BarrierInv, AwaitInv, BarrierHome, LoneInv
    <3> QED BY <1>1, <1>2, <2>4, <3>1, <3>2 DEF IInv, SyncInv
  \* Once a handle was dispatched early, only that they are at home is left.
  <2>5. CASE kind = "barrier"
    <3>1. BarrierHome'
      BY <1>3, <2>5, HomeKeeps DEF IInv
    <3>2. barrier.early => barrier'.early
      <4>1. KindInv /\ KindInv' /\ barrier \in BarrierType
        BY <1>1, <2>5 DEF IInv, BarrierHome
      <4> QED BY <1>3, <2>5, <4>1, EarlyStays
    <3>3. ~barrier'.early => SyncInv' /\ BarrierInv'
      BY <1>1, <1>3, <2>1, <2>5, <3>2, BarrierKeeps
    <3>4. OnOneWarp' => ~barrier'.early
      <4>1. aw' = aw
        BY <1>3, <2>5 DEF Next, Awaits, Syncs, Starts, Returns, Waits
      <4>2. OnOneWarp' <=> OnOneWarp
        BY <4>1 DEF OnOneWarp
      <4>3. OnOneWarp => ~barrier.early
        BY <2>5 DEF IInv
      <4> QED BY <1>1, <1>3, <2>1, <2>5, <4>2, <4>3, OneWarpWaits
    <3>5. FrameInv' /\ AwaitInv' /\ LoneInv'
      BY <1>2, <2>5 DEF FrameInv, AwaitInv, LoneInv
    <3> QED BY <1>1, <1>2, <2>5, <3>1, <3>3, <3>4, <3>5 DEF IInv, SyncInv
  <2>6. CASE kind = "await"
    <3>1. ~barrier.early /\ SyncInv /\ LoneInv /\ AwaitInv
      BY <1>1, <2>1, <2>6 DEF IInv, KindInv
    <3>2. SyncInv' /\ AwaitInv' /\ LoneInv'
      BY <1>1, <1>3, <2>6, <3>1, AwaitKeeps, LoneKeeps
    <3>3. FrameInv' /\ BarrierInv' /\ BarrierHome'
      BY <1>2, <2>6 DEF FrameInv, BarrierInv, BarrierHome
    <3> QED BY <1>1, <1>2, <2>6, <3>2, <3>3 DEF IInv, SyncInv
  <2> QED BY <1>1, <2>2, <2>3, <2>4, <2>5, <2>6, Ops DEF KindInv
<1>4. CASE UNCHANGED vars
  <2>1. UNCHANGED <<kind, tasks, running, left, aw, event, pipe, barrier, frame, caller>> /\ All' = All
    BY <1>4 DEF vars, avars, tvars, svars, All
  <2>2. (EventLeavesNobody' <=> EventLeavesNobody) /\ (PipeBalanced' <=> PipeBalanced) /\ (OnOneWarp' <=> OnOneWarp)
    <3>1. EventLeavesNobody' <=> EventLeavesNobody
      BY <2>1 DEF EventLeavesNobody
    <3>2. PipeBalanced' <=> PipeBalanced
      BY <2>1 DEF PipeBalanced
    <3>3. OnOneWarp' <=> OnOneWarp
      BY <2>1 DEF OnOneWarp
    <3> QED BY <3>1, <3>2, <3>3
  <2>3. Taken' = Taken /\ Parked' = Parked /\ Held' = Held
    BY <2>1 DEF Taken, Opening, Storing, Parked, Held, Handles
  <2>4. TypeInv => TypeInv'
    BY <2>1, <2>3 DEF TypeInv
  <2>5. UniqueInv => UniqueInv'
    BY <2>1, <2>3 DEF UniqueInv
  <2>6. HomeInv => HomeInv'
    BY <2>1, <2>3 DEF HomeInv, Homes
  <2>7. FrameInv => FrameInv'
    BY <2>1 DEF FrameInv
  <2>8. AwaitInv => AwaitInv'
    BY <2>1 DEF AwaitInv
  <2>9. BarrierInv => BarrierInv'
    <3>1. \A g : Round(g)' <=> Round(g)
      BY <2>1, <2>3 DEF Round, Passing, Arriving, Arrived, Sits
    <3>2. Stores' = Stores /\ Releases' = Releases
      BY <2>1 DEF Stores, Releases
    <3> QED BY <2>1, <2>3, <3>1, <3>2 DEF BarrierInv
  <2>10. LoneInv => LoneInv'
    <3>1. Itself' = Itself
      BY <2>1 DEF Itself
    <3> QED BY <2>1, <3>1 DEF LoneInv
  <2>11. BarrierHome => BarrierHome'
    BY <2>1 DEF BarrierHome, Homes
  <2> QED BY <1>1, <2>1, <2>2, <2>4, <2>5, <2>6, <2>7, <2>8, <2>9, <2>10, <2>11 DEF IInv
<1> QED BY <1>3, <1>4

(* What the promises rest on holds for good: each program keeps to the closures of its    *)
(* kind; each coroutine is with one thread or in one list, and stays at home; a frame is  *)
(* dispatched up to its mark; those at the barrier have a place each, in one of two        *)
(* rounds, as long as no handle was dispatched before it was stored, and on one warp none  *)
(* is; of each function that is awaited it is known whether it is queued, runs or has      *)
(* been counted, as long as the coroutine has not overtaken a loop of its own.             *)
THEOREM Inductive == Spec => []IInv
<1>1. Init => IInv
  BY FirstIs
<1>2. IInv /\ [Next]_vars => IInv'
  BY NextIs
<1> QED BY <1>1, <1>2, PTL DEF Spec

(* grid_event_t: while the event is set, no coroutine is left in its list, although one   *)
(* that saw it unset may be on its way to await_suspend when notify() takes the list.     *)
THEOREM NobodyLeft == Spec => []EventLeavesNobody
<1>1. IInv => EventLeavesNobody
  BY NoEvent DEF IInv
<1> QED BY <1>1, Inductive, PTL

(* grid_pipe_t: an element and a coroutine never wait for each other, and whoever is on    *)
(* its way to await_resume finds an element, with any number of both.                      *)
THEOREM PipeKeepsBalance == Spec => []PipeBalanced
<1>1. IInv => PipeBalanced
  BY NoPipe, PipeIs DEF IInv
<1> QED BY <1>1, Inductive, PTL

(* grid_barrier_t, from warps and pool: whoever counts itself in and only later stores its *)
(* handle, nobody passes for the n-th time before all have come n times, and each time one *)
(* is told that it is the first, until a handle is dispatched before it is stored; and on  *)
(* one warp none ever is.                                                                  *)
THEOREM PassTogether == Spec => []BarrierOrderly
<1>1. IInv => BarrierOrderly
  <2>1. IInv => KindInv /\ (~barrier.early /\ kind = "barrier" => SyncInv /\ BarrierInv)
    BY DEF IInv, SyncInv
  <2>2. IInv => (kind = "barrier" /\ OnOneWarp => ~barrier.early)
    BY DEF IInv
  <2> QED BY <2>1, <2>2, OpensTogether DEF BarrierOrderly
<1> QED BY <1>1, Inductive, PTL

(* No two threads are in a coroutine, and none is in it while a list holds its handle,    *)
(* however often it suspends: with event, pipe and frame, with awaited functions, and     *)
(* with the barrier until it dispatches a handle that is not stored.                      *)
THEOREM ResumedOnlyOnce == Spec => []ResumedOnce
<1>1. IInv => ResumedOnce
  BY Resumes
<1> QED BY <1>1, Inductive, PTL

(* A coroutine goes on when all functions that it awaits have run and been counted, at    *)
(* the place from which it awaited them, whichever of them is the last to finish and      *)
(* however often it has awaited, unless it overtook the loop of a former await.           *)
THEOREM ReturnsHome == Spec => []FuncsThenHome
<1>1. IInv => FuncsThenHome
  BY GoesHome
<1> QED BY <1>1, Inductive, PTL
=============================================================================
