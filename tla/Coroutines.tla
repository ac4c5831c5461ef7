------------------------------- MODULE Coroutines -------------------------------
(***************************************************************************)
(* Programs of coroutines: they await functions, or use one of the objects *)
(* for synchronisation.                                                    *)
(***************************************************************************)
EXTENDS Await, Sync

vars == <<avars, svars>>

Init == TasksInit /\ AwaitInit /\ SyncInit

Starts(t)  == Start(t) /\ UNCHANGED <<aw, svars, kind>>
Returns(t) == (Return(t) \/ Notify(t)) /\ UNCHANGED <<aw, svars, kind>>
Waits(c)   == Wait(c) /\ UNCHANGED <<aw, svars, kind>>
Awaits     == /\ kind = "await" /\ UNCHANGED <<svars, kind, jvars>>
              /\ \E t \in running : AwaitAny(t) \/ AwaitStep(t)
Syncs      ==
  /\ UNCHANGED <<aw, kind, jvars>>
  /\ \/ kind = "event" /\ EventNext
     \/ kind = "pipe" /\ PipeNext
     \/ kind = "barrier" /\ BarrierNext
     \/ kind = "frame" /\ FrameNext

Next == Awaits \/ Syncs \/ (\E t \in tasks : Starts(t)) \/ (\E t \in running : Returns(t))
        \/ \E c \in Coroutines : Waits(c)
Spec == Init /\ [][Next]_vars

\* Some thread goes on as long as one can.  That is enough: every program ends.
Fairness == WF_vars(Next)
FairSpec == Spec /\ Fairness

-----------------------------------------------------------------------------
(* Whatever they await, the coroutines return: their functions run, the warps that were *)
(* suspended for them run again, each is resumed after its last function, and join()     *)
(* returns, although the coroutine may end before or after it looks.  What a loop does   *)
(* that a coroutine has overtaken is excepted.                                           *)
EventuallyFinished ==
  kind = "await" ~> \/ /\ tasks = {} /\ running = {}
                       /\ \A c \in Coroutines : joiner[c] \in {"none", "done"}
                    \/ \E c \in Coroutines : aw[c].overtaken

(* The barrier keeps its promise as long as no handle is dispatched early, and none is   *)
(* if the coroutines are on one warp.                                                    *)
OnOneWarp == \E w \in Warps : \A c \in Coroutines : aw[c].caller = w
BarrierOrderly ==
  /\ ~barrier.early => BarrierTogether
  /\ kind = "barrier" /\ OnOneWarp => ~barrier.early

-----------------------------------------------------------------------------
(* The strengthening of these promises and those of Await and Sync that every step *)
(* preserves.                                                                       *)

All    == tasks \cup running
Infos  == [c : Coroutines, at : Places]
\* The closures of each kind of program, and those of them that are queued.
OpsOf    == [await |-> {"body", "loop", "func", "resume_one", "notify"}, event |-> {"body", "event", "notify"},
             pipe |-> {"body", "pipe", "receive", "notify"}, frame |-> {"body", "next", "complete", "notify"},
             barrier |-> {"body", "store", "release", "count", "notify"}]
QueuedOf == [await |-> {"body", "func"}, event |-> {"body"}, pipe |-> {"body", "receive"},
             barrier |-> {"body", "count"}, frame |-> {"body", "next"}]
CallsOf  == [await |-> {"idle"}, event |-> {"idle"}, barrier |-> {"idle"},
             pipe |-> {"idle", "flush", "take", "prepare", "done"},
             frame |-> {"idle", "test", "wait", "clear", "running", "next", "done"}]

Whole(t) == t = [c |-> t.c, op |-> t.op, k |-> t.k, at |-> t.at, on |-> t.on, first |-> t.first]
\* A program uses the objects of its kind only.
KindInv ==
  /\ kind \in Kinds
  /\ \A t \in All : Whole(t) /\ t.op \in OpsOf[kind]
  /\ \A t \in tasks : t.op \in QueuedOf[kind]
  /\ caller \in [Callers -> CallsOf[kind]]
  /\ kind # "event" => event = [signaled |-> FALSE, handles |-> {}]
  /\ kind # "pipe" => pipe = [prepared_count |-> 0, waiting_count |-> 0, handles |-> <<>>, elements |-> <<>>]
  /\ kind # "barrier" => barrier.firsts = 0 /\ barrier.passed = [c \in Coroutines |-> 0] /\ ~barrier.early
  /\ kind # "frame" => frame.handles = <<>>
  /\ kind # "await" => joiner = [c \in Coroutines |-> "none"]
  /\ left \in [Coroutines -> 0 .. MaxAwaits[kind]]

\* Every coroutine is in one place: with one thread, or in one list.
Unique(threads, held) ==
  /\ \A t, u \in threads : t.c = u.c => t = u
  /\ \A h, g \in held : h.c = g.c => h = g
  /\ \A t \in threads, h \in held : t.c # h.c
Once(handles) == \A i, j \in DOMAIN handles : handles[i] = handles[j] => i = j \/ handles[i] = Nobody
\* The places of the barrier that a coroutine has: up to yield_count those who came since it opened
\* last, and those that are yet to be released.  A coroutine has its place from when it gets the
\* index, and barrier.handles has its handle, unless it is yet to store it.
Storing(i) == \E t \in running : t.op = "store" /\ t.k = i
Opening(i) == i < yield_max /\ \E t \in running : t.op = "release" /\ t.k <= i
Taken  == {i \in 1 .. yield_max : i <= barrier.yield_count \/ Opening(i)}
Parked == {i \in Taken : ~Storing(i)}
Held == Handles \cup (IF kind = "barrier" THEN {barrier.handles[i] : i \in Parked} ELSE {})
BarrierType == [yield_count : Nat, resume_count : Nat, firsts : Nat, passed : [Coroutines -> Nat],
                handles : [1 .. yield_max -> Infos \cup {Nobody}], early : BOOLEAN]
TypeInv ==
  /\ \A t \in All : t.c \in Coroutines /\ t.k \in Nat /\ t.at \in Places
  /\ Held \subseteq Infos
  /\ event \in [signaled : BOOLEAN, handles : SUBSET Infos]
  /\ pipe \in [prepared_count : Nat, waiting_count : Nat, handles : Seq(Infos), elements : Seq(Callers)]
  /\ barrier \in BarrierType
  /\ frame \in [handles : Seq(Infos \cup {Nobody}), pending_count : Int, complete : BOOLEAN, terminated : BOOLEAN]
UniqueInv ==
  kind # "await" =>
    /\ tasks \cap running = {} /\ Unique(All, Held)
    /\ Once(pipe.handles) /\ Once(frame.handles)
\* And it stays at home.
Homes == \A c \in Coroutines : aw[c].pending = 0 /\ aw[c].done = {} /\ aw[c].targets = <<>>
HomeInv ==
  kind # "await" =>
    /\ Homes
    /\ \A x \in All \cup Held : x.at = aw[x.c].caller

\* One frame is dispatched at a time, and its mark is in the list until it is.
FrameInv ==
  kind = "frame" => \A p \in Callers :
    /\ caller[p] # "idle" => \A q \in 1 .. p - 1 : caller[q] = "done"
    /\ caller[p] \notin {"idle", "done"} => Nobody \in ToSet(frame.handles)

\* Early or not, a barrier leads them home.
BarrierHome ==
  kind = "barrier" =>
    /\ barrier \in BarrierType /\ Homes
    /\ \A x \in All \cup ({barrier.handles[i] : i \in 1 .. yield_max} \ {Nobody}) :
         x.c \in Coroutines /\ x.at \in Places /\ x.at = aw[x.c].caller
    /\ \A t \in All : t.op = "release" => t.k \in 1 .. yield_max

\* The barrier: g is how often it has opened.
Arrived(c) == MaxAwaits[kind] - left[c]
Sits(c, i) == \/ \E t \in running : t.c = c /\ t.op = "store" /\ t.k = i
              \/ i \in Parked /\ barrier.handles[i].c = c
Passing(c) == \* has been let through and does not know yet
  \/ \E t \in All : t.c = c /\ t.op \in {"count", "release"}
  \/ \E i \in Taken : i > barrier.yield_count /\ Sits(c, i)
Arriving(c) == \E i \in Taken : i <= barrier.yield_count /\ Sits(c, i)
Round(g) ==
  /\ \A c \in Coroutines :
       /\ barrier.passed[c] = IF Passing(c) THEN g - 1 ELSE g
       /\ Arrived(c) = IF Arriving(c) THEN g + 1 ELSE g
  /\ IF barrier.resume_count = 0
     THEN \A c \in Coroutines : barrier.passed[c] = barrier.firsts
     ELSE barrier.firsts = g /\ \E c \in Coroutines : barrier.passed[c] = g
Stores   == {t \in running : t.op = "store"}
Releases == {t \in running : t.op = "release"}
BarrierInv ==
  kind = "barrier" =>
    /\ \A t, u \in running : t.at = u.at /\ t.at \in Warps => t = u
    /\ barrier.yield_count <= yield_max
    /\ \A t, u \in Releases : t = u
    /\ \A t \in Releases : /\ t.k \in 1 .. yield_max /\ barrier.yield_count < t.k
                          /\ barrier.handles[yield_max] = Info(t)
    /\ \A t \in Stores : t.k \in Taken /\ \A u \in Stores : t.k = u.k => t = u
    /\ \A i, j \in Parked : barrier.handles[i] = barrier.handles[j] => i = j
    /\ \E g \in 0 .. MaxAwaits[kind] : Round(g)

\* An awaiting coroutine, of which more than one thread may be on its way: S are its threads
\* and w its awaitable.
Bodies(S) == {t \in S : t.op \in {"body", "notify"}}
Loops(S)  == {t \in S : t.op = "loop"}
Funcs(S)  == {t \in S : t.op \in {"func", "resume_one"}}
\* The functions that are yet to be queued, those that are yet to run, and those yet to be counted.
Unqueued(S, w) == {k \in DOMAIN w.targets : \E t \in Loops(S) : t.k <= k}
Unrun(S, w)    == Unqueued(S, w) \cup {t.k : t \in {f \in S : f.op = "func"}}
Open(S, w)     == Unqueued(S, w) \cup {t.k : t \in Funcs(S)}
Kept(w) == w = [caller |-> w.caller, multiple |-> w.multiple, targets |-> w.targets,
                pending |-> w.pending, done |-> w.done, overtaken |-> w.overtaken]
AwaitOk(S, w) ==
  /\ Kept(w)
  /\ w.pending = Cardinality(Open(S, w)) /\ w.done = DOMAIN w.targets \ Unrun(S, w)
  /\ \A t, u \in Bodies(S) : t = u
  /\ \A t, u \in Loops(S) : t = u
  /\ \A t, u \in Funcs(S) : t.k = u.k => t = u
  /\ \A t \in Loops(S) : t.k \in 1 .. Len(w.targets) + 1
  /\ \A t \in Funcs(S) : t.k \in DOMAIN w.targets /\ t.k \notin Unqueued(S, w)
  /\ Bodies(S) # {} => Open(S, w) = {}
  /\ \A t \in Bodies(S) : t.at = w.caller
Mine(threads, c) == {t \in threads : t.c = c}
AwaitInv ==
  kind = "await" => /\ aw = [c \in Coroutines |-> aw[c]]
                    /\ \A c \in Coroutines : aw[c].caller \in Places /\ aw[c].targets \in Seq(Targets)
                    /\ \A t \in All : t.op = "loop" => t.k > 0
                    /\ \A c \in Coroutines : ~aw[c].overtaken =>
                         AwaitOk(Mine(All, c), aw[c]) /\ Mine(tasks, c) \cap running = {}

\* However often it awaits: one thread at a time is in the coroutine itself, and only when
\* no function is left to count.
Itself == {t \in All : t.op \in {"body", "notify"}}
LoneInv ==
  kind = "await" =>
    /\ aw = [c \in Coroutines |-> aw[c]] /\ \A c \in Coroutines : Kept(aw[c]) /\ aw[c].pending \in Int
    /\ \A t \in All : t.c \in Coroutines
    /\ \A t \in Itself : t \notin tasks \cap running /\ aw[t.c].pending <= 0
    /\ \A t, u \in Itself : t.c = u.c => t = u

IInv ==
  /\ KindInv /\ LoneInv /\ (kind = "event" => EventLeavesNobody) /\ (kind = "pipe" => PipeBalanced)
  /\ kind = "barrier" /\ OnOneWarp => ~barrier.early
  /\ AwaitInv /\ BarrierHome
  /\ ~barrier.early => TypeInv /\ UniqueInv /\ HomeInv /\ FrameInv /\ BarrierInv
=============================================================================
