------------------------------- MODULE HostState -------------------------------
(***************************************************************************)
(* What the host knows of the traced threads: the switch over              *)
(* recordInfo.action in TraceSystem::MasterWorkerThread, fed by the hooks  *)
(* (NotifyWaitCallbacks, AttachThread, DetachThread) of the threads.       *)
(*                                                                         *)
(* The ring is the sequence of unread records, of which older ones are     *)
(* overwritten when the host is lapped (module SharedRing says how they    *)
(* are read).  What the host posts to the warp of a ThreadInfo, to be      *)
(* recorded or to clean up what was recorded, it does not use again.       *)
(***************************************************************************)
EXTENDS Integers, Sequences, FiniteSets, SequencesExt

CONSTANTS
  Threads,     \* thread ids of the traced processes
  NHandles,    \* handles are numbered from 1
  RingLength,  \* SHARED_RECORD_INFO_BUFFER_LENGTH
  MaxLives,    \* bound: times a thread is attached
  MaxCalls     \* bound: calls of hooked functions

ASSUME HostAssumption ==
  /\ NHandles \in Nat /\ RingLength \in Nat \ {0}
  /\ MaxLives \in Nat /\ MaxCalls \in Nat

Finish    == 0                 \* the handle of the record that ends a list of several
Handles   == 1 .. NHandles
NoInfo    == 0
Instances == Nat \ {NoInfo}    \* ThreadInfo objects, in the order of their creation
Nothing   == [what |-> "nothing", to |-> {}]
ThreadActions == {"ThreadCreation", "ThreadDeletion"}

VARIABLES
  life,                     \* of each thread: none, running or leaving (after DetachThread)
  active,                   \* ThreadActiveTLSIndex of each thread
  todo,                     \* records a thread is about to post
  after,                    \* records it posts when the call it is in returns
  hostOn,                   \* the host has started to read
  ring,                     \* records the host has yet to read, the last RingLength of them
  overrun,                  \* there were more
  threadInfoMap,            \* the ThreadInfo of a thread id
  waitingObjectsThreadMap,  \* thread ids by handle
  created,                  \* ThreadInfo objects created
  sent,                     \* what the host posted last, and to the warps of whom
  missed,                   \* history: threads of which the host missed a creation or deletion
  vanished,                 \* history: threads that ended without posting a deletion
  unheard,                  \* history: threads of which it missed a wait since their last call
  lives, calls              \* attachments and calls so far
traced == <<life, active, todo, after, vanished, lives, calls>>
known  == <<threadInfoMap, waitingObjectsThreadMap, created, sent>>
buffer == <<ring, overrun>>
vars   == <<traced, hostOn, buffer, known, missed, unheard>>

Init ==
  /\ life \in [Threads -> {"none", "running"}]  \* some run before the DLL is injected
  /\ active = [t \in Threads |-> FALSE]
  /\ todo = [t \in Threads |-> <<>>] /\ after = [t \in Threads |-> <<>>]
  /\ hostOn = FALSE /\ ring = <<>> /\ overrun = FALSE
  /\ threadInfoMap = [t \in Threads |-> NoInfo]
  /\ waitingObjectsThreadMap = [h \in Handles \cup {Finish} |-> {}]
  /\ created = 0 /\ sent = Nothing
  /\ missed = {} /\ vanished = {} /\ unheard = {}
  /\ lives = 0 /\ calls = 0

-----------------------------------------------------------------------------
(* Traced threads *)

Record(t, action, pre, object) ==
  [threadId |-> t, action |-> action, preCall |-> pre, object |-> object]
Creation(t) == Record(t, "ThreadCreation", FALSE, Finish)
Deletion(t) == Record(t, "ThreadDeletion", FALSE, Finish)

\* The calls, by the records NotifyWaitCallbacks posts before and after them.  Waits
\* are those the host files under their handle, Signals those it looks up by handle.
Around(rs) == [pre |-> rs, post |-> [k \in DOMAIN rs |-> [rs[k] EXCEPT !.preCall = FALSE]]]
Wait(t, h)    == Record(t, "Wait", TRUE, h)
Signal(t, h)  == Record(t, "Signal", TRUE, h)
WaitOne(t)    == {Around(<<Wait(t, h)>>) : h \in Handles}
WaitMany(t)   == {Around(<<Wait(t, h), Wait(t, g), Wait(t, Finish)>>) :
                    h \in Handles, g \in Handles}
WaitAddress(t) == {Around(<<Record(t, "WaitForAlert", TRUE, Finish)>>)}
SignalOne(t)  == {Around(<<Signal(t, h)>>) : h \in Handles}
SignalAndWait(t) ==
  {[pre  |-> <<Signal(t, h), Wait(t, g)>>,
    post |-> Around(<<Wait(t, g), Signal(t, h)>>).post] : h \in Handles, g \in Handles}
Alert(t)      == {Around(<<Record(t, "Alert", TRUE, u)>>) : u \in Threads}
Calls(t) == WaitOne(t) \cup WaitMany(t) \cup WaitAddress(t) \cup SignalOne(t)
            \cup SignalAndWait(t) \cup Alert(t)

Idle(t) == todo[t] = <<>> /\ after[t] = <<>>

\* AttachThread: unless the thread is marked, mark it and post a creation.  Then the
\* records rs follow.
AttachThread(t, rs) ==
  /\ active' = [active EXCEPT ![t] = TRUE]
  /\ lives' = lives + (IF active[t] THEN 0 ELSE 1) /\ vanished' = vanished \ {t}
  /\ todo' = [todo EXCEPT ![t] = (IF active[t] THEN <<>> ELSE <<Creation(t)>>) \o rs]
MayAttach(t) == active[t] \/ lives < MaxLives

ThreadStart(t) ==       \* DLL_THREAD_ATTACH
  /\ life[t] = "none" /\ MayAttach(t)
  /\ life' = [life EXCEPT ![t] = "running"]
  /\ AttachThread(t, <<>>)
  /\ UNCHANGED <<after, calls, hostOn, buffer, known, missed, unheard>>

Call(t) ==              \* a hooked function is called
  /\ life[t] # "none" /\ Idle(t) /\ calls < MaxCalls /\ MayAttach(t)
  /\ \E c \in Calls(t) : AttachThread(t, c.pre) /\ after' = [after EXCEPT ![t] = c.post]
  /\ calls' = calls + 1 /\ unheard' = unheard \ {t}
  /\ UNCHANGED <<life, hostOn, buffer, known, missed>>

Return(t) ==            \* the function it stands for has returned
  /\ todo[t] = <<>> /\ after[t] # <<>>
  /\ todo' = [todo EXCEPT ![t] = after[t]] /\ after' = [after EXCEPT ![t] = <<>>]
  /\ UNCHANGED <<life, active, vanished, lives, calls, hostOn, buffer, known, missed, unheard>>

\* A record goes into the ring, over the oldest unread one when there are too many.
Lose(rs) ==
  LET of(actions) == {r.threadId : r \in {x \in ToSet(rs) : x.action \in actions}}
  IN  missed' = missed \cup of(ThreadActions) /\ unheard' = unheard \cup of({"Wait"})
Write(r) ==
  IF Len(ring) < RingLength
  THEN ring' = Append(ring, r) /\ UNCHANGED <<overrun, missed, unheard>>
  ELSE ring' = Append(Tail(ring), r) /\ overrun' = TRUE /\ Lose(<<Head(ring)>>)

PostRecord(t) ==
  /\ todo[t] # <<>> /\ todo' = [todo EXCEPT ![t] = Tail(@)]
  /\ IF hostOn THEN Write(Head(todo[t])) ELSE UNCHANGED <<buffer, missed, unheard>>
  /\ UNCHANGED <<life, active, after, vanished, lives, calls, hostOn, known>>

\* Definitions with the word Wrong are mutations: the mistake in the definition they
\* precede that the property named with them would reveal.

\* CallerKnown, AttachedIsKnown: the mark in TLS stays.
WrongDetachThread(t) ==
  /\ life[t] = "running" /\ Idle(t)
  /\ life' = [life EXCEPT ![t] = "leaving"]
  /\ todo' = [todo EXCEPT ![t] = IF active[t] THEN <<Deletion(t)>> ELSE <<>>]
  /\ UNCHANGED <<active, after, vanished, lives, calls, hostOn, buffer, known, missed, unheard>>

\* DLL_THREAD_DETACH.  The thread may still call hooked functions, from the detach
\* handlers of other DLLs, and is attached again then.
DetachThread(t) ==
  /\ life[t] = "running" /\ Idle(t)
  /\ life' = [life EXCEPT ![t] = "leaving"]
  /\ todo' = [todo EXCEPT ![t] = IF active[t] THEN <<Deletion(t)>> ELSE <<>>]
  /\ active' = [active EXCEPT ![t] = FALSE]
  /\ UNCHANGED <<after, vanished, lives, calls, hostOn, buffer, known, missed, unheard>>

\* The thread is no more and its id is free, at the end of its detaching or, when it
\* or its process is terminated, at any point.
Vanish(t) ==
  /\ life[t] # "none"
  /\ life' = [life EXCEPT ![t] = "none"] /\ active' = [active EXCEPT ![t] = FALSE]
  /\ todo' = [todo EXCEPT ![t] = <<>>] /\ after' = [after EXCEPT ![t] = <<>>]
  /\ vanished' = IF active[t] \/ todo[t] # <<>> THEN vanished \cup {t} ELSE vanished
  /\ UNCHANGED <<lives, calls, hostOn, buffer, known, missed, unheard>>

-----------------------------------------------------------------------------
(* The host *)

StartHost ==            \* Initialize: read from the present write index on
  /\ ~hostOn /\ hostOn' = TRUE
  /\ missed' = {t \in Threads : active[t]}
  /\ UNCHANGED <<traced, buffer, known, unheard>>

IsKnown(t) == threadInfoMap[t] # NoInfo

\* queue_routine_post to the warps of the known threads among ts.
PostTask(ts, what) ==
  sent' = [what |-> what, to |-> {threadInfoMap[t] : t \in {u \in ts : IsKnown(u)}}]

Consume(r) ==           \* the next record, within the ring
  /\ hostOn /\ ring # <<>> /\ ~overrun
  /\ r = Head(ring) /\ ring' = Tail(ring)

ThreadCreation(r) ==
  /\ r.action = "ThreadCreation"
  /\ created' = created + 1
  /\ threadInfoMap' = [threadInfoMap EXCEPT ![r.threadId] = created + 1]
  /\ missed' = missed \ {r.threadId}
  /\ UNCHANGED <<waitingObjectsThreadMap, sent, unheard>>

ThreadDeletion(r) ==
  /\ r.action = "ThreadDeletion"
  /\ threadInfoMap' = [threadInfoMap EXCEPT ![r.threadId] = NoInfo]
  /\ missed' = IF IsKnown(r.threadId) THEN missed \ {r.threadId} ELSE missed
  /\ UNCHANGED <<created, waitingObjectsThreadMap, sent, unheard>>

\* SignalReachesWaiters: the last waiter takes the place of the others.
WrongUpdateWaitingObjectsThreadMap(r) ==
  waitingObjectsThreadMap' =
    IF r.action # "Wait" THEN waitingObjectsThreadMap
    ELSE [waitingObjectsThreadMap EXCEPT ![r.object] = {r.threadId}]

\* UpdateWaitingObjectsThreadMap is called for records of preCall only, so that its
\* branch that takes a thread out of the map is never reached.
UpdateWaitingObjectsThreadMap(r) ==
  waitingObjectsThreadMap' =
    IF r.action # "Wait" THEN waitingObjectsThreadMap
    ELSE [waitingObjectsThreadMap EXCEPT ![r.object] =
            IF r.preCall THEN @ \cup {r.threadId} ELSE @ \ {r.threadId}]

PreCall(r) ==
  /\ r.action \notin ThreadActions /\ r.preCall
  /\ UpdateWaitingObjectsThreadMap(r) /\ PostTask({r.threadId}, "Record")
  /\ UNCHANGED <<threadInfoMap, created, missed, unheard>>

GetThreadsByWaitingObject(r) ==
  CASE r.action = "Signal" -> waitingObjectsThreadMap[r.object]
    [] r.action = "Alert"  -> {r.object}
    [] OTHER               -> {}

PostCall(r) ==
  /\ r.action \notin ThreadActions /\ ~r.preCall
  /\ PostTask(GetThreadsByWaitingObject(r), "Record")
  /\ UNCHANGED <<threadInfoMap, waitingObjectsThreadMap, created, missed, unheard>>

Process == \E r \in ToSet(ring) :
  /\ Consume(r) /\ (ThreadCreation(r) \/ ThreadDeletion(r) \/ PreCall(r) \/ PostCall(r))
  /\ UNCHANGED <<traced, hostOn, overrun>>

\* Lapped: skip to half a ring behind and have every known thread's events cleaned up.
Catchup ==
  /\ hostOn /\ overrun /\ overrun' = FALSE
  /\ PostTask(Threads, "Cleanup")
  /\ LET skipped == Len(ring) - RingLength \div 2
     IN  Lose(SubSeq(ring, 1, skipped)) /\ ring' = SubSeq(ring, skipped + 1, Len(ring))
  /\ UNCHANGED <<traced, hostOn, threadInfoMap, waitingObjectsThreadMap, created>>

-----------------------------------------------------------------------------
Thread(t) == ThreadStart(t) \/ Call(t) \/ Return(t) \/ PostRecord(t) \/ DetachThread(t) \/ Vanish(t)
Next == (\E t \in Threads : Thread(t)) \/ StartHost \/ Process \/ Catchup
Spec == Init /\ [][Next]_vars

-----------------------------------------------------------------------------
(* What the host promises *)

Records ==
  {r \in [threadId : Threads, preCall : BOOLEAN, object : Handles \cup {Finish} \cup Threads,
          action : ThreadActions \cup {"Wait", "WaitForAlert", "Signal", "Alert"}] :
     r.object \in IF r.action = "Alert" THEN Threads ELSE Handles \cup {Finish}}
TypeOK ==
  /\ life \in [Threads -> {"none", "running", "leaving"}] /\ active \in [Threads -> BOOLEAN]
  /\ todo \in [Threads -> Seq(Records)] /\ after \in [Threads -> Seq(Records)]
  /\ hostOn \in BOOLEAN /\ overrun \in BOOLEAN /\ ring \in Seq(Records) /\ Len(ring) <= RingLength
  /\ threadInfoMap \in [Threads -> Instances \cup {NoInfo}]
  /\ waitingObjectsThreadMap \in [Handles \cup {Finish} -> SUBSET Threads]
  /\ created \in Nat
  /\ sent \in [what : {"nothing", "Record", "Cleanup"}, to : SUBSET Instances]
  /\ missed \in SUBSET Threads /\ vanished \in SUBSET Threads /\ unheard \in SUBSET Threads
  /\ lives \in 0 .. MaxLives /\ calls \in 0 .. MaxCalls

(* assert(it != threadInfoMap.end()) after a call's record was taken from the ring *)
(* holds, unless the host missed the thread's creation because it started later or *)
(* was lapped.                                                                     *)
CallerKnown ==
  ring # <<>> /\ Head(ring).preCall =>
    IsKnown(Head(ring).threadId) \/ Head(ring).threadId \in missed

(* Mark in TLS, ring and map agree: with the creations and deletions that are yet  *)
(* to be read, the host knows the threads that are attached.  Left out are threads *)
(* that are posting one, those that ended without, and those of which the host     *)
(* missed one and has none to read.                                                *)
Unread(t)    == {k \in DOMAIN ring : ring[k].threadId = t /\ ring[k].action \in ThreadActions}
Before(t, n) == {k \in Unread(t) : k < n}
\* That a thread is known, or that it is not, is what the host has found when it has
\* read the records before the n-th: the last of the thread's creations and deletions.
Finds(t, n, isKnown) ==
  IF Before(t, n) = {} THEN t \in missed \/ IsKnown(t) = isKnown
  ELSE \A k \in Before(t, n) : (\A j \in Before(t, n) : j <= k) =>
         (ring[k].action = "ThreadCreation") = isKnown
IsPosting(t) == \E k \in DOMAIN todo[t] : todo[t][k].action \in ThreadActions
Attached(t) ==
  hostOn => t \in vanished \/ IsPosting(t) \/ Finds(t, Len(ring) + 1, active[t])
AttachedIsKnown == \A t \in Threads : Attached(t)

(* A signal is recorded for every thread that waits for the object: when the host  *)
(* reads the record of a signal, whoever is blocked in a wait whose records it has *)
(* read is among those it posts to.                                                *)
BlockedOn(t, h) ==
  /\ todo[t] = <<>> /\ \E k \in DOMAIN after[t] : after[t][k].action = "Wait" /\ after[t][k].object = h
  /\ \A k \in DOMAIN ring : ring[k].threadId # t
  /\ t \notin missed \cup unheard
Reads(r) == ring # <<>> /\ ring' = Tail(ring) /\ ~overrun /\ UNCHANGED traced /\ r = Head(ring)
SignalReachesWaiters ==
  [][\A r \in ToSet(ring) : Reads(r) /\ r.action = "Signal" /\ ~r.preCall =>
       \A t \in Threads : BlockedOn(t, r.object) =>
         sent'.what = "Record" /\ threadInfoMap[t] \in sent'.to \ {NoInfo}]_vars

(* assert(it != threadInfoMap.end()) for the threads that wait for the object of a *)
(* call: whoever is on file as waiting is known (or its creation was missed).      *)
WaitersKnown ==
  ring # <<>> /\ ~overrun /\ ~Head(ring).preCall /\ Head(ring).action = "Signal" =>
    \A t \in GetThreadsByWaitingObject(Head(ring)) : IsKnown(t) \/ t \in missed

-----------------------------------------------------------------------------
(* The strengthening of these promises that every step preserves. *)

BufferInv == /\ ~hostOn => ring = <<>> /\ ~overrun /\ \A t \in Threads : ~IsKnown(t)
             /\ overrun => Len(ring) = RingLength
             /\ \A k \in DOMAIN ring : ring[k].preCall => ring[k].action \notin ThreadActions

\* What a thread has to post: a creation or deletion first, which agrees with its mark.
Posting(t) ==
  /\ life[t] = "none" => Idle(t) /\ ~active[t]
  /\ active[t] => t \notin vanished
  /\ after[t] # <<>> => active[t]
  /\ \A k \in DOMAIN todo[t] : LET r == todo[t][k] IN
       /\ r.threadId = t
       /\ r.action \in ThreadActions => k = 1 /\ ~r.preCall
       /\ r.action = "ThreadCreation" => active[t]
       /\ r.action = "ThreadDeletion" => ~active[t]
       /\ r.preCall => active[t]
  /\ \A k \in DOMAIN after[t] : LET r == after[t][k] IN
       r.threadId = t /\ r.action \notin ThreadActions /\ ~r.preCall
PostingInv == \A t \in Threads : Posting(t)

\* CallerKnown, of every record in the ring.
CallerInv == \A k \in DOMAIN ring : ring[k].preCall => Finds(ring[k].threadId, k, TRUE)

\* The record of a wait is on its way to the map until the host has read it, unless it
\* was lost or posted before the host had started.
Waits(t) ==
  \A h \in Handles \cup {Finish} :
    (\E k \in DOMAIN after[t] : after[t][k].action = "Wait" /\ after[t][k].object = h) =>
      \/ t \in unheard \/ t \in waitingObjectsThreadMap[h]
      \/ \E k \in DOMAIN todo[t] : todo[t][k] = Wait(t, h)
      \/ \E k \in DOMAIN ring : ring[k] = Wait(t, h)
      \/ (hostOn => t \in missed) /\ Unread(t) = {} /\ ~IsPosting(t)
WaitInv == \A t \in Threads : Waits(t)

IInv == TypeOK /\ BufferInv /\ PostingInv /\ AttachedIsKnown /\ CallerInv /\ WaitInv
=============================================================================
