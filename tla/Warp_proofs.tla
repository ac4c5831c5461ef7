----------------------------- MODULE Warp_proofs -----------------------------
(***************************************************************************)
(* For every number of threads and tasks, with any number of the bounded   *)
(* calls: no two tasks of a warp run at the same time, and the warp        *)
(* implements a strand.                                                    *)
(***************************************************************************)
EXTENDS Warp, FiniteSetTheorems, TLAPS

LEMMA InitIInv == Init => IInv
<1> SUFFICES ASSUME Init PROVE IInv
  OBVIOUS
<1> USE WarpAssumption DEF Init
<1>1. TypeOK
  <2>1. scan \in [Threads -> 1 .. NThreads + 1] /\ pushed \in 0 .. MaxTasks
    OBVIOUS
  <2>2. buffers \in [Threads -> Seq(Tasks)]
    OBVIOUS
  <2>3. calls \in [Calls -> Nat]
    OBVIOUS
  <2>4. task \in [Threads -> Tasks \cup {NoTask}] /\ thread_warp \in Threads \cup {NoThread}
    OBVIOUS
  <2>5. /\ pc \in [Threads -> {"idle", "chain", "flush", "queue", "check", "preempt", "recheck", "park",
                            "mark", "scan", "task", "after", "poll", "yield", "unmark", "resume",
                            "reset", "parallelQueue", "parallel", "empty"}]
        /\ ret \in [Threads -> {"idle", "parallel", "task", "empty"}]
    OBVIOUS
  <2>6. current_warp \in [Threads -> BOOLEAN] /\ force \in [Threads -> BOOLEAN]
    OBVIOUS
  <2>7. /\ suspend_count \in Int /\ executes \in Nat /\ parallels \in Nat
        /\ queueing \in {"idle", "pending", "executing"}
    OBVIOUS
  <2>8. /\ delayed \in SUBSET Threads /\ holds \in SUBSET Threads /\ ran \in SUBSET Tasks
        /\ interrupting \in BOOLEAN /\ drained \in SUBSET Threads
        /\ forgotten \in SUBSET {"delay", "interrupt", "node"}
    BY Zenon
  <2> HIDE DEF Init
  <2> QED BY <2>1, <2>2, <2>3, <2>4, <2>5, <2>6, <2>7, <2>8 DEF TypeOK
<1>2. OwnerInv
  BY DEF OwnerInv
<1>3. TaskInv
  BY DEF TaskInv, InTask, NoTask
<1> QED BY <1>1, <1>2, <1>3 DEF IInv

(* Counting one more bounded call keeps the counters numbers.                *)
LEMMA SpendType ==
  ASSUME NEW c \in Calls, calls \in [Calls -> Nat], Spend(c)
  PROVE  calls' \in [Calls -> Nat]
BY DEF Spend

(* The bound on the tasks being pushed bounds the tasks pushed.              *)
LEMMA RoomIs == TypeOK /\ Room => pushed < MaxTasks
<1> DEFINE S == {t \in Threads : pc[t] = "chain"}
<1>1. IsFiniteSet(Threads)
  BY FS_Interval, WarpAssumption DEF Threads
<1>2. Cardinality(S) \in Nat
  BY <1>1, FS_Subset, FS_CardinalityType
<1> QED BY <1>2, WarpAssumption DEF Room, TypeOK

(* One step per action; those that change nothing a thread's place in a task *)
(* depends on need only the program counters.                                *)
LEMMA NextIInv == IInv /\ [Next]_vars => IInv'
<1> SUFFICES ASSUME IInv, [Next]_vars PROVE IInv'
  OBVIOUS
<1> USE WarpAssumption DEF IInv, Move, worker, local, count, storage
<1>1. ASSUME NEW t \in Threads, Drain(t) PROVE IInv'
  <2> USE <1>1 DEF Drain
  <2>1. TypeOK'
    BY DEF TypeOK, TaskInv, InTask
  <2>2. OwnerInv'
    BY DEF TypeOK, OwnerInv
  <2>3. TaskInv'
    BY DEF TypeOK, TaskInv, InTask
  <2> QED BY <2>1, <2>2, <2>3
<1>2. ASSUME NEW t \in Threads, Post(t) PROVE IInv'
  <2> USE <1>2 DEF Post
  <2>1. TypeOK'
    <3>1. pushed + 1 \in Tasks /\ pushed' \in 0 .. MaxTasks
      BY RoomIs DEF TypeOK, Tasks
    <3>2. buffers' \in [Threads -> Seq(Tasks)]
      BY <3>1 DEF TypeOK
    <3>3. ret' \in [Threads -> {"idle", "parallel", "task", "empty"}]
      BY DEF TypeOK
    <3> QED BY <3>1, <3>2, <3>3 DEF TypeOK
  <2>2. OwnerInv'
    BY DEF TypeOK, OwnerInv
  <2>3. TaskInv'
    BY DEF TypeOK, TaskInv, InTask
  <2> QED BY <2>1, <2>2, <2>3
<1>3. ASSUME NEW t \in Threads, CallInPlace(t) PROVE IInv'
  <2> USE <1>3 DEF CallInPlace
  <2>1. TypeOK'
    <3>1. pushed + 1 \in Tasks /\ pushed' \in 0 .. MaxTasks
      BY RoomIs DEF TypeOK, Tasks
    <3> QED BY <3>1 DEF TypeOK
  <2>2. OwnerInv'
    BY DEF TypeOK, OwnerInv
  <2>3. TaskInv'
    BY DEF TypeOK, TaskInv, InTask
  <2> QED BY <2>1, <2>2, <2>3
<1>4. ASSUME NEW t \in Threads, Flush(t) PROVE IInv'
  <2> USE <1>4 DEF Flush
  <2>1. TypeOK'
    BY DEF TypeOK, TaskInv, InTask
  <2>2. OwnerInv'
    BY DEF TypeOK, OwnerInv
  <2>3. TaskInv'
    BY DEF TypeOK, TaskInv, InTask
  <2> QED BY <2>1, <2>2, <2>3
<1>5. ASSUME NEW t \in Threads, QueueExecute(t) PROVE IInv'
  <2> USE <1>5 DEF QueueExecute
  <2>1. TypeOK'
    BY DEF TypeOK, TaskInv, InTask
  <2>2. OwnerInv'
    BY DEF TypeOK, OwnerInv
  <2>3. TaskInv'
    BY DEF TypeOK, TaskInv, InTask
  <2> QED BY <2>1, <2>2, <2>3
<1>6. ASSUME NEW t \in Threads, TakeExecute(t) PROVE IInv'
  <2> USE <1>6 DEF TakeExecute
  <2>1. TypeOK'
    BY DEF TypeOK, TaskInv, InTask
  <2>2. OwnerInv'
    BY DEF TypeOK, OwnerInv
  <2>3. TaskInv'
    BY DEF TypeOK, TaskInv, InTask
  <2> QED BY <2>1, <2>2, <2>3
<1>7. ASSUME NEW t \in Threads, Check(t) PROVE IInv'
  <2> USE <1>7 DEF Check
  <2>1. TypeOK'
    BY DEF TypeOK, TaskInv, InTask
  <2>2. OwnerInv'
    BY DEF TypeOK, OwnerInv
  <2>3. TaskInv'
    BY DEF TypeOK, TaskInv, InTask
  <2> QED BY <2>1, <2>2, <2>3
<1>8. ASSUME NEW t \in Threads, Preempt(t) PROVE IInv'
  <2> USE <1>8 DEF Preempt
  <2>1. TypeOK'
    BY DEF TypeOK, TaskInv, InTask
  <2>2. OwnerInv'
    BY DEF TypeOK, OwnerInv, Threads, NoThread
  <2>3. TaskInv'
    BY DEF TypeOK, TaskInv, InTask
  <2> QED BY <2>1, <2>2, <2>3
<1>9. ASSUME NEW t \in Threads, Recheck(t) PROVE IInv'
  <2> USE <1>9 DEF Recheck
  <2>1. TypeOK'
    BY DEF TypeOK, TaskInv, InTask
  <2>2. OwnerInv'
    BY DEF TypeOK, OwnerInv
  <2>3. TaskInv'
    BY DEF TypeOK, TaskInv, InTask
  <2> QED BY <2>1, <2>2, <2>3
<1>10. ASSUME NEW t \in Threads, Park(t) PROVE IInv'
  <2> USE <1>10 DEF Park
  <2>1. TypeOK'
    BY DEF TypeOK, TaskInv, InTask
  <2>2. OwnerInv'
    BY DEF TypeOK, OwnerInv
  <2>3. TaskInv'
    BY DEF TypeOK, TaskInv, InTask
  <2> QED BY <2>1, <2>2, <2>3
<1>11. ASSUME NEW t \in Threads, Mark(t) PROVE IInv'
  <2> USE <1>11 DEF Mark
  <2>1. TypeOK'
    <3>1. calls' \in [Calls -> Nat]
      BY SpendType DEF TypeOK, Calls
    <3> QED BY <3>1 DEF TypeOK
  <2>2. OwnerInv'
    BY DEF TypeOK, OwnerInv
  <2>3. TaskInv'
    BY DEF TypeOK, TaskInv, InTask
  <2> QED BY <2>1, <2>2, <2>3
<1>12. ASSUME NEW t \in Threads, SkipBuffer(t) PROVE IInv'
  <2> USE <1>12 DEF SkipBuffer
  <2>1. TypeOK'
    <3>1. scan[t] <= NThreads => scan[t] + 1 \in 1 .. NThreads + 1
      BY DEF TypeOK
    <3>2. scan' \in [Threads -> 1 .. NThreads + 1]
      BY <3>1 DEF TypeOK
    <3> QED BY <3>2 DEF TypeOK
  <2>2. OwnerInv'
    BY DEF TypeOK, OwnerInv
  <2>3. TaskInv'
    BY DEF TypeOK, TaskInv, InTask
  <2> QED BY <2>1, <2>2, <2>3
<1>13. ASSUME NEW t \in Threads, StartTask(t) PROVE IInv'
  <2> USE <1>13 DEF StartTask
  <2> DEFINE b == buffers[scan[t]]
  <2>1. scan[t] \in Threads /\ b \in Seq(Tasks) /\ b # <<>>
    BY DEF TypeOK, Threads, Empty
  <2>2. Head(b) \in Tasks /\ Tail(b) \in Seq(Tasks)
    BY <2>1
  <2>3. Head(b) # NoTask
    BY <2>2 DEF Tasks, NoTask
  <2>4. TypeOK'
    BY <2>1, <2>2 DEF TypeOK
  <2>5. OwnerInv'
    BY DEF TypeOK, OwnerInv
  <2>6. TaskInv'
    BY <2>3 DEF TypeOK, TaskInv, InTask
  <2> QED BY <2>4, <2>5, <2>6
<1>14. ASSUME NEW t \in Threads, EndTask(t) PROVE IInv'
  <2> USE <1>14 DEF EndTask
  <2>1. TypeOK'
    BY DEF TypeOK, TaskInv, InTask
  <2>2. OwnerInv'
    BY DEF TypeOK, OwnerInv
  <2>3. TaskInv'
    BY DEF TypeOK, TaskInv, InTask
  <2> QED BY <2>1, <2>2, <2>3
<1>15. ASSUME NEW t \in Threads, AfterTask(t) PROVE IInv'
  <2> USE <1>15 DEF AfterTask
  <2>1. TypeOK'
    BY DEF TypeOK, TaskInv, InTask
  <2>2. OwnerInv'
    BY DEF TypeOK, OwnerInv
  <2>3. TaskInv'
    BY DEF TypeOK, TaskInv, InTask
  <2> QED BY <2>1, <2>2, <2>3
<1>16. ASSUME NEW t \in Threads, PollInterrupt(t) PROVE IInv'
  <2> USE <1>16 DEF PollInterrupt
  <2>1. TypeOK'
    <3>1. scan' \in [Threads -> 1 .. NThreads + 1]
      BY DEF TypeOK, TaskInv
    <3> QED BY <3>1 DEF TypeOK
  <2>2. OwnerInv'
    BY DEF TypeOK, OwnerInv
  <2>3. TaskInv'
    BY DEF TypeOK, TaskInv, InTask
  <2> QED BY <2>1, <2>2, <2>3
<1>17. ASSUME NEW t \in Threads, Yield(t) PROVE IInv'
  <2> USE <1>17 DEF Yield, Back
  <2>1. TypeOK'
    BY DEF TypeOK, TaskInv, InTask
  <2>2. OwnerInv'
    BY DEF TypeOK, OwnerInv, Threads, NoThread
  <2>3. TaskInv'
    BY DEF TypeOK, TaskInv, InTask
  <2> QED BY <2>1, <2>2, <2>3
<1>18. ASSUME NEW t \in Threads, YieldInTask(t) PROVE IInv'
  <2> USE <1>18 DEF YieldInTask
  <2>1. TypeOK'
    BY DEF TypeOK, TaskInv, InTask
  <2>2. OwnerInv'
    BY DEF TypeOK, OwnerInv
  <2>3. TaskInv'
    BY DEF TypeOK, TaskInv, InTask
  <2> QED BY <2>1, <2>2, <2>3
<1>19. ASSUME NEW t \in Threads, Unmark(t) PROVE IInv'
  <2> USE <1>19 DEF Unmark
  <2>1. TypeOK'
    BY DEF TypeOK, TaskInv, InTask
  <2>2. OwnerInv'
    BY DEF TypeOK, OwnerInv
  <2>3. TaskInv'
    BY DEF TypeOK, TaskInv, InTask
  <2> QED BY <2>1, <2>2, <2>3
<1>20. ASSUME NEW t \in Threads, Suspend(t) PROVE IInv'
  <2> USE <1>20 DEF Suspend
  <2>1. TypeOK'
    <3>1. calls' \in [Calls -> Nat]
      BY SpendType DEF TypeOK, Calls
    <3> QED BY <3>1 DEF TypeOK
  <2>2. OwnerInv'
    BY DEF TypeOK, OwnerInv
  <2>3. TaskInv'
    BY DEF TypeOK, TaskInv, InTask
  <2> QED BY <2>1, <2>2, <2>3
<1>21. ASSUME NEW t \in Threads, Resume(t) PROVE IInv'
  <2> USE <1>21 DEF Resume
  <2>1. TypeOK'
    BY DEF TypeOK, TaskInv, InTask
  <2>2. OwnerInv'
    BY DEF TypeOK, OwnerInv
  <2>3. TaskInv'
    BY DEF TypeOK, TaskInv, InTask
  <2> QED BY <2>1, <2>2, <2>3
<1>22. ASSUME NEW t \in Threads, ResumeCount(t) PROVE IInv'
  <2> USE <1>22 DEF ResumeCount
  <2>1. TypeOK'
    BY DEF TypeOK, TaskInv, InTask
  <2>2. OwnerInv'
    BY DEF TypeOK, OwnerInv
  <2>3. TaskInv'
    BY DEF TypeOK, TaskInv, InTask
  <2> QED BY <2>1, <2>2, <2>3
<1>23. ASSUME NEW t \in Threads, ResumeReset(t) PROVE IInv'
  <2> USE <1>23 DEF ResumeReset
  <2>1. TypeOK'
    BY DEF TypeOK, TaskInv, InTask
  <2>2. OwnerInv'
    BY DEF TypeOK, OwnerInv
  <2>3. TaskInv'
    BY DEF TypeOK, TaskInv, InTask
  <2> QED BY <2>1, <2>2, <2>3
<1>24. ASSUME NEW t \in Threads, ParallelSuspend(t) PROVE IInv'
  <2> USE <1>24 DEF ParallelSuspend
  <2>1. TypeOK'
    <3>1. calls' \in [Calls -> Nat]
      BY SpendType DEF TypeOK, Calls
    <3> QED BY <3>1 DEF TypeOK
  <2>2. OwnerInv'
    BY DEF TypeOK, OwnerInv
  <2>3. TaskInv'
    BY DEF TypeOK, TaskInv, InTask
  <2> QED BY <2>1, <2>2, <2>3
<1>25. ASSUME NEW t \in Threads, ParallelQueue(t) PROVE IInv'
  <2> USE <1>25 DEF ParallelQueue
  <2>1. TypeOK'
    BY DEF TypeOK, TaskInv, InTask
  <2>2. OwnerInv'
    BY DEF TypeOK, OwnerInv
  <2>3. TaskInv'
    BY DEF TypeOK, TaskInv, InTask
  <2> QED BY <2>1, <2>2, <2>3
<1>26. ASSUME NEW t \in Threads, TakeParallel(t) PROVE IInv'
  <2> USE <1>26 DEF TakeParallel
  <2>1. TypeOK'
    BY DEF TypeOK, TaskInv, InTask
  <2>2. OwnerInv'
    BY DEF TypeOK, OwnerInv
  <2>3. TaskInv'
    BY DEF TypeOK, TaskInv, InTask
  <2> QED BY <2>1, <2>2, <2>3
<1>27. ASSUME NEW t \in Threads, EndParallel(t) PROVE IInv'
  <2> USE <1>27 DEF EndParallel
  <2>1. TypeOK'
    BY DEF TypeOK, TaskInv, InTask
  <2>2. OwnerInv'
    BY DEF TypeOK, OwnerInv
  <2>3. TaskInv'
    BY DEF TypeOK, TaskInv, InTask
  <2> QED BY <2>1, <2>2, <2>3
<1>28. ASSUME NEW t \in Threads, Join(t) PROVE IInv'
  <2> USE <1>28 DEF Join
  <2>1. TypeOK'
    <3>1. calls' \in [Calls -> Nat]
      BY SpendType DEF TypeOK, Calls
    <3> QED BY <3>1 DEF TypeOK
  <2>2. OwnerInv'
    BY DEF TypeOK, OwnerInv
  <2>3. TaskInv'
    BY DEF TypeOK, TaskInv, InTask
  <2> QED BY <2>1, <2>2, <2>3
<1>29. ASSUME NEW t \in Threads, JoinEmpty(t) PROVE IInv'
  <2> USE <1>29 DEF JoinEmpty
  <2>1. TypeOK'
    BY DEF TypeOK, TaskInv, InTask
  <2>2. OwnerInv'
    BY DEF TypeOK, OwnerInv
  <2>3. TaskInv'
    BY DEF TypeOK, TaskInv, InTask
  <2> QED BY <2>1, <2>2, <2>3
<1>32. ASSUME NEW t \in Threads, PostFull(t) PROVE IInv'
  <2> USE <1>32 DEF PostFull
  <2>1. TypeOK'
    <3>1. ret' \in [Threads -> {"idle", "parallel", "task", "empty"}]
      BY DEF TypeOK
    <3> QED BY <3>1 DEF TypeOK
  <2>2. OwnerInv'
    BY DEF TypeOK, OwnerInv
  <2>3. TaskInv'
    BY DEF TypeOK, TaskInv, InTask
  <2> QED BY <2>1, <2>2, <2>3
<1>33. ASSUME NEW t \in Threads, Chain(t) PROVE IInv'
  <2> USE <1>33 DEF Chain
  <2>1. TypeOK'
    <3>1. pushed + 1 \in Tasks /\ pushed' \in 0 .. MaxTasks
      BY DEF TypeOK, Tasks
    <3>2. buffers' \in [Threads -> Seq(Tasks)]
      BY <3>1 DEF TypeOK
    <3>3. drained' \in SUBSET Threads /\ forgotten' \in SUBSET {"delay", "interrupt", "node"}
      BY DEF TypeOK
    <3>4. pc' \in [Threads -> {"idle", "chain", "flush", "queue", "check", "preempt", "recheck", "park", "mark",
                               "scan", "task", "after", "poll", "yield", "unmark", "resume", "reset",
                               "parallelQueue", "parallel", "empty"}]
      BY DEF TypeOK, Move
    <3> HIDE <1>33 DEF Chain
    <3>5. UNCHANGED <<thread_warp, current_warp, suspend_count, interrupting, queueing, delayed,
                      worker, local, calls, holds, ran>>
      BY <1>33 DEF Chain
    <3> QED BY <3>1, <3>2, <3>3, <3>4, <3>5 DEF TypeOK, worker, local
  <2>2. OwnerInv'
    BY DEF TypeOK, OwnerInv
  <2>3. TaskInv'
    BY DEF TypeOK, TaskInv, InTask
  <2> QED BY <2>1, <2>2, <2>3
<1>30. CASE Interrupt
  <2>1. calls' \in [Calls -> Nat]
    BY <1>30, SpendType DEF Interrupt, TypeOK, Calls
  <2> QED BY <1>30, <2>1 DEF Interrupt, TypeOK, OwnerInv, TaskInv, InTask
<1>31. CASE UNCHANGED vars
  BY <1>31 DEF vars, TypeOK, OwnerInv, TaskInv, InTask
<1> QED
  BY <1>1, <1>2, <1>3, <1>4, <1>5, <1>6, <1>7, <1>8, <1>9, <1>10, <1>11, <1>12, <1>13, <1>14,
     <1>15, <1>16, <1>17, <1>18, <1>19, <1>20, <1>21, <1>22, <1>23, <1>24, <1>25, <1>26, <1>27,
     <1>28, <1>29, <1>30, <1>31, <1>32, <1>33 DEF Next, Execute, Release, Request

(* All variables keep their types. *)
THEOREM TypeCorrect == Spec => []TypeOK
<1>1. IInv => TypeOK
  BY DEF IInv
<1> QED BY InitIInv, NextIInv, <1>1, PTL DEF Spec

(* The warp restriction: tasks of one warp never run at the same time. *)
THEOREM WarpRestriction == Spec => []MutualExclusion
<1>1. IInv => MutualExclusion
  BY DEF IInv, OwnerInv, MutualExclusion, OnWarp, TypeOK
<1> QED BY InitIInv, NextIInv, <1>1, PTL DEF Spec

-----------------------------------------------------------------------------
(* The strand a warp implements: what is running is the task of the one        *)
(* thread on the warp.                                                         *)
LEMMA RunningTask ==
  ASSUME IInv, NEW t \in Threads, OnWarp(t)
  PROVE  Running = task[t] /\ Running # NoTask
<1>1. \A u \in Threads : OnWarp(u) => u = t
  BY DEF IInv, OwnerInv, OnWarp
<1>2. (CHOOSE u \in Threads : OnWarp(u)) = t
  BY <1>1
<1> QED BY <1>2 DEF Running, OnWarp

LEMMA RunningTaskNext ==
  ASSUME IInv', NEW t \in Threads, OnWarp(t)'
  PROVE  Running' = task'[t] /\ Running' # NoTask
<1>1. \A u \in Threads : OnWarp(u)' => u = t
  BY DEF IInv, OwnerInv, OnWarp
<1>2. (CHOOSE u \in Threads : OnWarp(u)') = t
  BY <1>1
<1> QED BY <1>2 DEF Running, OnWarp

LEMMA RunningSame ==
  ASSUME IInv, IInv', \A t \in Threads : OnWarp(t)' <=> OnWarp(t),
         \A t \in Threads : OnWarp(t) => task'[t] = task[t]
  PROVE  Running' = Running
<1>1. CASE \E t \in Threads : OnWarp(t)
  BY <1>1, RunningTask, RunningTaskNext
<1>2. CASE ~\E t \in Threads : OnWarp(t)
  BY <1>2 DEF Running
<1> QED BY <1>1, <1>2

LEMMA StepStrand == IInv /\ IInv' /\ [Next]_vars => [Strand!Next]_Strand!vars
<1> SUFFICES ASSUME IInv, IInv', [Next]_vars PROVE [Strand!Next]_Strand!vars
  OBVIOUS
<1> USE DEF Strand!vars
<1>1. ASSUME NEW t \in Threads, Post(t) PROVE Strand!Next
  <2>1. Running' = Running
    BY <1>1, RunningSame DEF Post, OnWarp
  <2> QED BY <1>1, <2>1, RoomIs DEF Post, Strand!Next, Strand!Push, IInv
<1>14. ASSUME NEW t \in Threads, Chain(t) PROVE Strand!Next
  <2>1. Running' = Running
    BY <1>14, RunningSame DEF Chain, OnWarp, local
  <2> QED BY <1>14, <2>1 DEF Chain, Strand!Next, Strand!Push
<1>2. ASSUME NEW t \in Threads, CallInPlace(t) PROVE Strand!Next
  <2>1. OnWarp(t)
    BY <1>2 DEF CallInPlace, IInv, TaskInv, InTask, OnWarp
  <2>2. Running' = Running
    BY <1>2, RunningSame DEF CallInPlace, OnWarp, local
  <2> QED BY <1>2, <2>1, <2>2, RunningTask, RoomIs DEF CallInPlace, Strand!Next, Strand!CallInPlace, IInv, storage
<1>3. ASSUME NEW t \in Threads, StartTask(t) PROVE Strand!Next
  <2> USE <1>3 DEF StartTask, Move, count
  <2>1. current_warp[t] /\ task[t] = NoTask
    BY DEF IInv, OwnerInv, TaskInv, InTask
  <2>2. \A u \in Threads : ~OnWarp(u)
    BY <2>1 DEF IInv, OwnerInv, OnWarp
  <2>3. Running = NoTask
    BY <2>2 DEF Running
  <2>4. scan[t] \in Threads
    BY WarpAssumption DEF IInv, TypeOK, Threads
  <2>5. task'[t] = Head(buffers[scan[t]])
    BY DEF IInv, TypeOK
  <2>6. OnWarp(t)'
    BY <2>1 DEF IInv, TaskInv, InTask, OnWarp, TypeOK
  <2>7. Running' = Head(buffers[scan[t]])
    BY <2>5, <2>6, RunningTaskNext
  <2> QED BY <2>3, <2>4, <2>7 DEF Strand!Next, Strand!Start, Empty
<1>4. ASSUME NEW t \in Threads, EndTask(t) PROVE Strand!Next \/ UNCHANGED Strand!vars
  <2> USE <1>4 DEF EndTask, Move, storage
  <2>1. CASE OnWarp(t)
    <3>1. \A u \in Threads : ~OnWarp(u)'
      BY <2>1 DEF IInv, TypeOK, OwnerInv, OnWarp
    <3>2. Running' = NoTask
      BY <3>1 DEF Running
    <3> QED BY <2>1, <3>2, RunningTask DEF Strand!Next, Strand!Stop
  <2>2. CASE ~OnWarp(t)
    <3>1. \A u \in Threads : OnWarp(u)' <=> OnWarp(u)
      BY <2>2 DEF IInv, TypeOK, OnWarp
    <3>2. \A u \in Threads : OnWarp(u) => task'[u] = task[u]
      BY <2>2 DEF IInv, TypeOK, OnWarp
    <3>3. Running' = Running
      BY <3>1, <3>2, RunningSame
    <3> QED BY <3>3
  <2> QED BY <2>1, <2>2
<1>5. ASSUME NEW t \in Threads, YieldInTask(t) PROVE Strand!Next \/ UNCHANGED Strand!vars
  <2> USE <1>5 DEF YieldInTask, Move, count, storage
  <2>1. CASE OnWarp(t)
    <3>1. \A u \in Threads : ~OnWarp(u)'
      BY <2>1 DEF IInv, TypeOK, OwnerInv, OnWarp
    <3>2. Running' = NoTask
      BY <3>1 DEF Running
    <3> QED BY <2>1, <3>2, RunningTask DEF Strand!Next, Strand!Stop
  <2>2. CASE ~OnWarp(t)
    <3>1. \A u \in Threads : OnWarp(u)' <=> OnWarp(u)
      BY <2>2 DEF IInv, TypeOK, OnWarp
    <3>2. Running' = Running
      BY <3>1, RunningSame
    <3> QED BY <3>2
  <2> QED BY <2>1, <2>2
<1>6. ASSUME NEW t \in Threads, Preempt(t) \/ Yield(t) PROVE UNCHANGED Strand!vars
  <2>1. task[t] = NoTask /\ task' = task
    BY <1>6 DEF Preempt, Yield, Move, IInv, TaskInv, InTask, local
  <2>2. \A u \in Threads : OnWarp(u)' <=> OnWarp(u)
    BY <1>6, <2>1 DEF Preempt, Yield, IInv, TypeOK, OnWarp
  <2>3. Running' = Running
    BY <2>1, <2>2, RunningSame
  <2> QED BY <1>6, <2>3 DEF Preempt, Yield, count, storage
<1>7. ASSUME UNCHANGED <<buffers, task, current_warp, pushed>> PROVE UNCHANGED Strand!vars
  <2>1. Running' = Running
    BY <1>7, RunningSame DEF OnWarp
  <2> QED BY <1>7, <2>1
<1>8. ASSUME NEW t \in Threads, Execute(t) PROVE [Strand!Next]_Strand!vars
  BY <1>3, <1>4, <1>6, <1>7, <1>8, <1>14
  DEF Execute, TakeExecute, Check, Recheck, Park, Mark, SkipBuffer, AfterTask, PollInterrupt,
      Unmark, Flush, QueueExecute, local, count, storage
<1>9. ASSUME NEW t \in Threads, Release(t) PROVE UNCHANGED Strand!vars
  BY <1>7, <1>9
  DEF Release, ParallelQueue, TakeParallel, EndParallel, JoinEmpty, Resume, ResumeCount,
      ResumeReset, local, count, storage
<1>10. ASSUME NEW t \in Threads, Request(t) PROVE [Strand!Next]_Strand!vars
  BY <1>1, <1>2, <1>5, <1>7, <1>10 DEF Request, PostFull, ParallelSuspend, Suspend, Join, local, count, storage
<1>11. CASE UNCHANGED vars
  BY <1>7, <1>11 DEF vars, local, count, storage
<1>12. ASSUME NEW t \in Threads, Drain(t) PROVE UNCHANGED Strand!vars
  BY <1>7, <1>12 DEF Drain, local, count, storage
<1>13. CASE Interrupt
  BY <1>7, <1>13 DEF Interrupt, local, storage
<1> QED
  BY <1>8, <1>9, <1>10, <1>11, <1>12, <1>13 DEF Next

(* The warp implements a strand: tasks start one at a time, those of one       *)
(* pushing thread in the order it pushed them.                                 *)
THEOREM WarpIsStrand == Spec => StrandSpec
<1>1. Init => Strand!Init
  BY DEF Init, Strand!Init, Running, OnWarp
<1> QED BY InitIInv, NextIInv, StepStrand, <1>1, PTL DEF Spec, StrandSpec, Strand!Spec

-----------------------------------------------------------------------------
(* A parallel task excludes the tasks of the warp *)

Reasons == {"parallel", "join", "hold", "resume"}

LEMMA SuspendsIs ==
  ASSUME NEW t
  PROVE  /\ Suspends(t, "parallel") <=> InParallel(t)
         /\ Suspends(t, "join") <=> Joining(t)
         /\ Suspends(t, "hold") <=> t \in holds
         /\ Suspends(t, "resume") <=> pc[t] = "resume"
BY DEF Suspends

LEMMA SuspendsIsNext ==
  ASSUME NEW t
  PROVE  /\ Suspends(t, "parallel")' <=> InParallel(t)'
         /\ Suspends(t, "join")' <=> Joining(t)'
         /\ Suspends(t, "hold")' <=> t \in holds'
         /\ Suspends(t, "resume")' <=> pc'[t] = "resume"
BY DEF Suspends

LEMMA SuspensionsFinite ==
  IsFiniteSet(Suspensions) /\ Cardinality(Suspensions) \in Nat
<1>1. IsFiniteSet(Threads)
  BY FS_Interval, WarpAssumption DEF Threads
<1>2. IsFiniteSet({"parallel", "join", "hold", "resume"})
  <2>1. /\ IsFiniteSet({} \cup {"parallel"})
        /\ \A S : IsFiniteSet(S) => IsFiniteSet(S \cup {"join"}) /\ IsFiniteSet(S \cup {"hold"})
                                    /\ IsFiniteSet(S \cup {"resume"})
    BY FS_EmptySet, FS_AddElement
  <2>2. {"parallel", "join", "hold", "resume"} =
          ((({} \cup {"parallel"}) \cup {"join"}) \cup {"hold"}) \cup {"resume"}
    OBVIOUS
  <2> QED BY <2>1, <2>2
<1>3. IsFiniteSet(Threads \X {"parallel", "join", "hold", "resume"})
  BY <1>1, <1>2, FS_Product
<1> QED BY <1>3, FS_Subset, FS_CardinalityType DEF Suspensions

LEMMA Counted ==
  ASSUME ExcludesInv, suspend_count = 0
  PROVE  ~ParallelPending
<1> SUFFICES ASSUME ParallelPending PROVE FALSE
  OBVIOUS
<1>1. /\ suspend_count = parallels + Cardinality(Suspensions) /\ parallels \in Nat
      /\ IsFiniteSet(Suspensions) /\ Cardinality(Suspensions) \in Nat
  BY SuspensionsFinite DEF ExcludesInv, SuspendExact, IInv, TypeOK
<1>2. parallels = 0 /\ Cardinality(Suspensions) = 0
  BY <1>1
<1>3. Suspensions = {}
  BY <1>1, <1>2, FS_EmptySet
<1>4. PICK t \in Threads : InParallel(t)
  BY <1>1, <1>2 DEF ParallelPending
<1>5. <<t, "parallel">> \in Suspensions
  BY <1>4, SuspendsIs DEF Suspensions
<1> QED BY <1>3, <1>5

\* The other threads stay where they are.
Frame(t) == \A u \in Threads \ {t} : /\ pc'[u] = pc[u] /\ ret'[u] = ret[u] /\ force'[u] = force[u]
                                     /\ u \in holds' <=> u \in holds
\* Of the suspensions of thread t, those for the reasons rs may change.
Except(t, rs) == \A r \in Reasons \ rs : Suspends(t, r)' <=> Suspends(t, r)

LEMMA OthersSuspend ==
  ASSUME NEW t, Frame(t), NEW u \in Threads \ {t}, NEW r \in Reasons
  PROVE  (Suspends(u, r)' <=> Suspends(u, r)) /\ (InParallel(u)' <=> InParallel(u))
BY SuspendsIs, SuspendsIsNext DEF Frame, Reasons, InParallel, Joining

LEMMA CountSame ==
  ASSUME NEW t \in Threads, Frame(t), Except(t, {})
  PROVE  Suspensions' = Suspensions
<1>1. \A u \in Threads, r \in Reasons : Suspends(u, r)' <=> Suspends(u, r)
  BY OthersSuspend DEF Except
<1> QED BY <1>1 DEF Suspensions, Reasons

LEMMA CountAdded ==
  ASSUME NEW t \in Threads, NEW r \in Reasons, Frame(t), Except(t, {r}), ~Suspends(t, r), Suspends(t, r)'
  PROVE  Cardinality(Suspensions') = Cardinality(Suspensions) + 1
<1>1. \A u \in Threads, q \in Reasons : u # t \/ q # r => (Suspends(u, q)' <=> Suspends(u, q))
  BY OthersSuspend DEF Except
<1>2. Suspensions' = Suspensions \cup {<<t, r>>} /\ <<t, r>> \notin Suspensions
  BY <1>1 DEF Suspensions, Reasons
<1> QED BY <1>2, SuspensionsFinite, FS_AddElement

LEMMA CountRemoved ==
  ASSUME NEW t \in Threads, NEW r \in Reasons, Frame(t), Except(t, {r}), Suspends(t, r), ~Suspends(t, r)'
  PROVE  Cardinality(Suspensions') = Cardinality(Suspensions) - 1
<1>1. \A u \in Threads, q \in Reasons : u # t \/ q # r => (Suspends(u, q)' <=> Suspends(u, q))
  BY OthersSuspend DEF Except
<1>2. Suspensions' = Suspensions \ {<<t, r>>} /\ <<t, r>> \in Suspensions
  BY <1>1 DEF Suspensions, Reasons
<1> QED BY <1>2, SuspensionsFinite, FS_RemoveElement

LEMMA CountReplaced ==
  ASSUME NEW t \in Threads, NEW r \in Reasons, NEW q \in Reasons, r # q, Frame(t), Except(t, {r, q}),
         Suspends(t, r), ~Suspends(t, r)', ~Suspends(t, q), Suspends(t, q)'
  PROVE  Cardinality(Suspensions') = Cardinality(Suspensions)
<1>1. \A u \in Threads, p \in Reasons : u # t \/ p \notin {r, q} => (Suspends(u, p)' <=> Suspends(u, p))
  BY OthersSuspend DEF Except
<1> DEFINE S == Suspensions \ {<<t, r>>}
<1>2. /\ Suspensions' = S \cup {<<t, q>>} /\ <<t, r>> \in Suspensions /\ <<t, q>> \notin S
  BY <1>1 DEF Suspensions, Reasons
<1>3. IsFiniteSet(S) /\ Cardinality(S) = Cardinality(Suspensions) - 1
  BY <1>2, SuspensionsFinite, FS_RemoveElement
<1> HIDE DEF S
<1>4. Cardinality(Suspensions') = Cardinality(S) + 1
  BY <1>2, <1>3, FS_AddElement
<1> QED BY <1>3, <1>4, SuspensionsFinite

PlaceOk(t) ==
  /\ pc[t] = "unmark" => ret[t] # "parallel"
  /\ pc[t] = "chain" => ret[t] # "empty"
  /\ pc[t] \in {"check", "recheck", "park", "poll"} => ~force[t]
  /\ pc[t] = "empty" \/ (pc[t] \in {"flush", "queue", "unmark"} /\ ret[t] = "empty") => force[t]
\* The thread will run another task of the warp without looking at suspend_count.
Goes(t) == pc[t] \in {"mark", "scan", "poll"} /\ ~force[t]

LEMMA PlaceStep ==
  ASSUME PlaceInv, NEW t \in Threads, Frame(t), PlaceOk(t)'
  PROVE  PlaceInv'
BY DEF PlaceInv, PlaceOk, Frame

LEMMA ExclusionStep ==
  ASSUME ExcludesInv, NEW t \in Threads, Frame(t), ParallelPending' => ParallelPending,
         Goes(t)' => Goes(t) \/ suspend_count = 0
  PROVE  ExclusionInv'
<1> SUFFICES ASSUME NEW u \in Threads, Goes(u)', ParallelPending' PROVE FALSE
  BY DEF ExclusionInv, Goes
<1>1. Goes(u) \/ suspend_count = 0
  BY DEF Goes, Frame
<1> QED BY <1>1, Counted DEF ExcludesInv, ExclusionInv, Goes

LEMMA SameReasons ==
  ASSUME NEW t, NEW rs,
         "parallel" \in rs \/ (InParallel(t)' <=> InParallel(t)),
         "join" \in rs \/ (Joining(t)' <=> Joining(t)),
         "hold" \in rs \/ (t \in holds' <=> t \in holds),
         "resume" \in rs \/ (pc'[t] = "resume" <=> pc[t] = "resume")
  PROVE  Except(t, rs)
BY SuspendsIs, SuspendsIsNext DEF Except, Reasons

(* The steps that neither begin nor end a suspension.                        *)
LEMMA QuietStep ==
  ASSUME ExcludesInv, IInv', NEW t \in Threads, Frame(t), Except(t, {}), PlaceOk(t)',
         Goes(t)' => Goes(t) \/ suspend_count = 0, UNCHANGED <<parallels, suspend_count>>
  PROVE  ExcludesInv'
<1>1. SuspendExact'
  BY CountSame DEF ExcludesInv, SuspendExact
<1>2. \A u \in Threads : InParallel(u)' <=> InParallel(u)
  BY OthersSuspend, SuspendsIs, SuspendsIsNext DEF Except, Reasons
<1>3. ParallelPending' => ParallelPending
  BY <1>2 DEF ParallelPending
<1> QED BY <1>1, <1>3, PlaceStep, ExclusionStep DEF ExcludesInv

LEMMA DrainQuiet ==
  ASSUME ExcludesInv, IInv', NEW t \in Threads, Drain(t)
  PROVE  ExcludesInv'
<1> USE DEF Drain, Move, worker, local, count, ExcludesInv, IInv, TypeOK
<1>1. Frame(t) /\ UNCHANGED <<parallels, suspend_count>>
  BY DEF Frame
<1>2. Except(t, {})
  <2>1. (InParallel(t)' <=> InParallel(t)) /\ (pc'[t] = "resume" <=> pc[t] = "resume")
    BY DEF InParallel, TaskInv, InTask, PlaceInv
  <2>2. (Joining(t)' <=> Joining(t)) /\ (t \in holds' <=> t \in holds)
    BY DEF Joining, TaskInv, InTask, PlaceInv
  <2> QED BY <2>1, <2>2, SameReasons
<1>3. PlaceOk(t)'
  BY DEF PlaceOk, PlaceInv, TaskInv
<1>4. Goes(t)' => Goes(t) \/ suspend_count = 0
  BY DEF Goes, PlaceInv
<1> QED BY <1>1, <1>2, <1>3, <1>4, QuietStep

LEMMA PostQuiet ==
  ASSUME ExcludesInv, IInv', NEW t \in Threads, Post(t)
  PROVE  ExcludesInv'
<1> USE DEF Post, Move, worker, local, count, ExcludesInv, IInv, TypeOK
<1>1. Frame(t) /\ UNCHANGED <<parallels, suspend_count>>
  BY DEF Frame
<1>2. Except(t, {})
  <2>1. (InParallel(t)' <=> InParallel(t)) /\ (pc'[t] = "resume" <=> pc[t] = "resume")
    BY DEF InParallel, TaskInv, InTask, PlaceInv
  <2>2. (Joining(t)' <=> Joining(t)) /\ (t \in holds' <=> t \in holds)
    BY DEF Joining, TaskInv, InTask, PlaceInv
  <2> QED BY <2>1, <2>2, SameReasons
<1>3. PlaceOk(t)'
  BY DEF PlaceOk, PlaceInv, TaskInv
<1>4. Goes(t)' => Goes(t) \/ suspend_count = 0
  BY DEF Goes, PlaceInv
<1> QED BY <1>1, <1>2, <1>3, <1>4, QuietStep

LEMMA PostFullQuiet ==
  ASSUME ExcludesInv, IInv', NEW t \in Threads, PostFull(t)
  PROVE  ExcludesInv'
<1> USE DEF PostFull, Move, worker, local, count, ExcludesInv, IInv, TypeOK
<1>1. Frame(t) /\ UNCHANGED <<parallels, suspend_count>>
  BY DEF Frame
<1>2. Except(t, {})
  <2>1. (InParallel(t)' <=> InParallel(t)) /\ (pc'[t] = "resume" <=> pc[t] = "resume")
    BY DEF InParallel, TaskInv, InTask, PlaceInv
  <2>2. (Joining(t)' <=> Joining(t)) /\ (t \in holds' <=> t \in holds)
    BY DEF Joining, TaskInv, InTask, PlaceInv
  <2> QED BY <2>1, <2>2, SameReasons
<1>3. PlaceOk(t)'
  BY DEF PlaceOk, PlaceInv, TaskInv
<1>4. Goes(t)' => Goes(t) \/ suspend_count = 0
  BY DEF Goes, PlaceInv
<1> QED BY <1>1, <1>2, <1>3, <1>4, QuietStep

LEMMA ChainQuiet ==
  ASSUME ExcludesInv, IInv', NEW t \in Threads, Chain(t)
  PROVE  ExcludesInv'
<1> USE DEF Chain, Move, worker, local, count, ExcludesInv, IInv, TypeOK
<1>1. Frame(t) /\ UNCHANGED <<parallels, suspend_count>>
  BY DEF Frame
<1>2. Except(t, {})
  <2>1. (InParallel(t)' <=> InParallel(t)) /\ (pc'[t] = "resume" <=> pc[t] = "resume")
    BY DEF InParallel, TaskInv, InTask, PlaceInv
  <2>2. (Joining(t)' <=> Joining(t)) /\ (t \in holds' <=> t \in holds)
    BY DEF Joining, TaskInv, InTask, PlaceInv
  <2> QED BY <2>1, <2>2, SameReasons
<1>3. PlaceOk(t)'
  BY DEF PlaceOk, PlaceInv, TaskInv
<1>4. Goes(t)' => Goes(t) \/ suspend_count = 0
  BY DEF Goes, PlaceInv
<1> QED BY <1>1, <1>2, <1>3, <1>4, QuietStep

LEMMA CallInPlaceQuiet ==
  ASSUME ExcludesInv, IInv', NEW t \in Threads, CallInPlace(t)
  PROVE  ExcludesInv'
<1> USE DEF CallInPlace, Move, worker, local, count, ExcludesInv, IInv, TypeOK
<1>1. Frame(t) /\ UNCHANGED <<parallels, suspend_count>>
  BY DEF Frame
<1>2. Except(t, {})
  <2>1. (InParallel(t)' <=> InParallel(t)) /\ (pc'[t] = "resume" <=> pc[t] = "resume")
    BY DEF InParallel, TaskInv, InTask, PlaceInv
  <2>2. (Joining(t)' <=> Joining(t)) /\ (t \in holds' <=> t \in holds)
    BY DEF Joining, TaskInv, InTask, PlaceInv
  <2> QED BY <2>1, <2>2, SameReasons
<1>3. PlaceOk(t)'
  BY DEF PlaceOk, PlaceInv, TaskInv
<1>4. Goes(t)' => Goes(t) \/ suspend_count = 0
  BY DEF Goes, PlaceInv
<1> QED BY <1>1, <1>2, <1>3, <1>4, QuietStep

LEMMA FlushQuiet ==
  ASSUME ExcludesInv, IInv', NEW t \in Threads, Flush(t)
  PROVE  ExcludesInv'
<1> USE DEF Flush, Move, worker, local, count, ExcludesInv, IInv, TypeOK
<1>1. Frame(t) /\ UNCHANGED <<parallels, suspend_count>>
  BY DEF Frame
<1>2. Except(t, {})
  <2>1. (InParallel(t)' <=> InParallel(t)) /\ (pc'[t] = "resume" <=> pc[t] = "resume")
    BY DEF InParallel, TaskInv, InTask, PlaceInv
  <2>2. (Joining(t)' <=> Joining(t)) /\ (t \in holds' <=> t \in holds)
    BY DEF Joining, TaskInv, InTask, PlaceInv
  <2> QED BY <2>1, <2>2, SameReasons
<1>3. PlaceOk(t)'
  BY DEF PlaceOk, PlaceInv, TaskInv
<1>4. Goes(t)' => Goes(t) \/ suspend_count = 0
  BY DEF Goes, PlaceInv
<1> QED BY <1>1, <1>2, <1>3, <1>4, QuietStep

LEMMA QueueExecuteQuiet ==
  ASSUME ExcludesInv, IInv', NEW t \in Threads, QueueExecute(t)
  PROVE  ExcludesInv'
<1> USE DEF QueueExecute, Move, worker, local, count, ExcludesInv, IInv, TypeOK
<1>1. Frame(t) /\ UNCHANGED <<parallels, suspend_count>>
  BY DEF Frame
<1>2. Except(t, {})
  <2>1. (InParallel(t)' <=> InParallel(t)) /\ (pc'[t] = "resume" <=> pc[t] = "resume")
    BY DEF InParallel, TaskInv, InTask, PlaceInv
  <2>2. (Joining(t)' <=> Joining(t)) /\ (t \in holds' <=> t \in holds)
    BY DEF Joining, TaskInv, InTask, PlaceInv
  <2> QED BY <2>1, <2>2, SameReasons
<1>3. PlaceOk(t)'
  BY DEF PlaceOk, PlaceInv, TaskInv
<1>4. Goes(t)' => Goes(t) \/ suspend_count = 0
  BY DEF Goes, PlaceInv
<1> QED BY <1>1, <1>2, <1>3, <1>4, QuietStep

LEMMA TakeExecuteQuiet ==
  ASSUME ExcludesInv, IInv', NEW t \in Threads, TakeExecute(t)
  PROVE  ExcludesInv'
<1> USE DEF TakeExecute, Move, worker, local, count, ExcludesInv, IInv, TypeOK
<1>1. Frame(t) /\ UNCHANGED <<parallels, suspend_count>>
  BY DEF Frame
<1>2. Except(t, {})
  <2>1. (InParallel(t)' <=> InParallel(t)) /\ (pc'[t] = "resume" <=> pc[t] = "resume")
    BY DEF InParallel, TaskInv, InTask, PlaceInv
  <2>2. (Joining(t)' <=> Joining(t)) /\ (t \in holds' <=> t \in holds)
    BY DEF Joining, TaskInv, InTask, PlaceInv
  <2> QED BY <2>1, <2>2, SameReasons
<1>3. PlaceOk(t)'
  BY DEF PlaceOk, PlaceInv, TaskInv
<1>4. Goes(t)' => Goes(t) \/ suspend_count = 0
  BY DEF Goes, PlaceInv
<1> QED BY <1>1, <1>2, <1>3, <1>4, QuietStep

LEMMA CheckQuiet ==
  ASSUME ExcludesInv, IInv', NEW t \in Threads, Check(t)
  PROVE  ExcludesInv'
<1> USE DEF Check, Move, worker, local, count, ExcludesInv, IInv, TypeOK
<1>1. Frame(t) /\ UNCHANGED <<parallels, suspend_count>>
  BY DEF Frame
<1>2. Except(t, {})
  <2>1. (InParallel(t)' <=> InParallel(t)) /\ (pc'[t] = "resume" <=> pc[t] = "resume")
    BY DEF InParallel, TaskInv, InTask, PlaceInv
  <2>2. (Joining(t)' <=> Joining(t)) /\ (t \in holds' <=> t \in holds)
    BY DEF Joining, TaskInv, InTask, PlaceInv
  <2> QED BY <2>1, <2>2, SameReasons
<1>3. PlaceOk(t)'
  BY DEF PlaceOk, PlaceInv, TaskInv
<1>4. Goes(t)' => Goes(t) \/ suspend_count = 0
  BY DEF Goes, PlaceInv
<1> QED BY <1>1, <1>2, <1>3, <1>4, QuietStep

LEMMA PreemptQuiet ==
  ASSUME ExcludesInv, IInv', NEW t \in Threads, Preempt(t)
  PROVE  ExcludesInv'
<1> USE DEF Preempt, Move, worker, local, count, ExcludesInv, IInv, TypeOK
<1>1. Frame(t) /\ UNCHANGED <<parallels, suspend_count>>
  BY DEF Frame
<1>2. Except(t, {})
  <2>1. (InParallel(t)' <=> InParallel(t)) /\ (pc'[t] = "resume" <=> pc[t] = "resume")
    BY DEF InParallel, TaskInv, InTask, PlaceInv
  <2>2. (Joining(t)' <=> Joining(t)) /\ (t \in holds' <=> t \in holds)
    BY DEF Joining, TaskInv, InTask, PlaceInv
  <2> QED BY <2>1, <2>2, SameReasons
<1>3. PlaceOk(t)'
  BY DEF PlaceOk, PlaceInv, TaskInv
<1>4. Goes(t)' => Goes(t) \/ suspend_count = 0
  BY DEF Goes, PlaceInv
<1> QED BY <1>1, <1>2, <1>3, <1>4, QuietStep

LEMMA RecheckQuiet ==
  ASSUME ExcludesInv, IInv', NEW t \in Threads, Recheck(t)
  PROVE  ExcludesInv'
<1> USE DEF Recheck, Move, worker, local, count, ExcludesInv, IInv, TypeOK
<1>1. Frame(t) /\ UNCHANGED <<parallels, suspend_count>>
  BY DEF Frame
<1>2. Except(t, {})
  <2>1. (InParallel(t)' <=> InParallel(t)) /\ (pc'[t] = "resume" <=> pc[t] = "resume")
    BY DEF InParallel, TaskInv, InTask, PlaceInv
  <2>2. (Joining(t)' <=> Joining(t)) /\ (t \in holds' <=> t \in holds)
    BY DEF Joining, TaskInv, InTask, PlaceInv
  <2> QED BY <2>1, <2>2, SameReasons
<1>3. PlaceOk(t)'
  BY DEF PlaceOk, PlaceInv, TaskInv
<1>4. Goes(t)' => Goes(t) \/ suspend_count = 0
  BY DEF Goes, PlaceInv
<1> QED BY <1>1, <1>2, <1>3, <1>4, QuietStep

LEMMA ParkQuiet ==
  ASSUME ExcludesInv, IInv', NEW t \in Threads, Park(t)
  PROVE  ExcludesInv'
<1> USE DEF Park, Move, worker, local, count, ExcludesInv, IInv, TypeOK
<1>1. Frame(t) /\ UNCHANGED <<parallels, suspend_count>>
  BY DEF Frame
<1>2. Except(t, {})
  <2>1. (InParallel(t)' <=> InParallel(t)) /\ (pc'[t] = "resume" <=> pc[t] = "resume")
    BY DEF InParallel, TaskInv, InTask, PlaceInv
  <2>2. (Joining(t)' <=> Joining(t)) /\ (t \in holds' <=> t \in holds)
    BY DEF Joining, TaskInv, InTask, PlaceInv
  <2> QED BY <2>1, <2>2, SameReasons
<1>3. PlaceOk(t)'
  BY DEF PlaceOk, PlaceInv, TaskInv
<1>4. Goes(t)' => Goes(t) \/ suspend_count = 0
  BY DEF Goes, PlaceInv
<1> QED BY <1>1, <1>2, <1>3, <1>4, QuietStep

LEMMA MarkQuiet ==
  ASSUME ExcludesInv, IInv', NEW t \in Threads, Mark(t)
  PROVE  ExcludesInv'
<1> USE DEF Mark, Move, worker, local, count, ExcludesInv, IInv, TypeOK
<1>1. Frame(t) /\ UNCHANGED <<parallels, suspend_count>>
  BY DEF Frame
<1>2. Except(t, {})
  <2>1. (InParallel(t)' <=> InParallel(t)) /\ (pc'[t] = "resume" <=> pc[t] = "resume")
    BY DEF InParallel, TaskInv, InTask, PlaceInv
  <2>2. (Joining(t)' <=> Joining(t)) /\ (t \in holds' <=> t \in holds)
    BY DEF Joining, TaskInv, InTask, PlaceInv
  <2> QED BY <2>1, <2>2, SameReasons
<1>3. PlaceOk(t)'
  BY DEF PlaceOk, PlaceInv, TaskInv
<1>4. Goes(t)' => Goes(t) \/ suspend_count = 0
  BY DEF Goes, PlaceInv
<1> QED BY <1>1, <1>2, <1>3, <1>4, QuietStep

LEMMA SkipBufferQuiet ==
  ASSUME ExcludesInv, IInv', NEW t \in Threads, SkipBuffer(t)
  PROVE  ExcludesInv'
<1> USE DEF SkipBuffer, Move, worker, local, count, ExcludesInv, IInv, TypeOK
<1>1. Frame(t) /\ UNCHANGED <<parallels, suspend_count>>
  BY DEF Frame
<1>2. Except(t, {})
  <2>1. (InParallel(t)' <=> InParallel(t)) /\ (pc'[t] = "resume" <=> pc[t] = "resume")
    BY DEF InParallel, TaskInv, InTask, PlaceInv
  <2>2. (Joining(t)' <=> Joining(t)) /\ (t \in holds' <=> t \in holds)
    BY DEF Joining, TaskInv, InTask, PlaceInv
  <2> QED BY <2>1, <2>2, SameReasons
<1>3. PlaceOk(t)'
  BY DEF PlaceOk, PlaceInv, TaskInv
<1>4. Goes(t)' => Goes(t) \/ suspend_count = 0
  BY DEF Goes, PlaceInv
<1> QED BY <1>1, <1>2, <1>3, <1>4, QuietStep

LEMMA StartTaskQuiet ==
  ASSUME ExcludesInv, IInv', NEW t \in Threads, StartTask(t)
  PROVE  ExcludesInv'
<1> USE DEF StartTask, Move, worker, local, count, ExcludesInv, IInv, TypeOK
<1>1. Frame(t) /\ UNCHANGED <<parallels, suspend_count>>
  BY DEF Frame
<1>2. Except(t, {})
  <2>1. (InParallel(t)' <=> InParallel(t)) /\ (pc'[t] = "resume" <=> pc[t] = "resume")
    BY DEF InParallel, TaskInv, InTask, PlaceInv
  <2>2. (Joining(t)' <=> Joining(t)) /\ (t \in holds' <=> t \in holds)
    BY DEF Joining, TaskInv, InTask, PlaceInv
  <2> QED BY <2>1, <2>2, SameReasons
<1>3. PlaceOk(t)'
  BY DEF PlaceOk, PlaceInv, TaskInv
<1>4. Goes(t)' => Goes(t) \/ suspend_count = 0
  BY DEF Goes, PlaceInv
<1> QED BY <1>1, <1>2, <1>3, <1>4, QuietStep

LEMMA EndTaskQuiet ==
  ASSUME ExcludesInv, IInv', NEW t \in Threads, EndTask(t)
  PROVE  ExcludesInv'
<1> USE DEF EndTask, Move, worker, local, count, ExcludesInv, IInv, TypeOK
<1>1. Frame(t) /\ UNCHANGED <<parallels, suspend_count>>
  BY DEF Frame
<1>2. Except(t, {})
  <2>1. (InParallel(t)' <=> InParallel(t)) /\ (pc'[t] = "resume" <=> pc[t] = "resume")
    BY DEF InParallel, TaskInv, InTask, PlaceInv
  <2>2. (Joining(t)' <=> Joining(t)) /\ (t \in holds' <=> t \in holds)
    BY DEF Joining, TaskInv, InTask, PlaceInv
  <2> QED BY <2>1, <2>2, SameReasons
<1>3. PlaceOk(t)'
  BY DEF PlaceOk, PlaceInv, TaskInv
<1>4. Goes(t)' => Goes(t) \/ suspend_count = 0
  BY DEF Goes, PlaceInv
<1> QED BY <1>1, <1>2, <1>3, <1>4, QuietStep

LEMMA AfterTaskQuiet ==
  ASSUME ExcludesInv, IInv', NEW t \in Threads, AfterTask(t)
  PROVE  ExcludesInv'
<1> USE DEF AfterTask, Move, worker, local, count, ExcludesInv, IInv, TypeOK
<1>1. Frame(t) /\ UNCHANGED <<parallels, suspend_count>>
  BY DEF Frame
<1>2. Except(t, {})
  <2>1. (InParallel(t)' <=> InParallel(t)) /\ (pc'[t] = "resume" <=> pc[t] = "resume")
    BY DEF InParallel, TaskInv, InTask, PlaceInv
  <2>2. (Joining(t)' <=> Joining(t)) /\ (t \in holds' <=> t \in holds)
    BY DEF Joining, TaskInv, InTask, PlaceInv
  <2> QED BY <2>1, <2>2, SameReasons
<1>3. PlaceOk(t)'
  BY DEF PlaceOk, PlaceInv, TaskInv
<1>4. Goes(t)' => Goes(t) \/ suspend_count = 0
  BY DEF Goes, PlaceInv
<1> QED BY <1>1, <1>2, <1>3, <1>4, QuietStep

LEMMA PollInterruptQuiet ==
  ASSUME ExcludesInv, IInv', NEW t \in Threads, PollInterrupt(t)
  PROVE  ExcludesInv'
<1> USE DEF PollInterrupt, Move, worker, local, count, ExcludesInv, IInv, TypeOK
<1>1. Frame(t) /\ UNCHANGED <<parallels, suspend_count>>
  BY DEF Frame
<1>2. Except(t, {})
  <2>1. (InParallel(t)' <=> InParallel(t)) /\ (pc'[t] = "resume" <=> pc[t] = "resume")
    BY DEF InParallel, TaskInv, InTask, PlaceInv
  <2>2. (Joining(t)' <=> Joining(t)) /\ (t \in holds' <=> t \in holds)
    BY DEF Joining, TaskInv, InTask, PlaceInv
  <2> QED BY <2>1, <2>2, SameReasons
<1>3. PlaceOk(t)'
  BY DEF PlaceOk, PlaceInv, TaskInv
<1>4. Goes(t)' => Goes(t) \/ suspend_count = 0
  BY DEF Goes, PlaceInv
<1> QED BY <1>1, <1>2, <1>3, <1>4, QuietStep

LEMMA YieldQuiet ==
  ASSUME ExcludesInv, IInv', NEW t \in Threads, Yield(t)
  PROVE  ExcludesInv'
<1> USE DEF Yield, Back, Move, worker, local, count, ExcludesInv, IInv, TypeOK
<1>1. Frame(t) /\ UNCHANGED <<parallels, suspend_count>>
  BY DEF Frame
<1>2. Except(t, {})
  <2>1. (InParallel(t)' <=> InParallel(t)) /\ (pc'[t] = "resume" <=> pc[t] = "resume")
    BY DEF InParallel, TaskInv, InTask, PlaceInv
  <2>2. (Joining(t)' <=> Joining(t)) /\ (t \in holds' <=> t \in holds)
    BY DEF Joining, TaskInv, InTask, PlaceInv
  <2> QED BY <2>1, <2>2, SameReasons
<1>3. PlaceOk(t)'
  BY DEF PlaceOk, PlaceInv, TaskInv
<1>4. Goes(t)' => Goes(t) \/ suspend_count = 0
  BY DEF Goes, PlaceInv
<1> QED BY <1>1, <1>2, <1>3, <1>4, QuietStep

LEMMA YieldInTaskQuiet ==
  ASSUME ExcludesInv, IInv', NEW t \in Threads, YieldInTask(t)
  PROVE  ExcludesInv'
<1> USE DEF YieldInTask, Move, worker, local, count, ExcludesInv, IInv, TypeOK
<1>1. Frame(t) /\ UNCHANGED <<parallels, suspend_count>>
  BY DEF Frame
<1>2. Except(t, {})
  <2>1. (InParallel(t)' <=> InParallel(t)) /\ (pc'[t] = "resume" <=> pc[t] = "resume")
    BY DEF InParallel, TaskInv, InTask, PlaceInv
  <2>2. (Joining(t)' <=> Joining(t)) /\ (t \in holds' <=> t \in holds)
    BY DEF Joining, TaskInv, InTask, PlaceInv
  <2> QED BY <2>1, <2>2, SameReasons
<1>3. PlaceOk(t)'
  BY DEF PlaceOk, PlaceInv, TaskInv
<1>4. Goes(t)' => Goes(t) \/ suspend_count = 0
  BY DEF Goes, PlaceInv
<1> QED BY <1>1, <1>2, <1>3, <1>4, QuietStep

LEMMA UnmarkQuiet ==
  ASSUME ExcludesInv, IInv', NEW t \in Threads, Unmark(t)
  PROVE  ExcludesInv'
<1> USE DEF Unmark, Move, worker, local, count, ExcludesInv, IInv, TypeOK
<1>1. Frame(t) /\ UNCHANGED <<parallels, suspend_count>>
  BY DEF Frame
<1>2. Except(t, {})
  <2>1. (InParallel(t)' <=> InParallel(t)) /\ (pc'[t] = "resume" <=> pc[t] = "resume")
    BY DEF InParallel, TaskInv, InTask, PlaceInv
  <2>2. (Joining(t)' <=> Joining(t)) /\ (t \in holds' <=> t \in holds)
    BY DEF Joining, TaskInv, InTask, PlaceInv
  <2> QED BY <2>1, <2>2, SameReasons
<1>3. PlaceOk(t)'
  BY DEF PlaceOk, PlaceInv, TaskInv
<1>4. Goes(t)' => Goes(t) \/ suspend_count = 0
  BY DEF Goes, PlaceInv
<1> QED BY <1>1, <1>2, <1>3, <1>4, QuietStep

LEMMA ResumeResetQuiet ==
  ASSUME ExcludesInv, IInv', NEW t \in Threads, ResumeReset(t)
  PROVE  ExcludesInv'
<1> USE DEF ResumeReset, Move, worker, local, count, ExcludesInv, IInv, TypeOK
<1>1. Frame(t) /\ UNCHANGED <<parallels, suspend_count>>
  BY DEF Frame
<1>2. Except(t, {})
  <2>1. (InParallel(t)' <=> InParallel(t)) /\ (pc'[t] = "resume" <=> pc[t] = "resume")
    BY DEF InParallel, TaskInv, InTask, PlaceInv
  <2>2. (Joining(t)' <=> Joining(t)) /\ (t \in holds' <=> t \in holds)
    BY DEF Joining, TaskInv, InTask, PlaceInv
  <2> QED BY <2>1, <2>2, SameReasons
<1>3. PlaceOk(t)'
  BY DEF PlaceOk, PlaceInv, TaskInv
<1>4. Goes(t)' => Goes(t) \/ suspend_count = 0
  BY DEF Goes, PlaceInv
<1> QED BY <1>1, <1>2, <1>3, <1>4, QuietStep

(* The steps that begin a suspension or end one.                             *)
LEMMA PendingStep ==
  ASSUME ExcludesInv, IInv', NEW t \in Threads, Frame(t), SuspendExact', PlaceOk(t)', ~Goes(t)',
         ParallelPending' => ParallelPending
  PROVE  ExcludesInv'
BY PlaceStep, ExclusionStep DEF ExcludesInv

LEMMA PendingIs ==
  ASSUME NEW t \in Threads, Frame(t), InParallel(t)' => InParallel(t) \/ parallels > 0,
         parallels' > 0 => parallels > 0 \/ InParallel(t)
  PROVE  ParallelPending' => ParallelPending
<1>1. \A u \in Threads \ {t} : InParallel(u)' <=> InParallel(u)
  BY OthersSuspend DEF Reasons
<1> QED BY <1>1 DEF ParallelPending

LEMMA SuspendStep ==
  ASSUME ExcludesInv, IInv', NEW t \in Threads, Suspend(t)
  PROVE  ExcludesInv'
<1> USE DEF Suspend, ExcludesInv, IInv, TypeOK
<1>1. Frame(t) /\ parallels' = parallels /\ suspend_count' = suspend_count + 1
  BY DEF Frame, local, worker
<1>2. Except(t, {"hold"}) /\ ~Suspends(t, "hold") /\ Suspends(t, "hold")'
  <2>1. (InParallel(t)' <=> InParallel(t))
    BY DEF InParallel, local
  <2>2. (Joining(t)' <=> Joining(t))
    BY DEF Joining, local
  <2>3. ~(t \in holds) /\ t \in holds' /\ (pc'[t] = "resume" <=> pc[t] = "resume")
    BY DEF local
  <2>4. Except(t, {"hold"})
    BY <2>1, <2>2, <2>3, SameReasons
  <2> HIDE DEF Suspend
  <2> QED BY <2>1, <2>2, <2>3, <2>4, SuspendsIs, SuspendsIsNext
<1>3. SuspendExact'
  BY <1>1, <1>2, CountAdded, SuspensionsFinite DEF SuspendExact, Reasons
<1>4. PlaceOk(t)' /\ ~Goes(t)'
  BY DEF PlaceOk, Goes, local
<1>5. ParallelPending' => ParallelPending
  BY <1>1, PendingIs DEF InParallel, local
<1> QED BY <1>1, <1>3, <1>4, <1>5, PendingStep

LEMMA JoinStep ==
  ASSUME ExcludesInv, IInv', NEW t \in Threads, Join(t)
  PROVE  ExcludesInv'
<1> USE DEF Join, Move, ExcludesInv, IInv, TypeOK
<1>1. Frame(t) /\ parallels' = parallels /\ suspend_count' = suspend_count + 1
  BY DEF Frame, worker
<1>2. Except(t, {"join"}) /\ ~Suspends(t, "join") /\ Suspends(t, "join")'
  <2>1. (InParallel(t)' <=> InParallel(t))
    BY DEF InParallel
  <2>2. ~(Joining(t)) /\ Joining(t)'
    BY DEF Joining
  <2>3. (t \in holds' <=> t \in holds) /\ (pc'[t] = "resume" <=> pc[t] = "resume")
    BY DEF Frame
  <2>4. Except(t, {"join"})
    BY <2>1, <2>2, <2>3, SameReasons
  <2> HIDE DEF Join
  <2> QED BY <2>1, <2>2, <2>3, <2>4, SuspendsIs, SuspendsIsNext
<1>3. SuspendExact'
  BY <1>1, <1>2, CountAdded, SuspensionsFinite DEF SuspendExact, Reasons
<1>4. PlaceOk(t)' /\ ~Goes(t)'
  BY DEF PlaceOk, Goes
<1>5. ParallelPending' => ParallelPending
  BY <1>1, PendingIs DEF InParallel
<1> QED BY <1>1, <1>3, <1>4, <1>5, PendingStep

LEMMA ResumeStep ==
  ASSUME ExcludesInv, IInv', NEW t \in Threads, Resume(t)
  PROVE  ExcludesInv'
<1> USE DEF Resume, Move, ExcludesInv, IInv, TypeOK
<1>1. Frame(t) /\ parallels' = parallels /\ suspend_count' = suspend_count
  BY DEF Frame, worker
<1>2. /\ Except(t, {"hold", "resume"}) /\ Suspends(t, "hold") /\ ~Suspends(t, "hold")'
      /\ ~Suspends(t, "resume") /\ Suspends(t, "resume")'
  <2>1. (InParallel(t)' <=> InParallel(t))
    BY DEF InParallel
  <2>2. (Joining(t)' <=> Joining(t))
    BY DEF Joining
  <2>3. t \in holds /\ ~(t \in holds') /\ ~(pc[t] = "resume") /\ pc'[t] = "resume"
    BY DEF Frame
  <2> HIDE DEF Resume, Move, ExcludesInv, IInv, TypeOK
  <2>4. Except(t, {"hold", "resume"})
    <3>1. "hold" \in {"hold", "resume"} /\ "resume" \in {"hold", "resume"}
      OBVIOUS
    <3> QED BY <2>1, <2>2, <2>3, <3>1, SameReasons
  <2> QED BY <2>1, <2>2, <2>3, <2>4, SuspendsIs, SuspendsIsNext
<1>3. SuspendExact'
  BY <1>1, <1>2, CountReplaced, SuspensionsFinite DEF SuspendExact, Reasons
<1>4. PlaceOk(t)' /\ ~Goes(t)'
  BY DEF PlaceOk, Goes
<1>5. ParallelPending' => ParallelPending
  BY <1>1, PendingIs DEF InParallel
<1> QED BY <1>1, <1>3, <1>4, <1>5, PendingStep

LEMMA ResumeCountStep ==
  ASSUME ExcludesInv, IInv', NEW t \in Threads, ResumeCount(t)
  PROVE  ExcludesInv'
<1> USE DEF ResumeCount, Move, ExcludesInv, IInv, TypeOK
<1>1. /\ Frame(t) /\ parallels' = parallels /\ suspend_count' = suspend_count - 1
      /\ pc[t] = "resume" /\ ret[t] = "idle" /\ pc'[t] \in {"reset", "idle"} /\ ret' = ret
      /\ holds' = holds
  BY DEF Frame, worker, local, count, TaskInv
<1>2. Except(t, {"resume"}) /\ Suspends(t, "resume") /\ ~Suspends(t, "resume")'
  <2>1. (InParallel(t)' <=> InParallel(t))
    BY <1>1 DEF InParallel
  <2>2. (Joining(t)' <=> Joining(t))
    BY <1>1 DEF Joining
  <2>3. (t \in holds' <=> t \in holds) /\ pc[t] = "resume" /\ ~(pc'[t] = "resume")
    BY <1>1 DEF Frame
  <2>4. Except(t, {"resume"})
    BY <2>1, <2>2, <2>3, SameReasons
  <2> HIDE DEF ResumeCount
  <2> QED BY <2>1, <2>2, <2>3, <2>4, SuspendsIs, SuspendsIsNext
<1>3. SuspendExact'
  BY <1>1, <1>2, CountRemoved, SuspensionsFinite DEF SuspendExact, Reasons
<1>4. PlaceOk(t)' /\ ~Goes(t)'
  BY <1>1 DEF PlaceOk, Goes
<1>5. ParallelPending' => ParallelPending
  BY <1>1, PendingIs DEF InParallel
<1> QED BY <1>1, <1>3, <1>4, <1>5, PendingStep

LEMMA ParallelQueueStep ==
  ASSUME ExcludesInv, IInv', NEW t \in Threads, ParallelQueue(t)
  PROVE  ExcludesInv'
<1> USE DEF ParallelQueue, Move, ExcludesInv, IInv, TypeOK
<1>1. Frame(t) /\ parallels' = parallels + 1 /\ suspend_count' = suspend_count
  BY DEF Frame, local, count
<1>2. Except(t, {"parallel"}) /\ Suspends(t, "parallel") /\ ~Suspends(t, "parallel")'
  <2>1. InParallel(t) /\ ~(InParallel(t)')
    BY DEF InParallel, local, count
  <2>2. (Joining(t)' <=> Joining(t))
    BY DEF Joining, local, count
  <2>3. (t \in holds' <=> t \in holds) /\ (pc'[t] = "resume" <=> pc[t] = "resume")
    BY DEF local, count
  <2>4. Except(t, {"parallel"})
    BY <2>1, <2>2, <2>3, SameReasons
  <2> HIDE DEF ParallelQueue
  <2> QED BY <2>1, <2>2, <2>3, <2>4, SuspendsIs, SuspendsIsNext
<1>3. SuspendExact'
  BY <1>1, <1>2, CountRemoved, SuspensionsFinite DEF SuspendExact, Reasons
<1>4. PlaceOk(t)' /\ ~Goes(t)'
  BY DEF PlaceOk, Goes
<1>5. ParallelPending' => ParallelPending
  BY <1>1, PendingIs DEF InParallel
<1> QED BY <1>1, <1>3, <1>4, <1>5, PendingStep

LEMMA TakeParallelStep ==
  ASSUME ExcludesInv, IInv', NEW t \in Threads, TakeParallel(t)
  PROVE  ExcludesInv'
<1> USE DEF TakeParallel, Move, ExcludesInv, IInv, TypeOK
<1>1. Frame(t) /\ parallels' = parallels - 1 /\ suspend_count' = suspend_count
  BY DEF Frame, local, count
<1>2. Except(t, {"parallel"}) /\ ~Suspends(t, "parallel") /\ Suspends(t, "parallel")'
  <2>1. ~(InParallel(t)) /\ InParallel(t)'
    BY DEF InParallel, local, count
  <2>2. (Joining(t)' <=> Joining(t))
    BY DEF Joining, local, count
  <2>3. (t \in holds' <=> t \in holds) /\ (pc'[t] = "resume" <=> pc[t] = "resume")
    BY DEF local, count
  <2>4. Except(t, {"parallel"})
    BY <2>1, <2>2, <2>3, SameReasons
  <2> HIDE DEF TakeParallel
  <2> QED BY <2>1, <2>2, <2>3, <2>4, SuspendsIs, SuspendsIsNext
<1>3. SuspendExact'
  BY <1>1, <1>2, CountAdded, SuspensionsFinite DEF SuspendExact, Reasons
<1>4. PlaceOk(t)' /\ ~Goes(t)'
  BY DEF PlaceOk, Goes
<1>5. ParallelPending' => ParallelPending
  BY <1>1, PendingIs DEF InParallel
<1> QED BY <1>1, <1>3, <1>4, <1>5, PendingStep

LEMMA EndParallelStep ==
  ASSUME ExcludesInv, IInv', NEW t \in Threads, EndParallel(t)
  PROVE  ExcludesInv'
<1> USE DEF EndParallel, Move, ExcludesInv, IInv, TypeOK
<1>1. Frame(t) /\ parallels' = parallels /\ suspend_count' = suspend_count
  BY DEF Frame, worker, count
<1>2. /\ Except(t, {"parallel", "resume"}) /\ Suspends(t, "parallel") /\ ~Suspends(t, "parallel")'
      /\ ~Suspends(t, "resume") /\ Suspends(t, "resume")'
  <2>1. InParallel(t) /\ ~(InParallel(t)')
    BY DEF InParallel, count
  <2>2. (Joining(t)' <=> Joining(t))
    BY DEF Joining, count
  <2>3. (t \in holds' <=> t \in holds) /\ ~(pc[t] = "resume") /\ pc'[t] = "resume"
    BY DEF count
  <2> HIDE DEF EndParallel, Move, ExcludesInv, IInv, TypeOK
  <2>4. Except(t, {"parallel", "resume"})
    <3>1. "parallel" \in {"parallel", "resume"} /\ "resume" \in {"parallel", "resume"}
      OBVIOUS
    <3> QED BY <2>1, <2>2, <2>3, <3>1, SameReasons
  <2> QED BY <2>1, <2>2, <2>3, <2>4, SuspendsIs, SuspendsIsNext
<1>3. SuspendExact'
  BY <1>1, <1>2, CountReplaced, SuspensionsFinite DEF SuspendExact, Reasons
<1>4. PlaceOk(t)' /\ ~Goes(t)'
  BY DEF PlaceOk, Goes
<1>5. ParallelPending' => ParallelPending
  BY <1>1, PendingIs DEF InParallel
<1> QED BY <1>1, <1>3, <1>4, <1>5, PendingStep

LEMMA JoinEmptyStep ==
  ASSUME ExcludesInv, IInv', NEW t \in Threads, JoinEmpty(t)
  PROVE  ExcludesInv'
<1> USE DEF JoinEmpty, Move, ExcludesInv, IInv, TypeOK
<1>1. Frame(t) /\ parallels' = parallels /\ suspend_count' = suspend_count
  BY DEF Frame, worker, count
<1>2. /\ Except(t, {"join", "resume"}) /\ Suspends(t, "join") /\ ~Suspends(t, "join")'
      /\ ~Suspends(t, "resume") /\ Suspends(t, "resume")'
  <2>1. (InParallel(t)' <=> InParallel(t))
    BY DEF InParallel, count, PlaceInv
  <2>2. Joining(t) /\ ~(Joining(t)')
    BY DEF Joining, count, PlaceInv
  <2>3. (t \in holds' <=> t \in holds) /\ ~(pc[t] = "resume") /\ pc'[t] = "resume"
    BY DEF count, PlaceInv
  <2> HIDE DEF JoinEmpty, Move, ExcludesInv, IInv, TypeOK
  <2>4. Except(t, {"join", "resume"})
    <3>1. "join" \in {"join", "resume"} /\ "resume" \in {"join", "resume"}
      OBVIOUS
    <3> QED BY <2>1, <2>2, <2>3, <3>1, SameReasons
  <2> QED BY <2>1, <2>2, <2>3, <2>4, SuspendsIs, SuspendsIsNext
<1>3. SuspendExact'
  BY <1>1, <1>2, CountReplaced, SuspensionsFinite DEF SuspendExact, Reasons
<1>4. PlaceOk(t)' /\ ~Goes(t)'
  BY DEF PlaceOk, Goes
<1>5. ParallelPending' => ParallelPending
  BY <1>1, PendingIs DEF InParallel
<1> QED BY <1>1, <1>3, <1>4, <1>5, PendingStep

(* A parallel task is announced from a task of the warp: no other thread can   *)
(* be about to run one.                                                        *)
LEMMA ParallelSuspendStep ==
  ASSUME ExcludesInv, IInv', NEW t \in Threads, ParallelSuspend(t)
  PROVE  ExcludesInv'
<1> USE DEF ParallelSuspend, Move, ExcludesInv, IInv, TypeOK
<1>1. Frame(t) /\ parallels' = parallels /\ suspend_count' = suspend_count + 1
  BY DEF Frame, worker, local
<1>2. Except(t, {"parallel"}) /\ ~Suspends(t, "parallel") /\ Suspends(t, "parallel")'
  <2>1. ~(InParallel(t)) /\ InParallel(t)'
    BY DEF InParallel, local
  <2>2. (Joining(t)' <=> Joining(t))
    BY DEF Joining, local
  <2>3. (t \in holds' <=> t \in holds) /\ (pc'[t] = "resume" <=> pc[t] = "resume")
    BY DEF local
  <2>4. Except(t, {"parallel"})
    BY <2>1, <2>2, <2>3, SameReasons
  <2> HIDE DEF ParallelSuspend
  <2> QED BY <2>1, <2>2, <2>3, <2>4, SuspendsIs, SuspendsIsNext
<1>3. SuspendExact'
  BY <1>1, <1>2, CountAdded, SuspensionsFinite DEF SuspendExact, Reasons
<1>4. PlaceOk(t)' /\ ~Goes(t)'
  BY DEF PlaceOk, Goes, local
<1>5. ExclusionInv'
  <2> SUFFICES ASSUME NEW u \in Threads \ {t}, Goes(u)' PROVE FALSE
    BY <1>4 DEF ExclusionInv, Goes
  <2>1. pc[u] \in {"mark", "scan", "poll"}
    BY <1>1 DEF Goes, Frame
  <2> QED BY <2>1 DEF OwnerInv
<1> QED BY <1>1, <1>3, <1>4, <1>5, PlaceStep

LEMMA InitExcludes == Init => ExcludesInv
<1> SUFFICES ASSUME Init PROVE ExcludesInv
  OBVIOUS
<1>1. /\ suspend_count = 0 /\ parallels = 0 /\ holds = {}
      /\ \A t \in Threads : pc[t] = "idle" /\ ret[t] = "idle"
  BY DEF Init
<1>2. \A t \in Threads, r \in Reasons : ~Suspends(t, r)
  BY <1>1, SuspendsIs DEF Reasons, InParallel, Joining
<1>3. Suspensions = {}
  BY <1>2 DEF Suspensions, Reasons
<1>4. SuspendExact
  BY <1>1, <1>3, FS_EmptySet DEF SuspendExact
<1>5. PlaceInv /\ ExclusionInv
  BY <1>1 DEF PlaceInv, ExclusionInv
<1> QED BY <1>4, <1>5, InitIInv DEF ExcludesInv

LEMMA NextExcludes == ExcludesInv /\ [Next]_vars => ExcludesInv'
<1> SUFFICES ASSUME ExcludesInv, [Next]_vars PROVE ExcludesInv'
  OBVIOUS
<1>1. IInv'
  BY NextIInv DEF ExcludesInv
<1>2. ASSUME NEW t \in Threads, Execute(t) PROVE ExcludesInv'
  BY <1>1, <1>2, TakeExecuteQuiet, CheckQuiet, PreemptQuiet, RecheckQuiet, ParkQuiet, MarkQuiet,
     SkipBufferQuiet, StartTaskQuiet, EndTaskQuiet, AfterTaskQuiet, PollInterruptQuiet, YieldQuiet,
     UnmarkQuiet, ChainQuiet, FlushQuiet, QueueExecuteQuiet DEF Execute
<1>3. ASSUME NEW t \in Threads, Release(t) PROVE ExcludesInv'
  BY <1>1, <1>3, ParallelQueueStep, TakeParallelStep, EndParallelStep, JoinEmptyStep, ResumeStep,
     ResumeCountStep, ResumeResetQuiet DEF Release
<1>4. ASSUME NEW t \in Threads, Request(t) PROVE ExcludesInv'
  BY <1>1, <1>4, PostQuiet, PostFullQuiet, CallInPlaceQuiet, YieldInTaskQuiet, ParallelSuspendStep,
     SuspendStep, JoinStep DEF Request
<1>5. ASSUME NEW t \in Threads, Drain(t) PROVE ExcludesInv'
  BY <1>1, <1>5, DrainQuiet
<1>6. CASE Interrupt \/ UNCHANGED vars
  <2>1. UNCHANGED <<pc, ret, force, holds, parallels, suspend_count>>
    BY <1>6 DEF Interrupt, vars, local, count, worker
  <2>2. PlaceInv' /\ ExclusionInv'
    BY <2>1 DEF ExcludesInv, PlaceInv, ExclusionInv, ParallelPending, InParallel
  <2>3. Suspensions' = Suspensions
    BY <2>1 DEF Suspensions, Suspends, InParallel, Joining
  <2>4. SuspendExact'
    BY <2>1, <2>3 DEF ExcludesInv, SuspendExact
  <2> QED BY <1>1, <2>2, <2>4 DEF ExcludesInv
<1> QED BY <1>2, <1>3, <1>4, <1>5, <1>6 DEF Next

(* suspend_count says how many suspensions are yet to be resumed: it never       *)
(* goes below zero, and resume() undoes each suspend() once, be it called by a   *)
(* thread, by join() or by a parallel task.                                      *)
THEOREM SuspensionsCounted == Spec => []SuspendExact
<1>1. ExcludesInv => SuspendExact
  BY DEF ExcludesInv
<1> QED BY InitExcludes, NextExcludes, <1>1, PTL DEF Spec

(* queue_routine_parallel blocks the warp until the parallel task has ended.     *)
THEOREM ParallelTasksExclude == Spec => ParallelExcludes
<1> DEFINE Starts == \A t \in Threads : task[t] = NoTask /\ task'[t] # NoTask /\ ~force[t] => ~ParallelPending
<1>1. ASSUME ExcludesInv, [Next]_vars PROVE [Starts]_vars
  <2> SUFFICES ASSUME Next, NEW t \in Threads, task[t] = NoTask, task'[t] # NoTask, ~force[t]
               PROVE  ~ParallelPending
    BY <1>1
  <2>1. TypeOK
    BY <1>1 DEF ExcludesInv, IInv
  <2>2. StartTask(t)
    <3>1. task'[t] # task[t]
      OBVIOUS
    <3>2. ASSUME NEW u \in Threads, EndTask(u) PROVE task'[t] \in {task[t], NoTask}
      BY <2>1, <3>2 DEF EndTask, TypeOK
    <3>3. ASSUME NEW u \in Threads, u # t, StartTask(u) PROVE task'[t] = task[t]
      BY <2>1, <3>3 DEF StartTask, TypeOK
    <3>4. PICK u \in Threads : EndTask(u) \/ StartTask(u)
      BY <3>1 DEF Next, Execute, Release, Request, Interrupt, Drain, Post, PostFull, Chain, CallInPlace, Flush,
         QueueExecute, TakeExecute, Check, Preempt, Recheck, Park, Mark, SkipBuffer, AfterTask,
         PollInterrupt, Yield, YieldInTask, Unmark, Suspend, Resume, ResumeCount, ResumeReset,
         ParallelSuspend, ParallelQueue, TakeParallel, EndParallel, Join, JoinEmpty, local
    <3> QED BY <3>1, <3>2, <3>3, <3>4
  <2>3. pc[t] = "scan"
    BY <2>2 DEF StartTask, Move
  <2> QED BY <1>1, <2>3 DEF ExcludesInv, ExclusionInv
<1>2. ParallelExcludes <=> [][Starts]_vars
  BY DEF ParallelExcludes
<1> QED BY <1>1, <1>2, InitExcludes, NextExcludes, PTL DEF Spec

=============================================================================
