--------------------------------- MODULE Warp ---------------------------------
(***************************************************************************)
(* One grid_warp_t on the threads of its grid_async_worker_t: a container  *)
(* of tasks of which no two may run at the same time.                      *)
(*                                                                         *)
(* A task is pushed to the buffer of the pushing thread.  flush() asks the *)
(* worker to run execute() on the warp unless such a request is pending or *)
(* an executing thread is bound to notice.  execute() takes the warp by a  *)
(* compare-exchange of thread_warp, runs what it finds in the buffers, and *)
(* gives the warp back in yield(), which flushes again if somebody pushed  *)
(* meanwhile.  suspend() keeps new tasks of the warp from running; the     *)
(* last resume() flushes.  join() suspends, takes the warp and runs what   *)
(* is left.                                                                *)
(*                                                                         *)
(* A buffer is a list of nodes (module QueueList), here the sequence of    *)
(* its tasks: how many a node takes is left open, any node with a task in  *)
(* it may be found full.  One thing shows through.  If the tasks of a full *)
(* node are all taken after the pushing thread found it full and before it *)
(* has chained another, the empty node stays in front, and empty(), which  *)
(* looks at that node alone, is true for good: the buffer is "drained".    *)
(*                                                                         *)
(* The worker is a pool from which an idle thread takes an execute() or a  *)
(* parallel task in any order.  There is one step for each access to a     *)
(* shared atomic.  All of them are sequentially consistent here but one:   *)
(* the relaxed store of queue_state_executing may become visible after the *)
(* loads that follow it, as on the x86 of the program.                     *)
(***************************************************************************)
EXTENDS Integers, Sequences, FiniteSets

CONSTANTS
  NThreads,      \* threads of the worker; thread t pushes to buffer t
  MaxTasks,      \* bound: tasks pushed to the warp
  MaxCalls       \* bounds: calls of queue_routine_parallel ("parallel"), of suspend()
                 \* and of join() from outside the warp ("suspend"), of interrupt(),
                 \* and stores that are delayed ("delay"); "all" bounds their sum

ASSUME WarpAssumption == NThreads \in Nat \ {0} /\ MaxTasks \in Nat
ASSUME CallsAssumption ==
  MaxCalls \in [{"parallel", "suspend", "interrupt", "delay", "all"} -> Nat]

Threads  == 1 .. NThreads
Tasks    == 1 .. MaxTasks
NoTask   == 0
NoThread == 0
Calls    == {"parallel", "suspend", "interrupt", "delay"}   \* what is bounded

VARIABLES
  thread_warp,   \* the thread that has the warp
  current_warp,  \* thread-local: does the thread take itself to be on the warp
  suspend_count,
  interrupting,
  queueing,      \* "idle", "pending" or "executing"
  delayed,       \* threads whose store of "executing" is still in the store buffer
  buffers,       \* storage.queue_buffers, of each the tasks
  drained,       \* the buffers of which the first node is empty and not the last
  executes,      \* execute_t tasks waiting in the worker
  parallels,     \* suspend_t tasks waiting in the worker
  pc,            \* where each thread is
  ret,           \* where it goes on after flush() or yield()
  scan,          \* the buffer execute_internal is at
  force,         \* TRUE: execute_internal runs for join()
  task,          \* the warp task the thread is running
  pushed,        \* tasks pushed so far; tasks are numbered in that order
  calls,         \* how often each of Calls happened
  holds,         \* threads between suspend() and resume()
  ran,           \* tasks that finished
  forgotten      \* history: by what a request to run the tasks pushed may have been lost
worker == <<executes, parallels>>
local  == <<ret, scan, force, task>>
count  == <<pushed, calls, holds, ran, forgotten>>
storage == <<buffers, drained>>
vars   == <<thread_warp, current_warp, suspend_count, interrupting, queueing, delayed,
            storage, worker, pc, local, count>>

Init ==
  /\ thread_warp = NoThread
  /\ current_warp = [t \in Threads |-> FALSE]
  /\ suspend_count = 0 /\ interrupting = FALSE /\ queueing = "idle" /\ delayed = {}
  /\ buffers = [t \in Threads |-> <<>>] /\ drained = {}
  /\ executes = 0 /\ parallels = 0
  /\ pc = [t \in Threads |-> "idle"] /\ ret = [t \in Threads |-> "idle"]
  /\ scan = [t \in Threads |-> 1] /\ force = [t \in Threads |-> FALSE]
  /\ task = [t \in Threads |-> NoTask]
  /\ pushed = 0 /\ calls = [c \in Calls |-> 0]
  /\ holds = {} /\ ran = {} /\ forgotten = {}

Move(t, from, to) == pc[t] = from /\ pc' = [pc EXCEPT ![t] = to]
\* A locked instruction first drains the thread's store buffer.
Locked(t) == t \notin delayed
\* One more of the bounded calls.
Allowed(c) ==
  /\ calls[c] < MaxCalls[c]
  /\ calls["parallel"] + calls["suspend"] + calls["interrupt"] + calls["delay"] < MaxCalls["all"]
Spend(c) == Allowed(c) /\ calls' = [calls EXCEPT ![c] = @ + 1]

Drain(t) ==        \* the delayed store of queue_state_executing becomes visible
  /\ t \in delayed
  /\ delayed' = delayed \ {t} /\ queueing' = "executing"
  /\ UNCHANGED <<thread_warp, current_warp, suspend_count, interrupting, storage, worker, pc,
                 local, count>>

-----------------------------------------------------------------------------
(* push and flush *)

\* The bound on the tasks pushed and being pushed.
Room == pushed + Cardinality({t \in Threads : pc[t] = "chain"}) < MaxTasks

\* queue_routine_post from another task of the worker (among them external_t),
\* from a parallel task or from a task of this warp: push, then flush.
Post(t) ==
  /\ pc[t] \in {"idle", "parallel", "task"} /\ Room /\ Locked(t)
  /\ buffers' = [buffers EXCEPT ![t] = Append(@, pushed + 1)]
  /\ pushed' = pushed + 1
  /\ pc' = [pc EXCEPT ![t] = "flush"] /\ ret' = [ret EXCEPT ![t] = pc[t]]
  /\ UNCHANGED <<thread_warp, current_warp, suspend_count, interrupting, queueing, delayed,
                 drained, worker, scan, force, task, calls, holds, ran, forgotten>>

\* The same when preserve() finds the last node full: it chains another and pushes to that.
\* Tasks may be taken in between, and if all are, the buffer is drained.
PostFull(t) ==
  /\ pc[t] \in {"idle", "parallel", "task"} /\ Room /\ Locked(t) /\ buffers[t] # <<>>
  /\ pc' = [pc EXCEPT ![t] = "chain"] /\ ret' = [ret EXCEPT ![t] = pc[t]]
  /\ UNCHANGED <<thread_warp, current_warp, suspend_count, interrupting, queueing, delayed,
                 storage, worker, scan, force, task, count>>

Chain(t) ==
  /\ Move(t, "chain", "flush") /\ pushed < MaxTasks
  /\ buffers' = [buffers EXCEPT ![t] = Append(@, pushed + 1)]
  /\ pushed' = pushed + 1
  /\ IF buffers[t] = <<>> THEN drained' = drained \cup {t} /\ forgotten' = forgotten \cup {"node"}
                          ELSE UNCHANGED <<drained, forgotten>>
  /\ UNCHANGED <<thread_warp, current_warp, suspend_count, interrupting, queueing, delayed,
                 worker, local, calls, holds, ran>>

\* queue_routine on the warp, not suspended: the function is called in place.
CallInPlace(t) ==
  /\ pc[t] = "task" /\ Room
  /\ current_warp[t] /\ thread_warp = t /\ suspend_count = 0
  /\ pushed' = pushed + 1 /\ ran' = ran \cup {pushed + 1}
  /\ UNCHANGED <<thread_warp, current_warp, suspend_count, interrupting, queueing, delayed,
                 storage, worker, pc, local, calls, holds, forgotten>>

Flush(t) ==        \* queueing.exchange(queue_state_pending)
  /\ Locked(t)
  /\ Move(t, "flush", IF queueing = "idle" THEN "queue" ELSE ret[t])
  /\ queueing' = "pending"
  /\ forgotten' = IF delayed # {} THEN forgotten \cup {"delay"} ELSE forgotten
  /\ UNCHANGED <<thread_warp, current_warp, suspend_count, interrupting, delayed, storage,
                 worker, local, pushed, calls, holds, ran>>

QueueExecute(t) == \* async_worker.queue(execute_t(*this))
  /\ Move(t, "queue", ret[t])
  /\ executes' = executes + 1
  /\ UNCHANGED <<thread_warp, current_warp, suspend_count, interrupting, queueing, delayed,
                 storage, parallels, local, count>>

-----------------------------------------------------------------------------
(* execute *)

\* Definitions with the word Wrong are mutations: the mistake in the definition they
\* precede that the property named with them would reveal.

TakeExecute(t) ==  \* the worker runs an execute_t: execute()
  /\ executes > 0 /\ Move(t, "idle", "check")
  /\ executes' = executes - 1
  /\ force' = [force EXCEPT ![t] = FALSE]
  /\ UNCHANGED <<thread_warp, current_warp, suspend_count, interrupting, queueing, delayed,
                 storage, parallels, ret, scan, task, count>>

Check(t) ==        \* suspend_count before the preemption
  /\ Move(t, "check", IF suspend_count = 0 THEN "preempt" ELSE "idle")
  /\ UNCHANGED <<thread_warp, current_warp, suspend_count, interrupting, queueing, delayed,
                 storage, worker, local, count>>

\* MutualExclusion: a plain store for the compare-exchange.
WrongPreempt(t) ==
  /\ Move(t, "preempt", IF force[t] THEN "mark" ELSE "recheck")
  /\ thread_warp' = t
  /\ current_warp' = [current_warp EXCEPT ![t] = TRUE]
  /\ UNCHANGED <<suspend_count, interrupting, queueing, delayed, storage, worker, local, count>>

\* preempt_guard_t.  Only join() tries again when another thread has the warp.
Preempt(t) ==
  /\ IF thread_warp = NoThread
     THEN /\ Move(t, "preempt", IF force[t] THEN "mark" ELSE "recheck")
          /\ thread_warp' = t
          /\ current_warp' = [current_warp EXCEPT ![t] = TRUE]
     ELSE /\ ~force[t] /\ Move(t, "preempt", "idle")
          /\ UNCHANGED <<thread_warp, current_warp>>
  /\ UNCHANGED <<suspend_count, interrupting, queueing, delayed, storage, worker, local, count>>

\* ParallelExcludes: suspend_count is read before the preemption only.
WrongRecheck(t) ==
  /\ Move(t, "recheck", "mark")
  /\ UNCHANGED <<thread_warp, current_warp, suspend_count, interrupting, queueing, delayed,
                 storage, worker, local, count>>

Recheck(t) ==      \* suspend_count again, the warp now taken
  /\ Move(t, "recheck", IF suspend_count = 0 THEN "mark" ELSE "park")
  /\ UNCHANGED <<thread_warp, current_warp, suspend_count, interrupting, queueing, delayed,
                 storage, worker, local, count>>

Park(t) ==         \* suspended meanwhile: leave the request pending
  /\ Move(t, "park", "yield")
  /\ queueing' = "pending"
  /\ UNCHANGED <<thread_warp, current_warp, suspend_count, interrupting, delayed, storage,
                 worker, local, count>>

Mark(t) ==         \* queueing.store(queue_state_executing), at once or delayed
  /\ Move(t, "mark", "scan")
  /\ scan' = [scan EXCEPT ![t] = 1]
  /\ \/ queueing' = "executing" /\ UNCHANGED <<delayed, calls>>
     \/ Spend("delay") /\ delayed' = delayed \cup {t} /\ UNCHANGED queueing
  /\ UNCHANGED <<thread_warp, current_warp, suspend_count, interrupting, storage, worker,
                 ret, force, task, pushed, holds, ran, forgotten>>

\* empty() of buffer b looks at its first node.
Empty(b) == buffers[b] = <<>> \/ b \in drained

SkipBuffer(t) ==   \* this buffer is empty: the next one, or out of the loop
  /\ scan[t] <= NThreads => Empty(scan[t])
  /\ IF scan[t] <= NThreads
     THEN pc[t] = "scan" /\ scan' = [scan EXCEPT ![t] = @ + 1] /\ UNCHANGED pc
     ELSE Move(t, "scan", "yield") /\ UNCHANGED scan
  /\ UNCHANGED <<thread_warp, current_warp, suspend_count, interrupting, queueing, delayed,
                 storage, worker, ret, force, task, count>>

StartTask(t) ==    \* pop a task and call it
  /\ scan[t] <= NThreads /\ ~Empty(scan[t])
  /\ Move(t, "scan", "task")
  /\ task' = [task EXCEPT ![t] = Head(buffers[scan[t]])]
  /\ buffers' = [buffers EXCEPT ![scan[t]] = Tail(@)]
  /\ UNCHANGED <<thread_warp, current_warp, suspend_count, interrupting, queueing, delayed,
                 drained, worker, ret, scan, force, count>>

EndTask(t) ==
  /\ Move(t, "task", "after")
  /\ task' = [task EXCEPT ![t] = NoTask] /\ ran' = ran \cup {task[t]}
  /\ UNCHANGED <<thread_warp, current_warp, suspend_count, interrupting, queueing, delayed,
                 storage, worker, ret, scan, force, pushed, calls, holds, forgotten>>

\* StrandSpec: the loop goes on after the task yielded the warp.
WrongAfterTask(t) ==
  /\ Move(t, "after", IF ~force[t] /\ suspend_count # 0
                      THEN "yield" ELSE IF force[t] THEN "scan" ELSE "poll")
  /\ UNCHANGED <<thread_warp, current_warp, suspend_count, interrupting, queueing, delayed,
                 storage, worker, local, count>>

AfterTask(t) ==    \* stop when suspended or when the task yielded the warp
  /\ Move(t, "after", IF (~force[t] /\ suspend_count # 0) \/ thread_warp # t \/ ~current_warp[t]
                      THEN "yield" ELSE IF force[t] THEN "scan" ELSE "poll")
  /\ UNCHANGED <<thread_warp, current_warp, suspend_count, interrupting, queueing, delayed,
                 storage, worker, local, count>>

PollInterrupt(t) == \* an interrupt ends the loop over this buffer only
  /\ Move(t, "poll", "scan")
  /\ interrupting' = FALSE
  /\ scan' = [scan EXCEPT ![t] = IF interrupting THEN @ + 1 ELSE @]
  /\ forgotten' = IF interrupting /\ ~Empty(scan[t]) THEN forgotten \cup {"interrupt"} ELSE forgotten
  /\ UNCHANGED <<thread_warp, current_warp, suspend_count, queueing, delayed, storage, worker,
                 ret, force, task, pushed, calls, holds, ran>>

-----------------------------------------------------------------------------
(* yield, at the end of execute(), in ~preempt_guard_t and in a task *)

Back(t) == IF force[t] THEN "empty" ELSE "idle"

\* yield() fails when the task has yielded already; execute() then flushes.
Yield(t) ==
  /\ Locked(t)
  /\ IF thread_warp = t
     THEN /\ Move(t, "yield", "unmark")
          /\ thread_warp' = NoThread
          /\ current_warp' = [current_warp EXCEPT ![t] = FALSE]
     ELSE /\ Move(t, "yield", IF force[t] THEN "empty" ELSE "flush")
          /\ UNCHANGED <<thread_warp, current_warp>>
  /\ ret' = [ret EXCEPT ![t] = Back(t)]
  /\ UNCHANGED <<suspend_count, interrupting, queueing, delayed, storage, worker, scan, force,
                 task, count>>

YieldInTask(t) ==
  /\ thread_warp = t /\ Locked(t) /\ Move(t, "task", "unmark")
  /\ thread_warp' = NoThread
  /\ current_warp' = [current_warp EXCEPT ![t] = FALSE]
  /\ ret' = [ret EXCEPT ![t] = "task"]
  /\ UNCHANGED <<suspend_count, interrupting, queueing, delayed, storage, worker, scan, force,
                 task, count>>

Unmark(t) ==       \* queueing.exchange(queue_state_idle); flush again if it was pending
  /\ Move(t, "unmark", IF queueing = "pending" THEN "flush" ELSE ret[t])
  /\ queueing' = "idle"
  /\ UNCHANGED <<thread_warp, current_warp, suspend_count, interrupting, delayed, storage,
                 worker, local, count>>

-----------------------------------------------------------------------------
(* suspend, resume, queue_routine_parallel, interrupt, join *)

Suspend(t) ==      \* by a task that does not run on this warp
  /\ pc[t] = "idle" /\ t \notin holds /\ Spend("suspend")
  /\ suspend_count' = suspend_count + 1
  /\ holds' = holds \cup {t}
  /\ UNCHANGED <<thread_warp, current_warp, interrupting, queueing, delayed, storage, worker,
                 pc, local, pushed, ran, forgotten>>

Resume(t) ==
  /\ t \in holds /\ Move(t, "idle", "resume")
  /\ holds' = holds \ {t} /\ ret' = [ret EXCEPT ![t] = "idle"]
  /\ UNCHANGED <<thread_warp, current_warp, suspend_count, interrupting, queueing, delayed,
                 storage, worker, scan, force, task, pushed, calls, ran, forgotten>>

ResumeCount(t) ==  \* suspend_count.fetch_sub(1)
  /\ Move(t, "resume", IF suspend_count = 1 THEN "reset" ELSE ret[t])
  /\ suspend_count' = suspend_count - 1
  /\ UNCHANGED <<thread_warp, current_warp, interrupting, queueing, delayed, storage, worker,
                 local, count>>

\* EventuallyRan: the state is left as Park() set it.
WrongResumeReset(t) ==
  /\ Move(t, "reset", "flush")
  /\ UNCHANGED <<thread_warp, current_warp, suspend_count, interrupting, queueing, delayed,
                 storage, worker, local, count>>

ResumeReset(t) ==  \* the last one: queueing.store(queue_state_idle), then flush
  /\ Move(t, "reset", "flush")
  /\ queueing' = "idle"
  /\ UNCHANGED <<thread_warp, current_warp, suspend_count, interrupting, delayed, storage,
                 worker, local, count>>

ParallelSuspend(t) == \* queue_routine_parallel, on the warp: suspend it first
  /\ current_warp[t] /\ Spend("parallel") /\ Locked(t)
  /\ Move(t, "task", "parallelQueue")
  /\ suspend_count' = suspend_count + 1
  /\ UNCHANGED <<thread_warp, current_warp, interrupting, queueing, delayed, storage, worker,
                 local, pushed, holds, ran, forgotten>>

ParallelQueue(t) ==   \* then queue the suspend_t
  /\ Move(t, "parallelQueue", "task")
  /\ parallels' = parallels + 1
  /\ UNCHANGED <<thread_warp, current_warp, suspend_count, interrupting, queueing, delayed,
                 storage, executes, local, count>>

TakeParallel(t) ==    \* the worker runs a suspend_t
  /\ parallels > 0 /\ Move(t, "idle", "parallel")
  /\ parallels' = parallels - 1
  /\ UNCHANGED <<thread_warp, current_warp, suspend_count, interrupting, queueing, delayed,
                 storage, executes, local, count>>

EndParallel(t) ==     \* which resumes the warp at its end
  /\ Move(t, "parallel", "resume")
  /\ ret' = [ret EXCEPT ![t] = "idle"]
  /\ UNCHANGED <<thread_warp, current_warp, suspend_count, interrupting, queueing, delayed,
                 storage, worker, scan, force, task, count>>

Interrupt ==
  /\ Spend("interrupt")
  /\ interrupting' = TRUE
  /\ UNCHANGED <<thread_warp, current_warp, suspend_count, queueing, delayed, storage, worker,
                 pc, local, pushed, holds, ran, forgotten>>

Join(t) ==            \* suspend, then preempt and execute what is left
  /\ Spend("suspend") /\ Move(t, "idle", "preempt")
  /\ suspend_count' = suspend_count + 1
  /\ force' = [force EXCEPT ![t] = TRUE]
  /\ UNCHANGED <<thread_warp, current_warp, interrupting, queueing, delayed, storage, worker,
                 ret, scan, task, pushed, holds, ran, forgotten>>

JoinEmpty(t) ==       \* look whether the buffers are empty, then resume
  /\ Move(t, "empty", "resume")
  /\ ret' = [ret EXCEPT ![t] = "idle"]
  /\ UNCHANGED <<thread_warp, current_warp, suspend_count, interrupting, queueing, delayed,
                 storage, worker, scan, force, task, count>>

-----------------------------------------------------------------------------
Execute(t) == \/ TakeExecute(t) \/ Check(t) \/ Preempt(t) \/ Recheck(t) \/ Park(t) \/ Mark(t)
              \/ SkipBuffer(t) \/ StartTask(t) \/ EndTask(t) \/ AfterTask(t)
              \/ PollInterrupt(t) \/ Yield(t) \/ Unmark(t) \/ Chain(t) \/ Flush(t) \/ QueueExecute(t)
Release(t) == \/ ParallelQueue(t) \/ TakeParallel(t) \/ EndParallel(t) \/ JoinEmpty(t)
              \/ Resume(t) \/ ResumeCount(t) \/ ResumeReset(t)
Request(t) == \/ Post(t) \/ PostFull(t) \/ CallInPlace(t) \/ YieldInTask(t)
              \/ ParallelSuspend(t) \/ Suspend(t) \/ Join(t)

Next     == Interrupt \/ \E t \in Threads : Execute(t) \/ Release(t) \/ Request(t) \/ Drain(t)
Spec     == Init /\ [][Next]_vars
FairSpec == Spec /\ \A t \in Threads : WF_vars(Execute(t) \/ Release(t)) /\ WF_vars(Drain(t))
-----------------------------------------------------------------------------
(* What a warp promises *)

TypeOK ==
  /\ thread_warp \in Threads \cup {NoThread}
  /\ current_warp \in [Threads -> BOOLEAN]
  /\ suspend_count \in Int /\ interrupting \in BOOLEAN
  /\ queueing \in {"idle", "pending", "executing"} /\ delayed \in SUBSET Threads
  /\ buffers \in [Threads -> Seq(Tasks)] /\ drained \in SUBSET Threads
  /\ executes \in Nat /\ parallels \in Nat
  /\ pc \in [Threads -> {"idle", "chain", "flush", "queue", "check", "preempt", "recheck", "park", "mark",
                         "scan", "task", "after", "poll", "yield", "unmark", "resume", "reset",
                         "parallelQueue", "parallel", "empty"}]
  /\ ret \in [Threads -> {"idle", "parallel", "task", "empty"}]
  /\ scan \in [Threads -> 1 .. NThreads + 1] /\ force \in [Threads -> BOOLEAN]
  /\ task \in [Threads -> Tasks \cup {NoTask}]
  /\ pushed \in 0 .. MaxTasks
  /\ calls \in [Calls -> Nat]
  /\ holds \in SUBSET Threads /\ ran \in SUBSET Tasks
  /\ forgotten \in SUBSET {"delay", "interrupt", "node"}

\* The thread is in a task of the warp and has not yielded the warp since.
OnWarp(t) == task[t] # NoTask /\ current_warp[t]

(* "Tasks belong to the same warp are granted to be mutexed automatically and  *)
(* thus neither two of them can be run at the same time."                      *)
MutualExclusion == \A t, u \in Threads : OnWarp(t) /\ OnWarp(u) => t = u

\* The thread is in a task, be it inside a call the task makes.
InTask(t) == \/ pc[t] \in {"task", "parallelQueue"}
             \/ (pc[t] \in {"chain", "flush", "queue", "unmark"} /\ ret[t] = "task")

\* What makes MutualExclusion and the refinement inductive: who takes itself to be
\* on the warp has it, and where a thread may be while it runs a task.
OwnerInv ==
  \A t \in Threads :
    /\ current_warp[t] => thread_warp = t
    /\ pc[t] \in {"recheck", "park", "mark", "scan", "poll"} => current_warp[t]
TaskInv ==
  \A t \in Threads :
    /\ task[t] # NoTask <=> InTask(t)
    /\ InTask(t) \/ pc[t] \in {"after", "poll"} => scan[t] <= NThreads
    /\ pc[t] \in {"resume", "reset"} => ret[t] = "idle"
IInv == TypeOK /\ OwnerInv /\ TaskInv

\* A parallel task of the warp was announced by suspend() and has not ended.
InParallel(t) == \/ pc[t] \in {"parallelQueue", "parallel"}
                 \/ (pc[t] \in {"chain", "flush", "queue"} /\ ret[t] = "parallel")
ParallelPending == parallels > 0 \/ \E t \in Threads : InParallel(t)

(* queue_routine_parallel blocks the warp: no thread but a joining one starts  *)
(* another task of the warp until the parallel task has ended.                 *)
ParallelExcludes ==
  [][\A t \in Threads : task[t] = NoTask /\ task'[t] # NoTask /\ ~force[t] => ~ParallelPending]_vars

\* What makes ParallelExcludes inductive.  suspend_count is the number of suspensions that
\* are yet to be resumed: the parallel tasks waiting in the worker and those of a thread.
Joining(t) ==
  force[t] /\ \/ pc[t] \in {"preempt", "mark", "scan", "task", "after", "yield", "parallelQueue", "empty"}
              \/ (pc[t] \in {"chain", "flush", "queue", "unmark"} /\ ret[t] \in {"task", "empty"})
Suspends(t, reason) == CASE reason = "parallel" -> InParallel(t)
                         [] reason = "join"     -> Joining(t)
                         [] reason = "hold"     -> t \in holds
                         [] reason = "resume"   -> pc[t] = "resume"
Suspensions == {s \in Threads \X {"parallel", "join", "hold", "resume"} : Suspends(s[1], s[2])}
SuspendExact == suspend_count = parallels + Cardinality(Suspensions)
\* Only join() forces its way, and comes back to where it was called.
PlaceInv ==
  \A t \in Threads :
    /\ pc[t] = "unmark" => ret[t] # "parallel"
    /\ pc[t] = "chain" => ret[t] # "empty"
    /\ pc[t] \in {"check", "recheck", "park", "poll"} => ~force[t]
    /\ pc[t] = "empty" \/ (pc[t] \in {"flush", "queue", "unmark"} /\ ret[t] = "empty") => force[t]
\* Who saw suspend_count = 0 while it had the warp finds no parallel task until it ran a task.
ExclusionInv ==
  \A t \in Threads : pc[t] \in {"mark", "scan", "poll"} /\ ~force[t] => ~ParallelPending
ExcludesInv == IInv /\ PlaceInv /\ SuspendExact /\ ExclusionInv

(* No task is left behind in a buffer without a request to the worker: when    *)
(* nothing is running, requested or suspended, the buffers are empty.  Three   *)
(* things make the code forget a request, and they are what "forgotten" names: *)
(* a flush() while the store of queue_state_executing is delayed, an interrupt *)
(* with tasks left in the buffer, and a drained buffer.                        *)
Quiet == /\ \A t \in Threads : pc[t] = "idle"
         /\ executes = 0 /\ parallels = 0 /\ holds = {}
NothingStranded ==
  Quiet /\ forgotten = {} => \A t \in Threads : buffers[t] = <<>>

(* A task pushed to the warp runs, whatever suspensions, parallel tasks and    *)
(* joins happen on the way, provided that every suspend() is resumed, with the *)
(* same three exceptions.                                                      *)
EventuallyRan == \A k \in Tasks : (pushed >= k) ~> (k \in ran \/ forgotten # {})

(* "cleanup the dispatcher, pass true to 'execute_remaining' to make sure all  *)
(* tasks are executed finally": when join() finds the warp empty, on which the *)
(* destructor relies, no buffer has a task.                                    *)
JoinLeavesNothing ==
  \A t \in Threads : pc[t] = "empty" /\ (\A b \in Threads : Empty(b)) =>
    \A b \in Threads : buffers[b] = <<>>

(* When join() asks empty(), the warp is suspended and not running, as the     *)
(* assertion in empty() demands.                                               *)
JoinSeesStopped ==
  \A t \in Threads : pc[t] = "empty" => suspend_count # 0 /\ thread_warp = NoThread

(* The warp implements a strand: one task at a time, every buffer first in     *)
(* first out, a task called in place only from a task of the warp.             *)
Running == IF \E t \in Threads : OnWarp(t) THEN task[CHOOSE t \in Threads : OnWarp(t)] ELSE NoTask
Strand == INSTANCE Strand WITH Producers <- Threads, waiting <- buffers, running <- Running
StrandSpec == Strand!Spec
=============================================================================
