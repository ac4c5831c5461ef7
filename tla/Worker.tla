-------------------------------- MODULE Worker --------------------------------
(***************************************************************************)
(* grid_async_worker_t: a pool of threads that run queued tasks.           *)
(*                                                                         *)
(* There are task_head_duplicate_count heads for each priority, and a head *)
(* is a stack of tasks linked through task_t::next.  queue() puts a task   *)
(* on an empty head of its priority or else on top of one, and wakes a     *)
(* thread when enough of them wait.  poll() takes a whole stack with one   *)
(* exchange, puts all but its top back with another, returns what was      *)
(* pushed in between, and runs the top.  A thread that finds nothing       *)
(* waits in delay() for the condition variable.  join() waits for the      *)
(* threads of a terminated worker and runs the tasks they left.            *)
(*                                                                         *)
(* The internal threads are numbered from 1; the appended ones follow,     *)
(* they run the loop of MasterWorkerThread, which polls the highest        *)
(* priority only and waits with a timeout.  Main, a thread outside the     *)
(* worker, queues tasks, terminates the worker and joins it.               *)
(***************************************************************************)
EXTENDS Integers, Sequences, FiniteSets, SequencesExt

CONSTANTS
  NThreads,    \* threads of the worker
  Appends,     \* how many of them may have been appended before start()
  Duplicates,  \* task_head_duplicate_count
  Priorities,  \* priorities that tasks are queued with
  LimitCount,  \* limit_count
  MaxTasks,    \* bound: tasks queued
  StoreBuffer  \* TRUE: the plain increment of waiting_thread_count may be delayed

Main     == 0
Threads  == 1 .. NThreads
Actors   == Threads \cup {Main}
NHeads   == Duplicates * NThreads
Slots    == 0 .. NHeads - 1
Tasks    == 1 .. MaxTasks
NoActor  == -1
Priority(s) == s % NThreads

ASSUME WorkerAssumption ==
  /\ NThreads \in Nat \ {0} /\ Appends \in SUBSET (0 .. NThreads - 1) /\ Duplicates \in Nat \ {0}
  /\ Priorities \in SUBSET (0 .. NThreads - 1) /\ LimitCount \in Nat /\ MaxTasks \in Nat
  /\ StoreBuffer \in BOOLEAN

VARIABLES
  internal_thread_count, \* set before the start and never changed
  task_heads,           \* the stack of tasks on each head, top first
  running_count,
  waiting_thread_count,
  unseen,               \* internal threads whose increment of it is in the store buffer
  terminated,
  mutex,                \* who holds it
  sleepers, notified,   \* threads waiting for the condition, and those that were notified
  pc, cont,             \* where an actor is, and where queue() returns to
  bound,                \* a thread polls the priorities below its bound
  at,                   \* the head an actor is at
  hand,                 \* the stack a thread has taken; its top is the task it runs
  rest,                 \* tasks an actor has yet to put on a head
  found,                \* has cleanup() found a task in this pass
  queued, ran           \* tasks queued so far, numbered in order; tasks that were run
pool  == <<internal_thread_count>>
lists == <<task_heads, hand, rest>>
sleep == <<mutex, sleepers, notified>>
place == <<pc, cont, bound, at>>
tally == <<queued, ran>>
vars  == <<pool, lists, running_count, waiting_thread_count, unseen, terminated, sleep, place,
           found, tally>>

Internal == 1 .. internal_thread_count
Appended == internal_thread_count + 1 .. NThreads

Init ==
  /\ internal_thread_count \in {NThreads - n : n \in Appends}
  /\ task_heads = [s \in Slots |-> <<>>]
  /\ running_count = 0 /\ waiting_thread_count = 0 /\ unseen = {} /\ terminated = FALSE
  /\ mutex = NoActor /\ sleepers = {} /\ notified = {}
  /\ pc = [a \in Actors |-> IF a = Main THEN "client" ELSE "loop"]
  /\ cont = [a \in Actors |-> "run"]
  /\ bound = [a \in Actors |-> 0] /\ at = [a \in Actors |-> 0]
  /\ hand = [a \in Actors |-> <<>>] /\ rest = [a \in Actors |-> <<>>]
  /\ found = FALSE /\ queued = 0 /\ ran = {}

Move(a, from, to) == pc[a] = from /\ pc' = [pc EXCEPT ![a] = to]
Push(s, task)     == task_heads' = [task_heads EXCEPT ![s] = <<task>> \o @]

-----------------------------------------------------------------------------
(* queue *)

\* Called by main, by a task or in the loop of an appended thread; the worker runs.
Queue(a, p) ==
  /\ ~terminated /\ queued < MaxTasks
  /\ pc[a] \in {"client", "run"} \/ (pc[a] = "loop" /\ a \in Appended)
  /\ pc' = [pc EXCEPT ![a] = "try"]
  /\ cont' = [cont EXCEPT ![a] = pc[a]] /\ at' = [at EXCEPT ![a] = p]
  /\ queued' = queued + 1 /\ rest' = [rest EXCEPT ![a] = <<queued + 1>>]
  /\ UNCHANGED <<pool, task_heads, hand, running_count, waiting_thread_count, unseen,
                 terminated, sleep, bound, found, ran>>

Try(a) ==          \* compare_exchange of an empty head
  /\ pc[a] = "try"
  /\ IF task_heads[at[a]] = <<>>
     THEN /\ pc' = [pc EXCEPT ![a] = "signal"] /\ UNCHANGED at
          /\ Push(at[a], Head(rest[a])) /\ rest' = [rest EXCEPT ![a] = <<>>]
     ELSE /\ IF at[a] + NThreads \in Slots
             THEN at' = [at EXCEPT ![a] = @ + NThreads] /\ UNCHANGED pc
             ELSE pc' = [pc EXCEPT ![a] = "chain"] /\ UNCHANGED at
          /\ UNCHANGED <<task_heads, rest>>
  /\ UNCHANGED <<pool, hand, running_count, waiting_thread_count, unseen, terminated, sleep,
                 cont, bound, found, tally>>

\* All full: push to the head whose task has the lowest address, whichever that is.
Chain(a) ==
  /\ Move(a, "chain", "signal")
  /\ \E s \in Slots : /\ Priority(s) = Priority(at[a])
                       /\ Push(s, Head(rest[a])) /\ at' = [at EXCEPT ![a] = s]
  /\ rest' = [rest EXCEPT ![a] = <<>>]
  /\ UNCHANGED <<pool, hand, running_count, waiting_thread_count, unseen, terminated, sleep,
                 cont, bound, found, tally>>

\* Definitions with the word Wrong are mutations: the mistake in the definition they
\* precede that the property named with them would reveal.

\* NoSleepOverWork: one waiting thread too few.
WrongSignal(a) ==
  /\ Move(a, "signal", IF waiting_thread_count > Priority(at[a]) + LimitCount + 1
                       THEN "wakeup" ELSE cont[a])
  /\ UNCHANGED <<pool, lists, running_count, waiting_thread_count, unseen, terminated, sleep,
                 cont, bound, at, found, tally>>

Signal(a) ==       \* waiting_thread_count > priority + limit_count
  /\ Move(a, "signal", IF waiting_thread_count > Priority(at[a]) + LimitCount
                       THEN "wakeup" ELSE cont[a])
  /\ UNCHANGED <<pool, lists, running_count, waiting_thread_count, unseen, terminated, sleep,
                 cont, bound, at, found, tally>>

Wakeup(a) ==       \* wakeup_one
  /\ mutex = NoActor /\ Move(a, "wakeup", cont[a])
  /\ IF sleepers = {} THEN UNCHANGED <<sleepers, notified>>
     ELSE \E t \in sleepers : sleepers' = sleepers \ {t} /\ notified' = notified \cup {t}
  /\ UNCHANGED <<pool, lists, running_count, waiting_thread_count, unseen, terminated, mutex,
                 cont, bound, at, found, tally>>

\* The worker is terminated: push to head 0.
QueueTerminated(a) ==
  /\ terminated /\ queued < MaxTasks
  /\ \/ pc[a] = "run" \/ (pc[a] = "loop" /\ a \in Appended)
     \/ pc[a] = "cleanup" /\ hand[a] # <<>>
  /\ queued' = queued + 1 /\ Push(0, queued + 1)
  /\ UNCHANGED <<pool, hand, rest, running_count, waiting_thread_count, unseen, terminated,
                 sleep, place, found, ran>>

QueueJoined ==     \* and on one that was joined: run the function in place
  /\ pc[Main] = "joined" /\ queued < MaxTasks
  /\ queued' = queued + 1 /\ ran' = ran \cup {queued + 1}
  /\ UNCHANGED <<pool, lists, running_count, waiting_thread_count, unseen, terminated, sleep,
                 place, found>>

-----------------------------------------------------------------------------
(* poll *)

\* The first head from s on whose priority is below b, or the number of heads.
NextSlot(s, b) ==
  LET open == {n \in Slots : n >= s /\ Priority(n) < b}
  IN  IF open = {} THEN NHeads ELSE CHOOSE n \in open : \A m \in open : n <= m

\* An internal thread polls the fewer priorities the more threads are running.
Bound(t) == IF t \in Appended THEN 1
            ELSE NThreads - (IF running_count < NThreads THEN running_count ELSE NThreads)

Poll(t) ==
  /\ ~terminated /\ Move(t, "loop", "fetch")
  /\ running_count' = running_count + 1
  /\ bound' = [bound EXCEPT ![t] = Bound(t)]
  /\ at' = [at EXCEPT ![t] = NextSlot(0, Bound(t))]
  /\ UNCHANGED <<pool, lists, waiting_thread_count, unseen, terminated, sleep, cont, found,
                 tally>>

Exit(t) ==         \* the loop ends
  /\ terminated /\ Move(t, "loop", "exited")
  /\ UNCHANGED <<pool, lists, running_count, waiting_thread_count, unseen, terminated, sleep,
                 cont, bound, at, found, tally>>

Fetch(t) ==        \* look at one head after the other; none: poll() returns false
  /\ pc[t] = "fetch"
  /\ IF at[t] \in Slots /\ task_heads[at[t]] = <<>>
     THEN at' = [at EXCEPT ![t] = NextSlot(@ + 1, bound[t])] /\ UNCHANGED <<pc, running_count>>
     ELSE /\ pc' = [pc EXCEPT ![t] = IF at[t] \in Slots THEN "take" ELSE "delay"]
          /\ running_count' = running_count - (IF at[t] \in Slots THEN 0 ELSE 1)
          /\ UNCHANGED at
  /\ UNCHANGED <<pool, lists, waiting_thread_count, unseen, terminated, sleep, cont, bound,
                 found, tally>>

Take(t) ==         \* exchange(nullptr); another thread may have been faster
  /\ pc[t] = "take"
  /\ IF task_heads[at[t]] = <<>>
     THEN pc' = [pc EXCEPT ![t] = "loop"] /\ running_count' = running_count - 1
     ELSE pc' = [pc EXCEPT ![t] = "putback"] /\ UNCHANGED running_count
  /\ hand' = [hand EXCEPT ![t] = task_heads[at[t]]]
  /\ task_heads' = [task_heads EXCEPT ![at[t]] = <<>>]
  /\ UNCHANGED <<pool, rest, waiting_thread_count, unseen, terminated, sleep, cont, bound, at,
                 found, tally>>

\* EachTaskOnce, EventuallyRan: a store for the exchange.
WrongPutBack(t) ==
  /\ Move(t, "putback", "run")
  /\ task_heads' = [task_heads EXCEPT ![at[t]] = Tail(hand[t])]
  /\ hand' = [hand EXCEPT ![t] = <<Head(@)>>]
  /\ UNCHANGED <<pool, rest, running_count, waiting_thread_count, unseen, terminated, sleep,
                 cont, bound, at, found, tally>>

PutBack(t) ==      \* exchange(task->next) yields what was pushed in between
  /\ pc[t] = "putback"
  /\ pc' = [pc EXCEPT ![t] = IF task_heads[at[t]] = <<>> THEN "run" ELSE "return"]
  /\ task_heads' = [task_heads EXCEPT ![at[t]] = Tail(hand[t])]
  /\ hand' = [hand EXCEPT ![t] = <<Head(@)>>]
  /\ rest' = [rest EXCEPT ![t] = task_heads[at[t]]]
  /\ UNCHANGED <<pool, running_count, waiting_thread_count, unseen, terminated, sleep, cont,
                 bound, at, found, tally>>

Return(t) ==       \* which goes back one by one; then somebody may be woken
  /\ Move(t, "return", IF Len(rest[t]) = 1 THEN "signal" ELSE "return")
  /\ Push(at[t], Head(rest[t])) /\ rest' = [rest EXCEPT ![t] = Tail(@)]
  /\ cont' = [cont EXCEPT ![t] = "run"]
  /\ UNCHANGED <<pool, hand, running_count, waiting_thread_count, unseen, terminated, sleep,
                 bound, at, found, tally>>

EndTask(t) ==
  /\ t \in Threads /\ Move(t, "run", "loop")
  /\ ran' = ran \cup {Head(hand[t])} /\ hand' = [hand EXCEPT ![t] = <<>>]
  /\ running_count' = running_count - 1
  /\ UNCHANGED <<pool, task_heads, rest, waiting_thread_count, unseen, terminated, sleep, cont,
                 bound, at, found, queued>>

-----------------------------------------------------------------------------
(* delay *)

Delay(t) ==
  /\ Move(t, "delay", IF terminated THEN "loop" ELSE "lock")
  /\ UNCHANGED <<pool, lists, running_count, waiting_thread_count, unseen, terminated, sleep,
                 cont, bound, at, found, tally>>

\* Take the mutex; an internal thread counts itself as waiting.
Lock(t) ==
  /\ mutex = NoActor /\ mutex' = t /\ Move(t, "lock", "look")
  /\ at' = [at EXCEPT ![t] = 0]
  /\ IF t \in Appended \/ StoreBuffer THEN UNCHANGED waiting_thread_count
                                      ELSE waiting_thread_count' = waiting_thread_count + 1
  /\ unseen' = IF t \in Internal /\ StoreBuffer THEN unseen \cup {t} ELSE unseen
  /\ UNCHANGED <<pool, lists, running_count, terminated, sleepers, notified, cont, bound, found,
                 tally>>

Drain(t) ==        \* the delayed increment becomes visible
  /\ t \in unseen /\ unseen' = unseen \ {t}
  /\ waiting_thread_count' = waiting_thread_count + 1
  /\ UNCHANGED <<pool, lists, running_count, terminated, sleep, place, found, tally>>

Look(t) ==         \* fetch over all priorities, with the mutex held
  /\ pc[t] = "look"
  /\ IF at[t] \in Slots /\ task_heads[at[t]] = <<>>
     THEN at' = [at EXCEPT ![t] = @ + 1] /\ UNCHANGED pc
     ELSE pc' = [pc EXCEPT ![t] = IF at[t] \in Slots THEN "unlock" ELSE "wait"] /\ UNCHANGED at
  /\ UNCHANGED <<pool, lists, running_count, waiting_thread_count, unseen, terminated, sleep,
                 cont, bound, found, tally>>

\* EventuallyJoined: terminated is not looked at again with the mutex held.
WrongWait(t) ==
  /\ t \notin unseen /\ Move(t, "wait", "asleep")
  /\ mutex' = NoActor /\ sleepers' = sleepers \cup {t}
  /\ UNCHANGED <<pool, lists, running_count, waiting_thread_count, unseen, terminated, notified,
                 cont, bound, at, found, tally>>

\* Wait for the condition.  The internal delay() does so only when not terminated.
Wait(t) ==
  /\ t \notin unseen
  /\ IF terminated /\ t \in Internal
     THEN Move(t, "wait", "unlock") /\ UNCHANGED sleep
     ELSE /\ Move(t, "wait", "asleep")
          /\ mutex' = NoActor /\ sleepers' = sleepers \cup {t} /\ UNCHANGED notified
  /\ UNCHANGED <<pool, lists, running_count, waiting_thread_count, unseen, terminated, cont,
                 bound, at, found, tally>>

Uncount(t) == waiting_thread_count' = waiting_thread_count - (IF t \in Internal THEN 1 ELSE 0)

\* Notified, or timed out; the mutex is taken again and given back.
Wake(t) ==
  /\ t \in notified \/ (t \in sleepers /\ t \in Appended)
  /\ mutex = NoActor /\ Move(t, "asleep", "loop") /\ Uncount(t)
  /\ sleepers' = sleepers \ {t} /\ notified' = notified \ {t}
  /\ UNCHANGED <<pool, lists, running_count, unseen, terminated, mutex, cont, bound, at, found,
                 tally>>

Unlock(t) ==       \* no need to wait
  /\ t \notin unseen /\ Move(t, "unlock", "loop") /\ Uncount(t)
  /\ mutex' = NoActor
  /\ UNCHANGED <<pool, lists, running_count, unseen, terminated, sleepers, notified, cont,
                 bound, at, found, tally>>

-----------------------------------------------------------------------------
(* terminate and join, by main *)

Terminate ==
  /\ Move(Main, "client", "wakeupAll")
  /\ terminated' = TRUE
  /\ UNCHANGED <<pool, lists, running_count, waiting_thread_count, unseen, sleep, cont, bound,
                 at, found, tally>>

WakeupAll ==
  /\ mutex = NoActor /\ Move(Main, "wakeupAll", "join")
  /\ sleepers' = {} /\ notified' = notified \cup sleepers
  /\ UNCHANGED <<pool, lists, running_count, waiting_thread_count, unseen, terminated, mutex,
                 cont, bound, at, found, tally>>

JoinThreads ==     \* every thread has left its loop
  /\ \A t \in Threads : pc[t] = "exited"
  /\ Move(Main, "join", "cleanup")
  /\ at' = [at EXCEPT ![Main] = -1] /\ found' = FALSE
  /\ UNCHANGED <<pool, lists, running_count, waiting_thread_count, unseen, terminated, sleep,
                 cont, bound, tally>>

RunLeftover ==     \* cleanup() runs the stack it took, top first
  /\ pc[Main] = "cleanup" /\ hand[Main] # <<>>
  /\ ran' = ran \cup {Head(hand[Main])} /\ hand' = [hand EXCEPT ![Main] = Tail(@)]
  /\ UNCHANGED <<pool, task_heads, rest, running_count, waiting_thread_count, unseen,
                 terminated, sleep, place, found, queued>>

CleanupHead ==     \* takes the next head's stack
  /\ pc[Main] = "cleanup" /\ hand[Main] = <<>> /\ at[Main] + 1 \in Slots
  /\ at' = [at EXCEPT ![Main] = @ + 1]
  /\ hand' = [hand EXCEPT ![Main] = task_heads[at[Main] + 1]]
  /\ task_heads' = [task_heads EXCEPT ![at[Main] + 1] = <<>>]
  /\ found' = (found \/ task_heads[at[Main] + 1] # <<>>)
  /\ UNCHANGED <<pool, rest, running_count, waiting_thread_count, unseen, terminated, sleep, pc,
                 cont, bound, tally>>

\* JoinRunsAll: one pass over the heads.
WrongCleanupEnds ==
  /\ hand[Main] = <<>> /\ at[Main] + 1 \notin Slots
  /\ Move(Main, "cleanup", "joined")
  /\ UNCHANGED <<pool, lists, running_count, waiting_thread_count, unseen, terminated, sleep,
                 cont, bound, at, found, tally>>

CleanupEnds ==     \* and is repeated until all heads were empty
  /\ hand[Main] = <<>> /\ at[Main] + 1 \notin Slots
  /\ Move(Main, "cleanup", IF found THEN "cleanup" ELSE "joined")
  /\ at' = [at EXCEPT ![Main] = -1] /\ found' = FALSE
  /\ UNCHANGED <<pool, lists, running_count, waiting_thread_count, unseen, terminated, sleep,
                 cont, bound, tally>>

-----------------------------------------------------------------------------
Queueing(a) == Try(a) \/ Chain(a) \/ Signal(a) \/ Wakeup(a)
Thread(t)   == \/ Poll(t) \/ Exit(t) \/ Fetch(t) \/ Take(t) \/ PutBack(t) \/ Return(t)
               \/ EndTask(t) \/ Delay(t) \/ Lock(t) \/ Look(t) \/ Wait(t) \/ Wake(t) \/ Unlock(t)
Join        == WakeupAll \/ JoinThreads \/ RunLeftover \/ CleanupHead \/ CleanupEnds
Next ==
  \/ \E a \in Actors : Queueing(a) \/ QueueTerminated(a) \/ \E p \in Priorities : Queue(a, p)
  \/ \E t \in Threads : Thread(t) \/ Drain(t)
  \/ Join \/ Terminate \/ QueueJoined

Spec     == Init /\ [][Next]_vars
\* Threads and main go on, tasks end, and who wants the mutex gets it some time;
\* nobody has to queue or terminate.
Locking(a) == Wakeup(a) \/ (a \in Threads /\ (Lock(a) \/ Wake(a))) \/ (a = Main /\ WakeupAll)
Working(a) == Queueing(a) \/ (a \in Threads /\ (Thread(a) \/ Drain(a))) \/ (a = Main /\ Join)
FairSpec   == Spec /\ \A a \in Actors : WF_vars(Working(a)) /\ SF_vars(Locking(a))

-----------------------------------------------------------------------------
(* What the worker promises *)

TypeOK ==
  /\ internal_thread_count \in 1 .. NThreads
  /\ task_heads \in [Slots -> Seq(Tasks)]
  /\ hand \in [Actors -> Seq(Tasks)] /\ rest \in [Actors -> Seq(Tasks)]
  /\ running_count \in 0 .. NThreads /\ waiting_thread_count \in 0 .. NThreads
  /\ unseen \in SUBSET Internal /\ terminated \in BOOLEAN /\ found \in BOOLEAN
  /\ mutex \in Threads \cup {NoActor}
  /\ sleepers \in SUBSET Threads /\ notified \in SUBSET Threads
  /\ pc \in [Actors -> {"loop", "fetch", "take", "putback", "return", "run", "delay", "lock",
                        "look", "wait", "asleep", "unlock", "exited", "try", "chain", "signal",
                        "wakeup", "client", "wakeupAll", "join", "cleanup", "joined"}]
  /\ cont \in [Actors -> {"client", "run", "loop"}]
  /\ bound \in [Actors -> 0 .. NThreads]
  /\ at \in [Actors -> -1 .. NHeads]
  /\ queued \in 0 .. MaxTasks /\ ran \in SUBSET Tasks

(* Every task queued so far is in exactly one place: on a head, in the hands of *)
(* one thread, or run.  None is lost between the two exchanges of poll(), none  *)
(* runs twice.                                                                  *)
In(task, lists_of) ==
  UNION {{x} \X {i \in DOMAIN lists_of[x] : lists_of[x][i] = task} : x \in DOMAIN lists_of}
EachTaskOnce ==
  \A k \in 1 .. queued :
    Cardinality(In(k, task_heads)) + Cardinality(In(k, hand)) + Cardinality(In(k, rest))
      + Cardinality({k} \cap ran) = 1

(* The threads do not all sleep while there is a task: when every thread waits   *)
(* or is gone, none was notified and nobody is about to notify one, all heads    *)
(* are empty.  (An appended thread would time out, but it polls only the highest *)
(* priority.)                                                                    *)
AllAsleep == notified = {} /\ \A a \in Actors : pc[a] \in {"asleep", "client"}
NoSleepOverWork == AllAsleep /\ Appended = {} => \A s \in Slots : task_heads[s] = <<>>

(* The assertions of join(): nobody counts as running or waiting any more.      *)
JoinAsserts == pc[Main] \in {"cleanup", "joined"} => running_count = 0 /\ waiting_thread_count = 0

(* When join() returns every task that was queued has been run, those that were *)
(* queued after terminate() and by leftover tasks among them.                   *)
JoinRunsAll == pc[Main] = "joined" => ran = 1 .. queued

(* A queued task is run.                                                        *)
EventuallyRan == \A k \in Tasks : (queued >= k) ~> (k \in ran)

(* terminate() and join() come to an end.                                       *)
EventuallyJoined == terminated ~> (pc[Main] = "joined")

-----------------------------------------------------------------------------
(* The strengthening of these promises that every step preserves. *)

Queues(a)   == pc[a] \in {"try", "chain", "signal", "wakeup"}
Polls(t)    == pc[t] \in {"fetch", "take", "putback", "return", "run"} \/ (Queues(t) /\ cont[t] = "run")
Waits(t)    == pc[t] \in {"look", "wait", "asleep", "unlock"}
MainPlaces  == {"client", "wakeupAll", "join", "cleanup", "joined"}

\* Where an actor is, and at which head.
PlaceOk(a) ==
  /\ IF a = Main THEN pc[a] \in MainPlaces \/ (Queues(a) /\ cont[a] = "client")
                 ELSE pc[a] \notin MainPlaces /\ cont[a] # "client"
  /\ pc[a] = "cleanup" => at[a] < NHeads
  /\ pc[a] \in {"fetch", "look"} => at[a] >= 0
  /\ pc[a] \in {"take", "putback", "return"} \/ Queues(a) => at[a] \in Slots

\* What it has in its hands there, and that it has nothing elsewhere.
HandOk(a) ==
  /\ pc[a] = "putback" => hand[a] # <<>>
  /\ pc[a] \in {"return", "run"} \/ (Queues(a) /\ cont[a] = "run") => Len(hand[a]) = 1
  /\ hand[a] # <<>> => pc[a] \in {"putback", "return", "run", "cleanup"} \/ (Queues(a) /\ cont[a] = "run")
  /\ pc[a] \in {"try", "chain"} => Len(rest[a]) = 1
  /\ pc[a] = "return" => rest[a] # <<>>
  /\ rest[a] # <<>> => pc[a] \in {"try", "chain", "return"}
PlaceInv == \A a \in Actors : PlaceOk(a) /\ HandOk(a)

\* The two counters count threads, the second but for the delayed increments.
Polling  == {t \in Threads : Polls(t)}
Counted  == {t \in Internal : Waits(t)} \ unseen
CountInv == running_count = Cardinality(Polling) /\ waiting_thread_count = Cardinality(Counted)

SleepOk(t) ==
  /\ mutex = t <=> pc[t] \in {"look", "wait", "unlock"}
  /\ t \in unseen => mutex = t
  /\ t \in sleepers \cup notified <=> pc[t] = "asleep"
SleepInv == \A t \in Threads : SleepOk(t)

\* What main has found when it comes to an end.
JoinInv ==
  /\ terminated <=> pc[Main] \in MainPlaces \ {"client"}
  /\ \A t \in Threads :
       /\ pc[t] = "exited" => terminated
       /\ pc[Main] \in {"cleanup", "joined"} => pc[t] = "exited"
  /\ hand[Main] # <<>> => found
  /\ pc[Main] = "cleanup" /\ ~found => \A s \in Slots : s <= at[Main] => task_heads[s] = <<>>
  /\ pc[Main] = "joined" => \A s \in Slots : task_heads[s] = <<>>

\* EachTaskOnce by the lists that tasks are in.
Where == ({"head"} \X Slots) \cup ({"hand", "rest"} \X Actors)
ListAt(x) == CASE x[1] = "head" -> task_heads[x[2]]
               [] x[1] = "hand" -> hand[x[2]]
               [] x[1] = "rest" -> rest[x[2]]
Lists == [x \in Where |-> ListAt(x)]
Once(all, done, n) ==
  /\ \A x \in Where : IsInjective(all[x]) /\ ToSet(all[x]) \cap done = {}
  /\ \A x, y \in Where : x # y => ToSet(all[x]) \cap ToSet(all[y]) = {}
  /\ 1 .. n = done \cup UNION {ToSet(all[x]) : x \in Where}
OnceInv == Once(Lists, ran, queued)

IInv == TypeOK /\ PlaceInv /\ CountInv /\ SleepInv /\ JoinInv /\ OnceInv

\* NoSleepOverWork of the worker before terminate(): for every task somebody is about to look
\* where it is, was notified, or is about to notify somebody.
Minds(t, s) == \/ pc[t] \notin {"look", "wait", "asleep", "exited"} \/ t \in notified
               \/ pc[t] = "look" /\ at[t] <= s
Notifies(a) == pc[a] \in {"signal", "wakeup"}
Attended(s) == (\E t \in Threads : Minds(t, s)) \/ \E a \in Actors : Notifies(a)
Rightful(a) == Queues(a) \/ pc[a] \in {"putback", "return"} => Priority(at[a]) \in Priorities
WorkInv ==
  ~terminated =>
    /\ unseen # {} => StoreBuffer
    /\ \A a \in Actors : Rightful(a)
    /\ \A s \in Slots : task_heads[s] # <<>> => /\ Priority(s) \in Priorities
                                                /\ Appended = {} => Attended(s)

\* queue() leaves as many threads asleep as its priority and limit_count say.
Notifiable == \A p \in Priorities : p + LimitCount < NThreads - (IF StoreBuffer THEN 1 ELSE 0)
=============================================================================
