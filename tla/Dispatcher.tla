------------------------------- MODULE Dispatcher -------------------------------
(***************************************************************************)
(* grid_dispatcher_t: routines that run in the order of a graph.  A        *)
(* routine's current_lock_count is the number of routines it still waits   *)
(* for; whoever takes it to 0 dispatches the routine.  pending_count is    *)
(* the number of actors that still have something to do: whoever takes it  *)
(* to 0 calls the completion callback, which may flush() again.            *)
(*                                                                         *)
(* flush(), the end of a routine (complete) and resume() all unlock some   *)
(* routines and finalize().  Each atomic operation is a step.  Where a     *)
(* routine runs once it is queued, on a warp or on the worker directly, is *)
(* the business of other modules: any thread may run it at any time.       *)
(*                                                                         *)
(* Not in it: a dispatch of flush() or of resurrect() that throws, two     *)
(* threads in resurrect() at once, orders made in the completion callback. *)
(***************************************************************************)
EXTENDS Integers, Sequences, FiniteSets, FiniteSetsExt

CONSTANTS
  MaxRoutines,      \* bound: routines
  MaxOrders,        \* bound: dependencies
  MaxRounds,        \* bound: calls of flush
  MaxSuspends,      \* bound: calls of suspend in a round
  MaxFailures,      \* bound: dispatches that throw in a round
  Cyclic,           \* the caller may order routines in a circle
  Junctions,        \* and uses routines that are junctions only
  ResumeFails       \* and a dispatch of resume() may throw, not only one of complete()

ASSUME DispatcherAssumption ==
  /\ MaxRoutines \in Nat \ {0} /\ MaxOrders \in Nat /\ MaxRounds \in Nat
  /\ MaxSuspends \in Nat /\ MaxFailures \in Nat
  /\ Cyclic \in BOOLEAN /\ Junctions \in BOOLEAN /\ ResumeFails \in BOOLEAN

Ids        == 1 .. MaxRoutines
Main       == 0                             \* flush()
Resumers   == {-k : k \in 1 .. MaxSuspends}  \* resume(), once for each suspend()
Rescuer    == MaxRoutines + 1               \* resurrect()
Actors     == Ids \cup Resumers \cup {Main, Rescuer}
Unfinished == -1                            \* ~size_t(0)

VARIABLES
  routines, junctions,   \* queued so far, and which of them are junctions
  edges,                 \* <<from, to>>: next_routines of all
  runtime,               \* current_lock_count of each routine
  pending_count,
  act,                   \* what each actor does
  failed,                \* exceptions that nobody has resurrected from
  suspends, failures,    \* calls and exceptions in this round
  round, ran             \* rounds so far; how often each routine ran in this one
graph == <<routines, junctions, edges>>
vars  == <<graph, runtime, pending_count, act, failed, suspends, failures, round, ran>>

Quiet == [pc |-> "idle", todo |-> {}, at |-> 0]
Next1(i)  == {e[2] : e \in {x \in edges : x[1] = i}}
Locks(i)  == Cardinality({e \in edges : e[2] = i})     \* total_lock_count
PC(a, pc) == act[a].pc = pc
Go(a, pc) == act' = [act EXCEPT ![a].pc = pc]
Running   == pending_count # 0 \/ \E a \in Actors : ~PC(a, "idle")

Init ==
  /\ routines = {} /\ junctions = {} /\ edges = {}
  /\ runtime = [i \in Ids |-> 0] /\ pending_count = 0
  /\ act = [a \in Actors |-> Quiet] /\ failed = 0 /\ suspends = 0 /\ failures = 0
  /\ round = 0 /\ ran = [i \in Ids |-> 0]

-----------------------------------------------------------------------------
(* The graph *)

Reach(from) ==
  LET r[k \in 0 .. MaxRoutines] == IF k = 0 THEN from ELSE r[k - 1] \cup UNION {Next1(i) : i \in r[k - 1]}
  IN  r[MaxRoutines]

\* Definitions with the word Wrong are mutations: the mistake in the definition they
\* precede that the property named with them would reveal.

\* AcyclicIsValid: only what the first routines lead to directly is visited.
Wrongvalidate ==
  LET roots == {i \in routines : Locks(i) = 0}
  IN  routines \subseteq roots \cup UNION {Next1(i) : i \in roots}

\* validate() visits what can be reached from the routines without dependencies.  Its test
\* for a routine iterated before is made of one not visited before only, and never true.
validate == routines \subseteq Reach({i \in routines : Locks(i) = 0})

queue_routine(junction) ==
  /\ ~Running /\ Cardinality(routines) < MaxRoutines /\ round = 0
  /\ LET id == Cardinality(routines) + 1
     IN  /\ routines' = routines \cup {id}
         /\ junctions' = IF junction THEN junctions \cup {id} ELSE junctions
  /\ UNCHANGED <<edges, runtime, pending_count, act, failed, suspends, failures, round, ran>>

order(from, to) ==
  /\ ~Running /\ Cardinality(edges) < MaxOrders /\ from \in routines /\ to \in routines
  /\ from # to /\ <<from, to>> \notin edges
  /\ Cyclic \/ from \notin Reach({to})
  /\ edges' = edges \cup {<<from, to>>}
  /\ UNCHANGED <<routines, junctions, runtime, pending_count, act, failed, suspends, failures, round, ran>>

-----------------------------------------------------------------------------
(* flush, complete, resume *)

\* flush(), by the user or from the completion callback.
flush ==
  /\ ~Running /\ round < MaxRounds /\ routines # {} /\ validate
  /\ round' = round + 1 /\ ran' = [i \in Ids |-> 0] /\ suspends' = 0 /\ failures' = 0
  /\ runtime' = [i \in Ids |-> IF i \in routines THEN Locks(i) + 1 ELSE 0]
  /\ pending_count' = pending_count + 1
  /\ act' = [act EXCEPT ![Main] = [pc |-> "unlock", todo |-> routines, at |-> 0]]
  /\ UNCHANGED <<graph, failed>>

\* OrderRespected: a routine is dispatched by the first that unlocks it.
WrongUnlocked(n) == runtime[n] > 0
Unlocked(n) == runtime[n] = 1

\* One fetch_sub.  flush() goes through the routines in order; the order of next_routines
\* is that of the calls of order(), which may be any.
Unlock(a) ==
  /\ PC(a, "unlock") /\ act[a].todo # {}
  /\ \E n \in act[a].todo :
       /\ a = Main => n = Min(act[a].todo)
       /\ runtime' = [runtime EXCEPT ![n] = @ - 1]
       /\ act' = [act EXCEPT ![a] = [pc |-> IF Unlocked(n) THEN "add" ELSE "unlock",
                                    todo |-> @.todo \ {n}, at |-> n]]
  /\ UNCHANGED <<graph, pending_count, failed, suspends, failures, round, ran>>

\* CompletionMeansAll: a dispatched routine is not counted as pending.
WrongAdd(a) ==
  /\ PC(a, "add") /\ Go(a, "queue") /\ UNCHANGED pending_count
  /\ UNCHANGED <<graph, runtime, failed, suspends, failures, round, ran>>
Add(a) ==                    \* dispatch(): pending_count, then the queue
  /\ PC(a, "add") /\ pending_count' = pending_count + 1 /\ Go(a, "queue")
  /\ UNCHANGED <<graph, runtime, failed, suspends, failures, round, ran>>
Queue(a) ==
  /\ PC(a, "queue")
  /\ act' = [act EXCEPT ![a].pc = IF a = Rescuer THEN "clear" ELSE "unlock",
                        ![act[a].at] = [Quiet EXCEPT !.pc = "queued"]]
  /\ UNCHANGED <<graph, runtime, pending_count, failed, suspends, failures, round, ran>>

FinishUnlock(a) ==
  /\ PC(a, "unlock") /\ act[a].todo = {} /\ Go(a, "finalize")
  /\ UNCHANGED <<graph, runtime, pending_count, failed, suspends, failures, round, ran>>

Call(i) ==                   \* the callback of execute_t
  /\ PC(i, "queued") /\ Go(i, "call") /\ ran' = [ran EXCEPT ![i] = @ + 1]
  /\ UNCHANGED <<graph, runtime, pending_count, failed, suspends, failures, round>>

\* EventuallyCompletes: a routine that unlocks none does not finalize.
Wrongcomplete(i) ==
  /\ PC(i, "call")
  /\ act' = [act EXCEPT ![i] = IF Next1(i) = {} THEN Quiet
                              ELSE [pc |-> "unlock", todo |-> Next1(i), at |-> 0]]
  /\ UNCHANGED <<graph, runtime, pending_count, failed, suspends, failures, round, ran>>
complete(i) ==               \* a junction is no execute_t: it runs, and that is all
  /\ PC(i, "call")
  /\ act' = [act EXCEPT ![i] = IF i \in junctions THEN Quiet
                              ELSE [pc |-> "unlock", todo |-> Next1(i), at |-> 0]]
  /\ UNCHANGED <<graph, runtime, pending_count, failed, suspends, failures, round, ran>>

\* finalize(), and completion() after its assertions.
finalize(a) ==
  /\ PC(a, "finalize") /\ pending_count' = pending_count - 1
  /\ act' = [act EXCEPT ![a] = [Quiet EXCEPT !.pc = IF pending_count = 1 THEN "completed" ELSE "idle"]]
  /\ UNCHANGED <<graph, runtime, failed, suspends, failures, round, ran>>
completion(a) ==
  /\ PC(a, "completed") /\ act' = [act EXCEPT ![a] = Quiet]
  /\ UNCHANGED <<graph, runtime, pending_count, failed, suspends, failures, round, ran>>

-----------------------------------------------------------------------------
(* suspend and resume: a routine suspends another one that waits for it *)

suspend(i) ==
  /\ PC(i, "call") /\ suspends < MaxSuspends
  /\ pending_count' = pending_count + 1 /\ suspends' = suspends + 1
  /\ \E n \in Reach({i}) \ {i} :
       /\ runtime' = [runtime EXCEPT ![n] = @ + 1]
       /\ act' = [act EXCEPT ![-(suspends + 1)] = [pc |-> "hold", todo |-> {n}, at |-> 0]]
  /\ UNCHANGED <<graph, failed, failures, round, ran>>

resume(k) ==
  /\ PC(k, "hold") /\ Go(k, "unlock")
  /\ UNCHANGED <<graph, runtime, pending_count, failed, suspends, failures, round, ran>>

-----------------------------------------------------------------------------
(* Exceptions of a queue inside dispatch() *)

Throw(a) ==
  /\ PC(a, "queue") /\ failures < MaxFailures
  /\ a \in Ids \/ (ResumeFails /\ a \in Resumers)
  /\ failures' = failures + 1
  /\ runtime' = [runtime EXCEPT ![act[a].at] = Unfinished]
  \* the guard of dispatch(), and that of resume() as well
  /\ pending_count' = pending_count - (IF a \in Ids THEN 1 ELSE 2)
  /\ Go(a, "unfinish")
  /\ UNCHANGED <<graph, failed, suspends, round, ran>>

unfinish_complete(a) ==      \* unlock the rest, but dispatch nothing
  /\ PC(a, "unfinish") /\ act[a].todo # {}
  /\ \E n \in act[a].todo :
       /\ runtime' = [runtime EXCEPT ![n] = IF @ = 1 THEN Unfinished ELSE @ - 1]
       /\ act' = [act EXCEPT ![a].todo = @ \ {n}]
  /\ UNCHANGED <<graph, pending_count, failed, suspends, failures, round, ran>>
Unwind(a) ==
  /\ PC(a, "unfinish") /\ act[a].todo = {}
  /\ act' = [act EXCEPT ![a] = Quiet] /\ failed' = failed + 1
  /\ UNCHANGED <<graph, runtime, pending_count, suspends, failures, round, ran>>

resurrect ==                 \* once for each exception
  /\ PC(Rescuer, "idle") /\ failed > 0 /\ failed' = failed - 1
  /\ act' = [act EXCEPT ![Rescuer] = [pc |-> "look", todo |-> routines, at |-> 0]]
  /\ UNCHANGED <<graph, runtime, pending_count, suspends, failures, round, ran>>
Look ==
  /\ PC(Rescuer, "look") /\ act[Rescuer].todo # {}
  /\ LET n == Min(act[Rescuer].todo)
     IN  act' = [act EXCEPT ![Rescuer] =
           [pc |-> IF runtime[n] = Unfinished THEN "add" ELSE "look", todo |-> @.todo \ {n}, at |-> n]]
  /\ UNCHANGED <<graph, runtime, pending_count, failed, suspends, failures, round, ran>>
ClearMark ==
  /\ PC(Rescuer, "clear") /\ runtime' = [runtime EXCEPT ![act[Rescuer].at] = 0]
  /\ Go(Rescuer, "look")
  /\ UNCHANGED <<graph, pending_count, failed, suspends, failures, round, ran>>
FinishLook ==
  /\ PC(Rescuer, "look") /\ act[Rescuer].todo = {} /\ Go(Rescuer, "finalize")
  /\ UNCHANGED <<graph, runtime, pending_count, failed, suspends, failures, round, ran>>

-----------------------------------------------------------------------------
Actor(a) == Unlock(a) \/ Add(a) \/ Queue(a) \/ FinishUnlock(a) \/ finalize(a) \/ completion(a)
            \/ unfinish_complete(a) \/ Unwind(a)
Routine(i) == Call(i) \/ complete(i)
Rescue   == resurrect \/ Look \/ ClearMark \/ FinishLook
Building == (\E j \in {FALSE} \cup {Junctions} : queue_routine(j)) \/ (\E f, t \in Ids : order(f, t))
Next ==
  \/ Building \/ flush \/ Rescue
  \/ \E a \in Actors : Actor(a) \/ Throw(a)
  \/ \E i \in Ids : Routine(i) \/ suspend(i)
  \/ \E k \in Resumers : resume(k)
Spec == Init /\ [][Next]_vars

\* Threads run what is queued, the user resumes what was suspended and resurrects after an
\* exception.
Fairness ==
  /\ \A a \in Actors : WF_vars(Actor(a)) /\ WF_vars(Rescue)
  /\ \A i \in Ids : WF_vars(Routine(i))
  /\ \A k \in Resumers : WF_vars(resume(k))
FairSpec == Spec /\ Fairness

-----------------------------------------------------------------------------
(* What the dispatcher promises *)

TypeOK ==
  /\ routines \subseteq Ids /\ junctions \subseteq routines /\ edges \subseteq routines \X routines
  /\ runtime \in [Ids -> Nat \cup {Unfinished}] /\ pending_count \in Nat
  /\ failed \in Nat /\ ran \in [Ids -> Nat] /\ round \in 0 .. MaxRounds

(* assert(validate()) does not stop a graph without circles. *)
Acyclic == \A i \in routines : i \notin UNION {Reach({n}) : n \in Next1(i)}
AcyclicIsValid == Acyclic => validate

(* And it stops every other, as "check graph cycle" says: no graph with a circle is run. *)
CirclesRefused == Running => Acyclic

(* A routine starts when those ordered before it have returned from their callbacks *)
(* and every suspend() of it was resumed.                                           *)
OrderRespected ==
  \A i \in routines : ran[i] > 0 =>
    /\ \A e \in edges : e[2] = i => ran[e[1]] = 1 /\ ~PC(e[1], "queued") /\ ~PC(e[1], "call")
    /\ \A k \in Resumers : PC(k, "hold") => act[k].todo # {i}

(* The completion callback is called when every routine has run once, nothing is    *)
(* on its way any more, and all counters are 0 (the assertions of finalize).        *)
CompletionMeansAll ==
  \A a \in Actors : PC(a, "completed") =>
    /\ \A i \in routines : ran[i] = 1 /\ runtime[i] = 0
    /\ \A b \in Actors \ {a} : PC(b, "idle")

(* After flush() the completion callback is called, whatever is suspended, resumed,  *)
(* thrown and resurrected on the way.                                                *)
EventuallyCompletes == PC(Main, "unlock") ~> \E a \in Actors : PC(a, "completed")

-----------------------------------------------------------------------------
(* The strengthening of these promises that every step preserves. *)

\* No set of routines each of which waits for another one of the set.
NoCircle(S) == \A B \in SUBSET S : B # {} => \E b \in B : \A e \in edges : e[2] = b => e[1] \notin B
GraphInv ==
  /\ routines \subseteq Ids /\ junctions \subseteq routines /\ edges \subseteq routines \X routines
  /\ \A e \in edges : e[1] # e[2]
  /\ ~Cyclic => NoCircle(routines)

Pcs == {"idle", "queued", "call", "hold", "unlock", "add", "queue", "unfinish", "finalize", "completed",
        "look", "clear"}
TypeInv ==
  /\ TypeOK /\ suspends \in 0 .. MaxSuspends
  /\ act \in [Actors -> [pc : Pcs, todo : SUBSET routines, at : Int]]

\* What an actor may do, and with what in its hands.
PcsOf(a) ==
  IF a = Main THEN {"idle", "unlock", "add", "queue", "finalize", "completed"}
  ELSE IF a = Rescuer THEN {"idle", "look", "add", "queue", "clear", "finalize", "completed"}
  ELSE IF a \in Ids THEN {"idle", "queued", "call", "unlock", "add", "queue", "unfinish", "finalize", "completed"}
  ELSE {"idle", "hold", "unlock", "add", "queue", "finalize", "completed"}
PlaceOk(a, x, r, s) ==
  /\ x.pc \in PcsOf(a)
  /\ x.pc \in {"idle", "queued", "call", "finalize", "completed"} => x.todo = {}
  /\ x.pc \in {"add", "queue", "clear"} => x.at \in routines
  /\ x.pc = "hold" => x.todo # {}
  /\ a \in Ids =>
       /\ x.pc # "idle" => a \in routines
       /\ x.pc \notin {"idle", "queued", "call"} => a \notin junctions /\ r # 0
       /\ x.todo \subseteq Next1(a)
  /\ a \in Resumers /\ x.pc # "idle" => -a <= s
PlaceInv == \A a \in Actors : PlaceOk(a, act[a], ran[a], suspends)

\* Those who have yet to unlock n, who are about to dispatch it, and who have dispatched it
\* and are about to clear its mark.
Owes(a, x, r, n) ==
  a # Rescuer /\ (n \in x.todo \/ (<<a, n>> \in edges /\ (r = 0 \/ x.pc = "call" \/ a \in junctions)))
Hands(x, n)  == x.pc \in {"add", "queue"} /\ x.at = n
Clears(x, n) == x.pc = "clear" /\ x.at = n
Waits(n)       == {a \in Actors : Owes(a, act[a], ran[a], n)}
Dispatchers(n) == {a \in Actors : Hands(act[a], n)}
Clearers(n)    == {a \in Actors : Clears(act[a], n)}

\* A routine is blocked, in somebody's hands, marked, or dispatched.
StageOk(W, D, C, pc, r, lock) ==
  \/ W # {} /\ lock = Cardinality(W) /\ D = {} /\ C = {} /\ pc = "idle" /\ r = 0
  \/ /\ W = {} /\ C = {} /\ pc = "idle" /\ r = 0
     /\ \E a \in Actors : D = {a} /\ lock = IF a = Rescuer THEN Unfinished ELSE 0
  \/ W = {} /\ D = {} /\ C = {} /\ pc = "idle" /\ r = 0 /\ lock = Unfinished
  \/ /\ W = {} /\ D = {} /\ r = IF pc = "queued" THEN 0 ELSE 1
     /\ lock = IF C = {} THEN 0 ELSE Unfinished
Stage(n) == StageOk(Waits(n), Dispatchers(n), Clearers(n), act[n].pc, ran[n], runtime[n])
LockInv == Running => \A n \in routines : Stage(n)

\* Nobody is forgotten after an exception.
Rescued(n) ==
  \/ failed > 0
  \/ \E a \in Actors : PC(a, "unfinish")
  \/ n \in act[Rescuer].todo
  \/ Hands(act[Rescuer], n) \/ Clears(act[Rescuer], n)
MarkInv == Running => \A n \in routines : runtime[n] = Unfinished => Rescued(n)

\* What pending_count counts: actors on their way, the routines in their hands, and exceptions.
Counted(a, x, r) == x.pc \notin {"idle", "completed"} \/ (a \in junctions /\ r # 0)
Busy    == {a \in Actors : Counted(a, act[a], ran[a])}
Handing == {a \in Actors : PC(a, "queue")}
CountInv ==
  /\ pending_count = Cardinality(Busy) + Cardinality(Handing) + failed
  /\ \A a \in Actors : PC(a, "completed") => pending_count = 0 /\ \A b \in Actors \ {a} : PC(b, "idle")

Done == \A i \in routines : ran[i] = 1 /\ runtime[i] = 0
DoneInv ==
  IF round = 0 THEN ~Running /\ \A i \in Ids : ran[i] = 0 ELSE ~Cyclic /\ pending_count = 0 => Done

IInv == GraphInv /\ (~ResumeFails => TypeInv /\ PlaceInv /\ LockInv /\ MarkInv /\ CountInv /\ DoneInv)
=============================================================================
