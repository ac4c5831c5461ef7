# Verification of waitrace

waitrace is a DLL that is injected into processes, hooks their wait and signal
calls and reports each call to a host process through a ring of records in
shared memory.  The host keeps the calls of each traced thread on a *warp* of
the task scheduler `grid_dispatcher` and shows who waited for whom.  This
directory holds TLA+ modules of the parts where order and timing decide whether
that works, TLC configurations for small instances, and proofs checked by TLAPS
for instances of every size.

## The system

| part | where | state | operations |
|---|---|---|---|
| shared section | `src/TraceSystem.cpp` 32-38, 487-595 | lock and GUID in the DLL's shared data segment, the mapping of each process | `Initialize`, `Uninitialize`, `DllMain` |
| shared ring | `src/TraceSystem.cpp` 362-434, 876-892 | write index, 64K slots of 16 bytes, the host's read index | `PostRecord`, the loop of `MasterWorkerThread` |
| record processing | `src/TraceSystem.cpp` 387-485, 786-883 | `threadInfoMap`, `waitingObjectsThreadMap`, the event list of each thread | creation and deletion of threads, waits, signals, `Cleanup`, `UpdateVisualizeData` |
| hooks and life cycle | `src/TraceSystem.cpp` 42-360, 597-784, 894-1031 | patched functions, exemption and attachment in TLS, wait callback | the ten proxies, `NotifyWaitCallbacks`, `AttachThread`, `DetachThread`, injection |
| warp | `grid_dispatcher.h` 26-523 | owner, suspend count, flush state, one task buffer per thread | `queue_routine*`, `execute`, `yield`, `suspend`, `resume`, `interrupt`, `join` |
| DAG dispatcher | `grid_dispatcher.h` 526-836 | routines with their missing dependencies | `queue_routine`, `order`, `validate`, `flush`, `suspend`, `resume`, `resurrect` |
| worker | `grid_dispatcher.h` 838-1247 | task lists by priority, threads asleep | `queue`, `poll`, `delay`, `terminate`, `join` |
| balancer | `grid_dispatcher.h` 1250-1291 | load figures | `up`, `down` |
| queue list, queue frame | `grid_common.h` 1165-1954 | linked blocks, push and pop positions | `push`, `emplace`, `pop`, `preserve`, iteration, frame barriers |
| allocators | `grid_common.h` 424-705 | bitmaps of blocks, free blocks | allocate, deallocate |
| buffers | `grid_buffer.h`, `grid_common.h` | sorted arrays, views | insert, erase, resize |
| coroutines | `grid_coroutine.h` | pending functions, waiting coroutines and counters | awaiting functions and warps; event, pipe, barrier, frame |
| k-d tree | `grid_tree.h` | links, keys and dimensions of the nodes | `attach`, `detach`, `optimize`, two queries |
| entity components | `grid_system.h` | arrays of components by type | insert, remove, search |

Every traced thread is a writer of the ring; the host's master worker thread is
its one reader.  The reader pushes what it read to the warp of the thread
concerned; the host's worker runs warps; a drawing thread outside `src/` reads
the visualisation data.  All of that happens without locks: order rests on
atomics, on plain memory that a neighbouring atomic is supposed to guard, and on
a scheduler that must neither run two tasks of a warp together nor forget one.

What makes each part correct:

* ring: a record taken for complete is the record that was posted, all of it;
  none twice, none out of order; losses only when the reader was lapped; no
  dead writer stops the reader for good;
* section: one process creates the GUID, nobody uses it half made, all processes
  map the same ring, the lock is always given back;
* warp: two tasks of one warp never run together, a parallel task excludes them
  all, no task is left behind, `join` sees what it asserts;
* worker: a queued task runs once, a sleeping thread is woken, termination ends;
* dispatcher: each routine runs once, after those it depends on; a cycle is refused;
* queue list: first in, first out, between one producer and one consumer; frames and
  loops see exactly what is between their ends;
* allocators: no item is handed out twice, pages go with their last reference and
  not before;
* record processing: every record finds its thread, a signal finds those who wait;
* coroutines: each goes on once, at home, when and only when what it waits for has come;
* k-d tree: a query finds what overlaps its target, however the tree came about.

## Modules

| module | what it is |
|---|---|
| `SharedRing`, `SharedRing_proofs` | writers and reader of the ring, one step per shared access; proofs |
| `SharedSection`, `SharedSection_proofs` | agreement on the section, hooks in and out; proofs |
| `HostState`, `HostState_proofs` | hooked threads, and what the host knows of them; proofs |
| `Warp`, `Warp_proofs` | one warp on the threads of a worker; proofs |
| `Strand` | what a user of a warp may rely on; `Warp` implements it |
| `Worker`, `Worker_proofs` | the pool of threads that runs the tasks; proofs |
| `Dispatcher`, `Dispatcher_proofs` | the graph of routines; proofs |
| `QueueList` | the list of rings under every buffer, and its frames |
| `FIFO` | what a user of a queue may rely on; `QueueList` implements it |
| `Allocator`, `Allocator_proofs` | block allocator over root allocator; proofs |
| `Coroutine`, `Await`, `Sync`, `Coroutines`, `Coroutines_proofs` | tasks and places; awaited functions; synchronisation objects; programs made of them; proofs |
| `Tree` | the k-d tree and its queries |
| `MC...` | the instances TLC checks |

Definitions with the word `Wrong` in their name are mutations: each is a mistake
that could be made in the definition it precedes, and names the property that
reveals it.

Each module says at its head what its steps are and what of the code it takes for granted.
`Strand` is what `Coroutine` assumes of a warp, `FIFO` what `Warp` assumes of its
buffers: tasks of a warp one at a time, those of one producer in order.  Only `Coroutines` composes
modules in one specification; the other interfaces are narrow enough to be assumed on one side and
shown on the other.

### SharedRing

A record is named by its *ticket*, the number of records posted before it, which
never repeats; the index the program stores is the ticket modulo `IndexRange`
(2^32).  `Claim` is the `fetch_add`; the copy into the slot is one step
(`StoreRecord`) or two (`StoreLow`, `StoreHigh`), by the variable `wideCopy`, which is chosen once
from `Builds`, since the compiler may move a 16-byte structure either way.  Nothing makes
writers wait, so `Claim` has no guard but the bound.  `Die` terminates a thread
that holds a ticket.  The reader loads the write index (`Observe`), skips forward
when it was lapped (`CatchUp`), copies a slot in one or two steps and compares
(`Finish`).  The payload of a slot is the ticket it came from, which is all the
properties need to tell records apart.  `FirstTicket` records were posted before the behaviour
starts; with 0 the section is fresh and every slot zero.

### SharedSection

`Load` is what `InjectToProcess` brings about, then one action for each shared access of
`Initialize`.  The GUID has two halves that
are written one after the other, so that a half-made GUID can be told from a
whole one.  `MapFails` and `InstallFails` are its returns of false, after which `DllMain` returns
TRUE all the same and the process stays `untraced`.  `hooked` is whether the hooks of a process are in place:
`InstallHooks` and `UninstallHooks` suspend the other threads and write all of them, so each is one
step.  `Unload` is the first half of `Uninitialize`, which unmaps the ring; the hooks go after it, or
stay if the threads cannot be suspended (`UninstallFails`).  `Leave` and `Crash` end in `Release`, the
loader's part: the last process to go takes the data
segment with it, the next one finds it in its initial state.  A process may crash
anywhere.

### HostState

A hooked call is the records `NotifyWaitCallbacks` posts before it (`todo`) and after it
(`after`); `Calls` has one operator for each kind of proxy, the waits being those the host
files under a handle and the signals those it looks up.  `NtWaitForAlertByThreadId` is
neither.  `Call` and `ThreadStart` go through `AttachThread`, which marks the thread in TLS
(`active`) and puts a creation in front.  `DetachThread` posts a deletion; its reset of the
mark is the same step, since only the thread itself looks at the mark.  After it the thread
may call and be attached again, as other DLLs' detach handlers do.  `Vanish` is the end of a
thread, and termination at any point.

The ring is the sequence of unread records.  A record more than `RingLength` goes over the
oldest and sets `overrun`, which `Catchup` clears by skipping to half a ring; `SharedRing` has
the slots below that.  `Process` is one turn of the host's loop, an alternative for each
case of its switch.  `waitingObjectsThreadMap` has an empty set for a handle that is not in
the map, and `sent` is what was last posted to the warps of which `ThreadInfo` objects.
Three histories say what the host cannot know: `missed` (a creation or deletion was
overwritten, or came before it started), `unheard` (the same of a wait since the thread's last
call) and `vanished`.  Library records, on which the host does nothing, and exemption, which only
keeps calls made inside the hooks from being posted, are left out.

### Warp and Strand

One step per access to `thread_warp`, `suspend_count`, `queueing` and
`interrupting`.  A buffer is the sequence of its tasks, popped in one step and pushed in one (`Post`), or in two
if the pushing thread finds the last node full (`PostFull`, `Chain`).  That shows through in one place: if all tasks were
taken between the two, the first node stays in front, empty, and the buffer is `drained` from then on, which is
to say that `empty()` is true of it (`Empty`).  The race inside `pop()` (`MaxStall`, see `QueueList`) is left out.  The
worker is a counter of `execute_t` tasks and one
of `suspend_t` tasks which idle threads take in any order.  `pc`, `ret` and
`scan` say where a thread is in `execute`, `flush`, `yield`, `resume` or `join`;
`force` is the template parameter of the same name, TRUE under `join`.  A task
may push, call in place, queue a parallel task or yield its warp; what else it does
does not concern the warp.  `MaxCalls` bounds each kind of call and their sum.

The atomics are sequentially consistent with one exception: the relaxed
`queueing.store(queue_state_executing)` may stay in the thread's store
buffer (`delayed`) until `Drain` or until the thread's next locked instruction.
That is what the x86 of the program may do with it.  The history `forgotten` says by what a request to run the
tasks of the warp may have been lost so far: a `flush` while such a store is delayed ("delay"), an `interrupt`
that ended the loop over a buffer with tasks ("interrupt"), a drained buffer ("node").  Disturbances that cost
nothing leave no mark in it.

`Strand` has a queue per producer and at most one running task.  `Warp`
implements it with `waiting` the buffers and `running` the task of the thread on
the warp (`Running`).

### Worker

One step per access to a head of `task_heads`, to `running_count`,
`waiting_thread_count` or `terminated`; a list linked through `task_t::next` is a
sequence, its top first.  A compare-and-exchange that succeeds is one push
(`Try`, `Chain`).  `poll()` is `Poll`, `Fetch`, `Take`, `PutBack`, `Return`: it
takes a whole list with one exchange, puts all but its top back with another and
returns to the list what was pushed in between.  `hand` is what a thread took and
`rest` what it has yet to put on a list.  `delay()` is `Delay`, `Lock`, `Look`,
`Wait` or `Unlock`, and `Wake`, with the mutex and the condition variable as
`mutex`, `sleepers` and `notified`.  Heads are compared by address only to choose one
when all are full, which here is any of them.

Of the `NThreads` threads the first `internal_thread_count` are internal; the others are appended and
run the loop of `MasterWorkerThread` (`src/TraceSystem.cpp`
362-485): they poll the highest priority only, wait with a timeout and may queue
between polls.  `Appends` says how many of them there may be, `Duplicates` how many heads each
thread has.  `Main` queues, terminates and joins.

With `StoreBuffer` the increment of `waiting_thread_count`, which is a plain load and
store under the mutex and read without it, may stay in the store buffer
(`unseen`) until the thread waits or unlocks.  Spurious wake-ups are left out, they
only help; `task_count` is left out, nothing in the pool depends on it; tests of
`is_terminated()` between which nothing shared is touched are one.

### Dispatcher

`flush`, the end of a routine and `resume` are the same code three times over: unlock routines one
by one (`Unlock`), dispatch those that come to 0 (`Add`, `Queue`), `finalize`.  `act` says how far
each actor is: `Main` in `flush`, each routine from its queueing to its end, each `resume`, the
rescuer in `resurrect`.  A dispatch may throw (`Throw`) and leaves the rest to `unfinish_complete`, which
marks what it would have dispatched; `resurrect` looks for the marks.  `validate` is its reachable
set, which is what its loop computes.  Only dispatches at the end of a routine throw, and those of `resume` with
`ResumeFails`; those of `flush` and `resurrect` do not.  One thread calls `resurrect` at a time, and the
completion callback may `flush` but orders nothing.

### QueueList and FIFO

Nodes are numbered in the order of their allocation, an element is its number in the order of
pushes, counters wrap at `CounterLimit`.  `push` is `preserve`, `advance`, `fill`, `publish`; the
consumer's side is `take`, which reads `push_count` once, `test_empty` and `test_same`, the two reads
between which the producer may go on.  `pop(n)` goes on into the next node only if it freed the first one,
`pop(from, to)` until it has all, which is how the code differs.  A frame is a position (node and
index) that `release` notes and `acquire` pops up to; distances and loops are those of the iterator.
`reset` is a step of both sides.

### Allocator

One step per atomic operation of `allocate`, `deallocate`, `recycle` and `try_free`; what the root
allocator does under its mutex is one step.  `bitmap` is the set of bits that are set, of which those
from `Items` on stand for nothing and are set by the first who finds them.  It is one word: where `allocate`, having lost a
bit, would look at the next word, it gives the block up here.  The list of recycled blocks
is a sequence, and what a thread holds of it between its two exchanges is `rest`.

### Coroutine, Await, Sync, Coroutines

A task is a closure in the queue of a warp or of the pool, or run by a thread; `op` says how far it
is.  `Await` has `co_await` of one function, of several (`grid_awaitable_multiple_t`) and of a place
(`grid_switch_t`), with functions in place, elsewhere or in parallel to a suspended warp.  `Sync` has
the four objects; sections under a mutex are one step, atomics outside it are steps of their own.  The
other side of an event is `notify` and `reset`, of a pipe `emplace`, of a frame `dispatch`, by
threads outside.  `Coroutine` also has `join`: the thread that runs a coroutine outside the warps and waits
on an atomic on its stack, which the completion sets (`Return`) and notifies (`Notify`).  The pool has always a
thread to spare, so a `join` that blocks the last worker thread is not in the model.
`Coroutines` chooses a kind of program and lets coroutines do it.

Two histories mark where the code goes wrong, so that the promises can be stated for the rest.  `overtaken`: a coroutine
awaits again, or ends its `await` in place, while the loop of an earlier `await_suspend` of its own, run by another thread, is not
over; the loop then reads the awaitable that took the place of its own.  `early`: the last to arrive at a barrier
dispatches a place that is counted (`Barrier`) and has no handle yet (`Store`); what it finds there is the handle of the round
before or a null one, and of resuming a null one nothing is modelled.  The `handle` and `warp` of a place are stored in one step.

A build with `_DEBUG` clears `info.warp` of a barrier after the handle has moved (`grid_coroutine.h`
731), and coroutines go on in the pool; the release build is modelled.

### Tree

The tree is a function from nodes to records of links and dimension; a node is a box of one dimension,
an interval, which makes two key indices.  `find_minimal`, `find_maximal`, `Detach`, `build` and
both queries are recursive operators as the methods are.  `optimize` takes any order of the
nodes for the one that codes give, which decides the shape only.  The selector of `detach` is asked once and
the answer kept for the whole cascade, where the code asks at every node.

## Runs

| run | instance | shows |
|---|---|---|
| `shared_ring` | 2 writers, ring of 2, index modulo 10 from 8, 4 tickets, 1 death, both builds | a record is whole unless its slot was raced for; in order and once; nothing passed over unless lapped; the reader recovers from a hole |
| `shared_section` | 3 processes, 6 loads, failures, crashes | creation exclusive; same ring, mapped while hooks post to it; GUID stable; all get through `Initialize` unless the lock's holder died |
| `host_state` | 2 threads, 1 handle, ring of 2, 2 attachments, 2 calls | the caller is known; the attached are known; a signal reaches the waiters |
| `warp` | 2 threads, 2 tasks, at most 2 of: parallel task, suspend or join, interrupt, delayed store | mutual exclusion; a parallel task excludes tasks; the warp is a strand; every task runs unless its request was forgotten |
| `worker` | 2 threads, the second internal or appended, 1 head each, 2 tasks, delayed increment | each task once; nobody sleeps over a task; all run at `join`; every task is run; `join` ends |
| `dispatcher` | 3 routines, 3 dependencies, 2 rounds, 1 suspension, 1 exception | acyclic graphs pass; the order is kept; completion means all; completion comes |
| `queue_list` | nodes of 2, counters modulo 8, 8 elements, batches of 3, 3 nodes, 2 frames | first in, first out; frames exact; loops see each element once |
| `queue_list_empty` | the same | counterexample: `empty()` with elements in the list |
| `allocator` | 2 threads, 2 items per block, 1 slot, 2 recycled, 2 chunks of 2 pages | no double allocation; memory in use is mapped |
| `coroutines` | 2 coroutines, one of them joined, 2 awaits each (of functions, once each or twice in one), 2 warps and the pool, 3 calls | functions first, then home; resumed once; event and pipe; the barrier, unless a handle is dispatched early, which never happens on one warp; all finish and `join` returns, but for one that overtook a loop of its own; `dispatch` returns |
| `barrier_pool` | the instance of `coroutines` | counterexample: a coroutine is through the barrier before all have come |
| `tree` | 5 intervals over 3 values, two sets | both queries find all |

Properties come once each, the strongest that a module has; the weaker ones that helped to find them
stay as definitions and hold on the same instances, some of them for all (see below): `TypeOK` of each
module, `NeverAhead`, `RecentIsFindable` and `EventuallyRead` (`SharedRing`), `NothingStranded` (`Warp`), `JoinAsserts`
(`Worker`), `RefsExact`, `KeptOnce` and `RecycledIsBounded` (`Allocator`), `LinksAgree` (`Tree`),
`AwaitEndsFirst` (`Await`, on the instance of `coroutines`).

Bounds.  Four tickets on a ring of two let writers lap the reader and each other, twice, and cross the
wrap, so that each of the four races `Raced` names happens; an instance of three writers on a ring of four
showed nothing more.
A GUID race needs two processes, a third shows what a late one sees.  A conflict on
a warp needs an owner and one other thread; a second task in the same buffer shows
order and stays behind a parallel task, and two disturbances show each pair of kinds.  Two tasks are
a list that is taken and put back, with a task pushed in between; two internal threads with two heads each, two
priorities and three tasks showed nothing more.  In `HostState` two calls are a wait and the signal that
ends it, or a wait of one thread around
the other's detachment; a ring of two is overrun by one call of two records, and a second
attachment reuses the id of a thread or comes after its detachment.  Three routines are a diamond's half, a chain and a
fork; a second round finds what the first left behind.  Nodes of two in a list of three
have a first, a middle and a last, batches of three go over a boundary, and eight pushes make the
counters wrap.  Two functions of one `await` end in either order and at once, two awaits in a row show a
coroutine that overtakes a loop; a barrier of two opens twice and finds handles of the round
before.  Two chunks of two pages show a chunk that stays for one of its pages; a slot and two recycled
blocks put the third on its own.  Five intervals over three values touch, nest and repeat.
Bounds on calls stand in the
guards (`MaxTicket`, `MaxLoads`, `MaxTasks` and so on).  Deadlock checking is off in all runs but
`shared_ring`, since what is modelled comes to rest: a warp, a worker, a queue, an allocator or a dispatcher
without work, threads that have ended, programs that have finished, calls up to their bound.

Fairness.  Weak fairness of the reader's loop and of each writer's copy: a
running thread goes on (a dead one is idle).  Weak fairness of each process in
`Initialize`: it is one thread that either runs or sleeps and retries.  Weak
fairness of a thread's `Execute` and `Release` steps: worker threads take queued
tasks and finish what they began, and whoever suspended a warp resumes it.  In `Worker`, weak
fairness of every thread's steps, and strong fairness of those that need the mutex: a
thread that waits for a mutex others keep giving back gets it some time.  In `Dispatcher`, weak
fairness of each actor: queued routines are run, who suspended one resumes it, who got an exception calls
`resurrect`.  In `Coroutines`, of the next step of the program as a whole, which is enough since
every program ends.  No fairness
is assumed of requests (posting, suspending, loading, queueing, terminating, crashing).

The counterexamples of the violated runs, each a finding with the line that it refutes:

* `queue_list_empty`: the consumer drains the only node, which is `push_head` and full, and
  `pop()` (`grid_common.h` 1502) leaves it in place; the producer chains a second node and
  pushes to it; `empty()` (1535) looks at the first node and says that nothing is there.  A later `pop(n)` or
  `pop(from, to)` removes the node, `pop()` after `empty()` is not called.
* `barrier_pool`: `yield_count` goes up (`grid_coroutine.h` 708) before the handle is stored.  In the second round the last to
  arrive dispatches the handle of the round before, its own, in place of one that is counted and not stored yet: it
  goes on twice, and the other is not resumed.

More shows under other constants or with a weaker reading; no run is spent on it:

* `WholeUnlessRaced` without each of the four cases of `Raced` is violated.  The copies at `src/TraceSystem.cpp` 382 and 891 need
  not be atomic: the host takes the first half of a slot, a writer stores its record, the host takes the second half,
  which has the index it looks for, and calls the record completed (385).
* `SharedRing` with `FirstTicket` 0: slot 0 of a fresh section passes for the completed record 0 (385), whole or not.  The
  read index is ahead of the write index then, which counts as an overrun: it is set back half a ring, and nothing more is
  delivered until the writers have lapped it.
* `WaitersKnown`, with a ring so large that the host is never lapped: nobody is ever taken out of `waitingObjectsThreadMap`, since
  `UpdateWaitingObjectsThreadMap` is called for records before a call only (401); a signal of a handle on which a deleted
  thread once waited meets the assertion at 414.
* `JoinLeavesNothing` of `Warp`, a task in a warp that `join` finds empty: what `queue_list_empty` shows, as seen from a warp, which asks
  `empty()` before it pops (`grid_dispatcher.h` 430).  The task is left in its buffer, and so is every task of that thread
  after it, though it was asked for.
* `JoinSeesStopped`: `join` asks `empty()` (357) after it gave the warp back, and an `execute()` that passed its first test before
  the suspension owns the warp by then, against the assertion in `empty()` (248).
* `CirclesRefused`, with `Cyclic`: `validate` (`grid_dispatcher.h` 713), "check graph cycle", lets circles pass that a root leads to,
  as its test at 735 is made only of nodes it had not visited; `flush` starts the graph.
* `SameRing` without its condition on `pc`: `Uninitialize` unmaps the ring (`src/TraceSystem.cpp:583`) before it
  takes out the hooks (590), and leaves them in when the threads cannot be suspended; a call hooked in between
  posts to memory that is gone.
* `CallerKnown` without `missed`: a thread attached before the host started, or whose
  creation was overwritten, meets the assertion at `src/TraceSystem.cpp:404`; `AttachedIsKnown` without
  `vanished`: a thread that is attached again after
  `DLL_THREAD_DETACH`, or terminated, stays in `threadInfoMap`.
* Outside the modules: waits of which the end is never recorded (`src/TraceSystem.cpp:480`) would make `UpdateVisualizeData`
  draw at most one item a frame, without an end, and a full event list loses the latest events until the host is lapped
  and cleans up.
* `NoSleepOverWork` without its conditions: with one internal and one appended thread and priorities 0 and 1,
  `grid_dispatcher.h:1038` compares the internal threads that wait with a priority that may be as
  high as all threads, the appended ones included, so a task of priority 1 wakes nobody; with `LimitCount` 1 no
  number of waiting threads is enough for it; with a delayed increment all internal threads may sleep
  over a task, and an appended thread's timeout makes up for it.
* `EventuallyRan` of `Worker` with two internal threads and two priorities: `poll` leaves out a priority for each
  other thread that polls (`grid_dispatcher.h:977`), also
  for one that will find nothing; two idle threads may do so to each other
  for ever and never look at priority 1.  Any poll that does not overlap another ends it.
* `Dispatcher` with `Junctions`: the routine of `queue_routine()` (620) calls no `complete`, so
  nothing after it is dispatched and `EventuallyCompletes` fails.  With `ResumeFails`: a dispatch that throws
  inside `resume` takes two off `pending_count` where one was added, and the completion comes early.  With
  `Cyclic` the completion comes although the routines of a circle have not run.
* `EventuallyRan` of `Warp` without `forgotten`: `grid_dispatcher.h:426` stores `queue_state_executing`
  with relaxed order; seen late it erases a pending flush.  An `interrupt` (445) leaves the tasks of one buffer
  behind without a request for them.
* `IsFIFO` with `MaxStall` of a block or more: `pop()` reads `empty()` and then `push_head`; if the producer fills
  the node and chains another in between, the node is freed with its elements.
* `IterationExact` without `FilledOnce`: a node that is filled again after pops has indices that run into
  those of the next node, and positions are compared by index.
* `push(from, to)` on a full node pushes nothing and returns.  A frame released empty, or at the boundary of a node, may
  leave the barrier of `grid_queue_frame_t` in a node that is freed; the model releases frames of one
  element at least.
* `AwaitEndsFirst` for callers in the pool, and for those on a warp once they have awaited from the pool: the loop of `await_suspend` reads `awaitables.size()`
  (`grid_coroutine.h:354`) of a temporary that the coroutine, resumed by the last function, may have destroyed.  If it has awaited
  again by then (`overtaken`), the loop goes on with what it finds there, and `FuncsThenHome` and
  `EventuallyFinished` fail without that exception.
* `join`: the completion stores 1 (`grid_coroutine.h:108`) and then calls `notify_one` of the same atomic, which is on the
  stack of a `join` that may have returned in between (`Wait` to "done" before `Notify`).
* `await_resume` of a frame makes a temporary `resume_t` (820), so a coroutine counts as done with
  the frame when it starts on it; `dispatch` returns all the same, which is what the run shows.

## Proofs

All hold for every value of the constants that satisfies the named assumptions.  Each module has an inductive
invariant `IInv`, a conjunction of named parts, and one step of the proof for each action.

* `SharedSection_proofs`: `TypeCorrect`, `GuidCreationExclusive`, `AllShareOneRing`,
  `GuidNeverChangesUnderReaders`.  `LockInv` says who
  may be where for each value of the lock (in particular that nobody is past the lock
  while it is IDLE), `GuidInv` that the GUID is whole whenever somebody is past its
  creation and that a mapped ring is the ring of that GUID, `HookInv` where a process with
  hooks can be.  `SameRing` alone is not inductive:
  it says nothing of a process about to map, nor of one about to install its hooks.
* `SharedRing_proofs`: `TypeCorrect`, `RecordsInOrderOnce`, `NothingSkippedUnlapped`, `ReaderNeverAhead`,
  `RecordsWholeUnlessRaced`.  `RangeInv` says which tickets the writers have, `SlotInv` what a slot can hold: the
  zeroes of its page, or the index of a recent ticket that falls on it and, with 16-byte access, the rest of
  that record; `ReadInv` that the reader's index is that of the ticket it looks for, which was posted or is
  the next to be; `DeliveryInv` that what it delivered are tickets before that.  The lemmas are
  arithmetic: an index stands for one recent ticket only.  `RecordsWholeUnlessRaced` is about both builds.  For that
  `HalvesInv` is added, which says of two halves of a slot that are not of one record (`Paired`) what came between
  them: the writer of the first is yet to store the second, has died, or one of the two was stored over.  It rests on the
  index being stored last (`IndexAtEnd`), which is what its mutation undoes.  Two hypotheses matter.  A behaviour posts fewer
  tickets than `IndexRange` - `RingLength`: with more, an old index and a new one would be the same.  And
  `FirstTicket > 0`: a fresh page is zeroes, and 0 is an index; when it is the first one the reader takes slot 0
  for written, which is a flaw of the code (see "More shows") and not a gap of the proof.  The order of
  records is that of builds with 16-byte access; of a record that is half another there is no order to
  state.
* `HostState_proofs`: `TypeCorrect`, `CallersAreKnown`, `MarksAreKnown`, `SignalsAreRecorded`.  The host lags
  behind the threads, so the invariant speaks of what the unread records will make of `threadInfoMap`,
  thread by thread: `Finds(t, n, known)` is what the host will know of `t` when it comes to record `n`.
  `AttachedIsKnown` and `CallerInv` are stated with it; `BufferInv` says what can be in the ring, `PostingInv` what a
  thread still has to post, in agreement with its mark, and `WaitInv` where the record of a wait is, or why there
  is none, until the host has put it into `waitingObjectsThreadMap`.
* `Allocator_proofs`: `TypeCorrect`, `ItemsOnce`, `PagesAreMapped`, `ReferencesCounted`, `KeptInOnePlace`,
  `RecycledBounded`.  The references to a block are counted as a set of tags: one for each item in
  use, one for each thread that holds the block, one for the list that keeps it.  Each step adds a tag, removes
  one, or turns one into another, and so moves `ref_count` by as much: that is `RefsExact`.  `PlaceInv` says what a
  thread holds at each of its places, `BitsInv` that an item in use has its bit, `FreeInv` that a block is freed
  by one thread, after its last reference.
* `Warp_proofs`: `TypeCorrect`, `WarpRestriction`, `WarpIsStrand`, `SuspensionsCounted` and
  `ParallelTasksExclude`, with and without a delayed
  store.  `OwnerInv` says that whoever takes itself to be on the warp is its owner,
  `TaskInv` that a thread has a task exactly in the places where it is inside one.  Exclusion
  follows from `OwnerInv`, since there is one owner.  For the refinement each action is a
  step of `Strand` or a stutter: `StartTask` is `Start`, because the scanning thread owns
  the warp and has no task, so nobody runs one; `EndTask` and `YieldInTask` are `Stop` or,
  after an earlier yield, a stutter.  For the parallel tasks `PlaceInv` says who suspends,
  `SuspendExact` that the suspend count is the number of those who did, and `ExclusionInv` that an
  ordinary task runs only when there are none.
* `Worker_proofs`: `TypeCorrect`, `TasksOnce`, `JoinLeavesNothing`, `JoinFindsNobody`, `NeverSleepsOverWork`.
  `PlaceInv` says at which head an actor is in each of its places, and that it has something in its hands there
  and nowhere else; `OnceInv` that no two lists share a task and that they and the tasks run are all that were
  queued, which the lemmas `Added`, `Shifted`, `Handed` and `Done` keep for each way a task moves.
  `CountInv` says that the two counters count threads, but for the delayed increments; `SleepInv` who has the
  mutex and who waits for the condition; `JoinInv` what `main` has found when it comes to an end, so that
  a pass of `cleanup()` that finds nothing leaves nothing.  `NeverSleepsOverWork` needs `WorkInv` as well:
  for every task somebody is about to look where it is, was notified, or is about to notify somebody.
  A signal that wakes nobody is harmless as some thread does not wait then: the counter would be above the
  priority and the limit if all waited, one of them perhaps not yet counted.  That is the hypothesis
  `Notifiable`, and not a gap of the proof: `queue()` leaves as many threads asleep as the priority of the
  task and `limit_count` say, so without it all may sleep over a task of a low priority.
* `Dispatcher_proofs`: `AcyclicPasses`, `Inductive`, `OrderWhileRunning`, `OrderIsRespected`, `CompletionIsLast`.
  `AcyclicPasses` is about the graph alone: the search behind `validate` ends with the least closed set around its
  start (`ReachStarts`, `ReachLeast`, `ReachClosed`; where induction would be used, a least counterexample
  is), and of the routines it leaves out, the one that leads to most has a predecessor that leads to more.
  For the rounds, `StageOk` says in which of four stages a routine is: blocked, with a lock count that is
  the number of those who have yet to unlock it (`Owes`: `flush`, its predecessors, each `resume`); in the hands of
  the one who dispatches it; marked after an exception; dispatched, when nobody owes it anything.  So it
  runs once, after those before it.  `suspend` keeps this because what a running routine leads to is blocked, by
  it or by something that is.  `MarkInv` says that a marked routine will be found by `resurrect`, `CountInv` what
  `pending_count` counts.  Whoever takes it to 0 finds nobody else at work; of the routines still blocked one would
  wait for none of the others (`NoCircle`, which `order` keeps), and so for nobody: there is none (`AllDone`).
  Two hypotheses matter, and both are flaws of the code, not gaps of the proof.  With `ResumeFails`
  (see "More shows") `pending_count` is one too low.  With circles (`Cyclic`) a routine may be blocked at the end, which
  `CompletionIsLast` excludes and `OrderIsRespected` after the end of a round; `OrderWhileRunning` holds for them too.
* `Coroutines_proofs`: `Inductive`, `NobodyLeft`, `PipeKeepsBalance`, `PassTogether`, `ResumedOnlyOnce`,
  `ReturnsHome`.  None of the promises is inductive, as a coroutine is sometimes a closure, sometimes a
  handle in a list and sometimes on its way from one to the other.  `UniqueInv` says that it is one of these
  at a time, `HomeInv` that all of them name the place it started from, `KindInv` which closures a program has.
  For a pipe the numbers follow, since `emplace` and `await` each move one counter and one list by one.
  For a barrier, whose coroutines may be anywhere, `BarrierInv` follows its places.  A place is `Taken` from when its index
  is drawn until it is released, and a coroutine `Sits` in it, be it with a handle (`Parked`) or on its way to store
  it.  As long as no handle was dispatched early, no two sit in one place and none in two, so that when all places are
  taken all coroutines have come: a pigeonhole argument (`Seated`, `Everybody`, `Room`).  The number g is how often the
  barrier has opened: each coroutine has come g or g + 1 times and passed g or g - 1 times, and who has which is told
  by whether it is `Arriving` or `Passing`.  `BarrierHome` is what remains once a handle was dispatched early, and gives the
  second half of `BarrierOrderly`: on one warp nobody releases while another stores.
  For functions `AwaitInv` follows the threads of one awaitable: `pending` is the number of functions
  yet to be queued or counted (`Open`), those done are those yet neither queued nor run, and the coroutine
  itself runs only when nothing is open.  It holds for any number of awaits of a coroutine until that overtakes a loop of
  its own; the thread of the coroutine makes no step of that kind while it is the loop.
  `ResumedOnce` needs of this only `LoneInv`, which holds for those that have as well: a thread enters
  the coroutine when it takes `pending` from 1 to 0, and `pending` is above 0 only after the thread that was in it
  has suspended.

Only model-checked: `QueueList` with its refinement of `FIFO`, `Tree`, and all liveness, which is out
of the prover's reach.  `Tree` is written with recursive operators, which the prover does not take.  Worth proving next: that `QueueList` implements
`FIFO`, for which one needs the elements between the two ends as a sequence over the nodes, and what a reader of
`push_count` may conclude from it while the producer goes on.

## Not modelled

* Entity components (`grid_system.h`) and buffers (`grid_buffer.h`): sequential containers, mostly
  templates over types; order and timing decide nothing in them.  The tracer does not use the first; of the
  second it has arrays that one thread owns, which `HostState` has as sets.
* The event list of a thread (`Record`, `Cleanup`) and `UpdateVisualizeData`: one warp fills, cleans up and reads a sorted
  list; nothing under `src/` calls the latter.
* The balancer: `up` and `down` change the limit of a worker, which is a constant of `Worker`; nothing calls
  them but the demos.
* Nested warps on one thread, the warp's variant with a mutex around a buffer, and the life of a warp
  (moving, destruction): `Warp` has one warp that is there from the first step to the last.
* Exceptions of tasks, except where the dispatcher handles them.
* Exemption, the wait callback, ejection, and how hooks are written: patching of machine code and calls of
  Win32, with no state that outlives a call but a flag in TLS.  `SharedSection` has when hooks come and go, not
  the host's worker, which `Initialize` starts and `Uninitialize` terminates.
* Memory orders: the atomics are sequentially consistent but for the two stores named above, in `Warp` and `Worker`.
* Drawing, names of threads and libraries, demos and build files.
