-------------------------------- MODULE QueueList --------------------------------
(***************************************************************************)
(* grid_queue_list_t: a queue for one producer and one consumer, a list of *)
(* rings (grid_queue_t) of BlockSize elements, with no lock and no atomic  *)
(* read-modify-write; and grid_queue_frame_t, which hands the elements     *)
(* over in frames.                                                         *)
(*                                                                         *)
(* Elements are numbered in the order in which they are pushed.  Each step *)
(* of the producer or the consumer reads or writes what the other one      *)
(* writes or reads at most once, and the fences of push and pop order what *)
(* is left: an element is stored before push_count counts it.              *)
(***************************************************************************)
EXTENDS Integers, Sequences, FiniteSets, SequencesExt, FiniteSetsExt

CONSTANTS
  BlockSize,     \* element_count
  CounterLimit,  \* at which counters start again at 0, counter_limit or 2^64
  MaxPush,       \* bound: elements pushed
  MaxBatch,      \* bound: elements of one push(from, to), pop(from, to) or pop(n)
  MaxNodes,      \* bound: nodes in the list at once
  MaxFrames,     \* bound: frames released and not yet acquired
  MaxStall       \* elements pushed while pop() is between its two tests of the node

\* The tests pop() makes of the node, empty() and then pop_head != push_head, are two
\* reads.  Were a block filled between them, pop() would free it with what is in it:
\* IsFIFO holds for MaxStall < BlockSize only.
ASSUME QueueAssumption ==
  /\ BlockSize \in Nat \ {0} /\ CounterLimit % BlockSize = 0 /\ CounterLimit > BlockSize
  /\ MaxPush \in Nat /\ MaxBatch \in Nat /\ MaxNodes \in Nat \ {0} /\ MaxFrames \in Nat
  /\ MaxStall \in Nat

NoElement == 0

VARIABLES
  nodes,             \* the list, from pop_head on
  freed,             \* nodes freed: the k-th of the list is the (freed + k)-th allocated
  push_head,         \* by its number, as every reference to a node
  iterator_counter,
  barrier, frames,   \* of the grid_queue_frame_t
  framed,            \* the consumer uses the frames
  producer, consumer,
  pushed,            \* elements pushed so far
  got                \* what the consumer took out last
list  == <<nodes, freed, push_head, iterator_counter>>
frame == <<barrier, frames>>
vars  == <<list, frame, framed, producer, consumer, pushed, got>>

-----------------------------------------------------------------------------
(* grid_queue_t: counters run on, and count modulo BlockSize places *)

step_counter(count, delta) == (count + delta) % CounterLimit
diff_counter(lhs, rhs)     == (lhs - rhs) % CounterLimit

NewNode(init) == [push_count |-> init, pop_count |-> init, init |-> init,
                  ring_buffer |-> [i \in 0 .. BlockSize - 1 |-> NoElement]]
\* Definitions with the word Wrong are mutations: the mistake in the definition they
\* precede that the property named with them would reveal.

full(n)  == step_counter(n.pop_count, BlockSize) = n.push_count
empty(n) == n.pop_count = n.push_count
size(n)  == diff_counter(n.push_count, n.pop_count)

\* IsFIFO: one element too many.
Wrongroom(n) == BlockSize - size(n) + 1
room(n)  == BlockSize - size(n)
get(n, index) == n.ring_buffer[index % BlockSize]
Peek(n, k) == [i \in 1 .. k |-> get(n, step_counter(n.pop_count, i - 1))]

Head1     == nodes[1]                     \* pop_head
At(id)    == id - freed
PushNode  == nodes[At(push_head)]
Contents  == FlattenSeq([k \in DOMAIN nodes |-> Peek(nodes[k], size(nodes[k]))])
PopHead   == freed + 1

Idle == [pc |-> "idle", left |-> 0, n |-> 0, batch |-> FALSE]
Rest == [pc |-> "idle", op |-> "none", left |-> 0, m |-> 0, stall |-> 0]

Init ==
  /\ nodes = <<NewNode(0)>> /\ freed = 0 /\ push_head = 1
  /\ iterator_counter = BlockSize
  /\ barrier = [node |-> 1, it |-> 0, upto |-> 0] /\ frames = <<>> /\ framed \in BOOLEAN
  /\ producer = Idle /\ consumer = Rest /\ pushed = 0 /\ got = <<>>

-----------------------------------------------------------------------------
(* The producer *)

Producing(pc) == producer.pc = pc /\ UNCHANGED <<freed, frame, framed, got>>
ConsumerSame  == UNCHANGED consumer

push ==                          \* push(t)
  /\ Producing("idle") /\ pushed < MaxPush
  /\ producer' = [Idle EXCEPT !.pc = "preserve", !.left = 1]
  /\ UNCHANGED <<nodes, push_head, iterator_counter, pushed>> /\ ConsumerSame

push_range(k) ==                 \* push(from, to)
  /\ Producing("idle") /\ pushed + k <= MaxPush
  /\ producer' = [pc |-> "fill", left |-> k, n |-> 0, batch |-> TRUE]
  /\ UNCHANGED <<nodes, push_head, iterator_counter, pushed>> /\ ConsumerSame

\* preserve(): chain a new node at the head when the present one is full.
preserve ==
  /\ Producing("preserve")
  /\ IF full(PushNode)
     THEN /\ Len(nodes) < MaxNodes
          /\ nodes' = Append(nodes, NewNode(iterator_counter))
          /\ iterator_counter' = step_counter(iterator_counter, BlockSize)
          /\ producer' = [producer EXCEPT !.pc = "advance"]
     ELSE /\ producer' = [producer EXCEPT !.pc = "fill"]
          /\ UNCHANGED <<nodes, iterator_counter>>
  /\ UNCHANGED <<push_head, pushed>> /\ ConsumerSame

advance ==                       \* push_head = p
  /\ Producing("advance")
  /\ push_head' = push_head + 1 /\ producer' = [producer EXCEPT !.pc = "fill"]
  /\ UNCHANGED <<nodes, iterator_counter, pushed>> /\ ConsumerSame

\* Store as many elements as there is room for.  push(from, to) ends when there is none,
\* even if nothing was pushed.
fill ==
  LET n == Min({producer.left, room(PushNode)})
      at(i) == (PushNode.push_count + i) % BlockSize
  IN  /\ Producing("fill")
      /\ IF n = 0 THEN producer' = Idle /\ UNCHANGED nodes
         ELSE /\ producer' = [producer EXCEPT !.pc = "publish", !.n = n]
              /\ nodes' = [nodes EXCEPT ![At(push_head)].ring_buffer =
                   [i \in DOMAIN @ |-> IF \E j \in 0 .. n - 1 : at(j) = i
                      THEN pushed + 1 + (CHOOSE j \in 0 .. n - 1 : at(j) = i) ELSE @[i]]]
      /\ UNCHANGED <<push_head, iterator_counter, pushed>> /\ ConsumerSame

\* push_count is stored.  Neither the compiler nor x86 moves it before the elements.
publish ==
  /\ Producing("publish")
  /\ consumer.pc = "same" => consumer.stall + producer.n <= MaxStall
  /\ nodes' = [nodes EXCEPT ![At(push_head)].push_count = step_counter(@, producer.n)]
  /\ pushed' = pushed + producer.n
  /\ producer' = IF producer.batch
                 THEN [producer EXCEPT !.pc = "preserve", !.left = @ - producer.n, !.n = 0]
                 ELSE Idle
  /\ consumer' = IF consumer.pc = "same"
                 THEN [consumer EXCEPT !.stall = @ + producer.n] ELSE consumer
  /\ UNCHANGED <<push_head, iterator_counter>>

-----------------------------------------------------------------------------
(* The consumer *)

Consuming(pc) ==
  /\ consumer.pc = pc
  /\ UNCHANGED <<push_head, iterator_counter, framed, producer, pushed>>

Drop(k) == nodes' = [nodes EXCEPT ![1].pop_count = step_counter(@, k)]

pop ==                           \* after empty(): top() and pop()
  /\ Consuming("idle") /\ ~framed /\ ~empty(Head1)
  /\ got' = Peek(Head1, 1) /\ Drop(1)
  /\ consumer' = [Rest EXCEPT !.pc = "empty", !.op = "pop"]
  /\ UNCHANGED <<freed, frame>>

pop_many(op, k) ==               \* pop(n), and pop(from, to), which waits for the last
  /\ Consuming("idle") /\ ~framed
  /\ consumer' = [Rest EXCEPT !.pc = "take", !.op = op, !.left = k]
  /\ UNCHANGED <<nodes, freed, frame, got>>

\* pop(n) takes what the node has and then tests the node; pop(from, to) tests it when
\* there was nothing to take.
take ==
  LET m == Min({consumer.left, size(Head1)})
  IN  /\ Consuming("take")
      /\ got' = Peek(Head1, m) /\ Drop(m)
      /\ consumer' =
           IF consumer.op = "range" /\ m > 0
           THEN [consumer EXCEPT !.left = @ - m]
           ELSE [consumer EXCEPT !.pc = "empty", !.m = m]
      /\ UNCHANGED <<freed, frame>>

\* What follows the test of the node: pop(n) goes on only if the node was freed.
After(removed) ==
  CASE consumer.op = "range" /\ consumer.left > 0 ->
         [consumer EXCEPT !.pc = "take", !.m = 0, !.stall = 0]
    [] consumer.op \in {"n", "frame"} /\ removed /\ consumer.left > consumer.m ->
         [consumer EXCEPT !.pc = "take", !.left = @ - consumer.m, !.m = 0, !.stall = 0]
    [] consumer.op = "frame" /\ ~(removed /\ consumer.left > consumer.m) ->
         [Rest EXCEPT !.pc = "frame"]
    [] OTHER -> Rest

test_empty ==                    \* pop_head->empty()
  /\ Consuming("empty")
  /\ consumer' = IF empty(Head1) THEN [consumer EXCEPT !.pc = "same"] ELSE After(FALSE)
  /\ UNCHANGED <<nodes, freed, frame, got>>

test_same ==                     \* pop_head != push_head: free the node
  /\ Consuming("same")
  /\ consumer' = After(PopHead # push_head)
  /\ IF PopHead # push_head THEN nodes' = Tail(nodes) /\ freed' = freed + 1
     ELSE UNCHANGED <<nodes, freed>>
  /\ UNCHANGED <<frame, got>>

\* reset(0), by the only thread that uses the list: keep the first node.
reset ==
  /\ consumer.pc = "idle" /\ ~framed /\ producer.pc = "idle"
  /\ nodes' = <<[Head1 EXCEPT !.push_count = 0, !.pop_count = 0, !.init = 0]>>
  /\ push_head' = PopHead /\ iterator_counter' = BlockSize /\ got' = Contents
  /\ UNCHANGED <<freed, frame, framed, producer, consumer, pushed>>

-----------------------------------------------------------------------------
(* grid_queue_frame_t and iterators.  A position is a node and an index; upto, the *)
(* last element pushed before it, is a note of the model.                          *)

EndPosition == [node |-> push_head, it |-> PushNode.push_count, upto |-> pushed]
LastFrame   == IF frames = <<>> THEN barrier ELSE Last(frames)

\* FrameExact: nodes before the last are not counted.
WrongDistance(p) == diff_counter(p.it, nodes[At(p.node)].pop_count)

\* iterator - begin().  A node that has been freed is in no list.
Distance(p) ==
  MapThenSumSet(LAMBDA k : size(nodes[k]), 1 .. At(p.node) - 1)
    + diff_counter(p.it, nodes[At(p.node)].pop_count)

\* IterationExact: the next node is entered one step late.
Wrongstep(p) ==
  LET k == At(p.node)
  IN  IF p.it = nodes[k].push_count /\ k < Len(nodes)
      THEN [node |-> p.node + 1, it |-> nodes[k + 1].pop_count]
      ELSE [node |-> p.node, it |-> step_counter(p.it, 1)]

step(p) ==                       \* iterator::step()
  LET it == step_counter(p.it, 1)
      k  == At(p.node)
  IN  IF it = nodes[k].push_count /\ k < Len(nodes)
      THEN [node |-> p.node + 1, it |-> nodes[k + 1].pop_count]
      ELSE [node |-> p.node, it |-> it]

\* What a loop from begin() to a position sees.  Positions are equal if their indices are.
Visited(end) ==
  LET p[j \in 0 .. MaxPush] ==
        IF j = 0 THEN [node |-> PopHead, it |-> Head1.pop_count] ELSE step(p[j - 1])
      steps == Min({j \in 0 .. MaxPush : p[j].it = end.it} \cup {MaxPush + 1})
  IN  [i \in 1 .. steps |-> get(nodes[At(p[i - 1].node)], p[i - 1].it)]

release ==                       \* a frame has at least one element
  /\ framed /\ Len(frames) < MaxFrames /\ producer.pc = "idle" /\ pushed > LastFrame.upto
  /\ frames' = Append(frames, EndPosition)
  /\ UNCHANGED <<list, barrier, framed, producer, consumer, pushed, got>>

\* acquire() drops the frame before by pop(n).  It is called when a frame was released.
acquire ==
  /\ Consuming("idle") /\ framed /\ frames # <<>>
  /\ consumer' = IF Distance(barrier) = 0 THEN [Rest EXCEPT !.pc = "frame"]
                 ELSE [Rest EXCEPT !.pc = "take", !.op = "frame", !.left = Distance(barrier)]
  /\ UNCHANGED <<nodes, freed, frame, got>>

next_frame ==
  /\ Consuming("frame") /\ frames # <<>>
  /\ barrier' = Head(frames) /\ frames' = Tail(frames) /\ consumer' = Rest
  /\ UNCHANGED <<nodes, freed, got>>

-----------------------------------------------------------------------------
Producer == push \/ (\E k \in 2 .. MaxBatch : push_range(k)) \/ preserve \/ advance
            \/ fill \/ publish \/ release
Consumer == pop \/ (\E k \in 2 .. MaxBatch, op \in {"n", "range"} : pop_many(op, k))
            \/ take \/ test_empty \/ test_same \/ acquire \/ next_frame
Next == Producer \/ Consumer \/ reset
Spec == Init /\ [][Next]_vars

-----------------------------------------------------------------------------
(* What the list promises *)

TypeOK ==
  /\ nodes \in Seq([push_count : 0 .. CounterLimit - 1, pop_count : 0 .. CounterLimit - 1,
        init : 0 .. CounterLimit - 1, ring_buffer : [0 .. BlockSize - 1 -> 0 .. MaxPush]])
  /\ Len(nodes) \in 1 .. MaxNodes /\ At(push_head) \in DOMAIN nodes
  /\ iterator_counter \in 0 .. CounterLimit - 1 /\ pushed \in 0 .. MaxPush

(* Elements come out once each and in order, whatever the two threads read of each *)
(* other's counters and heads, across nodes that are filled, chained and freed.    *)
Queue == INSTANCE FIFO WITH Elements <- 1 .. MaxPush, queue <- Contents
IsFIFO == Queue!Spec

(* After acquire(), the elements from begin() to the barrier are those that were   *)
(* pushed up to the release, and there are some.                                   *)
FrameExact ==
  framed /\ consumer.pc = "idle" =>
    IF barrier.upto = 0 THEN Distance(barrier) = 0
    ELSE Distance(barrier) > 0 /\ Contents[Distance(barrier)] = barrier.upto

(* A loop over the list sees each element once, provided that the first node is    *)
(* not an empty one left in front (see EmptyIsExact) and that no node was filled     *)
(* again after elements were taken from it: its indices run into the next node's.   *)
FilledOnce == \A k \in DOMAIN nodes : diff_counter(nodes[k].push_count, nodes[k].init) <= BlockSize
IterationExact ==
  /\ producer.pc = "idle" /\ consumer.pc = "idle"
  /\ FilledOnce /\ (empty(Head1) => Len(nodes) = 1)
  => Visited(EndPosition) = Contents

(* "current queue is empty, remove it from list": when empty(), which asks the first *)
(* node only, says so, there is nothing in the list.  A warp that finds its buffer   *)
(* empty leaves no task behind.                                                      *)
EmptyIsExact == consumer.pc = "idle" /\ producer.pc = "idle" /\ empty(Head1) => Contents = <<>>
=============================================================================
