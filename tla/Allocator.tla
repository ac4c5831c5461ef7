-------------------------------- MODULE Allocator --------------------------------
(***************************************************************************)
(* grid_allocator_t: items carved from blocks (control_block_t), each with *)
(* a bitmap of the items in use and a count of references, cached in a few *)
(* slots and in a list of recycled blocks; and grid_root_allocator_t, from *)
(* which blocks come as pages of larger chunks, under a mutex.             *)
(*                                                                         *)
(* A reference to a block is held by every item in use, by the thread that *)
(* is allocating from it, and by the slot or the list that keeps it.  Each *)
(* atomic operation is a step; what the mutex protects is one step.  A     *)
(* bitmap is one word: with several, allocate() goes on to the next word   *)
(* where a thread here gives the block up after it lost a bit.             *)
(***************************************************************************)
EXTENDS Integers, Sequences, FiniteSets, SequencesExt, FiniteSetsExt

CONSTANTS
  Threads,
  Items,        \* items of a block, item_count - offset
  Bits,         \* bits of its bitmap, of which those from Items on stand for nothing
  Slots,        \* w: control_blocks
  Recycled,     \* r: blocks beyond which none is recycled
  Pages,        \* total_count: blocks of a chunk
  MaxChunks,    \* bound: chunks at once
  MaxInUse      \* bound: items in use at once

ASSUME AllocatorAssumption ==
  /\ Items \in Nat \ {0} /\ Bits \in Nat /\ Bits >= Items /\ Slots \in Nat \ {0}
  /\ Recycled \in Nat \ {0} /\ Pages \in Nat \ {0} /\ MaxChunks \in Nat /\ MaxInUse \in Nat
  /\ IsFiniteSet(Threads)

Blocks == (1 .. MaxChunks) \X (0 .. Pages - 1)
NoBlock == <<0, 0>>
NoItem == -1

VARIABLES
  chunks,          \* the chunks there are
  pages,           \* of each, the bitmap of pages in use
  block,           \* the control block at the head of each page
  control_blocks, recycled, recycle_count,
  th,              \* what each thread is doing, to which block and item
  inUse            \* items handed out, by block
root  == <<chunks, pages>>
cache == <<control_blocks, recycled, recycle_count>>
vars  == <<root, block, cache, th, inUse>>

Idle == [pc |-> "idle", op |-> "none", p |-> NoBlock, item |-> NoItem, n |-> 1, rest |-> <<>>]

Fresh == [ref_count |-> 1, managed |-> 0, bitmap |-> {}]

Init ==
  /\ chunks = {} /\ pages = [c \in 1 .. MaxChunks |-> {}]
  /\ block = [b \in Blocks |-> [Fresh EXCEPT !.ref_count = 0]]
  /\ control_blocks = [n \in 1 .. Slots |-> NoBlock] /\ recycled = <<>> /\ recycle_count = 0
  /\ th = [t \in Threads |-> Idle] /\ inUse = [b \in Blocks |-> {}]

At(t, pc)  == th[t].pc = pc
Mine(t)    == block[th[t].p]
Go(t, pc)  == th' = [th EXCEPT ![t].pc = pc]
Set(t, f, v) == block' = [block EXCEPT ![th[t].p][f] = v]

\* allocate() has its item and returns; full or freed, it looks for another block.
Done(t) ==
  /\ th' = [th EXCEPT ![t] =
       IF th[t].op = "allocate" /\ th[t].item = NoItem
       THEN [Idle EXCEPT !.pc = "slot", !.op = "allocate"] ELSE Idle]
  /\ inUse' = IF th[t].op = "allocate" /\ th[t].item # NoItem
              THEN [inUse EXCEPT ![th[t].p] = @ \cup {th[t].item}] ELSE inUse

-----------------------------------------------------------------------------
(* allocate: find a block *)

InUse == Cardinality({t \in Threads : th[t].op = "allocate"})
         + MapThenSumSet(LAMBDA b : Cardinality(inUse[b]), Blocks)

allocate(t) ==
  /\ At(t, "idle") /\ InUse < MaxInUse
  /\ th' = [th EXCEPT ![t] = [Idle EXCEPT !.pc = "slot", !.op = "allocate"]]
  /\ UNCHANGED <<root, block, cache, inUse>>

TakeSlot(t) ==               \* control_blocks[n].exchange(nullptr)
  LET n == th[t].n
  IN  /\ At(t, "slot")
      /\ control_blocks' = [control_blocks EXCEPT ![n] = NoBlock]
      /\ th' = [th EXCEPT ![t] =
           IF control_blocks[n] # NoBlock
           THEN [@ EXCEPT !.pc = "unmanage", !.p = control_blocks[n]]
           ELSE IF n = Slots THEN [@ EXCEPT !.pc = "recycled"] ELSE [@ EXCEPT !.n = n + 1]]
      /\ UNCHANGED <<root, block, recycled, recycle_count, inUse>>

TakeRecycled(t) ==           \* recycled_head.exchange(nullptr): the whole list
  /\ At(t, "recycled") /\ recycled' = <<>>
  /\ th' = [th EXCEPT ![t] =
       IF recycled = <<>> THEN [@ EXCEPT !.pc = "root"]
       ELSE [@ EXCEPT !.pc = "putback", !.p = Head(recycled), !.rest = Tail(recycled)]]
  /\ UNCHANGED <<root, block, control_blocks, recycle_count, inUse>>

PutBack(t) ==                \* the rest in one go, if the list is still empty
  /\ At(t, "putback")
  /\ IF recycled = <<>> \/ th[t].rest = <<>>
     THEN /\ recycled' = recycled \o th[t].rest
          /\ th' = [th EXCEPT ![t].pc = "uncount", ![t].rest = <<>>]
     ELSE recycled' = recycled /\ Go(t, "putone")
  /\ UNCHANGED <<root, block, control_blocks, recycle_count, inUse>>

PutOne(t) ==                 \* or one after the other
  /\ At(t, "putone") /\ recycled' = <<Head(th[t].rest)>> \o recycled
  /\ th' = [th EXCEPT ![t].pc = IF Len(th[t].rest) = 1 THEN "uncount" ELSE "putone",
                      ![t].rest = Tail(@)]
  /\ UNCHANGED <<root, block, control_blocks, recycle_count, inUse>>

Uncount(t) ==
  /\ At(t, "uncount") /\ recycle_count' = recycle_count - 1 /\ Go(t, "unmanage")
  /\ UNCHANGED <<root, block, control_blocks, recycled, inUse>>

Unmanage(t) ==
  /\ At(t, "unmanage") /\ Set(t, "managed", 0) /\ Go(t, "search")
  /\ UNCHANGED <<root, cache, inUse>>

NewBlock(t, b) ==
  /\ pages' = [pages EXCEPT ![b[1]] = @ \cup {b[2]}]
  /\ block' = [block EXCEPT ![b] = Fresh]
  /\ th' = [th EXCEPT ![t].pc = "search", ![t].p = b]

\* grid_root_allocator_t::allocate: the first page of a chunk, or a new chunk.
RootAllocate(t) ==
  LET open == {c \in chunks : Cardinality(pages[c]) < Pages}
  IN  /\ At(t, "root")
      /\ IF open = {} THEN Go(t, "grow") /\ UNCHANGED <<pages, block>>
         ELSE \E c \in open : NewBlock(t, <<c, Min((0 .. Pages - 1) \ pages[c])>>)
      /\ UNCHANGED <<chunks, cache, inUse>>
RootGrow(t) ==
  /\ At(t, "grow") /\ Cardinality(chunks) < MaxChunks
  /\ LET c == Min((1 .. MaxChunks) \ chunks) IN chunks' = chunks \cup {c} /\ NewBlock(t, <<c, 0>>)
  /\ UNCHANGED <<cache, inUse>>

-----------------------------------------------------------------------------
(* allocate: find an item *)

Search(t) ==                 \* the lowest bit that is clear
  LET clear == (0 .. Bits - 1) \ Mine(t).bitmap
  IN  /\ At(t, "search")
      /\ th' = [th EXCEPT ![t] = IF clear = {} THEN [@ EXCEPT !.pc = "drop"]
                                ELSE [@ EXCEPT !.pc = "claim", !.item = Min(clear)]]
      /\ UNCHANGED <<root, block, cache, inUse>>

\* Definitions with the word Wrong are mutations: the mistake in the definition they
\* precede that the property named with them would reveal.

\* NoDoubleAllocation: what fetch_or returns is not looked at.
WrongWon(t) == th[t].item < Items
Won(t) == th[t].item \notin Mine(t).bitmap /\ th[t].item < Items

Claim(t) ==                  \* fetch_or: another thread may have been faster
  /\ At(t, "claim") /\ Set(t, "bitmap", Mine(t).bitmap \cup {th[t].item})
  /\ th' = [th EXCEPT ![t] = IF Won(t) THEN [@ EXCEPT !.pc = "count"]
                            ELSE [@ EXCEPT !.pc = "drop", !.item = NoItem]]
  /\ UNCHANGED <<root, cache, inUse>>

Count(t) ==
  /\ At(t, "count") /\ Set(t, "ref_count", Mine(t).ref_count + 1) /\ Go(t, "recycle")
  /\ UNCHANGED <<root, cache, inUse>>

-----------------------------------------------------------------------------
(* deallocate, recycle and try_free *)

deallocate(t) ==
  \E b \in Blocks : \E i \in inUse[b] :
    /\ At(t, "idle")
    /\ inUse' = [inUse EXCEPT ![b] = @ \ {i}]
    /\ th' = [th EXCEPT ![t] = [Idle EXCEPT !.pc = "clear", !.op = "deallocate", !.p = b, !.item = i]]
    /\ UNCHANGED <<root, block, cache>>

Clear(t) ==
  /\ At(t, "clear") /\ Set(t, "bitmap", Mine(t).bitmap \ {th[t].item}) /\ Go(t, "recycle")
  /\ UNCHANGED <<root, cache, inUse>>

recycle(t) ==
  /\ At(t, "recycle")
  /\ Go(t, IF Mine(t).managed = 0 /\ recycle_count < Recycled THEN "manage" ELSE "drop")
  /\ UNCHANGED <<root, block, cache, inUse>>

Manage(t) ==                 \* managed.exchange(1): one thread gets to keep the block
  /\ At(t, "manage") /\ Set(t, "managed", 1)
  /\ th' = [th EXCEPT ![t].pc = IF Mine(t).managed = 0 THEN "put" ELSE "drop", ![t].n = 1]
  /\ UNCHANGED <<root, cache, inUse>>

PutSlot(t) ==                \* into a slot that is free, or into the list
  /\ At(t, "put") /\ control_blocks[th[t].n] = NoBlock
  /\ control_blocks' = [control_blocks EXCEPT ![th[t].n] = th[t].p]
  /\ Done(t) /\ UNCHANGED <<root, block, recycled, recycle_count>>
NextSlot(t) ==
  /\ At(t, "put") /\ control_blocks[th[t].n] # NoBlock
  /\ IF th[t].n < Slots THEN th' = [th EXCEPT ![t].n = @ + 1] /\ UNCHANGED recycle_count
     ELSE Go(t, "push") /\ recycle_count' = recycle_count + 1
  /\ UNCHANGED <<root, block, control_blocks, recycled, inUse>>
Push(t) ==
  /\ At(t, "push") /\ recycled' = <<th[t].p>> \o recycled
  /\ Done(t) /\ UNCHANGED <<root, block, control_blocks, recycle_count>>

try_free(t) ==
  /\ At(t, "drop") /\ Set(t, "ref_count", Mine(t).ref_count - 1)
  /\ IF Mine(t).ref_count = 1 THEN Go(t, "free") /\ UNCHANGED inUse ELSE Done(t)
  /\ UNCHANGED <<root, cache>>

\* InUseIsMapped: the chunk goes with any of its pages.
WrongRootDeallocate(t) ==
  LET b == th[t].p
  IN  /\ At(t, "free")
      /\ pages' = [pages EXCEPT ![b[1]] = @ \ {b[2]}]
      /\ chunks' = chunks \ {b[1]}
      /\ Done(t) /\ UNCHANGED <<block, cache>>

\* grid_root_allocator_t::deallocate: the page, and the chunk if it was the last.
RootDeallocate(t) ==
  LET b == th[t].p
      left == pages[b[1]] \ {b[2]}
  IN  /\ At(t, "free")
      /\ pages' = [pages EXCEPT ![b[1]] = left]
      /\ chunks' = IF left = {} THEN chunks \ {b[1]} ELSE chunks
      /\ Done(t) /\ UNCHANGED <<block, cache>>

-----------------------------------------------------------------------------
Thread(t) ==
  \/ allocate(t) \/ TakeSlot(t) \/ TakeRecycled(t) \/ PutBack(t) \/ PutOne(t) \/ Uncount(t)
  \/ Unmanage(t) \/ RootAllocate(t) \/ RootGrow(t) \/ Search(t) \/ Claim(t) \/ Count(t)
  \/ deallocate(t) \/ Clear(t) \/ recycle(t) \/ Manage(t) \/ PutSlot(t) \/ NextSlot(t)
  \/ Push(t) \/ try_free(t) \/ RootDeallocate(t)
Next == \E t \in Threads : Thread(t)
Spec == Init /\ [][Next]_vars

-----------------------------------------------------------------------------
(* What the allocator promises *)

ThreadState ==
  [pc : {"idle", "slot", "recycled", "putback", "putone", "uncount", "unmanage", "root", "grow", "search",
         "claim", "count", "clear", "recycle", "manage", "put", "push", "drop", "free"},
   op : {"none", "allocate", "deallocate"}, p : Blocks \cup {NoBlock},
   item : (0 .. Bits - 1) \cup {NoItem}, n : 1 .. Slots, rest : Seq(Blocks)]
TypeOK ==
  /\ chunks \subseteq 1 .. MaxChunks /\ pages \in [1 .. MaxChunks -> SUBSET (0 .. Pages - 1)]
  /\ block \in [Blocks -> [ref_count : Nat, managed : {0, 1}, bitmap : SUBSET (0 .. Bits - 1)]]
  /\ control_blocks \in [1 .. Slots -> Blocks \cup {NoBlock}]
  /\ recycled \in Seq(Blocks) /\ recycle_count \in Nat
  /\ th \in [Threads -> ThreadState]
  /\ inUse \in [Blocks -> SUBSET (0 .. Items - 1)]

\* Items on their way: won but not yet handed out, or given back but not yet clear.
Owns(t) == th[t].item # NoItem /\ ~At(t, "claim")
           /\ (th[t].op = "deallocate" => At(t, "clear"))

(* No item is handed out twice: the items in use and those a thread is about to    *)
(* hand out or to clear are different ones, and their bits are set.                *)
NoDoubleAllocation ==
  \A t \in Threads : Owns(t) =>
    /\ th[t].item \notin inUse[th[t].p] /\ th[t].item \in Mine(t).bitmap
    /\ \A u \in Threads \ {t} : Owns(u) => <<th[u].p, th[u].item>> # <<th[t].p, th[t].item>>

(* Pages and blocks agree: a page is in use as long as its block has a reference,   *)
(* no block is lost, and a chunk is there as long as one of its pages is in use.    *)
InUseIsMapped ==
  /\ \A b \in Blocks :
       b[2] \in pages[b[1]] <=> block[b].ref_count > 0 \/ \E t \in Threads : th[t].p = b /\ At(t, "free")
  /\ \A c \in 1 .. MaxChunks : c \in chunks <=> pages[c] # {}

\* Who keeps a block: a slot, the list, a thread that has part of the list, or one that
\* takes the block out or puts it in.
InSlot(n, b) == control_blocks[n] = b
InList(b)    == b \in ToSet(recycled)
InRest(t, b) == b \in ToSet(th[t].rest)
InHand(t, b) == th[t].p = b /\ th[t].pc \in {"putback", "putone", "uncount", "unmanage", "put", "push"}
Kept(b)      == InList(b) \/ (\E n \in 1 .. Slots : InSlot(n, b)) \/ \E t \in Threads : InRest(t, b)

AtMostOnce(b) ==
  /\ \A n, m \in 1 .. Slots : InSlot(n, b) /\ InSlot(m, b) => n = m
  /\ \A n \in 1 .. Slots : InSlot(n, b) => ~InList(b) /\ \A t \in Threads : ~InRest(t, b) /\ ~InHand(t, b)
  /\ InList(b) => \A t \in Threads : ~InRest(t, b) /\ ~InHand(t, b)
  /\ \A t, u \in Threads :
       /\ ~(InRest(t, b) /\ InHand(u, b))
       /\ InRest(t, b) /\ InRest(u, b) => t = u
       /\ InHand(t, b) /\ InHand(u, b) => t = u

(* assert(p->managed == 1) and assert(p->next == nullptr): a block is kept in one   *)
(* place at most, and marked.                                                       *)
KeptOnce ==
  /\ IsInjective(recycled) /\ \A t \in Threads : IsInjective(th[t].rest)
  /\ \A b \in Blocks :
       AtMostOnce(b) /\ (Kept(b) \/ (\E t \in Threads : InHand(t, b)) => block[b].managed = 1)

(* The references to a block are counted: by its items in use or being handed out,  *)
(* by the threads that hold it and by what keeps it.  So a block is freed by the    *)
(* last one, once, and not under an item in use.                                    *)
HandsOut(t) == th[t].op = "allocate" /\ th[t].item # NoItem /\ ~At(t, "claim") /\ ~At(t, "count")
Holds(t, b) == th[t].p = b /\ ~At(t, "free")
Out(b, i)   == i \in inUse[b] \/ \E t \in Threads : HandsOut(t) /\ th[t].p = b /\ th[t].item = i
Tags        == ({"item"} \X (0 .. Items - 1)) \cup ({"thread"} \X Threads) \cup {<<"kept", 0>>}
Refers(r, b) == CASE r[1] = "item"   -> Out(b, r[2])
                  [] r[1] = "thread" -> Holds(r[2], b)
                  [] r[1] = "kept"   -> Kept(b)
Refs(b)     == {r \in Tags : Refers(r, b)}
RefsExact   == \A b \in Blocks : block[b].ref_count = Cardinality(Refs(b))

(* The limit on recycled blocks is tested before they are counted, by each thread   *)
(* on its own: there may be as many too many as there are other threads, no more.   *)
Listed   == {b \in Blocks : InList(b) \/ \E t \in Threads : InRest(t, b)}
Counts   == {t \in Threads : th[t].pc \in {"putback", "putone", "uncount", "push"}}
Putting  == {t \in Threads : th[t].pc \in {"manage", "put"}}
RecycledIsBounded ==
  /\ recycle_count = Cardinality(Listed) + Cardinality(Counts)
  /\ recycle_count + Cardinality(Putting) < Recycled + Cardinality(Threads)

-----------------------------------------------------------------------------
(* What makes these promises inductive, besides each other: where a thread has a    *)
(* block, an item or a rest of the list, that bits of items in use are set, and     *)
(* that a block is given back by one thread, when nothing refers to it.             *)

PlaceOk(t) ==
  /\ At(t, "idle") => th[t] = Idle
  /\ (th[t].p = NoBlock) <=> (th[t].pc \in {"idle", "slot", "recycled", "root", "grow"})
  /\ th[t].pc \in {"slot", "recycled", "root", "grow", "putback", "putone", "uncount", "unmanage",
                  "search"} => th[t].item = NoItem
  /\ th[t].pc \in {"slot", "recycled", "root", "grow", "putback", "putone", "uncount", "unmanage",
                  "search", "claim", "count"} => th[t].op = "allocate"
  /\ th[t].pc \in {"claim", "count", "clear", "recycle", "manage", "put", "push"} => th[t].item # NoItem
  /\ th[t].pc \in {"count", "clear", "recycle", "manage", "put", "push", "drop", "free"}
         => th[t].item < Items /\ th[t].op # "none"
  /\ At(t, "clear") => th[t].op = "deallocate"
  /\ th[t].op = "deallocate" => th[t].item # NoItem
  /\ th[t].rest # <<>> => th[t].pc \in {"putback", "putone"}
  /\ At(t, "putone") => th[t].rest # <<>>
PlaceInv == \A t \in Threads : PlaceOk(t)
BitsInv == \A b \in Blocks : inUse[b] \subseteq block[b].bitmap
FreeInv ==
  \A t \in Threads : At(t, "free") =>
    /\ block[th[t].p].ref_count = 0 /\ (th[t].op = "allocate" => th[t].item = NoItem)
    /\ \A u \in Threads \ {t} : At(u, "free") => th[u].p # th[t].p
IInv == /\ TypeOK /\ PlaceInv /\ BitsInv /\ FreeInv /\ KeptOnce /\ RefsExact
        /\ NoDoubleAllocation /\ InUseIsMapped /\ RecycledIsBounded
=============================================================================
