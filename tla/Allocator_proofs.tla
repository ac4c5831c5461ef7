---------------------------- MODULE Allocator_proofs ----------------------------
(***************************************************************************)
(* Proofs about module Allocator, for any number of threads, items, slots, *)
(* pages and chunks.                                                       *)
(***************************************************************************)
EXTENDS Allocator, FiniteSetTheorems, WellFoundedInduction, SequenceTheorems, TLAPS

(* The lowest bit and the first page: a set of naturals has a least one.       *)
LEMMA MinIs ==
  ASSUME NEW S, S \subseteq Nat, S # {}
  PROVE  Min(S) \in S
<1> DEFINE T == {0 .. n : n \in S}
           R == StrictSubsetOrdering(Nat)
<1>1. T \subseteq FiniteSubsetsOf(Nat) /\ T # {}
  <2>1. \A n \in S : IsFiniteSet(0 .. n) /\ 0 .. n \subseteq Nat
    BY FS_Interval
  <2> QED BY <2>1 DEF FiniteSubsetsOf
<1>2. PICK x \in T : \A y \in T : ~ (<<y, x>> \in R)
  <2> HIDE DEF T
  <2> QED BY <1>1, FS_StrictSubsetOrderingWellFounded, WFMin
<1>3. PICK m \in S : x = 0 .. m
  OBVIOUS
<1>4. \A k \in S : m <= k
  <2> SUFFICES ASSUME NEW k \in S, k < m PROVE FALSE
    OBVIOUS
  <2>1. 0 .. k \subseteq 0 .. m /\ m \in 0 .. m /\ m \notin 0 .. k
    OBVIOUS
  <2>2. <<0 .. k, x>> \in R
    BY <1>3, <2>1 DEF StrictSubsetOrdering
  <2> QED BY <1>2, <2>2
<1> QED BY <1>4 DEF Min

(* Sequences of blocks without repetitions *)

LEMMA EmptyIs == ToSet(<<>>) = {} /\ IsInjective(<<>>)
BY DEF ToSet, IsInjective

LEMMA PrependIs ==
  ASSUME NEW S, NEW s \in Seq(S), NEW x \in S
  PROVE  /\ <<x>> \o s \in Seq(S) /\ ToSet(<<x>> \o s) = {x} \cup ToSet(s)
         /\ IsInjective(s) /\ x \notin ToSet(s) => IsInjective(<<x>> \o s)
<1> DEFINE q == <<x>> \o s
<1>1. /\ q \in Seq(S) /\ Len(q) = Len(s) + 1 /\ q[1] = x
      /\ \A i \in 2 .. Len(q) : q[i] = s[i - 1]
  OBVIOUS
<1>2. DOMAIN q = 1 .. Len(s) + 1 /\ DOMAIN s = 1 .. Len(s) /\ Len(s) \in Nat
  BY <1>1
<1> HIDE DEF q
<1>3. \A j \in DOMAIN s : j + 1 \in DOMAIN q /\ q[j + 1] = s[j]
  BY <1>1, <1>2
<1>4. \A i \in DOMAIN q : i = 1 \/ (i - 1 \in DOMAIN s /\ q[i] = s[i - 1])
  BY <1>1, <1>2
<1>5. ToSet(q) = {x} \cup ToSet(s)
  <2>1. ToSet(q) \subseteq {x} \cup ToSet(s)
    BY <1>1, <1>4 DEF ToSet
  <2>2. {x} \cup ToSet(s) \subseteq ToSet(q)
    BY <1>1, <1>2, <1>3 DEF ToSet
  <2> QED BY <2>1, <2>2
<1>6. ASSUME IsInjective(s), x \notin ToSet(s) PROVE IsInjective(q)
  <2> SUFFICES ASSUME NEW i \in DOMAIN q, NEW j \in DOMAIN q, q[i] = q[j] PROVE i = j
    BY DEF IsInjective
  <2>1. CASE i = 1 \/ j = 1
    BY <1>1, <1>4, <1>6, <2>1 DEF ToSet
  <2>2. CASE i # 1 /\ j # 1
    <3>1. i - 1 \in DOMAIN s /\ j - 1 \in DOMAIN s /\ s[i - 1] = s[j - 1]
      BY <1>4, <2>2
    <3>2. i - 1 = j - 1
      BY <1>6, <3>1 DEF IsInjective
    <3> QED BY <1>2, <3>2
  <2> QED BY <2>1, <2>2
<1> QED BY <1>1, <1>5, <1>6 DEF q

LEMMA HeadIs ==
  ASSUME NEW S, NEW s \in Seq(S), s # <<>>
  PROVE  /\ Head(s) \in S /\ Tail(s) \in Seq(S) /\ ToSet(s) = {Head(s)} \cup ToSet(Tail(s))
         /\ IsInjective(s) => IsInjective(Tail(s)) /\ Head(s) \notin ToSet(Tail(s))
         /\ Len(s) = 1 <=> Tail(s) = <<>>
<1> DEFINE r == Tail(s)
<1>1. /\ r \in Seq(S) /\ Len(r) = Len(s) - 1 /\ Head(s) = s[1] /\ Len(s) \in Nat \ {0}
      /\ \A i \in 1 .. Len(r) : r[i] = s[i + 1]
  <2>1. Len(s) \in Nat \ {0} /\ Head(s) = s[1]
    OBVIOUS
  <2> QED BY <2>1, HeadTailProperties
<1>2. DOMAIN r = 1 .. Len(s) - 1 /\ DOMAIN s = 1 .. Len(s)
  BY <1>1
<1>3. Len(s) = 1 <=> r = <<>>
  <2> HIDE DEF r
  <2>1. r = <<>> <=> Len(r) = 0
    BY <1>1, EmptySeq
  <2> QED BY <1>1, <2>1
<1> HIDE DEF r
<1>4. \A j \in DOMAIN r : j + 1 \in DOMAIN s /\ r[j] = s[j + 1]
  BY <1>1, <1>2
<1>5. \A i \in DOMAIN s : i = 1 \/ (i - 1 \in DOMAIN r /\ s[i] = r[i - 1])
  BY <1>1, <1>2
<1>6. ToSet(s) = {s[1]} \cup ToSet(r)
  <2>1. ToSet(s) \subseteq {s[1]} \cup ToSet(r)
    BY <1>5 DEF ToSet
  <2>2. {s[1]} \cup ToSet(r) \subseteq ToSet(s)
    BY <1>1, <1>2, <1>4 DEF ToSet
  <2> QED BY <2>1, <2>2
<1>7. ASSUME IsInjective(s) PROVE IsInjective(r) /\ s[1] \notin ToSet(r)
  <2>1. ASSUME NEW i \in DOMAIN r, NEW j \in DOMAIN r, r[i] = r[j] PROVE i = j
    <3>1. i + 1 = j + 1
      BY <1>4, <1>7, <2>1 DEF IsInjective
    <3> QED BY <1>2, <3>1
  <2>2. ASSUME NEW i \in DOMAIN r, r[i] = s[1] PROVE FALSE
    <3>1. i + 1 = 1
      BY <1>1, <1>2, <1>4, <1>7, <2>2 DEF IsInjective
    <3> QED BY <1>2, <3>1
  <2> QED BY <2>1, <2>2 DEF IsInjective, ToSet
<1>8. s[1] \in S
  BY <1>1
<1> QED BY <1>1, <1>3, <1>6, <1>7, <1>8 DEF r

-----------------------------------------------------------------------------
(* Steps of one thread *)

Only(t) == \A u \in Threads \ {t} : th'[u] = th[u]

LEMMA Moves ==
  ASSUME TypeOK, NEW t \in Threads, NEW x, th' = [th EXCEPT ![t] = x]
  PROVE  /\ th'[t] = x /\ Only(t)
         /\ x \in ThreadState => th' \in [Threads -> ThreadState]
BY DEF TypeOK, Only

LEMMA NoBlockIs == NoBlock \notin Blocks
BY DEF NoBlock, Blocks

\* What a thread keeps is where it was.
SameKeep(t) ==
  /\ control_blocks' = control_blocks /\ recycled' = recycled /\ th'[t].rest = th[t].rest
  /\ \A b \in Blocks : (InHand(t, b)' <=> InHand(t, b)) /\ block'[b].managed = block[b].managed

LEMMA OthersKeep ==
  ASSUME NEW t \in Threads, Only(t), NEW u \in Threads \ {t}, NEW b
  PROVE  (InHand(u, b)' <=> InHand(u, b)) /\ (InRest(u, b)' <=> InRest(u, b))
BY DEF Only, InHand, InRest

\* Where the blocks are that are kept.
SamePlaces ==
  \A b \in Blocks :
    /\ Kept(b)' <=> Kept(b)
    /\ (InList(b) \/ \E u \in Threads : InRest(u, b))' <=> (InList(b) \/ \E u \in Threads : InRest(u, b))

LEMMA KeepSame ==
  ASSUME KeptOnce, NEW t \in Threads, Only(t), SameKeep(t)
  PROVE  KeptOnce' /\ SamePlaces
<1>1. \A b \in Blocks, u \in Threads : (InHand(u, b)' <=> InHand(u, b)) /\ (InRest(u, b)' <=> InRest(u, b))
  BY OthersKeep DEF SameKeep, InRest
<1>2. \A b : (InList(b)' <=> InList(b)) /\ \A n : InSlot(n, b)' <=> InSlot(n, b)
  BY DEF SameKeep, InList, InSlot
<1>3. SamePlaces
  BY <1>1, <1>2 DEF SamePlaces, Kept
<1>4. ASSUME NEW b \in Blocks
      PROVE  AtMostOnce(b)' /\ (Kept(b)' \/ (\E u \in Threads : InHand(u, b)') => block'[b].managed = 1)
  <2>1. AtMostOnce(b)'
    BY <1>1, <1>2 DEF KeptOnce, AtMostOnce
  <2>2. Kept(b)' \/ (\E u \in Threads : InHand(u, b)') => block'[b].managed = 1
    BY <1>1, <1>3 DEF KeptOnce, SamePlaces, SameKeep
  <2> QED BY <2>1, <2>2
<1>5. IsInjective(recycled') /\ \A u \in Threads : IsInjective(th'[u].rest)
  BY DEF KeptOnce, SameKeep, Only
<1> QED BY <1>3, <1>4, <1>5 DEF KeptOnce

-----------------------------------------------------------------------------
(* What the steps do to the places where blocks are kept *)

\* The block whose keeper changes, if any does.
Marked(b) == Kept(b) \/ (\E u \in Threads : InHand(u, b)) => block[b].managed = 1
OthersAsBefore(t) == \A b \in Blocks, u \in Threads \ {t} :
                       (InHand(u, b)' <=> InHand(u, b)) /\ (InRest(u, b)' <=> InRest(u, b))
SameMarks == \A b \in Blocks : block'[b].managed = block[b].managed

LEMMA OthersAre ==
  ASSUME NEW t \in Threads, Only(t)
  PROVE  OthersAsBefore(t)
BY OthersKeep DEF OthersAsBefore

LEMMA KeepTakeSlot ==
  ASSUME IInv, NEW t \in Threads, TakeSlot(t), Only(t), control_blocks[th[t].n] # NoBlock
  PROVE  /\ KeptOnce' /\ Kept(control_blocks[th[t].n])
         /\ \A b \in Blocks :
              /\ Kept(b)' <=> Kept(b) /\ b # control_blocks[th[t].n]
              /\ (InList(b) \/ \E u \in Threads : InRest(u, b))' <=> (InList(b) \/ \E u \in Threads : InRest(u, b))
<1> DEFINE n == th[t].n
           q == control_blocks[n]
<1>1. n \in 1 .. Slots /\ q \in Blocks
  BY DEF IInv, TypeOK, ThreadState
<1>2. \A b : InList(b)' <=> InList(b)
  BY DEF TakeSlot, InList
<1>3. \A b \in Blocks : \A m \in 1 .. Slots : InSlot(m, b)' <=> InSlot(m, b) /\ m # n
  BY NoBlockIs, <1>1 DEF TakeSlot, InSlot, IInv, TypeOK
<1>4. \A b \in Blocks : /\ ~InHand(t, b) /\ (InHand(t, b)' <=> b = q)
                        /\ InRest(t, b)' <=> InRest(t, b)
  BY <1>1 DEF TakeSlot, InHand, InRest, At, IInv, TypeOK, ThreadState
<1>5. OthersAsBefore(t) /\ SameMarks /\ \A b : InSlot(n, b) <=> b = q
  BY OthersAre DEF SameMarks, TakeSlot, InSlot
<1> HIDE DEF n, q
<1>6. ASSUME NEW b \in Blocks
      PROVE  /\ AtMostOnce(b)' /\ Marked(b)'
             /\ Kept(b)' <=> Kept(b) /\ b # q
             /\ (InList(b) \/ \E u \in Threads : InRest(u, b))' <=> (InList(b) \/ \E u \in Threads : InRest(u, b))
  <2>1. AtMostOnce(b) /\ Marked(b)
    BY DEF IInv, KeptOnce, Marked
  <2>2. \A u \in Threads : (InRest(u, b)' <=> InRest(u, b)) /\ (InHand(u, b)' <=> InHand(u, b) \/ (u = t /\ b = q))
    BY <1>4, <1>5 DEF OthersAsBefore
  <2>3. AtMostOnce(b)'
    BY <1>1, <1>2, <1>3, <1>5, <2>1, <2>2 DEF AtMostOnce
  <2>4. Kept(b)' <=> Kept(b) /\ b # q
    BY <1>1, <1>2, <1>3, <1>5, <2>1, <2>2 DEF AtMostOnce, Kept
  <2>5. b = q => Kept(b)
    BY <1>1, <1>5 DEF Kept
  <2>6. Marked(b)'
    BY <1>5, <2>1, <2>2, <2>4, <2>5 DEF Marked, SameMarks
  <2> QED BY <1>2, <2>2, <2>3, <2>4, <2>6
<1>7. IsInjective(recycled') /\ \A u \in Threads : IsInjective(th'[u].rest)
  BY DEF IInv, KeptOnce, TypeOK, TakeSlot, Only
<1>8. Kept(q)
  BY <1>1, <1>5 DEF Kept
<1> QED BY <1>6, <1>7, <1>8 DEF KeptOnce, Marked, n, q

LEMMA KeepTakeRecycled ==
  ASSUME IInv, NEW t \in Threads, TakeRecycled(t), Only(t), recycled # <<>>
  PROVE  /\ KeptOnce' /\ Head(recycled) \in Blocks /\ Kept(Head(recycled)) /\ InList(Head(recycled))
         /\ \A b \in Blocks :
              /\ Kept(b)' <=> Kept(b) /\ b # Head(recycled)
              /\ (InList(b) \/ \E u \in Threads : InRest(u, b))'
                   <=> (InList(b) \/ \E u \in Threads : InRest(u, b)) /\ b # Head(recycled)
<1> DEFINE h == Head(recycled)
           r == Tail(recycled)
<1>1. /\ h \in Blocks /\ r \in Seq(Blocks) /\ ToSet(recycled) = {h} \cup ToSet(r)
      /\ IsInjective(r) /\ h \notin ToSet(r)
  BY HeadIs DEF IInv, TypeOK, KeptOnce
<1>2. th'[t].rest = r /\ th'[t].p = h /\ th'[t].pc = "putback" /\ th[t].pc = "recycled" /\ th[t].rest = <<>>
  BY DEF TakeRecycled, At, IInv, TypeOK, ThreadState, PlaceInv, PlaceOk
<1> HIDE DEF h, r
<1>3. \A b : ~InList(b)' /\ (InList(b) <=> b = h \/ b \in ToSet(r))
  BY <1>1, EmptyIs DEF TakeRecycled, InList
<1>4. \A b : \A m \in 1 .. Slots : InSlot(m, b)' <=> InSlot(m, b)
  BY DEF TakeRecycled, InSlot
<1>5. \A b \in Blocks : /\ ~InHand(t, b) /\ (InHand(t, b)' <=> b = h)
                        /\ ~InRest(t, b) /\ (InRest(t, b)' <=> b \in ToSet(r))
  BY <1>2, EmptyIs DEF InHand, InRest
<1>6. OthersAsBefore(t) /\ SameMarks
  BY OthersAre DEF SameMarks, TakeRecycled
<1>7. ASSUME NEW b \in Blocks
      PROVE  /\ AtMostOnce(b)' /\ Marked(b)'
             /\ Kept(b)' <=> Kept(b) /\ b # h
             /\ (InList(b) \/ \E u \in Threads : InRest(u, b))'
                  <=> (InList(b) \/ \E u \in Threads : InRest(u, b)) /\ b # h
  <2>1. AtMostOnce(b) /\ Marked(b)
    BY DEF IInv, KeptOnce, Marked
  <2>2. \A u \in Threads : /\ InRest(u, b)' <=> InRest(u, b) \/ (u = t /\ b \in ToSet(r))
                           /\ InHand(u, b)' <=> InHand(u, b) \/ (u = t /\ b = h)
    BY <1>5, <1>6 DEF OthersAsBefore
  <2>3. AtMostOnce(b)'
    BY <1>1, <1>3, <1>4, <1>5, <2>1, <2>2 DEF AtMostOnce
  <2>4. Kept(b)' <=> Kept(b) /\ b # h
    BY <1>1, <1>3, <1>4, <1>5, <2>1, <2>2 DEF AtMostOnce, Kept
  <2>5. (InList(b) \/ \E u \in Threads : InRest(u, b))'
          <=> (InList(b) \/ \E u \in Threads : InRest(u, b)) /\ b # h
    BY <1>1, <1>3, <1>5, <2>1, <2>2 DEF AtMostOnce
  <2>6. b = h => Kept(b)
    BY <1>3 DEF Kept
  <2>7. Marked(b)'
    BY <1>6, <2>1, <2>2, <2>4, <2>6 DEF Marked, SameMarks
  <2> QED BY <2>3, <2>4, <2>5, <2>7
<1>8. IsInjective(recycled') /\ \A u \in Threads : IsInjective(th'[u].rest)
  BY <1>1, <1>2 DEF IInv, KeptOnce, TakeRecycled, Only, IsInjective
<1>9. Kept(h) /\ InList(h)
  BY <1>3 DEF Kept
<1> QED BY <1>1, <1>7, <1>8, <1>9 DEF KeptOnce, Marked, h, r

LEMMA KeepPutBack ==
  ASSUME IInv, NEW t \in Threads, PutBack(t), Only(t)
  PROVE  KeptOnce' /\ SamePlaces
<1> DEFINE r == th[t].rest
<1>1. CASE ~(recycled = <<>> \/ r = <<>>)
  <2>1. SameKeep(t)
    BY <1>1 DEF PutBack, SameKeep, InHand, At, Go, IInv, TypeOK, ThreadState
  <2> QED BY <2>1, KeepSame DEF IInv
<1>2. CASE recycled = <<>> \/ r = <<>>
  <2>1. /\ recycled' = recycled \o r /\ th'[t].rest = <<>> /\ th'[t].p = th[t].p /\ th'[t].pc = "uncount"
        /\ th[t].pc = "putback" /\ r \in Seq(Blocks) /\ recycled \in Seq(Blocks)
    BY <1>2 DEF PutBack, At, IInv, TypeOK, ThreadState
  <2>2. recycled' = IF r = <<>> THEN recycled ELSE r
    BY <1>2, <2>1
  <2>3. \A b : InRest(t, b) <=> b \in ToSet(r)
    BY DEF InRest
  <2> HIDE DEF r
  <2>4. \A b : InList(b)' <=> InList(b) \/ InRest(t, b)
    BY <1>2, <2>2, <2>3, EmptyIs DEF InList
  <2>5. \A b : \A m \in 1 .. Slots : InSlot(m, b)' <=> InSlot(m, b)
    BY DEF PutBack, InSlot
  <2>6. \A b \in Blocks : (InHand(t, b)' <=> InHand(t, b)) /\ ~InRest(t, b)'
    BY <2>1, EmptyIs DEF InHand, InRest
  <2>7. OthersAsBefore(t) /\ SameMarks
    BY OthersAre DEF SameMarks, PutBack
  <2>8. ASSUME NEW b \in Blocks
        PROVE  /\ AtMostOnce(b)' /\ Marked(b)' /\ (Kept(b)' <=> Kept(b))
               /\ (InList(b) \/ \E u \in Threads : InRest(u, b))' <=> (InList(b) \/ \E u \in Threads : InRest(u, b))
    <3>1. AtMostOnce(b) /\ Marked(b)
      BY DEF IInv, KeptOnce, Marked
    <3>2. \A u \in Threads : /\ InRest(u, b)' <=> InRest(u, b) /\ u # t
                             /\ InHand(u, b)' <=> InHand(u, b)
      BY <2>6, <2>7 DEF OthersAsBefore
    <3>3. AtMostOnce(b)'
      BY <2>4, <2>5, <3>1, <3>2 DEF AtMostOnce
    <3>4. (Kept(b)' <=> Kept(b)) /\ ((InList(b) \/ \E u \in Threads : InRest(u, b))'
             <=> (InList(b) \/ \E u \in Threads : InRest(u, b)))
      BY <2>4, <2>5, <3>2 DEF Kept
    <3>5. Marked(b)'
      BY <2>7, <3>1, <3>2, <3>4 DEF Marked, SameMarks
    <3> QED BY <3>3, <3>4, <3>5
  <2>9. IsInjective(recycled') /\ \A u \in Threads : IsInjective(th'[u].rest)
    BY <2>1, <2>2, EmptyIs DEF IInv, KeptOnce, Only, r
  <2> QED BY <2>8, <2>9 DEF KeptOnce, Marked, SamePlaces
<1> QED BY <1>1, <1>2

LEMMA KeepPutOne ==
  ASSUME IInv, NEW t \in Threads, PutOne(t), Only(t)
  PROVE  KeptOnce' /\ SamePlaces
<1> DEFINE h == Head(th[t].rest)
           r == Tail(th[t].rest)
<1>1. /\ th[t].rest \in Seq(Blocks) /\ th[t].rest # <<>> /\ IsInjective(th[t].rest)
      /\ recycled \in Seq(Blocks) /\ IsInjective(recycled)
  BY DEF PutOne, At, IInv, TypeOK, ThreadState, PlaceInv, PlaceOk, KeptOnce
<1>2. /\ h \in Blocks /\ r \in Seq(Blocks) /\ ToSet(th[t].rest) = {h} \cup ToSet(r)
      /\ IsInjective(r) /\ h \notin ToSet(r)
  BY <1>1, HeadIs
<1>3. /\ recycled' = <<h>> \o recycled /\ th'[t].rest = r /\ th'[t].p = th[t].p
      /\ th[t].pc = "putone" /\ th'[t].pc \in {"uncount", "putone"}
  BY DEF PutOne, At, IInv, TypeOK, ThreadState
<1> HIDE DEF h, r
<1>4. \A b : (InRest(t, b) <=> b = h \/ b \in ToSet(r)) /\ (InRest(t, b)' <=> b \in ToSet(r))
  BY <1>2, <1>3 DEF InRest
<1>5. ToSet(recycled') = {h} \cup ToSet(recycled) /\ (h \notin ToSet(recycled) => IsInjective(recycled'))
  BY <1>1, <1>2, <1>3, PrependIs
<1>6. \A b : InList(b)' <=> InList(b) \/ b = h
  BY <1>5 DEF InList
<1>7. \A b : \A m \in 1 .. Slots : InSlot(m, b)' <=> InSlot(m, b)
  BY DEF PutOne, InSlot
<1>8. \A b \in Blocks : InHand(t, b)' <=> InHand(t, b)
  BY <1>3 DEF InHand
<1>9. OthersAsBefore(t) /\ SameMarks
  BY OthersAre DEF SameMarks, PutOne
<1>10. ASSUME NEW b \in Blocks
       PROVE  /\ AtMostOnce(b)' /\ Marked(b)' /\ (Kept(b)' <=> Kept(b))
              /\ (InList(b) \/ \E u \in Threads : InRest(u, b))' <=> (InList(b) \/ \E u \in Threads : InRest(u, b))
  <2>1. AtMostOnce(b) /\ Marked(b)
    BY DEF IInv, KeptOnce, Marked
  <2>2. \A u \in Threads : /\ InRest(u, b)' <=> InRest(u, b) /\ (u # t \/ b # h)
                           /\ InHand(u, b)' <=> InHand(u, b)
    BY <1>2, <1>4, <1>8, <1>9 DEF OthersAsBefore
  <2>3. b = h => InRest(t, b)
    BY <1>4
  <2>4. AtMostOnce(b)'
    BY <1>6, <1>7, <2>1, <2>2, <2>3 DEF AtMostOnce
  <2>5. (Kept(b)' <=> Kept(b)) /\ ((InList(b) \/ \E u \in Threads : InRest(u, b))'
           <=> (InList(b) \/ \E u \in Threads : InRest(u, b)))
    BY <1>6, <1>7, <2>2, <2>3 DEF Kept
  <2>6. Marked(b)'
    BY <1>9, <2>1, <2>2, <2>5 DEF Marked, SameMarks
  <2> QED BY <2>4, <2>5, <2>6
<1>11. h \notin ToSet(recycled)
  BY <1>2, <1>4 DEF IInv, KeptOnce, AtMostOnce, InList
<1>12. IsInjective(recycled') /\ \A u \in Threads : IsInjective(th'[u].rest)
  BY <1>2, <1>3, <1>5, <1>11 DEF IInv, KeptOnce, Only
<1> QED BY <1>10, <1>12 DEF KeptOnce, Marked, SamePlaces

LEMMA KeepUnmanage ==
  ASSUME IInv, NEW t \in Threads, Unmanage(t), Only(t)
  PROVE  KeptOnce' /\ SamePlaces
<1> DEFINE p == th[t].p
<1>1. /\ th'[t].rest = th[t].rest /\ th'[t].p = p /\ th[t].pc = "unmanage" /\ th'[t].pc = "search" /\ p \in Blocks
      /\ \A b \in Blocks \ {p} : block'[b].managed = block[b].managed
  BY DEF Unmanage, Go, Set, At, IInv, TypeOK, ThreadState, PlaceInv, PlaceOk
<1>2. InHand(t, p) /\ \A b : ~InHand(t, b)' /\ (InRest(t, b)' <=> InRest(t, b)) /\ (InHand(t, b) <=> b = p)
  BY <1>1 DEF InHand, InRest
<1> HIDE DEF p
<1>3. \A b : (InList(b)' <=> InList(b)) /\ \A m \in 1 .. Slots : InSlot(m, b)' <=> InSlot(m, b)
  BY DEF Unmanage, cache, InList, InSlot
<1>4. OthersAsBefore(t)
  BY OthersAre
<1>5. ASSUME NEW b \in Blocks
      PROVE  /\ AtMostOnce(b)' /\ Marked(b)' /\ (Kept(b)' <=> Kept(b))
             /\ (InList(b) \/ \E u \in Threads : InRest(u, b))' <=> (InList(b) \/ \E u \in Threads : InRest(u, b))
  <2>1. AtMostOnce(b) /\ Marked(b)
    BY DEF IInv, KeptOnce, Marked
  <2>2. \A u \in Threads : (InRest(u, b)' <=> InRest(u, b)) /\ (InHand(u, b)' <=> InHand(u, b) /\ u # t)
    BY <1>2, <1>4 DEF OthersAsBefore
  <2>3. AtMostOnce(b)'
    BY <1>3, <2>1, <2>2 DEF AtMostOnce
  <2>4. (Kept(b)' <=> Kept(b)) /\ ((InList(b) \/ \E u \in Threads : InRest(u, b))'
           <=> (InList(b) \/ \E u \in Threads : InRest(u, b)))
    BY <1>3, <2>2 DEF Kept
  <2>5. b = p => ~Kept(b) /\ \A u \in Threads : InHand(u, b) => u = t
    BY <1>2, <2>1 DEF AtMostOnce, Kept
  <2>6. Marked(b)'
    BY <1>1, <2>1, <2>2, <2>4, <2>5 DEF Marked
  <2> QED BY <2>3, <2>4, <2>6
<1>6. IsInjective(recycled') /\ \A u \in Threads : IsInjective(th'[u].rest)
  BY <1>1 DEF IInv, KeptOnce, Unmanage, cache, Only
<1> QED BY <1>5, <1>6 DEF KeptOnce, Marked, SamePlaces

LEMMA KeepManage ==
  ASSUME IInv, NEW t \in Threads, Manage(t), Only(t)
  PROVE  KeptOnce' /\ SamePlaces
<1> DEFINE p == th[t].p
<1>1. /\ th'[t].rest = th[t].rest /\ th'[t].p = p /\ th[t].pc = "manage" /\ p \in Blocks
      /\ block' = [block EXCEPT ![p]["managed"] = 1]
      /\ th'[t].pc = IF block[p].managed = 0 THEN "put" ELSE "drop"
  BY DEF Manage, Set, Mine, At, IInv, TypeOK, ThreadState, PlaceInv, PlaceOk
<1>2. block'[p].managed = 1 /\ \A b \in Blocks \ {p} : block'[b].managed = block[b].managed
  BY <1>1 DEF IInv, TypeOK
<1>3. \A b : ~InHand(t, b) /\ (InHand(t, b)' <=> b = p /\ block[p].managed = 0) /\ (InRest(t, b)' <=> InRest(t, b))
  BY <1>1 DEF InHand, InRest
<1> HIDE DEF p
<1>4. \A b : (InList(b)' <=> InList(b)) /\ \A m \in 1 .. Slots : InSlot(m, b)' <=> InSlot(m, b)
  BY DEF Manage, cache, InList, InSlot
<1>5. OthersAsBefore(t)
  BY OthersAre
<1>6. ASSUME NEW b \in Blocks
      PROVE  /\ AtMostOnce(b)' /\ Marked(b)' /\ (Kept(b)' <=> Kept(b))
             /\ (InList(b) \/ \E u \in Threads : InRest(u, b))' <=> (InList(b) \/ \E u \in Threads : InRest(u, b))
  <2>1. AtMostOnce(b) /\ Marked(b)
    BY DEF IInv, KeptOnce, Marked
  <2>2. \A u \in Threads : /\ InRest(u, b)' <=> InRest(u, b)
                           /\ InHand(u, b)' <=> InHand(u, b) \/ (u = t /\ b = p /\ block[p].managed = 0)
    BY <1>3, <1>5 DEF OthersAsBefore
  <2>3. b = p /\ block[p].managed = 0 => ~Kept(b) /\ \A u \in Threads : ~InHand(u, b)
    BY <2>1 DEF Marked
  <2>4. AtMostOnce(b)'
    BY <1>4, <2>1, <2>2, <2>3 DEF AtMostOnce, Kept
  <2>5. (Kept(b)' <=> Kept(b)) /\ ((InList(b) \/ \E u \in Threads : InRest(u, b))'
           <=> (InList(b) \/ \E u \in Threads : InRest(u, b)))
    BY <1>4, <2>2 DEF Kept
  <2>6. Marked(b)'
    BY <1>2, <2>1, <2>2, <2>5 DEF Marked
  <2> QED BY <2>4, <2>5, <2>6
<1>7. IsInjective(recycled') /\ \A u \in Threads : IsInjective(th'[u].rest)
  BY <1>1 DEF IInv, KeptOnce, Manage, cache, Only
<1> QED BY <1>6, <1>7 DEF KeptOnce, Marked, SamePlaces

\* What Done does to the thread.
LEMMA DoneIs ==
  ASSUME IInv, NEW t \in Threads, Done(t)
  PROVE  /\ Only(t) /\ th'[t].p = NoBlock /\ th'[t].rest = <<>> /\ th'[t].item = NoItem /\ th'[t] \in ThreadState
         /\ th'[t].pc \in {"idle", "slot"} /\ th' \in [Threads -> ThreadState] /\ PlaceOk(t)'
<1>1. Idle \in ThreadState /\ [Idle EXCEPT !.pc = "slot", !.op = "allocate"] \in ThreadState
  <2>1. <<>> \in Seq(Blocks) /\ 1 \in 1 .. Slots
    BY AllocatorAssumption
  <2>2. Idle \in ThreadState
    BY <2>1 DEF Idle, ThreadState
  <2> QED BY <2>2 DEF ThreadState
<1> DEFINE searching == [Idle EXCEPT !.pc = "slot", !.op = "allocate"]
           x == IF th[t].op = "allocate" /\ th[t].item = NoItem THEN searching ELSE Idle
<1>2. th' = [th EXCEPT ![t] = x]
  BY DEF Done
<1>3. Only(t) /\ th'[t] = x /\ th' \in [Threads -> ThreadState]
  <2>1. x \in ThreadState
    BY <1>1
  <2> HIDE DEF x
  <2> QED BY <1>2, <2>1, Moves DEF IInv
<1>4. /\ x.p = NoBlock /\ x.rest = <<>> /\ x.item = NoItem /\ x.pc \in {"idle", "slot"} /\ x.op \in {"none", "allocate"}
      /\ x.pc = "idle" => x = Idle
      /\ x.pc = "slot" => x.op = "allocate"
  BY DEF Idle
<1>5. x \in ThreadState
  BY <1>1
<1> HIDE DEF x
<1>6. PlaceOk(t)'
  BY <1>3, <1>4 DEF PlaceOk, At
<1> QED BY <1>3, <1>4, <1>5, <1>6

LEMMA KeepPut ==
  ASSUME IInv, NEW t \in Threads, PutSlot(t) \/ Push(t)
  PROVE  /\ KeptOnce' /\ th[t].p \in Blocks /\ ~Kept(th[t].p)
         /\ \A b \in Blocks : Kept(b)' <=> Kept(b) \/ b = th[t].p
         /\ \A b \in Blocks :
              (InList(b) \/ \E u \in Threads : InRest(u, b))'
                 <=> (InList(b) \/ \E u \in Threads : InRest(u, b)) \/ (Push(t) /\ b = th[t].p)
<1> DEFINE p == th[t].p
           n == th[t].n
<1>1. /\ th[t].pc \in {"put", "push"} /\ p \in Blocks /\ n \in 1 .. Slots /\ th[t].rest = <<>>
      /\ Push(t) => recycled' = <<p>> \o recycled /\ control_blocks' = control_blocks
      /\ ~Push(t) => /\ recycled' = recycled /\ control_blocks' = [control_blocks EXCEPT ![n] = p]
                     /\ control_blocks[n] = NoBlock
  BY DEF PutSlot, Push, At, IInv, TypeOK, ThreadState, PlaceInv, PlaceOk
<1>2. Only(t) /\ th'[t].p = NoBlock /\ th'[t].rest = <<>> /\ block' = block
  BY DoneIs DEF PutSlot, Push
<1> DEFINE pushes == Push(t)
<1> HIDE DEF p, n, pushes
<1>3. \A b \in Blocks : /\ InHand(t, b) <=> b = p
                        /\ ~InHand(t, b)' /\ ~InRest(t, b)' /\ ~InRest(t, b)
  BY <1>1, <1>2, NoBlockIs, EmptyIs DEF InHand, InRest, p
<1>4. OthersAsBefore(t) /\ SameMarks
  BY <1>2, OthersAre DEF SameMarks
<1>5. ToSet(<<p>> \o recycled) = {p} \cup ToSet(recycled)
      /\ (p \notin ToSet(recycled) => IsInjective(<<p>> \o recycled))
  BY <1>1, PrependIs DEF IInv, TypeOK, KeptOnce
<1>6. \A b : InList(b)' <=> InList(b) \/ (pushes /\ b = p)
  BY <1>1, <1>5 DEF InList, pushes
<1>7. \A b \in Blocks : \A m \in 1 .. Slots : InSlot(m, b)' <=> InSlot(m, b) \/ (~pushes /\ m = n /\ b = p)
  BY <1>1, NoBlockIs DEF InSlot, pushes, IInv, TypeOK
<1>8. ~Kept(p) /\ ~InList(p) /\ InHand(t, p)
  BY <1>1, <1>3 DEF IInv, KeptOnce, AtMostOnce, Kept
<1>9. ASSUME NEW b \in Blocks
      PROVE  /\ AtMostOnce(b)' /\ Marked(b)' /\ (Kept(b)' <=> Kept(b) \/ b = p)
             /\ (InList(b) \/ \E u \in Threads : InRest(u, b))'
                  <=> (InList(b) \/ \E u \in Threads : InRest(u, b)) \/ (pushes /\ b = p)
  <2>1. AtMostOnce(b) /\ Marked(b)
    BY DEF IInv, KeptOnce, Marked
  <2>2. \A u \in Threads : (InRest(u, b)' <=> InRest(u, b)) /\ (InHand(u, b)' <=> InHand(u, b) /\ u # t)
    BY <1>3, <1>4 DEF OthersAsBefore
  <2>3. b = p => ~Kept(b) /\ \A u \in Threads : InHand(u, b) => u = t
    BY <1>8, <2>1 DEF AtMostOnce
  <2>4. AtMostOnce(b)'
    BY <1>6, <1>7, <2>1, <2>2, <2>3 DEF AtMostOnce, Kept
  <2>5. Kept(b)' <=> Kept(b) \/ b = p
    BY <1>1, <1>6, <1>7, <2>2 DEF Kept
  <2>6. (InList(b) \/ \E u \in Threads : InRest(u, b))'
           <=> (InList(b) \/ \E u \in Threads : InRest(u, b)) \/ (pushes /\ b = p)
    BY <1>6, <2>2
  <2>7. Marked(b)'
    BY <1>4, <1>8, <2>1, <2>2, <2>5 DEF Marked, SameMarks
  <2> QED BY <2>4, <2>5, <2>6, <2>7
<1>10. IsInjective(recycled') /\ \A u \in Threads : IsInjective(th'[u].rest)
  <2>1. IsInjective(recycled')
    BY <1>1, <1>5, <1>8 DEF IInv, KeptOnce, InList
  <2> QED BY <1>2, <2>1, EmptyIs DEF IInv, KeptOnce, Only
<1> QED BY <1>1, <1>8, <1>9, <1>10 DEF KeptOnce, Marked, p, pushes

-----------------------------------------------------------------------------
(* Counting references *)

LEMMA RefersIs ==
  ASSUME NEW b
  PROVE  /\ \A i : Refers(<<"item", i>>, b) <=> Out(b, i)
         /\ \A u : Refers(<<"thread", u>>, b) <=> Holds(u, b)
         /\ Refers(<<"kept", 0>>, b) <=> Kept(b)
BY DEF Refers

LEMMA RefersIsNext ==
  ASSUME NEW b
  PROVE  /\ \A i : Refers(<<"item", i>>, b)' <=> Out(b, i)'
         /\ \A u : Refers(<<"thread", u>>, b)' <=> Holds(u, b)'
         /\ Refers(<<"kept", 0>>, b)' <=> Kept(b)'
BY DEF Refers

LEMMA TagsFinite == IsFiniteSet(Tags)
<1>1. IsFiniteSet(0 .. Items - 1) /\ IsFiniteSet(Threads) /\ IsFiniteSet({"item"}) /\ IsFiniteSet({"thread"})
      /\ IsFiniteSet({<<"kept", 0>>})
  <2>1. IsFiniteSet(0 .. Items - 1)
    BY AllocatorAssumption, FS_Interval
  <2>2. \A x : IsFiniteSet({x})
    BY FS_Singleton
  <2>3. IsFiniteSet(Threads)
    BY AllocatorAssumption
  <2> QED BY <2>1, <2>2, <2>3
<1>2. IsFiniteSet({"item"} \X (0 .. Items - 1)) /\ IsFiniteSet({"thread"} \X Threads)
  BY <1>1, FS_Product
<1>3. IsFiniteSet(({"item"} \X (0 .. Items - 1)) \cup ({"thread"} \X Threads))
  BY <1>2, FS_Union
<1> QED BY <1>1, <1>3, FS_Union DEF Tags

LEMMA RefsFinite ==
  ASSUME NEW b
  PROVE  /\ IsFiniteSet(Refs(b)) /\ Cardinality(Refs(b)) \in Nat
         /\ IsFiniteSet(Refs(b)') /\ Cardinality(Refs(b)') \in Nat
<1>1. Refs(b) \in SUBSET Tags /\ Refs(b)' \in SUBSET Tags
  BY DEF Refs
<1> QED BY <1>1, TagsFinite, FS_Subset, FS_CardinalityType

\* Only the tags of S may refer to the block otherwise than before.
Except(b, S) == \A r \in Tags \ S : Refers(r, b)' <=> Refers(r, b)

LEMMA ExceptIs ==
  ASSUME NEW b, NEW S,
         \A i \in 0 .. Items - 1 : <<"item", i>> \in S \/ (Out(b, i)' <=> Out(b, i)),
         \A u \in Threads : <<"thread", u>> \in S \/ (Holds(u, b)' <=> Holds(u, b)),
         <<"kept", 0>> \in S \/ (Kept(b)' <=> Kept(b))
  PROVE  Except(b, S)
<1> SUFFICES ASSUME NEW r \in Tags \ S PROVE Refers(r, b)' <=> Refers(r, b)
  BY DEF Except
<1>1. CASE r \in {"item"} \X (0 .. Items - 1)
  <2> PICK i \in 0 .. Items - 1 : r = <<"item", i>>
    BY <1>1
  <2> QED BY RefersIs, RefersIsNext
<1>2. CASE r \in {"thread"} \X Threads
  <2> PICK u \in Threads : r = <<"thread", u>>
    BY <1>2
  <2> QED BY RefersIs, RefersIsNext
<1>3. CASE r = <<"kept", 0>>
  BY <1>3, RefersIs, RefersIsNext
<1> QED BY <1>1, <1>2, <1>3 DEF Tags

LEMMA RefsSame ==
  ASSUME NEW b, Except(b, {})
  PROVE  Refs(b)' = Refs(b)
BY DEF Except, Refs

LEMMA RefsAdded ==
  ASSUME NEW b, NEW r \in Tags, Except(b, {r}), ~Refers(r, b), Refers(r, b)'
  PROVE  Cardinality(Refs(b)') = Cardinality(Refs(b)) + 1
<1>1. Refs(b)' = Refs(b) \cup {r} /\ r \notin Refs(b)
  BY DEF Except, Refs
<1> QED BY <1>1, RefsFinite, FS_AddElement

LEMMA RefsRemoved ==
  ASSUME NEW b, NEW r \in Tags, Except(b, {r}), Refers(r, b), ~Refers(r, b)'
  PROVE  Cardinality(Refs(b)') = Cardinality(Refs(b)) - 1
<1>1. Refs(b)' = Refs(b) \ {r} /\ r \in Refs(b)
  BY DEF Except, Refs
<1> QED BY <1>1, RefsFinite, FS_RemoveElement

LEMMA RefsReplaced ==
  ASSUME NEW b, NEW r \in Tags, NEW q \in Tags, r # q, Except(b, {r, q}),
         Refers(r, b), ~Refers(r, b)', ~Refers(q, b), Refers(q, b)'
  PROVE  Cardinality(Refs(b)') = Cardinality(Refs(b))
<1> DEFINE S == Refs(b) \ {r}
<1>1. Refs(b)' = S \cup {q} /\ r \in Refs(b) /\ q \notin S
  BY DEF Except, Refs
<1>2. IsFiniteSet(S) /\ Cardinality(S) = Cardinality(Refs(b)) - 1
  BY <1>1, RefsFinite, FS_RemoveElement
<1> HIDE DEF S
<1>3. Cardinality(Refs(b)') = Cardinality(S) + 1
  BY <1>1, <1>2, FS_AddElement
<1> QED BY <1>2, <1>3, RefsFinite

-----------------------------------------------------------------------------
(* What holds after a step that leaves one of these aspects alone *)

SameCounts == \A b \in Blocks : block'[b].ref_count = block[b].ref_count

LEMMA OthersOut ==
  ASSUME NEW t \in Threads, Only(t), NEW u \in Threads \ {t}
  PROVE  /\ (HandsOut(u)' <=> HandsOut(u)) /\ (Owns(u)' <=> Owns(u))
         /\ th'[u].p = th[u].p /\ th'[u].item = th[u].item
         /\ \A b : Holds(u, b)' <=> Holds(u, b)
BY DEF Only, HandsOut, Owns, Holds, At

\* The items that are in use or handed out stay so.
SameHandsOut(t) == /\ HandsOut(t)' <=> HandsOut(t)
                   /\ HandsOut(t) => th'[t].p = th[t].p /\ th'[t].item = th[t].item

LEMMA OutSame ==
  ASSUME NEW t \in Threads, Only(t), inUse' = inUse, SameHandsOut(t), NEW b, NEW i
  PROVE  Out(b, i)' <=> Out(b, i)
<1>1. \A u \in Threads : /\ HandsOut(u)' <=> HandsOut(u)
                         /\ HandsOut(u) => th'[u].p = th[u].p /\ th'[u].item = th[u].item
  BY OthersOut DEF SameHandsOut
<1> QED BY <1>1 DEF Out

LEMMA HoldsSame ==
  ASSUME NEW t \in Threads, Only(t), NEW b, Holds(t, b)' <=> Holds(t, b), NEW u \in Threads
  PROVE  Holds(u, b)' <=> Holds(u, b)
BY OthersOut

LEMMA RefsQuiet ==
  ASSUME IInv, NEW t \in Threads, Only(t), inUse' = inUse, SamePlaces, SameCounts, SameHandsOut(t),
         \A b \in Blocks : Holds(t, b)' <=> Holds(t, b)
  PROVE  RefsExact'
<1> SUFFICES ASSUME NEW b \in Blocks PROVE block'[b].ref_count = Cardinality(Refs(b)')
  BY DEF RefsExact
<1>1. Except(b, {})
  <2>1. \A i \in 0 .. Items - 1 : Out(b, i)' <=> Out(b, i)
    BY OutSame
  <2>2. \A u \in Threads : Holds(u, b)' <=> Holds(u, b)
    BY HoldsSame
  <2>3. Kept(b)' <=> Kept(b)
    BY DEF SamePlaces
  <2> QED BY <2>1, <2>2, <2>3, ExceptIs
<1> QED BY <1>1, RefsSame DEF IInv, RefsExact, SameCounts

LEMMA PagesQuiet ==
  ASSUME IInv, NEW t \in Threads, Only(t), UNCHANGED root, SameCounts, ~At(t, "free"), ~At(t, "free")'
  PROVE  InUseIsMapped' /\ FreeInv'
<1>1. \A u \in Threads : /\ At(u, "free")' <=> At(u, "free")
                         /\ At(u, "free") => th'[u] = th[u]
  BY DEF Only, At
<1>2. pages' = pages /\ chunks' = chunks
  BY DEF root
<1>3. InUseIsMapped'
  BY <1>1, <1>2 DEF IInv, InUseIsMapped, SameCounts
<1>4. \A u \in Threads : At(u, "free") => th[u].p \in Blocks
  BY DEF IInv, TypeOK, ThreadState, PlaceInv, PlaceOk, At
<1>5. FreeInv'
  BY <1>1, <1>4 DEF IInv, FreeInv, SameCounts
<1> QED BY <1>3, <1>5

LEMMA ItemsQuiet ==
  ASSUME IInv, NEW t \in Threads, Only(t), inUse' = inUse,
         \A b \in Blocks : block'[b].bitmap = block[b].bitmap,
         Owns(t)' => Owns(t) /\ th'[t].p = th[t].p /\ th'[t].item = th[t].item
  PROVE  NoDoubleAllocation' /\ BitsInv'
<1>1. \A u \in Threads : Owns(u)' => Owns(u) /\ th'[u].p = th[u].p /\ th'[u].item = th[u].item
  BY OthersOut
<1>2. \A u \in Threads : Owns(u) => th[u].p \in Blocks
  BY DEF IInv, TypeOK, ThreadState, PlaceInv, PlaceOk, Owns, At, Idle
<1>3. NoDoubleAllocation'
  BY <1>1, <1>2 DEF IInv, NoDoubleAllocation, Mine
<1>4. BitsInv'
  BY DEF IInv, BitsInv
<1> QED BY <1>3, <1>4

LEMMA Bounded ==
  /\ IsFiniteSet(Listed) /\ IsFiniteSet(Counts) /\ IsFiniteSet(Putting)
  /\ Cardinality(Listed) \in Nat /\ Cardinality(Counts) \in Nat /\ Cardinality(Putting) \in Nat
  /\ Cardinality(Threads) \in Nat /\ Cardinality(Putting) <= Cardinality(Threads)
<1>1. IsFiniteSet(Threads)
  BY AllocatorAssumption
<1>2. IsFiniteSet(1 .. MaxChunks) /\ IsFiniteSet(0 .. Pages - 1)
  BY AllocatorAssumption, FS_Interval
<1>3. IsFiniteSet(Blocks)
  BY <1>2, FS_Product DEF Blocks
<1>4. Listed \in SUBSET Blocks /\ Counts \in SUBSET Threads /\ Putting \in SUBSET Threads
  BY DEF Listed, Counts, Putting
<1> QED BY <1>1, <1>3, <1>4, FS_Subset, FS_CardinalityType

\* Cardinalities of sets of threads.
LEMMA OneThread ==
  ASSUME NEW S, NEW R, NEW t, IsFiniteSet(S), \A u : u # t => (u \in R <=> u \in S)
  PROVE  /\ (t \in R <=> t \in S) => Cardinality(R) = Cardinality(S)
         /\ t \in R /\ t \notin S => Cardinality(R) = Cardinality(S) + 1
         /\ t \notin R /\ t \in S => Cardinality(R) = Cardinality(S) - 1
<1>1. (t \in R <=> t \in S) => R = S
  OBVIOUS
<1>2. t \in R /\ t \notin S => R = S \cup {t}
  OBVIOUS
<1>3. t \notin R /\ t \in S => R = S \ {t}
  OBVIOUS
<1> QED BY <1>1, <1>2, <1>3, FS_AddElement, FS_RemoveElement

LEMMA CountsAre ==
  ASSUME NEW t \in Threads, Only(t)
  PROVE  /\ (t \in Counts' <=> t \in Counts) => Cardinality(Counts') = Cardinality(Counts)
         /\ t \in Counts' /\ t \notin Counts => Cardinality(Counts') = Cardinality(Counts) + 1
         /\ t \notin Counts' /\ t \in Counts => Cardinality(Counts') = Cardinality(Counts) - 1
<1>1. \A u : u # t => (u \in Counts' <=> u \in Counts)
  BY DEF Counts, Only
<1> QED BY <1>1, Bounded, OneThread

LEMMA PuttingIs ==
  ASSUME NEW t \in Threads, Only(t)
  PROVE  /\ (t \in Putting' <=> t \in Putting) => Cardinality(Putting') = Cardinality(Putting)
         /\ t \in Putting' /\ t \notin Putting => Cardinality(Putting') = Cardinality(Putting) + 1
         /\ t \notin Putting' /\ t \in Putting => Cardinality(Putting') = Cardinality(Putting) - 1
<1>1. \A u : u # t => (u \in Putting' <=> u \in Putting)
  BY DEF Putting, Only
<1> QED BY <1>1, Bounded, OneThread

LEMMA ListedSame ==
  ASSUME SamePlaces
  PROVE  Listed' = Listed
BY DEF Listed, SamePlaces

LEMMA BoundSame ==
  ASSUME IInv, NEW t \in Threads, Only(t), Listed' = Listed, recycle_count' = recycle_count,
         t \in Counts' <=> t \in Counts, t \in Putting' => t \in Putting
  PROVE  RecycledIsBounded'
<1>1. Cardinality(Listed') = Cardinality(Listed) /\ Cardinality(Counts') = Cardinality(Counts)
  BY CountsAre
<1>2. Cardinality(Putting') <= Cardinality(Putting) /\ Cardinality(Putting') \in Int
  BY PuttingIs, Bounded
<1>3. /\ recycle_count = Cardinality(Listed) + Cardinality(Counts)
      /\ recycle_count + Cardinality(Putting) < Recycled + Cardinality(Threads)
      /\ recycle_count \in Nat /\ Recycled \in Nat /\ Cardinality(Threads) \in Nat /\ Cardinality(Putting) \in Nat
  BY Bounded, AllocatorAssumption DEF IInv, RecycledIsBounded, TypeOK
<1>4. recycle_count' = Cardinality(Listed') + Cardinality(Counts')
  BY <1>1, <1>3
<1>5. recycle_count' + Cardinality(Putting') < Recycled + Cardinality(Threads)
  BY <1>2, <1>3
<1> QED BY <1>4, <1>5 DEF RecycledIsBounded

LEMMA BoundQuiet ==
  ASSUME IInv, NEW t \in Threads, Only(t), SamePlaces, recycle_count' = recycle_count,
         t \in Counts' <=> t \in Counts, t \in Putting' => t \in Putting
  PROVE  RecycledIsBounded'
BY ListedSame, BoundSame

LEMMA PlacesSame ==
  ASSUME IInv, NEW t \in Threads, Only(t), PlaceOk(t)'
  PROVE  PlaceInv'
BY DEF IInv, PlaceInv, PlaceOk, Only, At

\* The thread keeps, holds and owns what it did.
Quiet(t) == /\ SameHandsOut(t) /\ \A b \in Blocks : Holds(t, b)' <=> Holds(t, b)
            /\ Owns(t)' => Owns(t) /\ th'[t].p = th[t].p /\ th'[t].item = th[t].item
            /\ ~At(t, "free") /\ ~At(t, "free")'

LEMMA QuietStep ==
  ASSUME IInv, NEW t \in Threads, Only(t), TypeOK', PlaceOk(t)', Quiet(t), KeptOnce', SamePlaces,
         RecycledIsBounded', UNCHANGED <<root, inUse>>, SameCounts,
         \A b \in Blocks : block'[b].bitmap = block[b].bitmap
  PROVE  IInv'
<1>1. RefsExact'
  BY RefsQuiet DEF Quiet
<1>2. InUseIsMapped' /\ FreeInv'
  BY PagesQuiet DEF Quiet
<1>3. NoDoubleAllocation' /\ BitsInv'
  BY ItemsQuiet DEF Quiet
<1>4. PlaceInv'
  BY PlacesSame
<1> QED BY <1>1, <1>2, <1>3, <1>4 DEF IInv

LEMMA BlockSame ==
  ASSUME block' = block
  PROVE  SameCounts /\ SameMarks /\ \A b \in Blocks : block'[b].bitmap = block[b].bitmap
BY DEF SameCounts, SameMarks

LEMMA AllocateStep ==
  ASSUME IInv, NEW t \in Threads, allocate(t)
  PROVE  IInv'
<1> DEFINE x == [Idle EXCEPT !.pc = "slot", !.op = "allocate"]
<1>1. th' = [th EXCEPT ![t] = x] /\ th[t] = Idle /\ UNCHANGED <<root, block, cache, inUse>>
  BY DEF allocate, At, IInv, PlaceInv, PlaceOk
<1>2. x \in ThreadState /\ x = [Idle EXCEPT !.pc = "slot", !.op = "allocate"]
  <2>1. <<>> \in Seq(Blocks) /\ 1 \in 1 .. Slots
    BY AllocatorAssumption
  <2> QED BY <2>1 DEF Idle, ThreadState
<1> HIDE DEF x
<1>3. Only(t) /\ th'[t] = x /\ th' \in [Threads -> ThreadState]
  BY <1>1, <1>2, Moves DEF IInv
<1>4. TypeOK'
  BY <1>1, <1>3 DEF IInv, TypeOK, root, cache
<1>5. /\ th[t].pc = "idle" /\ th[t].p = NoBlock /\ th[t].item = NoItem /\ th[t].rest = <<>>
      /\ th'[t].pc = "slot" /\ th'[t].p = NoBlock /\ th'[t].item = NoItem /\ th'[t].rest = <<>>
      /\ th'[t].op = "allocate"
  BY <1>1, <1>2, <1>3 DEF Idle
<1>6. PlaceOk(t)'
  BY <1>5 DEF PlaceOk, At
<1>7. Quiet(t)
  BY <1>5, NoBlockIs DEF Quiet, SameHandsOut, HandsOut, Holds, Owns, At
<1>8. SameKeep(t)
  BY <1>1, <1>5 DEF SameKeep, InHand, cache
<1>9. KeptOnce' /\ SamePlaces
  BY <1>3, <1>8, KeepSame DEF IInv
<1>10. RecycledIsBounded'
  BY <1>1, <1>3, <1>5, <1>9, BoundQuiet DEF Counts, Putting, cache
<1> QED BY <1>1, <1>3, <1>4, <1>6, <1>7, <1>9, <1>10, BlockSame, QuietStep

LEMMA SearchStep ==
  ASSUME IInv, NEW t \in Threads, Search(t)
  PROVE  IInv'
<1> DEFINE clear == (0 .. Bits - 1) \ Mine(t).bitmap
           x == IF clear = {} THEN [th[t] EXCEPT !.pc = "drop"]
                ELSE [th[t] EXCEPT !.pc = "claim", !.item = Min(clear)]
<1>1. th' = [th EXCEPT ![t] = x] /\ At(t, "search") /\ UNCHANGED <<root, block, cache, inUse>>
  BY DEF Search
<1>2. clear # {} => Min(clear) \in 0 .. Bits - 1
  <2>1. clear \subseteq Nat /\ clear \subseteq 0 .. Bits - 1
    OBVIOUS
  <2> QED BY <2>1, MinIs
<1>3. th[t] \in ThreadState /\ th[t].item = NoItem /\ th[t].op = "allocate" /\ th[t].p \in Blocks /\ th[t].rest = <<>>
  BY <1>1 DEF IInv, TypeOK, PlaceInv, PlaceOk, At, ThreadState
<1> HIDE DEF clear
<1>4. /\ x \in ThreadState /\ x.p = th[t].p /\ x.rest = <<>> /\ x.op = "allocate"
      /\ \/ x.pc = "drop" /\ x.item = NoItem
         \/ x.pc = "claim" /\ x.item \in 0 .. Bits - 1
  BY <1>2, <1>3 DEF ThreadState
<1> HIDE DEF x
<1>5. Only(t) /\ th'[t] = x /\ th' \in [Threads -> ThreadState]
  BY <1>1, <1>4, Moves DEF IInv
<1>6. TypeOK'
  BY <1>1, <1>5 DEF IInv, TypeOK, root, cache
<1>7. PlaceOk(t)'
  BY <1>3, <1>4, <1>5, NoBlockIs, AllocatorAssumption DEF PlaceOk, At, NoItem
<1>8. Quiet(t)
  BY <1>1, <1>3, <1>4, <1>5 DEF Quiet, SameHandsOut, HandsOut, Holds, Owns, At
<1>9. SameKeep(t)
  BY <1>1, <1>3, <1>4, <1>5 DEF SameKeep, InHand, cache, At
<1>10. KeptOnce' /\ SamePlaces
  BY <1>5, <1>9, KeepSame DEF IInv
<1>11. RecycledIsBounded'
  BY <1>1, <1>4, <1>5, <1>10, BoundQuiet DEF Counts, Putting, cache, At
<1> QED BY <1>1, <1>5, <1>6, <1>7, <1>8, <1>10, <1>11, BlockSame, QuietStep

LEMMA RecycleStep ==
  ASSUME IInv, NEW t \in Threads, recycle(t)
  PROVE  IInv'
<1> DEFINE x == [th[t] EXCEPT !.pc = IF Mine(t).managed = 0 /\ recycle_count < Recycled THEN "manage" ELSE "drop"]
<1>1. th' = [th EXCEPT ![t] = x] /\ At(t, "recycle") /\ UNCHANGED <<root, block, cache, inUse>>
  BY DEF recycle, Go, IInv, TypeOK
<1>2. /\ th[t] \in ThreadState /\ th[t].item # NoItem /\ th[t].op # "none" /\ th[t].p \in Blocks /\ th[t].rest = <<>>
      /\ th[t].item < Items
  BY <1>1 DEF IInv, TypeOK, PlaceInv, PlaceOk, At, ThreadState
<1>3. /\ x \in ThreadState /\ x.p = th[t].p /\ x.rest = th[t].rest /\ x.op = th[t].op /\ x.item = th[t].item
      /\ x.pc \in {"manage", "drop"} /\ (x.pc = "manage" => recycle_count < Recycled)
  BY <1>2 DEF ThreadState
<1> HIDE DEF x
<1>4. Only(t) /\ th'[t] = x /\ th' \in [Threads -> ThreadState]
  BY <1>1, <1>3, Moves DEF IInv
<1>5. TypeOK'
  BY <1>1, <1>4 DEF IInv, TypeOK, root, cache
<1>6. PlaceOk(t)'
  BY <1>2, <1>3, <1>4, NoBlockIs DEF PlaceOk, At
<1>7. Quiet(t)
  BY <1>1, <1>2, <1>3, <1>4 DEF Quiet, SameHandsOut, HandsOut, Holds, Owns, At
<1>8. SameKeep(t)
  BY <1>1, <1>3, <1>4 DEF SameKeep, InHand, cache, At
<1>9. KeptOnce' /\ SamePlaces
  BY <1>4, <1>8, KeepSame DEF IInv
<1>10. RecycledIsBounded'
  <2>1. recycle_count' = recycle_count /\ (t \in Counts' <=> t \in Counts) /\ t \notin Putting
    BY <1>1, <1>3, <1>4 DEF Counts, Putting, cache, At
  <2>2. CASE t \notin Putting'
    BY <1>4, <1>9, <2>1, <2>2, BoundQuiet
  <2>3. CASE t \in Putting'
    <3>1. recycle_count < Recycled
      BY <1>3, <1>4, <2>3 DEF Putting
    <3>2. Putting' \in SUBSET Threads
      BY DEF Putting
    <3>3. Cardinality(Putting') <= Cardinality(Threads) /\ Cardinality(Putting') \in Nat
      BY <3>2, AllocatorAssumption, FS_Subset, FS_CardinalityType
    <3>4. Cardinality(Listed') = Cardinality(Listed) /\ Cardinality(Counts') = Cardinality(Counts)
      BY <1>4, <1>9, <2>1, ListedSame, CountsAre
    <3>5. /\ recycle_count = Cardinality(Listed) + Cardinality(Counts)
          /\ recycle_count \in Nat /\ Recycled \in Nat /\ Cardinality(Threads) \in Nat
      BY Bounded, AllocatorAssumption DEF IInv, RecycledIsBounded, TypeOK
    <3>6. recycle_count' + Cardinality(Putting') < Recycled + Cardinality(Threads)
      BY <2>1, <3>1, <3>3, <3>5
    <3> QED BY <2>1, <3>4, <3>5, <3>6 DEF RecycledIsBounded
  <2> QED BY <2>2, <2>3
<1> QED BY <1>1, <1>4, <1>5, <1>6, <1>7, <1>9, <1>10, BlockSame, QuietStep

LEMMA UncountStep ==
  ASSUME IInv, NEW t \in Threads, Uncount(t)
  PROVE  IInv'
<1> DEFINE x == [th[t] EXCEPT !.pc = "unmanage"]
<1>1. /\ th' = [th EXCEPT ![t] = x] /\ At(t, "uncount") /\ recycle_count' = recycle_count - 1
      /\ UNCHANGED <<root, block, control_blocks, recycled, inUse>>
  BY DEF Uncount, Go, IInv, TypeOK
<1>2. /\ th[t] \in ThreadState /\ th[t].item = NoItem /\ th[t].op = "allocate" /\ th[t].p \in Blocks /\ th[t].rest = <<>>
  BY <1>1 DEF IInv, TypeOK, PlaceInv, PlaceOk, At, ThreadState
<1>3. /\ x \in ThreadState /\ x.p = th[t].p /\ x.rest = <<>> /\ x.op = "allocate" /\ x.item = NoItem
      /\ x.pc = "unmanage"
  BY <1>2 DEF ThreadState
<1> HIDE DEF x
<1>4. Only(t) /\ th'[t] = x /\ th' \in [Threads -> ThreadState]
  BY <1>1, <1>3, Moves DEF IInv
<1>5. PlaceOk(t)'
  BY <1>2, <1>3, <1>4, NoBlockIs DEF PlaceOk, At
<1>6. Quiet(t)
  BY <1>1, <1>2, <1>3, <1>4 DEF Quiet, SameHandsOut, HandsOut, Holds, Owns, At
<1>7. SameKeep(t)
  BY <1>1, <1>2, <1>3, <1>4 DEF SameKeep, InHand, At
<1>8. KeptOnce' /\ SamePlaces
  BY <1>4, <1>7, KeepSame DEF IInv
<1>9. RecycledIsBounded' /\ recycle_count' \in Nat
  <2>1. t \in Counts /\ t \notin Counts' /\ t \notin Putting /\ t \notin Putting'
    BY <1>1, <1>3, <1>4 DEF Counts, Putting, At
  <2>2. /\ Cardinality(Listed') = Cardinality(Listed) /\ Cardinality(Counts') = Cardinality(Counts) - 1
        /\ Cardinality(Putting') = Cardinality(Putting)
    BY <1>4, <1>8, <2>1, ListedSame, CountsAre, PuttingIs
  <2>3. /\ recycle_count = Cardinality(Listed) + Cardinality(Counts)
        /\ recycle_count + Cardinality(Putting) < Recycled + Cardinality(Threads)
        /\ recycle_count \in Nat /\ Recycled \in Nat /\ Cardinality(Threads) \in Nat /\ Cardinality(Putting) \in Nat
        /\ Cardinality(Listed) \in Nat /\ Cardinality(Counts) \in Nat
    BY Bounded, AllocatorAssumption DEF IInv, RecycledIsBounded, TypeOK
  <2>4. Cardinality(Counts) # 0
    BY <2>1, Bounded, FS_EmptySet
  <2>5. recycle_count' = Cardinality(Listed') + Cardinality(Counts')
    BY <1>1, <2>2, <2>3
  <2>6. recycle_count' + Cardinality(Putting') < Recycled + Cardinality(Threads)
    BY <1>1, <2>2, <2>3
  <2>7. recycle_count' \in Nat
    BY <1>1, <2>3, <2>4
  <2> QED BY <2>5, <2>6, <2>7 DEF RecycledIsBounded
<1>10. TypeOK'
  BY <1>1, <1>4, <1>9 DEF IInv, TypeOK, root
<1> QED BY <1>1, <1>4, <1>5, <1>6, <1>8, <1>9, <1>10, BlockSame, QuietStep

LEMMA UnmanageStep ==
  ASSUME IInv, NEW t \in Threads, Unmanage(t)
  PROVE  IInv'
<1> DEFINE x == [th[t] EXCEPT !.pc = "search"]
           p == th[t].p
<1>1. /\ th' = [th EXCEPT ![t] = x] /\ At(t, "unmanage") /\ block' = [block EXCEPT ![p]["managed"] = 0]
      /\ UNCHANGED <<root, cache, inUse>>
  BY DEF Unmanage, Go, Set, IInv, TypeOK
<1>2. /\ th[t] \in ThreadState /\ th[t].item = NoItem /\ th[t].op = "allocate" /\ p \in Blocks /\ th[t].rest = <<>>
  BY <1>1 DEF IInv, TypeOK, PlaceInv, PlaceOk, At, ThreadState
<1>3. /\ x \in ThreadState /\ x.p = th[t].p /\ x.rest = <<>> /\ x.op = "allocate" /\ x.item = NoItem
      /\ x.pc = "search"
  BY <1>2 DEF ThreadState
<1>4. Only(t) /\ th'[t] = x /\ th' \in [Threads -> ThreadState]
  BY <1>1, <1>3, Moves DEF IInv
<1> HIDE DEF x
<1>5. SameCounts /\ \A b \in Blocks : block'[b].bitmap = block[b].bitmap
  BY <1>1 DEF SameCounts, IInv, TypeOK
<1>6. TypeOK'
  BY <1>1, <1>2, <1>4 DEF IInv, TypeOK, root, cache
<1>7. PlaceOk(t)'
  BY <1>2, <1>3, <1>4, NoBlockIs DEF PlaceOk, At
<1>8. Quiet(t)
  BY <1>1, <1>2, <1>3, <1>4 DEF Quiet, SameHandsOut, HandsOut, Holds, Owns, At
<1>9. KeptOnce' /\ SamePlaces
  BY <1>4, KeepUnmanage
<1>10. RecycledIsBounded'
  BY <1>1, <1>3, <1>4, <1>9, BoundQuiet DEF Counts, Putting, cache, At
<1> QED BY <1>1, <1>4, <1>5, <1>6, <1>7, <1>8, <1>9, <1>10, QuietStep

LEMMA ManageStep ==
  ASSUME IInv, NEW t \in Threads, Manage(t)
  PROVE  IInv'
<1> DEFINE q == IF Mine(t).managed = 0 THEN "put" ELSE "drop"
           x == [th[t] EXCEPT !.pc = q, !.n = 1]
           p == th[t].p
<1>1. /\ th' = [th EXCEPT ![t] = x] /\ At(t, "manage") /\ block' = [block EXCEPT ![p]["managed"] = 1]
      /\ UNCHANGED <<root, cache, inUse>>
  BY DEF Manage, Set, IInv, TypeOK
<1>2. /\ th[t] \in ThreadState /\ th[t].item # NoItem /\ th[t].op # "none" /\ p \in Blocks /\ th[t].rest = <<>>
      /\ th[t].item < Items
  BY <1>1 DEF IInv, TypeOK, PlaceInv, PlaceOk, At, ThreadState
<1>3. /\ x \in ThreadState /\ x.p = th[t].p /\ x.rest = th[t].rest /\ x.op = th[t].op /\ x.item = th[t].item
      /\ x.pc \in {"put", "drop"}
  <2>1. q \in {"put", "drop"} /\ 1 \in 1 .. Slots
    BY AllocatorAssumption
  <2> HIDE DEF q
  <2> QED BY <1>2, <2>1 DEF ThreadState
<1>4. Only(t) /\ th'[t] = x /\ th' \in [Threads -> ThreadState]
  BY <1>1, <1>3, Moves DEF IInv
<1> HIDE DEF x
<1>5. SameCounts /\ \A b \in Blocks : block'[b].bitmap = block[b].bitmap
  BY <1>1 DEF SameCounts, IInv, TypeOK
<1>6. TypeOK'
  BY <1>1, <1>2, <1>4 DEF IInv, TypeOK, root, cache
<1>7. PlaceOk(t)'
  BY <1>2, <1>3, <1>4, NoBlockIs DEF PlaceOk, At
<1>8. Quiet(t)
  BY <1>1, <1>2, <1>3, <1>4 DEF Quiet, SameHandsOut, HandsOut, Holds, Owns, At
<1>9. KeptOnce' /\ SamePlaces
  BY <1>4, KeepManage
<1>10. RecycledIsBounded'
  BY <1>1, <1>3, <1>4, <1>9, BoundQuiet DEF Counts, Putting, cache, At
<1> QED BY <1>1, <1>4, <1>5, <1>6, <1>7, <1>8, <1>9, <1>10, QuietStep

LEMMA PutBackStep ==
  ASSUME IInv, NEW t \in Threads, PutBack(t) \/ PutOne(t)
  PROVE  IInv'
<1>1. /\ At(t, "putback") \/ At(t, "putone")
      /\ UNCHANGED <<root, block, control_blocks, recycle_count, inUse>>
  BY DEF PutBack, PutOne
<1>2. /\ th[t] \in ThreadState /\ th[t].item = NoItem /\ th[t].op = "allocate" /\ th[t].p \in Blocks
      /\ th[t].rest \in Seq(Blocks) /\ recycled \in Seq(Blocks)
      /\ At(t, "putone") => th[t].rest # <<>>
  BY <1>1 DEF IInv, TypeOK, PlaceInv, PlaceOk, At, ThreadState
<1>3. /\ Only(t) /\ th'[t] \in ThreadState /\ th' \in [Threads -> ThreadState]
      /\ th'[t].p = th[t].p /\ th'[t].op = th[t].op /\ th'[t].item = th[t].item
      /\ th'[t].pc \in {"uncount", "putone"} /\ (th'[t].rest = <<>> <=> th'[t].pc = "uncount")
      /\ recycled' \in Seq(Blocks)
  <2>1. CASE PutOne(t)
    <3> DEFINE r == Tail(th[t].rest)
               x == [th[t] EXCEPT !.pc = IF Len(th[t].rest) = 1 THEN "uncount" ELSE "putone", !.rest = r]
    <3>1. th' = [th EXCEPT ![t] = x] /\ th[t].rest # <<>> /\ recycled' = <<Head(th[t].rest)>> \o recycled
      BY <1>2, <2>1 DEF PutOne
    <3>2. Head(th[t].rest) \in Blocks /\ r \in Seq(Blocks) /\ (Len(th[t].rest) = 1 <=> r = <<>>)
      BY <1>2, <3>1, HeadIs
    <3>3. recycled' \in Seq(Blocks)
      BY <1>2, <3>1, <3>2, PrependIs
    <3> HIDE DEF r
    <3>4. /\ x \in ThreadState /\ x.p = th[t].p /\ x.op = th[t].op /\ x.item = th[t].item /\ x.rest = r
          /\ x.pc = IF r = <<>> THEN "uncount" ELSE "putone"
      BY <1>2, <3>2 DEF ThreadState
    <3> HIDE DEF x
    <3>5. Only(t) /\ th'[t] = x /\ th' \in [Threads -> ThreadState]
      BY <3>1, <3>4, Moves DEF IInv
    <3> QED BY <3>3, <3>4, <3>5
  <2>2. CASE PutBack(t) /\ (recycled = <<>> \/ th[t].rest = <<>>)
    <3> DEFINE x == [th[t] EXCEPT !.pc = "uncount", !.rest = <<>>]
    <3>1. th' = [th EXCEPT ![t] = x] /\ recycled' = recycled \o th[t].rest
      BY <2>2 DEF PutBack
    <3>2. /\ x \in ThreadState /\ x.p = th[t].p /\ x.op = th[t].op /\ x.item = th[t].item /\ x.rest = <<>>
          /\ x.pc = "uncount"
      <4>1. <<>> \in Seq(Blocks)
        OBVIOUS
      <4> QED BY <1>2, <4>1 DEF ThreadState
    <3> HIDE DEF x
    <3>3. Only(t) /\ th'[t] = x /\ th' \in [Threads -> ThreadState]
      BY <3>1, <3>2, Moves DEF IInv
    <3>4. recycled' \in Seq(Blocks)
      BY <1>2, <3>1
    <3> QED BY <3>2, <3>3, <3>4
  <2>3. CASE PutBack(t) /\ ~(recycled = <<>> \/ th[t].rest = <<>>)
    <3> DEFINE x == [th[t] EXCEPT !.pc = "putone"]
    <3>1. th' = [th EXCEPT ![t] = x] /\ recycled' = recycled
      BY <2>3 DEF PutBack, Go, IInv, TypeOK
    <3>2. /\ x \in ThreadState /\ x.p = th[t].p /\ x.op = th[t].op /\ x.item = th[t].item /\ x.rest = th[t].rest
          /\ x.pc = "putone"
      BY <1>2 DEF ThreadState
    <3> HIDE DEF x
    <3>3. Only(t) /\ th'[t] = x /\ th' \in [Threads -> ThreadState]
      BY <3>1, <3>2, Moves DEF IInv
    <3> QED BY <1>2, <2>3, <3>1, <3>2, <3>3
  <2> QED BY <2>1, <2>2, <2>3
<1>4. TypeOK'
  BY <1>1, <1>3 DEF IInv, TypeOK, root
<1>5. PlaceOk(t)'
  BY <1>2, <1>3, NoBlockIs DEF PlaceOk, At
<1>6. Quiet(t)
  BY <1>1, <1>2, <1>3 DEF Quiet, SameHandsOut, HandsOut, Holds, Owns, At
<1>7. KeptOnce' /\ SamePlaces
  BY <1>3, KeepPutBack, KeepPutOne
<1>8. RecycledIsBounded'
  BY <1>1, <1>3, <1>7, BoundQuiet DEF Counts, Putting, At
<1> QED BY <1>1, <1>3, <1>4, <1>5, <1>6, <1>7, <1>8, BlockSame, QuietStep

LEMMA ClearStep ==
  ASSUME IInv, NEW t \in Threads, Clear(t)
  PROVE  IInv'
<1> DEFINE x == [th[t] EXCEPT !.pc = "recycle"]
           p == th[t].p
           i == th[t].item
<1>1. /\ th' = [th EXCEPT ![t] = x] /\ At(t, "clear") /\ block' = [block EXCEPT ![p]["bitmap"] = block[p].bitmap \ {i}]
      /\ UNCHANGED <<root, cache, inUse>>
  BY DEF Clear, Go, Set, Mine, IInv, TypeOK
<1>2. /\ th[t] \in ThreadState /\ i # NoItem /\ th[t].op = "deallocate" /\ p \in Blocks /\ th[t].rest = <<>> /\ i < Items
  BY <1>1 DEF IInv, TypeOK, PlaceInv, PlaceOk, At, ThreadState
<1>3. /\ x \in ThreadState /\ x.p = th[t].p /\ x.rest = th[t].rest /\ x.op = th[t].op /\ x.item = th[t].item
      /\ x.pc = "recycle"
  BY <1>2 DEF ThreadState
<1>4. Only(t) /\ th'[t] = x /\ th' \in [Threads -> ThreadState]
  BY <1>1, <1>3, Moves DEF IInv
<1> HIDE DEF x
<1>5. /\ SameCounts /\ SameMarks
      /\ \A b \in Blocks : block'[b].bitmap = IF b = p THEN block[b].bitmap \ {i} ELSE block[b].bitmap
  BY <1>1 DEF SameCounts, SameMarks, IInv, TypeOK
<1>6. TypeOK'
  BY <1>1, <1>2, <1>4 DEF IInv, TypeOK, root, cache
<1>7. PlaceOk(t)'
  BY <1>2, <1>3, <1>4, NoBlockIs DEF PlaceOk, At
<1>8. SameKeep(t)
  BY <1>1, <1>3, <1>4, <1>5 DEF SameKeep, SameMarks, InHand, cache, At
<1>9. KeptOnce' /\ SamePlaces
  BY <1>4, <1>8, KeepSame DEF IInv
<1>10. RecycledIsBounded'
  BY <1>1, <1>3, <1>4, <1>9, BoundQuiet DEF Counts, Putting, cache, At
<1>11. InUseIsMapped' /\ FreeInv'
  BY <1>1, <1>3, <1>4, <1>5, PagesQuiet DEF At
<1>12. RefsExact'
  <2>1. SameHandsOut(t) /\ \A b \in Blocks : Holds(t, b)' <=> Holds(t, b)
    BY <1>1, <1>2, <1>3, <1>4 DEF SameHandsOut, HandsOut, Holds, At
  <2> QED BY <1>1, <1>4, <1>5, <1>9, <2>1, RefsQuiet
<1>13. NoDoubleAllocation' /\ BitsInv'
  <2>1. Owns(t) /\ ~Owns(t)'
    BY <1>1, <1>2, <1>3, <1>4 DEF Owns, At
  <2>2. i \notin inUse[p] /\ \A u \in Threads \ {t} : Owns(u) => <<th[u].p, th[u].item>> # <<p, i>>
    BY <2>1 DEF IInv, NoDoubleAllocation
  <2>3. BitsInv'
    BY <1>1, <1>5, <2>2 DEF IInv, BitsInv
  <2>4. ASSUME NEW u \in Threads, Owns(u)' PROVE u # t /\ Owns(u) /\ th'[u] = th[u] /\ th[u].p \in Blocks
    BY <1>4, <2>1, <2>4, OthersOut DEF IInv, TypeOK, ThreadState, PlaceInv, PlaceOk, Owns, At, Idle, Only
  <2>5. NoDoubleAllocation'
    BY <1>1, <1>5, <2>2, <2>4 DEF IInv, NoDoubleAllocation, Mine
  <2> QED BY <2>3, <2>5
<1>14. PlaceInv'
  BY <1>4, <1>7, PlacesSame
<1> QED BY <1>6, <1>9, <1>10, <1>11, <1>12, <1>13, <1>14 DEF IInv

-----------------------------------------------------------------------------
(* Steps that move a reference from one that holds it to another *)

LEMMA TagsAre ==
  /\ \A u \in Threads : <<"thread", u>> \in Tags
  /\ \A i \in 0 .. Items - 1 : <<"item", i>> \in Tags
  /\ <<"kept", 0>> \in Tags
BY DEF Tags

LEMMA RefsMoved ==
  ASSUME IInv, SameCounts, NEW q \in Blocks, NEW r \in Tags, NEW s \in Tags, r # s, Except(q, {r, s}),
         Refers(r, q), ~Refers(r, q)', ~Refers(s, q), Refers(s, q)',
         \A b \in Blocks \ {q} : Except(b, {})
  PROVE  RefsExact'
<1> SUFFICES ASSUME NEW b \in Blocks PROVE block'[b].ref_count = Cardinality(Refs(b)')
  BY DEF RefsExact
<1>1. CASE b = q
  BY <1>1, RefsReplaced DEF IInv, RefsExact, SameCounts
<1>2. CASE b # q
  BY <1>2, RefsSame DEF IInv, RefsExact, SameCounts
<1> QED BY <1>1, <1>2

\* A thread that holds no block takes one that is kept.
LEMMA RefsTaken ==
  ASSUME IInv, NEW t \in Threads, Only(t), inUse' = inUse, SameCounts, SameHandsOut(t),
         NEW q \in Blocks, Kept(q), \A b \in Blocks : Kept(b)' <=> Kept(b) /\ b # q,
         \A b \in Blocks : ~Holds(t, b) /\ (Holds(t, b)' <=> b = q)
  PROVE  RefsExact'
<1> DEFINE r == <<"kept", 0>>
           s == <<"thread", t>>
<1>1. r \in Tags /\ s \in Tags /\ r # s
  BY TagsAre
<1>2. Refers(r, q) /\ ~Refers(s, q) /\ ~Refers(r, q)' /\ Refers(s, q)'
  BY RefersIs, RefersIsNext
<1>3. \A b \in Blocks : \A i : Out(b, i)' <=> Out(b, i)
  BY OutSame
<1>4. \A b \in Blocks : \A u \in Threads \ {t} : Holds(u, b)' <=> Holds(u, b)
  BY OthersOut
<1>5. Except(q, {r, s})
  <2>1. \A u \in Threads : <<"thread", u>> \in {r, s} \/ (Holds(u, q)' <=> Holds(u, q))
    BY <1>4
  <2>2. <<"kept", 0>> \in {r, s}
    OBVIOUS
  <2> HIDE DEF r, s
  <2> QED BY <1>3, <2>1, <2>2, ExceptIs
<1>6. ASSUME NEW b \in Blocks \ {q} PROVE Except(b, {})
  <2>1. \A u \in Threads : Holds(u, b)' <=> Holds(u, b)
    BY <1>4
  <2> QED BY <1>3, <2>1, ExceptIs
<1> HIDE DEF r, s
<1> QED BY <1>1, <1>2, <1>5, <1>6, RefsMoved

LEMMA TakeSlotStep ==
  ASSUME IInv, NEW t \in Threads, TakeSlot(t)
  PROVE  IInv'
<1> DEFINE n == th[t].n
           q == control_blocks[n]
           x == IF q # NoBlock THEN [th[t] EXCEPT !.pc = "unmanage", !.p = q]
                ELSE IF n = Slots THEN [th[t] EXCEPT !.pc = "recycled"] ELSE [th[t] EXCEPT !.n = n + 1]
<1>1. /\ th' = [th EXCEPT ![t] = x] /\ At(t, "slot") /\ control_blocks' = [control_blocks EXCEPT ![n] = NoBlock]
      /\ UNCHANGED <<root, block, recycled, recycle_count, inUse>>
  BY DEF TakeSlot
<1>2. /\ th[t] \in ThreadState /\ th[t].item = NoItem /\ th[t].op = "allocate" /\ th[t].p = NoBlock
      /\ th[t].rest = <<>> /\ n \in 1 .. Slots /\ q \in Blocks \cup {NoBlock}
  BY <1>1 DEF IInv, TypeOK, PlaceInv, PlaceOk, At, ThreadState
<1> HIDE DEF q
<1>3. /\ x \in ThreadState /\ x.item = NoItem /\ x.op = "allocate" /\ x.rest = <<>>
      /\ \/ q # NoBlock /\ x.pc = "unmanage" /\ x.p = q
         \/ q = NoBlock /\ x.pc \in {"recycled", "slot"} /\ x.p = NoBlock
  <2>1. n # Slots => n + 1 \in 1 .. Slots
    BY <1>2, AllocatorAssumption
  <2> HIDE DEF n
  <2>2. CASE q # NoBlock
    BY <1>2, <2>2 DEF ThreadState
  <2>3. CASE q = NoBlock /\ n = Slots
    BY <1>2, <2>3 DEF ThreadState
  <2>4. CASE q = NoBlock /\ n # Slots
    BY <1>1, <1>2, <2>1, <2>4 DEF ThreadState, At
  <2> QED BY <2>2, <2>3, <2>4
<1> HIDE DEF x
<1>4. Only(t) /\ th'[t] = x /\ th' \in [Threads -> ThreadState]
  BY <1>1, <1>3, Moves DEF IInv
<1>5. TypeOK'
  BY <1>1, <1>2, <1>4 DEF IInv, TypeOK, root
<1>6. PlaceOk(t)'
  BY <1>2, <1>3, <1>4, NoBlockIs DEF PlaceOk, At
<1>7. CASE q = NoBlock
  <2>1. control_blocks' = control_blocks
    BY <1>1, <1>7 DEF q, IInv, TypeOK
  <2>2. Quiet(t)
    BY <1>1, <1>2, <1>3, <1>4, <1>7, NoBlockIs DEF Quiet, SameHandsOut, HandsOut, Holds, Owns, At
  <2>3. SameKeep(t)
    BY <1>1, <1>2, <1>3, <1>4, <1>7, <2>1 DEF SameKeep, InHand, At
  <2>4. KeptOnce' /\ SamePlaces
    BY <1>4, <2>3, KeepSame DEF IInv
  <2>5. RecycledIsBounded'
    BY <1>1, <1>3, <1>4, <1>7, <2>4, BoundQuiet DEF Counts, Putting, At
  <2> QED BY <1>1, <1>4, <1>5, <1>6, <2>2, <2>4, <2>5, BlockSame, QuietStep
<1>8. CASE q # NoBlock
  <2>1. q \in Blocks /\ x.pc = "unmanage" /\ x.p = q
    BY <1>2, <1>3, <1>8
  <2>2. /\ KeptOnce' /\ Kept(q) /\ \A b \in Blocks : Kept(b)' <=> Kept(b) /\ b # q
        /\ Listed' = Listed
    BY <1>4, <1>8, KeepTakeSlot DEF q, Listed
  <2>3. RefsExact'
    <3>1. SameHandsOut(t) /\ \A b \in Blocks : ~Holds(t, b) /\ (Holds(t, b)' <=> b = q)
      BY <1>1, <1>2, <1>3, <1>4, <2>1, NoBlockIs DEF SameHandsOut, HandsOut, Holds, At
    <3> QED BY <1>1, <1>4, <2>1, <2>2, <3>1, BlockSame, RefsTaken
  <2>4. InUseIsMapped' /\ FreeInv'
    BY <1>1, <1>4, <2>1, BlockSame, PagesQuiet DEF At
  <2>5. NoDoubleAllocation' /\ BitsInv'
    <3>1. ~Owns(t)'
      BY <1>3, <1>4 DEF Owns
    <3> QED BY <1>1, <1>4, <3>1, ItemsQuiet
  <2>6. RecycledIsBounded'
    BY <1>1, <1>4, <2>1, <2>2, BoundSame DEF Counts, Putting, At
  <2> QED BY <1>4, <1>5, <1>6, <2>2, <2>3, <2>4, <2>5, <2>6, PlacesSame DEF IInv
<1> QED BY <1>7, <1>8

LEMMA TakeRecycledStep ==
  ASSUME IInv, NEW t \in Threads, TakeRecycled(t)
  PROVE  IInv'
<1> DEFINE h == Head(recycled)
           r == Tail(recycled)
           x == IF recycled = <<>> THEN [th[t] EXCEPT !.pc = "root"]
                ELSE [th[t] EXCEPT !.pc = "putback", !.p = h, !.rest = r]
<1>1. /\ th' = [th EXCEPT ![t] = x] /\ At(t, "recycled") /\ recycled' = <<>>
      /\ UNCHANGED <<root, block, control_blocks, recycle_count, inUse>>
  BY DEF TakeRecycled
<1>2. /\ th[t] \in ThreadState /\ th[t].item = NoItem /\ th[t].op = "allocate" /\ th[t].p = NoBlock
      /\ th[t].rest = <<>>
  BY <1>1 DEF IInv, TypeOK, PlaceInv, PlaceOk, At, ThreadState
<1>3. recycled # <<>> => h \in Blocks /\ r \in Seq(Blocks)
  BY HeadIs DEF IInv, TypeOK
<1> HIDE DEF h, r
<1>4. /\ x \in ThreadState /\ x.item = NoItem /\ x.op = "allocate"
      /\ \/ recycled # <<>> /\ x.pc = "putback" /\ x.p = h
         \/ recycled = <<>> /\ x.pc = "root" /\ x.p = NoBlock /\ x.rest = <<>>
  <2>1. CASE recycled = <<>>
    BY <1>2, <2>1 DEF ThreadState
  <2>2. CASE recycled # <<>>
    BY <1>2, <1>3, <2>2 DEF ThreadState
  <2> QED BY <2>1, <2>2
<1> HIDE DEF x
<1>5. Only(t) /\ th'[t] = x /\ th' \in [Threads -> ThreadState]
  BY <1>1, <1>4, Moves DEF IInv
<1>6. TypeOK'
  <2>1. recycled' \in Seq(Blocks)
    BY <1>1
  <2> QED BY <1>1, <1>5, <2>1 DEF IInv, TypeOK, root
<1>7. PlaceOk(t)'
  BY <1>2, <1>3, <1>4, <1>5, NoBlockIs DEF PlaceOk, At
<1>8. CASE recycled = <<>>
  <2>1. Quiet(t)
    BY <1>1, <1>2, <1>4, <1>5, <1>8, NoBlockIs DEF Quiet, SameHandsOut, HandsOut, Holds, Owns, At
  <2>2. SameKeep(t)
    BY <1>1, <1>2, <1>4, <1>5, <1>8 DEF SameKeep, InHand, At
  <2>3. KeptOnce' /\ SamePlaces
    BY <1>5, <2>2, KeepSame DEF IInv
  <2>4. RecycledIsBounded'
    BY <1>1, <1>4, <1>5, <1>8, <2>3, BoundQuiet DEF Counts, Putting, At
  <2> QED BY <1>1, <1>5, <1>6, <1>7, <2>1, <2>3, <2>4, BlockSame, QuietStep
<1>9. CASE recycled # <<>>
  <2>1. h \in Blocks /\ x.pc = "putback" /\ x.p = h
    BY <1>3, <1>4, <1>9
  <2>2. /\ KeptOnce' /\ Kept(h) /\ (\A b \in Blocks : Kept(b)' <=> Kept(b) /\ b # h)
        /\ Listed' = Listed \ {h} /\ h \in Listed
    BY <1>3, <1>5, <1>9, KeepTakeRecycled DEF h, Listed
  <2>3. RefsExact'
    <3>1. SameHandsOut(t) /\ \A b \in Blocks : ~Holds(t, b) /\ (Holds(t, b)' <=> b = h)
      BY <1>1, <1>2, <1>4, <1>5, <2>1, NoBlockIs DEF SameHandsOut, HandsOut, Holds, At
    <3> QED BY <1>1, <1>5, <2>1, <2>2, <3>1, BlockSame, RefsTaken
  <2>4. InUseIsMapped' /\ FreeInv'
    BY <1>1, <1>5, <2>1, BlockSame, PagesQuiet DEF At
  <2>5. NoDoubleAllocation' /\ BitsInv'
    <3>1. ~Owns(t)'
      BY <1>4, <1>5 DEF Owns
    <3> QED BY <1>1, <1>5, <3>1, ItemsQuiet, BlockSame
  <2>6. RecycledIsBounded'
    <3>1. t \notin Counts /\ t \in Counts' /\ t \notin Putting /\ t \notin Putting'
      BY <1>1, <1>5, <2>1 DEF Counts, Putting, At
    <3>2. /\ Cardinality(Listed') = Cardinality(Listed) - 1 /\ Cardinality(Counts') = Cardinality(Counts) + 1
          /\ Cardinality(Putting') = Cardinality(Putting)
      BY <1>5, <2>2, <3>1, Bounded, FS_RemoveElement, CountsAre, PuttingIs
    <3>3. /\ recycle_count = Cardinality(Listed) + Cardinality(Counts)
          /\ recycle_count + Cardinality(Putting) < Recycled + Cardinality(Threads)
          /\ recycle_count' = recycle_count /\ Cardinality(Listed) \in Nat /\ Cardinality(Counts) \in Nat
      BY <1>1, Bounded DEF IInv, RecycledIsBounded
    <3>4. recycle_count' = Cardinality(Listed') + Cardinality(Counts')
      BY <3>2, <3>3
    <3> QED BY <3>2, <3>3, <3>4 DEF RecycledIsBounded
  <2> QED BY <1>5, <1>6, <1>7, <2>2, <2>3, <2>4, <2>5, <2>6, PlacesSame DEF IInv
<1> QED BY <1>8, <1>9

-----------------------------------------------------------------------------
(* Steps that hand an item out or take one back *)

LEMMA HandsOutOwned ==
  ASSUME NEW t, HandsOut(t)
  PROVE  Owns(t)
BY DEF HandsOut, Owns

LEMMA OwnedIs ==
  ASSUME IInv, NEW t \in Threads, Owns(t)
  PROVE  th[t].p \in Blocks /\ th[t].item \in 0 .. Bits - 1
BY DEF IInv, TypeOK, ThreadState, PlaceInv, PlaceOk, Owns, At, Idle

\* What refers to a block is counted.
LEMMA Referred ==
  ASSUME IInv, NEW b \in Blocks, NEW r \in Tags, Refers(r, b)
  PROVE  block[b].ref_count > 0
<1>1. r \in Refs(b)
  BY DEF Refs
<1>2. Cardinality(Refs(b)) # 0 /\ Cardinality(Refs(b)) \in Nat
  BY <1>1, RefsFinite, FS_EmptySet
<1> QED BY <1>2 DEF IInv, RefsExact

LEMMA DeallocateStep ==
  ASSUME IInv, NEW t \in Threads, deallocate(t)
  PROVE  IInv'
<1>0. PICK b \in Blocks : \E i \in inUse[b] :
        /\ At(t, "idle") /\ inUse' = [inUse EXCEPT ![b] = @ \ {i}]
        /\ th' = [th EXCEPT ![t] = [Idle EXCEPT !.pc = "clear", !.op = "deallocate", !.p = b, !.item = i]]
        /\ UNCHANGED <<root, block, cache>>
  BY DEF deallocate
<1>1. PICK i \in inUse[b] :
        /\ At(t, "idle") /\ inUse' = [inUse EXCEPT ![b] = @ \ {i}]
        /\ th' = [th EXCEPT ![t] = [Idle EXCEPT !.pc = "clear", !.op = "deallocate", !.p = b, !.item = i]]
        /\ UNCHANGED <<root, block, cache>>
  BY <1>0
<1> DEFINE x == [Idle EXCEPT !.pc = "clear", !.op = "deallocate", !.p = b, !.item = i]
<1>2. i \in 0 .. Items - 1 /\ i \in 0 .. Bits - 1 /\ i # NoItem /\ th[t] = Idle
  <2>1. i \in 0 .. Items - 1
    BY DEF IInv, TypeOK
  <2> QED BY <1>1, <2>1, AllocatorAssumption DEF IInv, PlaceInv, PlaceOk, NoItem
<1>3. /\ x \in ThreadState /\ x.pc = "clear" /\ x.op = "deallocate" /\ x.p = b /\ x.item = i /\ x.rest = <<>>
  <2>1. <<>> \in Seq(Blocks) /\ 1 \in 1 .. Slots
    BY AllocatorAssumption
  <2> QED BY <1>2, <2>1 DEF Idle, ThreadState
<1>4. Only(t) /\ th'[t] = x /\ th' \in [Threads -> ThreadState]
  BY <1>1, <1>3, Moves DEF IInv
<1> HIDE DEF x
<1>5. th[t].pc = "idle" /\ th[t].p = NoBlock /\ th[t].item = NoItem /\ th[t].rest = <<>>
  BY <1>2 DEF Idle
<1>6. inUse' \in [Blocks -> SUBSET (0 .. Items - 1)] /\ \A c \in Blocks : inUse'[c] = IF c = b THEN inUse[b] \ {i} ELSE inUse[c]
  BY <1>1 DEF IInv, TypeOK
<1>7. TypeOK'
  BY <1>1, <1>4, <1>6 DEF IInv, TypeOK, root, cache
<1>8. PlaceOk(t)'
  BY <1>2, <1>3, <1>4, NoBlockIs, AllocatorAssumption DEF PlaceOk, At
<1>9. SameKeep(t)
  BY <1>1, <1>3, <1>4, <1>5 DEF SameKeep, InHand, cache
<1>10. KeptOnce' /\ SamePlaces
  BY <1>4, <1>9, KeepSame DEF IInv
<1>11. RecycledIsBounded'
  BY <1>1, <1>3, <1>4, <1>5, <1>10, BoundQuiet DEF Counts, Putting, cache
<1>12. InUseIsMapped' /\ FreeInv'
  BY <1>1, <1>3, <1>4, <1>5, BlockSame, PagesQuiet DEF At
<1>13. \A u \in Threads : Owns(u) => th[u].p \in Blocks /\ th[u].item \notin inUse[th[u].p]
  BY OwnedIs DEF IInv, NoDoubleAllocation
<1>14. RefsExact'
  <2> DEFINE r == <<"item", i>>
             s == <<"thread", t>>
  <2>1. r \in Tags /\ s \in Tags /\ r # s
    BY <1>2, TagsAre
  <2>2. \A u \in Threads : /\ HandsOut(u)' <=> HandsOut(u)
                           /\ HandsOut(u) => /\ th'[u].p = th[u].p /\ th'[u].item = th[u].item
                                             /\ <<th[u].p, th[u].item>> # <<b, i>>
    <3>1. ~HandsOut(t) /\ ~HandsOut(t)'
      BY <1>3, <1>4, <1>5 DEF HandsOut
    <3> QED BY <1>4, <1>13, <3>1, OthersOut, HandsOutOwned
  <2>3. Out(b, i) /\ ~Out(b, i)'
    BY <1>6, <2>2 DEF Out
  <2>4. \A c \in Blocks : \A j : <<c, j>> # <<b, i>> => (Out(c, j)' <=> Out(c, j))
    BY <1>6, <2>2 DEF Out
  <2>5. ~Holds(t, b) /\ Holds(t, b)' /\ \A c \in Blocks \ {b} : ~Holds(t, c) /\ ~Holds(t, c)'
    BY <1>3, <1>4, <1>5, NoBlockIs DEF Holds, At
  <2>6. \A c \in Blocks : \A u \in Threads \ {t} : Holds(u, c)' <=> Holds(u, c)
    BY <1>4, OthersOut
  <2>7. Refers(r, b) /\ ~Refers(r, b)' /\ ~Refers(s, b) /\ Refers(s, b)'
    BY <2>3, <2>5, RefersIs, RefersIsNext
  <2>8. Except(b, {r, s})
    <3>1. /\ \A u \in Threads : <<"thread", u>> \in {r, s} \/ (Holds(u, b)' <=> Holds(u, b))
          /\ \A j \in 0 .. Items - 1 : <<"item", j>> \in {r, s} \/ (Out(b, j)' <=> Out(b, j))
      BY <2>4, <2>6
    <3> HIDE DEF r, s
    <3> QED BY <1>10, <3>1, ExceptIs DEF SamePlaces
  <2>9. ASSUME NEW c \in Blocks \ {b} PROVE Except(c, {})
    <3>1. \A u \in Threads : Holds(u, c)' <=> Holds(u, c)
      BY <2>5, <2>6
    <3>2. \A j \in 0 .. Items - 1 : Out(c, j)' <=> Out(c, j)
      BY <2>4
    <3> QED BY <1>10, <3>1, <3>2, ExceptIs DEF SamePlaces
  <2> HIDE DEF r, s
  <2> QED BY <1>1, <2>1, <2>7, <2>8, <2>9, BlockSame, RefsMoved
<1>15. BitsInv' /\ i \in block[b].bitmap
  BY <1>1, <1>6 DEF IInv, BitsInv
<1>16. NoDoubleAllocation'
  <2>1. \A u \in Threads \ {t} : Owns(u)' => /\ Owns(u) /\ th'[u] = th[u] /\ th[u].p \in Blocks
                                             /\ <<th[u].p, th[u].item>> # <<b, i>>
    BY <1>4, <1>13, OthersOut DEF Only
  <2>2. block' = block
    BY <1>1
  <2>3. SUFFICES ASSUME NEW u \in Threads, Owns(u)'
        PROVE  /\ th'[u].item \notin inUse'[th'[u].p] /\ th'[u].item \in block'[th'[u].p].bitmap
               /\ \A v \in Threads \ {u} : Owns(v)' => <<th'[v].p, th'[v].item>> # <<th'[u].p, th'[u].item>>
    BY DEF NoDoubleAllocation, Mine
  <2>4. CASE u = t
    BY <1>3, <1>4, <1>6, <1>15, <2>1, <2>2, <2>4
  <2>5. CASE u # t
    <3>1. /\ th[u].item \notin inUse[th[u].p] /\ th[u].item \in block[th[u].p].bitmap
          /\ \A v \in Threads \ {u} : Owns(v) => <<th[v].p, th[v].item>> # <<th[u].p, th[u].item>>
      BY <2>1, <2>3, <2>5 DEF IInv, NoDoubleAllocation, Mine
    <3>2. \A v \in Threads \ {u} : Owns(v)' => <<th'[v].p, th'[v].item>> # <<th[u].p, th[u].item>>
      BY <1>3, <1>4, <2>1, <2>3, <2>5, <3>1
    <3> QED BY <1>6, <2>1, <2>2, <2>3, <2>5, <3>1, <3>2
  <2> QED BY <2>4, <2>5
<1> QED BY <1>4, <1>7, <1>8, <1>10, <1>11, <1>12, <1>14, <1>15, <1>16, PlacesSame DEF IInv

LEMMA ClaimStep ==
  ASSUME IInv, NEW t \in Threads, Claim(t)
  PROVE  IInv'
<1> DEFINE p == th[t].p
           i == th[t].item
           x == IF Won(t) THEN [th[t] EXCEPT !.pc = "count"] ELSE [th[t] EXCEPT !.pc = "drop", !.item = NoItem]
<1>1. /\ th' = [th EXCEPT ![t] = x] /\ At(t, "claim")
      /\ block' = [block EXCEPT ![p]["bitmap"] = block[p].bitmap \cup {i}]
      /\ UNCHANGED <<root, cache, inUse>>
  BY DEF Claim, Set, Mine
<1>2. /\ th[t] \in ThreadState /\ i \in 0 .. Bits - 1 /\ i # NoItem /\ th[t].op = "allocate" /\ p \in Blocks
      /\ th[t].rest = <<>>
  BY <1>1 DEF IInv, TypeOK, PlaceInv, PlaceOk, At, ThreadState
<1>3. /\ x \in ThreadState /\ x.p = th[t].p /\ x.rest = th[t].rest /\ x.op = "allocate"
      /\ \/ x.pc = "count" /\ x.item = i /\ i \notin block[p].bitmap /\ i < Items
         \/ x.pc = "drop" /\ x.item = NoItem
  <2>1. CASE Won(t)
    BY <1>2, <2>1 DEF ThreadState, Won, Mine
  <2>2. CASE ~Won(t)
    BY <1>2, <2>2 DEF ThreadState
  <2> QED BY <2>1, <2>2
<1> HIDE DEF x
<1>4. Only(t) /\ th'[t] = x /\ th' \in [Threads -> ThreadState]
  BY <1>1, <1>3, Moves DEF IInv
<1>5. /\ SameCounts /\ SameMarks /\ block' \in [Blocks -> [ref_count : Nat, managed : {0, 1}, bitmap : SUBSET (0 .. Bits - 1)]]
      /\ \A b \in Blocks : block'[b].bitmap = IF b = p THEN block[b].bitmap \cup {i} ELSE block[b].bitmap
  BY <1>1, <1>2 DEF SameCounts, SameMarks, IInv, TypeOK
<1>6. TypeOK'
  BY <1>1, <1>4, <1>5 DEF IInv, TypeOK, root, cache
<1>7. PlaceOk(t)'
  BY <1>2, <1>3, <1>4, NoBlockIs, AllocatorAssumption DEF PlaceOk, At, NoItem
<1>8. SameKeep(t)
  BY <1>1, <1>3, <1>4, <1>5 DEF SameKeep, SameMarks, InHand, cache, At
<1>9. KeptOnce' /\ SamePlaces
  BY <1>4, <1>8, KeepSame DEF IInv
<1>10. RecycledIsBounded'
  BY <1>1, <1>3, <1>4, <1>9, BoundQuiet DEF Counts, Putting, cache, At
<1>11. InUseIsMapped' /\ FreeInv'
  BY <1>1, <1>3, <1>4, <1>5, PagesQuiet DEF At
<1>12. RefsExact'
  <2>1. SameHandsOut(t) /\ \A b \in Blocks : Holds(t, b)' <=> Holds(t, b)
    BY <1>1, <1>2, <1>3, <1>4 DEF SameHandsOut, HandsOut, Holds, At
  <2> QED BY <1>1, <1>4, <1>5, <1>9, <2>1, RefsQuiet
<1> HIDE DEF p, i
<1>13. BitsInv'
  BY <1>1, <1>5 DEF IInv, BitsInv
<1>14. NoDoubleAllocation'
  <2>1. \A u \in Threads \ {t} : Owns(u)' => /\ Owns(u) /\ th'[u] = th[u] /\ th[u].p \in Blocks
                                             /\ th[u].item \in block[th[u].p].bitmap
    BY <1>4, OwnedIs, OthersOut DEF Only, IInv, NoDoubleAllocation, Mine
  <2>2. Owns(t)' => /\ i \notin block[p].bitmap /\ i \notin inUse[p] /\ i \in block'[p].bitmap
                    /\ th'[t].p = p /\ th'[t].item = i
    BY <1>2, <1>3, <1>4, <1>5 DEF Owns, IInv, BitsInv, p
  <2>3. SUFFICES ASSUME NEW u \in Threads, Owns(u)'
        PROVE  /\ th'[u].item \notin inUse'[th'[u].p] /\ th'[u].item \in block'[th'[u].p].bitmap
               /\ \A v \in Threads \ {u} : Owns(v)' => <<th'[v].p, th'[v].item>> # <<th'[u].p, th'[u].item>>
    BY DEF NoDoubleAllocation, Mine
  <2>4. CASE u = t
    BY <1>1, <2>1, <2>2, <2>3, <2>4
  <2>5. CASE u # t
    <3>1. /\ th[u].item \notin inUse[th[u].p] /\ th[u].item \in block[th[u].p].bitmap
          /\ \A v \in Threads \ {u} : Owns(v) => <<th[v].p, th[v].item>> # <<th[u].p, th[u].item>>
      BY <2>1, <2>3, <2>5 DEF IInv, NoDoubleAllocation, Mine
    <3>2. \A v \in Threads \ {u} : Owns(v)' => <<th'[v].p, th'[v].item>> # <<th[u].p, th[u].item>>
      BY <2>1, <2>2, <3>1
    <3> QED BY <1>1, <1>5, <2>1, <2>3, <2>5, <3>1, <3>2
  <2> QED BY <2>4, <2>5
<1> QED BY <1>4, <1>6, <1>7, <1>9, <1>10, <1>11, <1>12, <1>13, <1>14, PlacesSame DEF IInv

LEMMA CountStep ==
  ASSUME IInv, NEW t \in Threads, Count(t)
  PROVE  IInv'
<1>0. PICK p \in Blocks, i \in 0 .. Bits - 1 : p = th[t].p /\ i = th[t].item
  BY DEF Count, IInv, TypeOK, PlaceInv, PlaceOk, At, ThreadState
<1> DEFINE x == [th[t] EXCEPT !.pc = "recycle"]
<1>1. /\ th' = [th EXCEPT ![t] = x] /\ At(t, "count")
      /\ block' = [block EXCEPT ![p]["ref_count"] = block[p].ref_count + 1]
      /\ UNCHANGED <<root, cache, inUse>>
  BY <1>0 DEF Count, Go, Set, Mine, IInv, TypeOK
<1>2. /\ th[t] \in ThreadState /\ i \in 0 .. Bits - 1 /\ i # NoItem /\ th[t].op = "allocate" /\ p \in Blocks
      /\ th[t].rest = <<>> /\ i < Items
  BY <1>0, <1>1 DEF IInv, TypeOK, PlaceInv, PlaceOk, At, ThreadState
<1>3. /\ x \in ThreadState /\ x.p = th[t].p /\ x.rest = th[t].rest /\ x.op = "allocate"
      /\ x.pc = "recycle" /\ x.item = i
  BY <1>0, <1>2 DEF ThreadState
<1>4. Only(t) /\ th'[t] = x /\ th' \in [Threads -> ThreadState]
  BY <1>1, <1>3, Moves DEF IInv
<1> HIDE DEF x
<1>5. /\ SameMarks /\ block' \in [Blocks -> [ref_count : Nat, managed : {0, 1}, bitmap : SUBSET (0 .. Bits - 1)]]
      /\ \A b \in Blocks : /\ block'[b].bitmap = block[b].bitmap
                           /\ block'[b].ref_count = IF b = p THEN block[b].ref_count + 1 ELSE block[b].ref_count
  <2>1. block[p].ref_count \in Nat
    BY DEF IInv, TypeOK
  <2> DEFINE k == block[p].ref_count + 1
  <2>2. k \in Nat
    BY <2>1
  <2>3. block' = [block EXCEPT ![p]["ref_count"] = k]
    BY <1>1
  <2> HIDE DEF k
  <2>4. /\ SameMarks /\ block' \in [Blocks -> [ref_count : Nat, managed : {0, 1}, bitmap : SUBSET (0 .. Bits - 1)]]
        /\ \A b \in Blocks : /\ block'[b].bitmap = block[b].bitmap
                             /\ block'[b].ref_count = IF b = p THEN k ELSE block[b].ref_count
    BY <2>2, <2>3 DEF SameMarks, IInv, TypeOK
  <2> QED BY <2>4 DEF k
<1>6. TypeOK'
  BY <1>1, <1>4, <1>5 DEF IInv, TypeOK, root, cache
<1>7. PlaceOk(t)'
  BY <1>0, <1>2, <1>3, <1>4, NoBlockIs DEF PlaceOk, At
<1>8. SameKeep(t)
  BY <1>1, <1>3, <1>4, <1>5 DEF SameKeep, SameMarks, InHand, cache, At
<1>9. KeptOnce' /\ SamePlaces
  BY <1>4, <1>8, KeepSame DEF IInv
<1>10. RecycledIsBounded'
  BY <1>1, <1>3, <1>4, <1>9, BoundQuiet DEF Counts, Putting, cache, At
<1>11. NoDoubleAllocation' /\ BitsInv' /\ Owns(t)
  BY <1>0, <1>1, <1>2, <1>3, <1>4, <1>5, ItemsQuiet DEF Owns, At
<1>12. Holds(t, p) /\ \A b \in Blocks, u \in Threads : Holds(u, b)' <=> Holds(u, b)
  <2>1. \A b \in Blocks : Holds(t, b)' <=> Holds(t, b)
    BY <1>1, <1>3, <1>4 DEF Holds, At
  <2> QED BY <1>0, <1>1, <1>4, <2>1, HoldsSame DEF Holds, At
<1>13. block[p].ref_count > 0 /\ block[p].ref_count \in Nat
  <2>1. Refers(<<"thread", t>>, p)
    BY <1>12, RefersIs
  <2> QED BY <1>2, <2>1, TagsAre, Referred DEF IInv, TypeOK
<1>14. InUseIsMapped' /\ FreeInv'
  <2>1. \A b \in Blocks : block'[b].ref_count > 0 <=> block[b].ref_count > 0
    BY <1>5, <1>13
  <2>2. \A u \in Threads : /\ At(u, "free")' <=> At(u, "free")
                           /\ At(u, "free") => th'[u] = th[u] /\ th[u].p \in Blocks
    BY <1>1, <1>3, <1>4 DEF Only, At, IInv, TypeOK, ThreadState, PlaceInv, PlaceOk
  <2>3. pages' = pages /\ chunks' = chunks
    BY <1>1 DEF root
  <2>4. InUseIsMapped'
    BY <2>1, <2>2, <2>3 DEF IInv, InUseIsMapped
  <2>5. FreeInv'
    BY <1>5, <1>13, <2>2 DEF IInv, FreeInv
  <2> QED BY <2>4, <2>5
<1>15. RefsExact'
  <2> DEFINE r == <<"item", i>>
  <2>1. r \in Tags
    <3>1. i \in 0 .. Items - 1
      BY <1>2, AllocatorAssumption
    <3> QED BY <3>1, TagsAre
  <2>2. /\ ~HandsOut(t) /\ HandsOut(t)' /\ th'[t].p = p /\ th'[t].item = i
        /\ \A u \in Threads \ {t} : HandsOut(u) => <<th[u].p, th[u].item>> # <<p, i>>
    BY <1>0, <1>1, <1>2, <1>3, <1>4, <1>11, HandsOutOwned DEF HandsOut, At, IInv, NoDoubleAllocation
  <2>3. i \notin inUse[p]
    BY <1>0, <1>11 DEF IInv, NoDoubleAllocation
  <2>4. \A u \in Threads \ {t} : /\ HandsOut(u)' <=> HandsOut(u)
                                 /\ th'[u].p = th[u].p /\ th'[u].item = th[u].item
    BY <1>4, OthersOut
  <2>5. ~Out(p, i) /\ Out(p, i)' /\ \A b \in Blocks : \A j : <<b, j>> # <<p, i>> => (Out(b, j)' <=> Out(b, j))
    BY <1>0, <1>1, <2>2, <2>3, <2>4 DEF Out
  <2>6. ~Refers(r, p) /\ Refers(r, p)'
    BY <2>5, RefersIs, RefersIsNext
  <2>7. Except(p, {r})
    <3>1. \A j \in 0 .. Items - 1 : <<"item", j>> \in {r} \/ (Out(p, j)' <=> Out(p, j))
      BY <1>2, <2>5
    <3> HIDE DEF r
    <3> QED BY <1>2, <1>9, <1>12, <3>1, ExceptIs DEF SamePlaces
  <2>8. ASSUME NEW b \in Blocks \ {p} PROVE Except(b, {})
    <3>1. \A j \in 0 .. Items - 1 : Out(b, j)' <=> Out(b, j)
      BY <2>5
    <3> QED BY <1>9, <1>12, <3>1, ExceptIs DEF SamePlaces
  <2> HIDE DEF r
  <2> SUFFICES ASSUME NEW b \in Blocks PROVE block'[b].ref_count = Cardinality(Refs(b)')
    BY DEF RefsExact
  <2>9. CASE b = p
    BY <1>5, <2>1, <2>6, <2>7, <2>9, RefsAdded DEF IInv, RefsExact
  <2>10. CASE b # p
    BY <1>5, <2>8, <2>10, RefsSame DEF IInv, RefsExact
  <2> QED BY <2>9, <2>10
<1> QED BY <1>4, <1>6, <1>7, <1>9, <1>10, <1>11, <1>14, <1>15, PlacesSame DEF IInv

LEMMA NextSlotStep ==
  ASSUME IInv, NEW t \in Threads, NextSlot(t)
  PROVE  IInv'
<1> DEFINE n == th[t].n
           x == IF n < Slots THEN [th[t] EXCEPT !.n = n + 1] ELSE [th[t] EXCEPT !.pc = "push"]
<1>1. /\ th' = [th EXCEPT ![t] = x] /\ At(t, "put")
      /\ recycle_count' = IF n < Slots THEN recycle_count ELSE recycle_count + 1
      /\ UNCHANGED <<root, block, control_blocks, recycled, inUse>>
  BY DEF NextSlot, Go, IInv, TypeOK
<1>2. /\ th[t] \in ThreadState /\ th[t].item # NoItem /\ th[t].op # "none" /\ th[t].p \in Blocks /\ th[t].rest = <<>>
      /\ th[t].item < Items /\ n \in 1 .. Slots
  BY <1>1 DEF IInv, TypeOK, PlaceInv, PlaceOk, At, ThreadState
<1>3. /\ x \in ThreadState /\ x.p = th[t].p /\ x.rest = th[t].rest /\ x.op = th[t].op /\ x.item = th[t].item
      /\ x.pc = IF n < Slots THEN "put" ELSE "push"
  <2>1. n < Slots => n + 1 \in 1 .. Slots
    BY <1>2, AllocatorAssumption
  <2> HIDE DEF n
  <2>2. CASE n < Slots
    BY <1>1, <1>2, <2>1, <2>2 DEF ThreadState, At
  <2>3. CASE ~(n < Slots)
    BY <1>2, <2>3 DEF ThreadState
  <2> QED BY <2>2, <2>3
<1> HIDE DEF x
<1>4. Only(t) /\ th'[t] = x /\ th' \in [Threads -> ThreadState]
  BY <1>1, <1>3, Moves DEF IInv
<1>5. recycle_count' \in Nat
  BY <1>1 DEF IInv, TypeOK
<1>6. TypeOK'
  BY <1>1, <1>4, <1>5 DEF IInv, TypeOK, root
<1>7. PlaceOk(t)'
  BY <1>2, <1>3, <1>4, NoBlockIs DEF PlaceOk, At
<1>8. Quiet(t)
  BY <1>1, <1>2, <1>3, <1>4 DEF Quiet, SameHandsOut, HandsOut, Holds, Owns, At
<1>9. SameKeep(t)
  BY <1>1, <1>2, <1>3, <1>4 DEF SameKeep, InHand, At
<1>10. KeptOnce' /\ SamePlaces
  BY <1>4, <1>9, KeepSame DEF IInv
<1>11. RecycledIsBounded'
  <2>1. CASE n < Slots
    BY <1>1, <1>3, <1>4, <1>10, <2>1, BoundQuiet DEF Counts, Putting, At
  <2>2. CASE ~(n < Slots)
    <3>1. t \notin Counts /\ t \in Counts' /\ t \in Putting /\ t \notin Putting' /\ recycle_count' = recycle_count + 1
      BY <1>1, <1>3, <1>4, <2>2 DEF Counts, Putting, At
    <3>2. /\ Cardinality(Listed') = Cardinality(Listed) /\ Cardinality(Counts') = Cardinality(Counts) + 1
          /\ Cardinality(Putting') = Cardinality(Putting) - 1
      BY <1>4, <1>10, <3>1, ListedSame, CountsAre, PuttingIs
    <3>3. /\ recycle_count = Cardinality(Listed) + Cardinality(Counts)
          /\ recycle_count + Cardinality(Putting) < Recycled + Cardinality(Threads)
          /\ Cardinality(Listed) \in Nat /\ Cardinality(Counts) \in Nat /\ Cardinality(Putting) \in Nat
          /\ Recycled \in Nat /\ Cardinality(Threads) \in Nat /\ recycle_count \in Nat
      BY Bounded, AllocatorAssumption DEF IInv, RecycledIsBounded, TypeOK
    <3>4. recycle_count' = Cardinality(Listed') + Cardinality(Counts')
      BY <3>1, <3>2, <3>3
    <3>5. recycle_count' + Cardinality(Putting') < Recycled + Cardinality(Threads)
      BY <3>1, <3>2, <3>3
    <3> QED BY <3>4, <3>5 DEF RecycledIsBounded
  <2> QED BY <2>1, <2>2
<1> QED BY <1>1, <1>4, <1>6, <1>7, <1>8, <1>10, <1>11, BlockSame, QuietStep

-----------------------------------------------------------------------------
(* Steps that end with Done: an item that was handed out is in use *)

\* A thread that gives a block up, after which nothing but that has changed for it.
LEMMA DoneOut ==
  ASSUME IInv, NEW t \in Threads, Done(t), ~At(t, "claim"), ~At(t, "count"),
         th[t].item < Items, th[t].op = "allocate" /\ th[t].item # NoItem => th[t].p \in Blocks
  PROVE  /\ \A b \in Blocks : \A i : Out(b, i)' <=> Out(b, i)
         /\ \A u \in Threads \ {t} : \A b : Holds(u, b)' <=> Holds(u, b)
         /\ \A b \in Blocks : ~Holds(t, b)'
         /\ ~Owns(t)' /\ inUse' \in [Blocks -> SUBSET (0 .. Items - 1)]
<1> DEFINE out == th[t].op = "allocate" /\ th[t].item # NoItem
<1>1. Only(t) /\ th'[t].p = NoBlock /\ th'[t].item = NoItem /\ th[t] \in ThreadState
  BY DoneIs DEF IInv, TypeOK
<1>2. ~HandsOut(t)' /\ ~Owns(t)' /\ (HandsOut(t) <=> out)
  BY <1>1 DEF HandsOut, Owns
<1>3. \A u \in Threads \ {t} : HandsOut(u)' <=> HandsOut(u)
  BY <1>1, OthersOut
<1>4. \A u \in Threads \ {t} : th'[u].p = th[u].p /\ th'[u].item = th[u].item
  BY <1>1 DEF Only
<1>5. CASE ~out
  <2>1. inUse' = inUse
    BY <1>5 DEF Done
  <2>2. \A b \in Blocks : \A i : Out(b, i)' <=> Out(b, i)
    BY <1>2, <1>3, <1>4, <1>5, <2>1 DEF Out
  <2> QED BY <1>1, <1>2, <2>1, <2>2, OthersOut, NoBlockIs DEF Holds, IInv, TypeOK
<1>6. CASE out
  <2>1. PICK p \in Blocks, k \in 0 .. Items - 1 : p = th[t].p /\ k = th[t].item
    BY <1>1, <1>6, AllocatorAssumption DEF ThreadState
  <2>2. inUse' = [inUse EXCEPT ![p] = @ \cup {k}]
    BY <1>6, <2>1 DEF Done
  <2>3. inUse' \in [Blocks -> SUBSET (0 .. Items - 1)] /\ \A b \in Blocks : inUse'[b] = IF b = p THEN inUse[b] \cup {k} ELSE inUse[b]
    BY <2>2 DEF IInv, TypeOK
  <2>4. \A b \in Blocks : \A i : Out(b, i)' <=> Out(b, i)
    BY <1>2, <1>3, <1>4, <1>6, <2>1, <2>3 DEF Out
  <2> QED BY <1>1, <1>2, <2>3, <2>4, OthersOut, NoBlockIs DEF Holds
<1> QED BY <1>5, <1>6

\* What holds of the items after it.
LEMMA DoneItems ==
  ASSUME IInv, NEW t \in Threads, Done(t), ~At(t, "claim"), ~At(t, "count"), ~At(t, "clear"),
         th[t].item < Items, th[t].op = "allocate" /\ th[t].item # NoItem => th[t].p \in Blocks,
         \A b \in Blocks : block'[b].bitmap = block[b].bitmap
  PROVE  NoDoubleAllocation' /\ BitsInv'
<1> DEFINE out == th[t].op = "allocate" /\ th[t].item # NoItem
<1>1. Only(t) /\ th[t] \in ThreadState /\ ~Owns(t)' /\ (Owns(t) <=> out)
  BY DoneIs, DoneOut DEF IInv, TypeOK, Owns, ThreadState, PlaceInv, PlaceOk, At, Idle
<1>2. \A u \in Threads : Owns(u)' => u # t /\ Owns(u) /\ th'[u] = th[u] /\ th[u].p \in Blocks
  BY <1>1, OthersOut, OwnedIs DEF Only
<1>3. CASE ~out
  <2>1. inUse' = inUse
    BY <1>3 DEF Done
  <2> QED BY <1>2, <2>1 DEF IInv, NoDoubleAllocation, BitsInv, Mine
<1>4. CASE out
  <2>1. PICK p \in Blocks, k \in 0 .. Items - 1 : p = th[t].p /\ k = th[t].item
    BY <1>1, <1>4, AllocatorAssumption DEF ThreadState
  <2>2. inUse' = [inUse EXCEPT ![p] = @ \cup {k}]
    BY <1>4, <2>1 DEF Done
  <2>3. \A b \in Blocks : inUse'[b] = IF b = p THEN inUse[b] \cup {k} ELSE inUse[b]
    BY <2>2 DEF IInv, TypeOK
  <2>4. k \in block[p].bitmap /\ \A u \in Threads \ {t} : Owns(u) => <<th[u].p, th[u].item>> # <<p, k>>
    BY <1>1, <1>4, <2>1 DEF IInv, NoDoubleAllocation, Mine
  <2>5. BitsInv'
    BY <2>3, <2>4 DEF IInv, BitsInv
  <2>6. NoDoubleAllocation'
    <3> SUFFICES ASSUME NEW u \in Threads, Owns(u)'
                 PROVE  /\ th'[u].item \notin inUse'[th'[u].p] /\ th'[u].item \in block'[th'[u].p].bitmap
                        /\ \A v \in Threads \ {u} : Owns(v)' => <<th'[v].p, th'[v].item>> # <<th'[u].p, th'[u].item>>
      BY DEF NoDoubleAllocation, Mine
    <3>1. u # t /\ Owns(u) /\ th'[u] = th[u] /\ th[u].p \in Blocks
      BY <1>2
    <3>2. /\ th[u].item \notin inUse[th[u].p] /\ th[u].item \in block[th[u].p].bitmap
          /\ \A v \in Threads \ {u} : Owns(v) => <<th[v].p, th[v].item>> # <<th[u].p, th[u].item>>
      BY <3>1 DEF IInv, NoDoubleAllocation, Mine
    <3>3. th'[u].item \notin inUse'[th'[u].p]
      <4> DEFINE b == th[u].p
                 j == th[u].item
      <4>1. b = p => j # k
        BY <2>4, <3>1
      <4>2. b \in Blocks /\ j \notin inUse[b] /\ th'[u] = th[u]
        BY <3>1, <3>2
      <4>3. inUse'[b] = IF b = p THEN inUse[b] \cup {k} ELSE inUse[b]
        BY <2>3, <4>2
      <4>4. j \notin inUse'[b]
        <5> HIDE DEF b, j
        <5> QED BY <4>1, <4>2, <4>3
      <4> QED BY <4>2, <4>4
    <3>4. th'[u].item \in block'[th'[u].p].bitmap
      BY <3>1, <3>2
    <3> QED BY <1>2, <3>1, <3>2, <3>3, <3>4
  <2> QED BY <2>5, <2>6
<1> QED BY <1>3, <1>4

LEMMA PutStep ==
  ASSUME IInv, NEW t \in Threads, PutSlot(t) \/ Push(t)
  PROVE  IInv'
<1>0. PICK p \in Blocks : p = th[t].p
  BY KeepPut
<1>1. /\ th[t].pc \in {"put", "push"} /\ (Push(t) <=> th[t].pc = "push") /\ Done(t)
      /\ UNCHANGED <<root, block, recycle_count>>
      /\ control_blocks' \in [1 .. Slots -> Blocks \cup {NoBlock}]
      /\ recycled' = IF Push(t) THEN <<p>> \o recycled ELSE recycled
  BY <1>0 DEF PutSlot, Push, At, IInv, TypeOK
<1>2. th[t] \in ThreadState /\ th[t].item # NoItem /\ th[t].item < Items /\ th[t].op # "none"
  BY <1>1 DEF IInv, TypeOK, PlaceInv, PlaceOk, At
<1>3. /\ Only(t) /\ th'[t].p = NoBlock /\ th'[t].pc \in {"idle", "slot"} /\ th' \in [Threads -> ThreadState]
      /\ PlaceOk(t)'
  BY <1>1, DoneIs
<1>4. /\ \A b \in Blocks : \A i : Out(b, i)' <=> Out(b, i)
      /\ \A u \in Threads \ {t} : \A b : Holds(u, b)' <=> Holds(u, b)
      /\ \A b \in Blocks : ~Holds(t, b)'
      /\ inUse' \in [Blocks -> SUBSET (0 .. Items - 1)]
  BY <1>0, <1>1, <1>2, DoneOut DEF At
<1>5. TypeOK'
  <2>1. recycled' \in Seq(Blocks)
    <3>1. recycled \in Seq(Blocks)
      BY DEF IInv, TypeOK
    <3>2. <<p>> \o recycled \in Seq(Blocks)
      BY <3>1, PrependIs
    <3> QED BY <1>1, <3>1, <3>2
  <2> QED BY <1>1, <1>3, <1>4, <2>1 DEF IInv, TypeOK, root
<1>6. NoDoubleAllocation' /\ BitsInv'
  BY <1>0, <1>1, <1>2, BlockSame, DoneItems DEF At
<1>7. /\ KeptOnce' /\ ~Kept(p) /\ \A b \in Blocks : Kept(b)' <=> Kept(b) \/ b = p
      /\ \A b \in Blocks : (InList(b) \/ \E u \in Threads : InRest(u, b))'
                 <=> (InList(b) \/ \E u \in Threads : InRest(u, b)) \/ (Push(t) /\ b = p)
  BY <1>0, KeepPut
<1>8. InUseIsMapped' /\ FreeInv'
  BY <1>1, <1>3, BlockSame, PagesQuiet DEF At
<1>9. RefsExact'
  <2> DEFINE r == <<"thread", t>>
             s == <<"kept", 0>>
  <2>1. r \in Tags /\ s \in Tags /\ r # s
    BY TagsAre
  <2>2. \A b \in Blocks : Holds(t, b) <=> b = p
    BY <1>0, <1>1 DEF Holds, At
  <2>3. Refers(r, p) /\ ~Refers(r, p)' /\ ~Refers(s, p) /\ Refers(s, p)'
    BY <1>4, <1>7, <2>2, RefersIs, RefersIsNext
  <2>4. Except(p, {r, s})
    <3>1. \A u \in Threads : <<"thread", u>> \in {r, s} \/ (Holds(u, p)' <=> Holds(u, p))
      BY <1>4
    <3>2. <<"kept", 0>> \in {r, s}
      OBVIOUS
    <3> HIDE DEF r, s
    <3> QED BY <1>4, <3>1, <3>2, ExceptIs
  <2>5. ASSUME NEW b \in Blocks \ {p} PROVE Except(b, {})
    <3>1. \A u \in Threads : Holds(u, b)' <=> Holds(u, b)
      BY <1>4, <2>2
    <3> QED BY <1>4, <1>7, <3>1, ExceptIs
  <2> HIDE DEF r, s
  <2> QED BY <1>1, <2>1, <2>3, <2>4, <2>5, BlockSame, RefsMoved
<1>10. RecycledIsBounded'
  <2>1. CASE ~Push(t)
    <3>1. Listed' = Listed
      BY <1>7, <2>1 DEF Listed
    <3> QED BY <1>1, <1>3, <2>1, <3>1, BoundSame DEF Counts, Putting
  <2>2. CASE Push(t)
    <3>1. Listed' = Listed \cup {p} /\ p \notin Listed
      BY <1>7, <2>2 DEF Listed, Kept
    <3>2. t \in Counts /\ t \notin Counts' /\ t \notin Putting /\ t \notin Putting'
      BY <1>1, <1>3, <2>2 DEF Counts, Putting
    <3>3. /\ Cardinality(Listed') = Cardinality(Listed) + 1 /\ Cardinality(Counts') = Cardinality(Counts) - 1
          /\ Cardinality(Putting') = Cardinality(Putting)
      BY <1>3, <3>1, <3>2, Bounded, FS_AddElement, CountsAre, PuttingIs
    <3>4. /\ recycle_count = Cardinality(Listed) + Cardinality(Counts)
          /\ recycle_count + Cardinality(Putting) < Recycled + Cardinality(Threads)
          /\ recycle_count' = recycle_count /\ Cardinality(Listed) \in Nat /\ Cardinality(Counts) \in Nat
      BY <1>1, Bounded DEF IInv, RecycledIsBounded
    <3>5. recycle_count' = Cardinality(Listed') + Cardinality(Counts')
      BY <3>3, <3>4
    <3> QED BY <3>3, <3>4, <3>5 DEF RecycledIsBounded
  <2> QED BY <2>1, <2>2
<1> QED BY <1>3, <1>5, <1>6, <1>7, <1>8, <1>9, <1>10, PlacesSame DEF IInv

-----------------------------------------------------------------------------
(* Steps that free a block *)

LEMMA TryFreeStep ==
  ASSUME IInv, NEW t \in Threads, try_free(t)
  PROVE  IInv'
<1>0. PICK p \in Blocks : p = th[t].p
  BY DEF try_free, IInv, TypeOK, PlaceInv, PlaceOk, At, ThreadState
<1> DEFINE ref == block[p].ref_count
           tag == <<"thread", t>>
<1>1. /\ At(t, "drop") /\ block' = [block EXCEPT ![p]["ref_count"] = ref - 1]
      /\ ref = 1 => th' = [th EXCEPT ![t] = [th[t] EXCEPT !.pc = "free"]] /\ inUse' = inUse
      /\ ref # 1 => Done(t)
      /\ UNCHANGED <<root, cache>>
  BY <1>0 DEF try_free, Go, Set, Mine, IInv, TypeOK
<1>2. /\ th[t] \in ThreadState /\ th[t].rest = <<>> /\ th[t].op # "none" /\ th[t].item < Items
  BY <1>1 DEF IInv, TypeOK, PlaceInv, PlaceOk, At, ThreadState
<1>3. tag \in Tags /\ Holds(t, p) /\ Refers(tag, p)
  BY <1>0, <1>1, TagsAre, RefersIs DEF Holds, At
<1>4. ref \in Nat /\ ref > 0
  <2> HIDE DEF tag
  <2> QED BY <1>3, Referred DEF IInv, TypeOK
<1>5. /\ SameMarks /\ block' \in [Blocks -> [ref_count : Nat, managed : {0, 1}, bitmap : SUBSET (0 .. Bits - 1)]]
      /\ \A b \in Blocks : /\ block'[b].bitmap = block[b].bitmap
                           /\ block'[b].ref_count = IF b = p THEN ref - 1 ELSE block[b].ref_count
  <2> DEFINE k == ref - 1
  <2>1. k \in Nat
    BY <1>4
  <2>2. block' = [block EXCEPT ![p]["ref_count"] = k]
    BY <1>1
  <2> HIDE DEF k
  <2>3. /\ SameMarks /\ block' \in [Blocks -> [ref_count : Nat, managed : {0, 1}, bitmap : SUBSET (0 .. Bits - 1)]]
        /\ \A b \in Blocks : /\ block'[b].bitmap = block[b].bitmap
                             /\ block'[b].ref_count = IF b = p THEN k ELSE block[b].ref_count
    BY <2>1, <2>2 DEF SameMarks, IInv, TypeOK
  <2> QED BY <2>3 DEF k
<1>6. /\ Only(t) /\ th' \in [Threads -> ThreadState] /\ th'[t].rest = <<>> /\ PlaceOk(t)'
      /\ ref = 1 => th'[t] = [th[t] EXCEPT !.pc = "free"]
      /\ ref # 1 => th'[t].pc \in {"idle", "slot"}
  <2>1. CASE ref = 1
    <3> DEFINE x == [th[t] EXCEPT !.pc = "free"]
    <3>1. x \in ThreadState /\ x.p = p /\ x.rest = <<>> /\ x.pc = "free" /\ x.op = th[t].op /\ x.item = th[t].item
      BY <1>0, <1>2 DEF ThreadState
    <3> HIDE DEF x
    <3>2. Only(t) /\ th'[t] = x /\ th' \in [Threads -> ThreadState]
      BY <1>1, <2>1, <3>1, Moves DEF IInv, x
    <3>3. PlaceOk(t)'
      <4>1. th[t].op = "deallocate" => th[t].item # NoItem
        BY DEF IInv, PlaceInv, PlaceOk
      <4> QED BY <1>2, <3>1, <3>2, <4>1, NoBlockIs DEF PlaceOk, At
    <3> QED BY <2>1, <3>1, <3>2, <3>3 DEF x
  <2>2. CASE ref # 1
    BY <1>1, <2>2, DoneIs
  <2> QED BY <2>1, <2>2
<1>7. /\ ~Holds(t, p)' /\ \A b \in Blocks \ {p} : ~Holds(t, b) /\ ~Holds(t, b)'
      /\ \A b \in Blocks : \A i : Out(b, i)' <=> Out(b, i)
      /\ \A u \in Threads \ {t} : \A b : Holds(u, b)' <=> Holds(u, b)
      /\ inUse' \in [Blocks -> SUBSET (0 .. Items - 1)] /\ NoDoubleAllocation' /\ BitsInv'
  <2>1. \A b \in Blocks \ {p} : ~Holds(t, b)
    BY <1>0 DEF Holds
  <2>2. CASE ref = 1
    <3>1. /\ th'[t].pc = "free" /\ th'[t].p = th[t].p /\ th'[t].item = th[t].item /\ th'[t].op = th[t].op
          /\ inUse' = inUse
      BY <1>1, <1>2, <1>6, <2>2 DEF ThreadState
    <3>2. SameHandsOut(t) /\ \A b \in Blocks : ~Holds(t, b)'
      BY <1>1, <3>1 DEF SameHandsOut, HandsOut, Holds, At
    <3>3. Owns(t)' => Owns(t) /\ th'[t].p = th[t].p /\ th'[t].item = th[t].item
      BY <1>1, <3>1 DEF Owns, At
    <3>4. NoDoubleAllocation' /\ BitsInv'
      BY <1>5, <1>6, <3>1, <3>3, ItemsQuiet
    <3> QED BY <1>6, <2>1, <3>1, <3>2, <3>4, OutSame, OthersOut DEF IInv, TypeOK
  <2>3. CASE ref # 1
    <3>1. Done(t) /\ ~At(t, "claim") /\ ~At(t, "count") /\ ~At(t, "clear") /\ th[t].p \in Blocks
      BY <1>0, <1>1, <2>3 DEF At
    <3> QED BY <1>2, <1>5, <2>1, <3>1, DoneOut, DoneItems
  <2> QED BY <2>2, <2>3
<1>8. TypeOK'
  BY <1>1, <1>5, <1>6, <1>7 DEF IInv, TypeOK, root, cache
<1>9. KeptOnce' /\ SamePlaces
  <2>1. th'[t].pc \in {"free", "idle", "slot"}
    BY <1>2, <1>6 DEF ThreadState
  <2>2. SameKeep(t)
    BY <1>1, <1>2, <1>5, <1>6, <2>1 DEF SameKeep, SameMarks, InHand, cache, At
  <2> QED BY <1>6, <2>2, KeepSame DEF IInv
<1>10. RecycledIsBounded'
  <2>1. th'[t].pc \in {"free", "idle", "slot"}
    BY <1>2, <1>6 DEF ThreadState
  <2> QED BY <1>1, <1>6, <1>9, <2>1, BoundQuiet DEF Counts, Putting, cache, At
<1>11. /\ \A b \in Blocks : block'[b].ref_count = Cardinality(Refs(b)')
       /\ Refers(tag, p) /\ ~Refers(tag, p)'
  <2>1. Refers(tag, p) /\ ~Refers(tag, p)'
    BY <1>3, <1>7, RefersIsNext
  <2>2. Except(p, {tag})
    <3>1. \A u \in Threads : <<"thread", u>> \in {tag} \/ (Holds(u, p)' <=> Holds(u, p))
      BY <1>7
    <3> HIDE DEF tag
    <3> QED BY <1>7, <1>9, <3>1, ExceptIs DEF SamePlaces
  <2>3. ASSUME NEW b \in Blocks \ {p} PROVE Except(b, {})
    <3>1. \A u \in Threads : Holds(u, b)' <=> Holds(u, b)
      BY <1>7
    <3> QED BY <1>7, <1>9, <3>1, ExceptIs DEF SamePlaces
  <2> HIDE DEF tag
  <2>4. Cardinality(Refs(p)') = Cardinality(Refs(p)) - 1
    BY <1>3, <2>1, <2>2, RefsRemoved
  <2>5. \A b \in Blocks \ {p} : Cardinality(Refs(b)') = Cardinality(Refs(b))
    BY <2>3, RefsSame
  <2> QED BY <1>5, <2>1, <2>4, <2>5 DEF IInv, RefsExact
<1>12. RefsExact'
  BY <1>11 DEF RefsExact
<1>13. \A u \in Threads : At(u, "free") => u # t /\ th'[u] = th[u] /\ th[u].p \in Blocks \ {p}
  <2>1. \A u \in Threads : At(u, "free") => u # t /\ th[u].p \in Blocks
    BY <1>1 DEF At, IInv, TypeOK, PlaceInv, PlaceOk, ThreadState
  <2>2. \A u \in Threads : At(u, "free") => block[th[u].p].ref_count = 0
    BY DEF IInv, FreeInv
  <2> QED BY <1>4, <1>6, <2>1, <2>2 DEF Only
<1>14. /\ \A u \in Threads \ {t} : At(u, "free")' <=> At(u, "free")
       /\ At(t, "free")' <=> ref = 1
  <2>1. \A u \in Threads \ {t} : At(u, "free")' <=> At(u, "free")
    BY <1>6 DEF Only, At
  <2>2. CASE ref = 1
    <3>1. th'[t].pc = "free"
      BY <1>2, <1>6, <2>2 DEF ThreadState
    <3> QED BY <2>1, <2>2, <3>1 DEF At
  <2>3. CASE ref # 1
    BY <1>6, <2>1, <2>3 DEF At
  <2> QED BY <2>2, <2>3
<1>15. ref = 1 => th'[t].p = p /\ th'[t].item = th[t].item /\ th'[t].op = th[t].op
  BY <1>0, <1>2, <1>6 DEF ThreadState
<1>16. InUseIsMapped'
  <2>1. pages' = pages /\ chunks' = chunks
    BY <1>1 DEF root
  <2>2. ASSUME NEW b \in Blocks
        PROVE  (block'[b].ref_count > 0 \/ \E u \in Threads : th'[u].p = b /\ At(u, "free")')
                 <=> (block[b].ref_count > 0 \/ \E u \in Threads : th[u].p = b /\ At(u, "free"))
    <3>1. CASE b = p
      <4>1. ref # 1 => ref - 1 > 0
        BY <1>4
      <4> QED BY <1>4, <1>5, <1>14, <1>15, <3>1, <4>1
    <3>2. CASE b # p
      BY <1>5, <1>13, <1>14, <1>15, <3>2
    <3> QED BY <3>1, <3>2
  <2> QED BY <2>1, <2>2 DEF IInv, InUseIsMapped
<1>17. FreeInv'
  <2> SUFFICES ASSUME NEW u \in Threads, At(u, "free")'
               PROVE  /\ block'[th'[u].p].ref_count = 0 /\ (th'[u].op = "allocate" => th'[u].item = NoItem)
                      /\ \A v \in Threads \ {u} : At(v, "free")' => th'[v].p # th'[u].p
    BY DEF FreeInv
  <2>1. CASE u # t
    <3>1. At(u, "free") /\ th'[u] = th[u] /\ th[u].p \in Blocks \ {p}
      BY <1>13, <1>14, <2>1
    <3>2. /\ block[th[u].p].ref_count = 0 /\ (th[u].op = "allocate" => th[u].item = NoItem)
          /\ \A v \in Threads \ {u} : At(v, "free") => th[v].p # th[u].p
      BY <3>1 DEF IInv, FreeInv
    <3> QED BY <1>5, <1>13, <1>14, <1>15, <3>1, <3>2
  <2>2. CASE u = t
    <3>1. ref = 1 /\ th'[t].p = p /\ th'[t].item = th[t].item /\ th'[t].op = th[t].op
      BY <1>14, <1>15, <2>2
    <3>2. block'[p].ref_count = 0
      BY <1>5, <3>1
    <3>3. Refs(p)' = {}
      BY <1>11, <3>2, RefsFinite, FS_EmptySet
    <3>4. ASSUME th[t].op = "allocate", th[t].item # NoItem PROVE FALSE
      <4>1. HandsOut(t)
        BY <1>1, <3>4 DEF HandsOut, At
      <4>2. PICK i \in 0 .. Items - 1 : i = th[t].item
        BY <1>2, <3>4, AllocatorAssumption DEF ThreadState
      <4>3. Out(p, i)'
        BY <1>0, <1>7, <4>1, <4>2 DEF Out
      <4>4. Refers(<<"item", i>>, p)' /\ <<"item", i>> \in Tags
        BY <4>3, RefersIsNext, TagsAre
      <4> QED BY <3>3, <4>4 DEF Refs
    <3>5. \A v \in Threads \ {t} : At(v, "free")' => th'[v].p # p
      BY <1>13, <1>14
    <3> QED BY <2>2, <3>1, <3>2, <3>4, <3>5
  <2> QED BY <2>1, <2>2
<1> QED BY <1>6, <1>7, <1>8, <1>9, <1>10, <1>12, <1>16, <1>17, PlacesSame DEF IInv

LEMMA RootDeallocateStep ==
  ASSUME IInv, NEW t \in Threads, RootDeallocate(t)
  PROVE  IInv'
<1>0. PICK p \in Blocks : p = th[t].p
  BY DEF RootDeallocate, IInv, TypeOK, PlaceInv, PlaceOk, At, ThreadState
<1>1. PICK c \in 1 .. MaxChunks, m \in 0 .. Pages - 1 : p = <<c, m>> /\ p[1] = c /\ p[2] = m
  BY DEF Blocks
<1> DEFINE left == pages[c] \ {m}
<1>2. /\ At(t, "free") /\ pages' = [pages EXCEPT ![c] = left] /\ Done(t)
      /\ chunks' = IF left = {} THEN chunks \ {c} ELSE chunks
      /\ block' = block /\ UNCHANGED cache
  BY <1>0, <1>1 DEF RootDeallocate
<1>3. /\ th[t] \in ThreadState /\ th[t].rest = <<>> /\ (th[t].op = "allocate" => th[t].item = NoItem)
      /\ block[p].ref_count = 0
      /\ \A u \in Threads \ {t} : At(u, "free") => th[u].p # p
      /\ th[t].item < Items
  BY <1>0, <1>2 DEF IInv, TypeOK, PlaceInv, PlaceOk, FreeInv, At, ThreadState
<1>4. inUse' = inUse
  BY <1>2, <1>3 DEF Done
<1>5. /\ Only(t) /\ th'[t].p = NoBlock /\ th'[t].rest = <<>> /\ th'[t].item = NoItem
      /\ th'[t].pc \in {"idle", "slot"} /\ th' \in [Threads -> ThreadState] /\ PlaceOk(t)'
  BY <1>2, DoneIs
<1>6. /\ pages' \in [1 .. MaxChunks -> SUBSET (0 .. Pages - 1)] /\ chunks' \subseteq 1 .. MaxChunks
      /\ pages'[c] = left /\ \A d \in 1 .. MaxChunks \ {c} : pages'[d] = pages[d]
  BY <1>2 DEF IInv, TypeOK
<1>7. TypeOK'
  BY <1>2, <1>4, <1>5, <1>6 DEF IInv, TypeOK, cache
<1>8. SameKeep(t)
  BY <1>2, <1>3, <1>5 DEF SameKeep, InHand, cache, At
<1>9. KeptOnce' /\ SamePlaces
  BY <1>5, <1>8, KeepSame DEF IInv
<1>10. RecycledIsBounded'
  BY <1>2, <1>5, <1>9, BoundQuiet DEF Counts, Putting, cache, At
<1>11. RefsExact'
  <2>1. SameHandsOut(t) /\ \A b \in Blocks : Holds(t, b)' <=> Holds(t, b)
    BY <1>2, <1>3, <1>5, NoBlockIs DEF SameHandsOut, HandsOut, Holds, At
  <2> QED BY <1>2, <1>4, <1>5, <1>9, <2>1, BlockSame, RefsQuiet
<1>12. NoDoubleAllocation' /\ BitsInv'
  <2>1. ~Owns(t)'
    BY <1>5 DEF Owns
  <2> QED BY <1>2, <1>4, <1>5, <2>1, BlockSame, ItemsQuiet
<1>13. \A u \in Threads : /\ At(u, "free")' <=> At(u, "free") /\ u # t
                          /\ At(u, "free")' => th'[u] = th[u] /\ th[u].p # p
  BY <1>3, <1>5 DEF Only, At
<1>14. FreeInv'
  <2>1. \A u \in Threads : At(u, "free") => th[u].p \in Blocks
    BY DEF IInv, TypeOK, PlaceInv, PlaceOk, At, ThreadState
  <2> QED BY <1>2, <1>13, <2>1 DEF IInv, FreeInv
<1>15. InUseIsMapped'
  <2>1. ASSUME NEW b \in Blocks
        PROVE  b[2] \in pages'[b[1]] <=> block'[b].ref_count > 0 \/ \E u \in Threads : th'[u].p = b /\ At(u, "free")'
    <3>1. PICK d \in 1 .. MaxChunks, k \in 0 .. Pages - 1 : b = <<d, k>> /\ b[1] = d /\ b[2] = k
      BY DEF Blocks
    <3>2. CASE b = p
      <4>1. b[2] \notin pages'[b[1]]
        BY <1>1, <1>6, <3>2
      <4>2. ~(block'[b].ref_count > 0)
        BY <1>2, <1>3, <3>2
      <4>3. ~ \E u \in Threads : th'[u].p = b /\ At(u, "free")'
        BY <1>13, <3>2
      <4> QED BY <4>1, <4>2, <4>3
    <3>3. CASE b # p
      <4>1. d = c => k # m
        BY <1>1, <3>1, <3>3
      <4>2. b[2] \in pages'[b[1]] <=> b[2] \in pages[b[1]]
        BY <1>6, <3>1, <4>1
      <4>3. (\E u \in Threads : th'[u].p = b /\ At(u, "free")') <=> \E u \in Threads : th[u].p = b /\ At(u, "free")
        BY <1>0, <1>13, <3>3
      <4> QED BY <1>2, <4>2, <4>3 DEF IInv, InUseIsMapped
    <3> QED BY <3>2, <3>3
  <2>2. \A d \in 1 .. MaxChunks : d \in chunks' <=> pages'[d] # {}
    <3>1. p[2] \in pages[p[1]]
      BY <1>0, <1>2 DEF IInv, InUseIsMapped
    <3>2. c \in chunks
      BY <1>1, <3>1 DEF IInv, InUseIsMapped
    <3> QED BY <1>2, <1>6, <3>2 DEF IInv, InUseIsMapped
  <2> QED BY <2>1, <2>2 DEF InUseIsMapped
<1> QED BY <1>5, <1>7, <1>9, <1>10, <1>11, <1>12, <1>14, <1>15, PlacesSame DEF IInv

-----------------------------------------------------------------------------
(* Steps that take a new block *)

\* A page that is not in use belongs to a block nothing refers to.
LEMMA UnusedBlock ==
  ASSUME IInv, NEW b \in Blocks, b[2] \notin pages[b[1]]
  PROVE  /\ block[b].ref_count = 0 /\ ~Kept(b) /\ inUse[b] = {}
         /\ \A i \in 0 .. Items - 1 : ~Out(b, i)
         /\ \A u \in Threads : th[u].p # b
<1>1. ~(block[b].ref_count > 0) /\ \A u \in Threads : ~(th[u].p = b /\ At(u, "free"))
  BY DEF IInv, InUseIsMapped
<1>2. block[b].ref_count = 0
  BY <1>1 DEF IInv, TypeOK
<1>3. \A r \in Tags : ~Refers(r, b)
  BY <1>1, Referred
<1>4. /\ ~Kept(b) /\ \A u \in Threads : ~Holds(u, b)
      /\ \A i \in 0 .. Items - 1 : ~Out(b, i)
  BY <1>3, TagsAre, RefersIs
<1>5. inUse[b] = {}
  BY <1>4 DEF Out, IInv, TypeOK
<1> QED BY <1>1, <1>2, <1>4, <1>5 DEF Holds

LEMMA NewBlockStep ==
  ASSUME IInv, NEW t \in Threads, At(t, "root") \/ At(t, "grow"), NEW b \in Blocks, b[2] \notin pages[b[1]],
         NewBlock(t, b), chunks' = chunks \cup {b[1]}, UNCHANGED <<cache, inUse>>
  PROVE  IInv'
<1> DEFINE x == [th[t] EXCEPT !.pc = "search", !.p = b]
<1>1. PICK c \in 1 .. MaxChunks, m \in 0 .. Pages - 1 : b = <<c, m>> /\ b[1] = c /\ b[2] = m
  BY DEF Blocks
<1>2. /\ th[t] \in ThreadState /\ th[t].item = NoItem /\ th[t].op = "allocate" /\ th[t].p = NoBlock
      /\ th[t].rest = <<>>
  BY DEF IInv, TypeOK, PlaceInv, PlaceOk, At, ThreadState
<1>3. x \in ThreadState /\ x.pc = "search" /\ x.p = b /\ x.item = NoItem /\ x.op = "allocate" /\ x.rest = <<>>
  BY <1>2 DEF ThreadState
<1>4. th' = [th EXCEPT ![t] = x] /\ block' = [block EXCEPT ![b] = Fresh] /\ pages' = [pages EXCEPT ![c] = pages[c] \cup {m}]
  BY <1>1 DEF NewBlock, IInv, TypeOK
<1> HIDE DEF x
<1>5. Only(t) /\ th'[t] = x /\ th' \in [Threads -> ThreadState]
  BY <1>3, <1>4, Moves DEF IInv
<1>6. /\ block' \in [Blocks -> [ref_count : Nat, managed : {0, 1}, bitmap : SUBSET (0 .. Bits - 1)]]
      /\ block'[b].ref_count = 1 /\ \A d \in Blocks \ {b} : block'[d] = block[d]
  <2>1. Fresh \in [ref_count : Nat, managed : {0, 1}, bitmap : SUBSET (0 .. Bits - 1)] /\ Fresh.ref_count = 1
    BY DEF Fresh
  <2> QED BY <1>4, <2>1 DEF IInv, TypeOK
<1>7. /\ pages' \in [1 .. MaxChunks -> SUBSET (0 .. Pages - 1)] /\ chunks' = chunks \cup {c}
      /\ pages'[c] = pages[c] \cup {m} /\ \A d \in 1 .. MaxChunks \ {c} : pages'[d] = pages[d]
  BY <1>1, <1>4 DEF IInv, TypeOK
<1>8. TypeOK'
  BY <1>5, <1>6, <1>7 DEF IInv, TypeOK, cache
<1>9. PlaceOk(t)'
  BY <1>3, <1>5, NoBlockIs DEF PlaceOk, At
<1>10. /\ block[b].ref_count = 0 /\ ~Kept(b) /\ inUse[b] = {}
       /\ \A i \in 0 .. Items - 1 : ~Out(b, i)
       /\ \A u \in Threads : th[u].p # b
  BY UnusedBlock
<1>11. KeptOnce' /\ SamePlaces
  <2>1. /\ control_blocks' = control_blocks /\ recycled' = recycled /\ th'[t].rest = th[t].rest
        /\ \A d : ~InHand(t, d) /\ ~InHand(t, d)'
    BY <1>2, <1>3, <1>5 DEF cache, InHand, At
  <2>2. \A d \in Blocks, u \in Threads : (InHand(u, d)' <=> InHand(u, d)) /\ (InRest(u, d)' <=> InRest(u, d))
    BY <1>5, <2>1, OthersKeep DEF InRest
  <2>3. \A d : (InList(d)' <=> InList(d)) /\ \A n : InSlot(n, d)' <=> InSlot(n, d)
    BY <2>1 DEF InList, InSlot
  <2>4. SamePlaces
    BY <2>2, <2>3 DEF SamePlaces, Kept
  <2>5. ASSUME NEW d \in Blocks
        PROVE  AtMostOnce(d)' /\ (Kept(d)' \/ (\E u \in Threads : InHand(u, d)') => block'[d].managed = 1)
    <3>1. AtMostOnce(d)'
      BY <2>2, <2>3 DEF IInv, KeptOnce, AtMostOnce
    <3>2. d = b => ~Kept(d) /\ \A u \in Threads : ~InHand(u, d)
      BY <1>10 DEF InHand
    <3>3. Kept(d)' \/ (\E u \in Threads : InHand(u, d)') => block'[d].managed = 1
      BY <1>6, <2>2, <2>4, <3>2 DEF IInv, KeptOnce, SamePlaces
    <3> QED BY <3>1, <3>3
  <2>6. IsInjective(recycled') /\ \A u \in Threads : IsInjective(th'[u].rest)
    BY <1>5, <2>1 DEF IInv, KeptOnce, Only
  <2> QED BY <2>4, <2>5, <2>6 DEF KeptOnce
<1>12. RecycledIsBounded'
  BY <1>3, <1>5, <1>11, BoundQuiet DEF Counts, Putting, cache, At
<1>13. NoDoubleAllocation' /\ BitsInv'
  <2>1. \A u \in Threads : Owns(u)' => Owns(u) /\ u # t /\ th'[u] = th[u] /\ th[u].p \in Blocks \ {b}
    <3>1. ~Owns(t)'
      BY <1>3, <1>5 DEF Owns
    <3> QED BY <1>5, <1>10, <3>1, OthersOut, OwnedIs DEF Only
  <2>2. BitsInv'
    BY <1>6, <1>10 DEF IInv, BitsInv
  <2>3. NoDoubleAllocation'
    BY <1>6, <2>1 DEF IInv, NoDoubleAllocation, Mine
  <2> QED BY <2>2, <2>3
<1>14. RefsExact'
  <2> DEFINE r == <<"thread", t>>
  <2>1. r \in Tags
    BY TagsAre
  <2>2. ~Holds(t, b) /\ Holds(t, b)' /\ \A d \in Blocks \ {b} : ~Holds(t, d) /\ ~Holds(t, d)'
    BY <1>2, <1>3, <1>5, NoBlockIs DEF Holds, At
  <2>3. \A d \in Blocks : \A u \in Threads \ {t} : Holds(u, d)' <=> Holds(u, d)
    BY <1>5, OthersOut
  <2>4. \A d \in Blocks : \A i : Out(d, i)' <=> Out(d, i)
    <3>1. SameHandsOut(t)
      BY <1>2, <1>3, <1>5 DEF SameHandsOut, HandsOut
    <3> QED BY <1>5, <3>1, OutSame
  <2>5. ~Refers(r, b) /\ Refers(r, b)'
    BY <2>2, RefersIs, RefersIsNext
  <2>6. Except(b, {r})
    <3>1. \A u \in Threads : <<"thread", u>> \in {r} \/ (Holds(u, b)' <=> Holds(u, b))
      BY <2>3
    <3> HIDE DEF r
    <3> QED BY <1>11, <2>4, <3>1, ExceptIs DEF SamePlaces
  <2>7. ASSUME NEW d \in Blocks \ {b} PROVE Except(d, {})
    <3>1. \A u \in Threads : Holds(u, d)' <=> Holds(u, d)
      BY <2>2, <2>3
    <3> QED BY <1>11, <2>4, <3>1, ExceptIs DEF SamePlaces
  <2> HIDE DEF r
  <2> SUFFICES ASSUME NEW d \in Blocks PROVE block'[d].ref_count = Cardinality(Refs(d)')
    BY DEF RefsExact
  <2>8. CASE d = b
    <3>1. Cardinality(Refs(b)') = Cardinality(Refs(b)) + 1 /\ Cardinality(Refs(b)) = 0
      BY <1>10, <2>1, <2>5, <2>6, RefsAdded DEF IInv, RefsExact
    <3> QED BY <1>6, <2>8, <3>1
  <2>9. CASE d # b
    BY <1>6, <2>7, <2>9, RefsSame DEF IInv, RefsExact
  <2> QED BY <2>8, <2>9
<1>15. \A u \in Threads : /\ At(u, "free")' <=> At(u, "free")
                          /\ At(u, "free") => th'[u] = th[u] /\ th[u].p \in Blocks \ {b}
  <2>1. \A u \in Threads : At(u, "free") => u # t /\ th[u].p \in Blocks
    BY DEF IInv, TypeOK, PlaceInv, PlaceOk, At, ThreadState
  <2> QED BY <1>3, <1>5, <1>10, <2>1 DEF Only, At
<1>16. FreeInv'
  BY <1>6, <1>15 DEF IInv, FreeInv
<1>17. InUseIsMapped'
  <2>1. ASSUME NEW d \in Blocks
        PROVE  d[2] \in pages'[d[1]] <=> block'[d].ref_count > 0 \/ \E u \in Threads : th'[u].p = d /\ At(u, "free")'
    <3>1. PICK e \in 1 .. MaxChunks, k \in 0 .. Pages - 1 : d = <<e, k>> /\ d[1] = e /\ d[2] = k
      BY DEF Blocks
    <3>2. CASE d = b
      <4>1. d[2] \in pages'[d[1]]
        BY <1>1, <1>7, <3>2
      <4> QED BY <1>6, <3>2, <4>1
    <3>3. CASE d # b
      <4>1. e = c => k # m
        BY <1>1, <3>1, <3>3
      <4>2. d[2] \in pages'[d[1]] <=> d[2] \in pages[d[1]]
        BY <1>7, <3>1, <4>1
      <4>3. (\E u \in Threads : th'[u].p = d /\ At(u, "free")') <=> \E u \in Threads : th[u].p = d /\ At(u, "free")
        BY <1>15
      <4> QED BY <1>6, <3>3, <4>2, <4>3 DEF IInv, InUseIsMapped
    <3> QED BY <3>2, <3>3
  <2>2. \A d \in 1 .. MaxChunks : d \in chunks' <=> pages'[d] # {}
    BY <1>7 DEF IInv, InUseIsMapped
  <2> QED BY <2>1, <2>2 DEF InUseIsMapped
<1> QED BY <1>5, <1>8, <1>9, <1>11, <1>12, <1>13, <1>14, <1>16, <1>17, PlacesSame DEF IInv

LEMMA RootAllocateStep ==
  ASSUME IInv, NEW t \in Threads, RootAllocate(t)
  PROVE  IInv'
<1> DEFINE open == {c \in chunks : Cardinality(pages[c]) < Pages}
<1>1. At(t, "root") /\ UNCHANGED <<chunks, cache, inUse>>
  BY DEF RootAllocate
<1>2. CASE open # {}
  <2>1. PICK c \in open : NewBlock(t, <<c, Min((0 .. Pages - 1) \ pages[c])>>)
    BY <1>2 DEF RootAllocate
  <2> DEFINE free == (0 .. Pages - 1) \ pages[c]
             m == Min(free)
  <2>2. c \in 1 .. MaxChunks /\ c \in chunks /\ pages[c] \subseteq 0 .. Pages - 1 /\ Cardinality(pages[c]) < Pages
    BY DEF IInv, TypeOK
  <2>3. free # {}
    <3>1. Cardinality(0 .. Pages - 1) = Pages
      BY AllocatorAssumption, FS_Interval
    <3>2. free = {} => pages[c] = 0 .. Pages - 1
      BY <2>2
    <3> HIDE DEF free
    <3> QED BY <2>2, <3>1, <3>2, AllocatorAssumption
  <2>4. m \in free
    <3>1. free \subseteq Nat
      OBVIOUS
    <3> HIDE DEF free
    <3> QED BY <2>3, <3>1, MinIs
  <2>5. m \in 0 .. Pages - 1 /\ m \notin pages[c]
    BY <2>4
  <2> HIDE DEF m
  <2> DEFINE b == <<c, m>>
  <2>6. b \in Blocks /\ b[1] = c /\ b[2] = m /\ chunks' = chunks \cup {b[1]}
    BY <1>1, <2>2, <2>5 DEF Blocks
  <2>7. NewBlock(t, b)
    BY <2>1 DEF m
  <2> HIDE DEF b
  <2> QED BY <1>1, <2>5, <2>6, <2>7, NewBlockStep
<1>3. CASE open = {}
  <2> DEFINE x == [th[t] EXCEPT !.pc = "grow"]
  <2>1. th' = [th EXCEPT ![t] = x] /\ UNCHANGED <<root, block, cache, inUse>>
    BY <1>1, <1>3 DEF RootAllocate, Go, root, IInv, TypeOK
  <2>2. /\ th[t] \in ThreadState /\ th[t].item = NoItem /\ th[t].op = "allocate" /\ th[t].p = NoBlock
        /\ th[t].rest = <<>>
    BY <1>1 DEF IInv, TypeOK, PlaceInv, PlaceOk, At, ThreadState
  <2>3. /\ x \in ThreadState /\ x.p = NoBlock /\ x.rest = <<>> /\ x.op = "allocate" /\ x.item = NoItem
        /\ x.pc = "grow"
    BY <2>2 DEF ThreadState
  <2> HIDE DEF x
  <2>4. Only(t) /\ th'[t] = x /\ th' \in [Threads -> ThreadState]
    BY <2>1, <2>3, Moves DEF IInv
  <2>5. TypeOK'
    BY <2>1, <2>4 DEF IInv, TypeOK, root, cache
  <2>6. PlaceOk(t)'
    BY <2>3, <2>4 DEF PlaceOk, At
  <2>7. Quiet(t)
    BY <1>1, <2>2, <2>3, <2>4, NoBlockIs DEF Quiet, SameHandsOut, HandsOut, Holds, Owns, At
  <2>8. SameKeep(t)
    BY <1>1, <2>1, <2>2, <2>3, <2>4 DEF SameKeep, InHand, cache, At
  <2>9. KeptOnce' /\ SamePlaces
    BY <2>4, <2>8, KeepSame DEF IInv
  <2>10. RecycledIsBounded'
    BY <1>1, <2>1, <2>3, <2>4, <2>9, BoundQuiet DEF Counts, Putting, cache, At
  <2> QED BY <2>1, <2>4, <2>5, <2>6, <2>7, <2>9, <2>10, BlockSame, QuietStep
<1> QED BY <1>2, <1>3

LEMMA RootGrowStep ==
  ASSUME IInv, NEW t \in Threads, RootGrow(t)
  PROVE  IInv'
<1> DEFINE none == (1 .. MaxChunks) \ chunks
           c == Min(none)
<1>1. /\ At(t, "grow") /\ Cardinality(chunks) < MaxChunks /\ chunks' = chunks \cup {c} /\ NewBlock(t, <<c, 0>>)
      /\ UNCHANGED <<cache, inUse>>
  BY DEF RootGrow
<1>2. none # {}
  <2>1. Cardinality(1 .. MaxChunks) = MaxChunks
    BY AllocatorAssumption, FS_Interval
  <2>2. chunks \subseteq 1 .. MaxChunks
    BY DEF IInv, TypeOK
  <2>3. none = {} => chunks = 1 .. MaxChunks
    BY <2>2
  <2> HIDE DEF none
  <2> QED BY <1>1, <2>1, <2>3, AllocatorAssumption
<1>3. c \in none
  <2>1. none \subseteq Nat
    OBVIOUS
  <2> HIDE DEF none
  <2> QED BY <1>2, <2>1, MinIs
<1>4. c \in 1 .. MaxChunks /\ c \notin chunks
  BY <1>3
<1> HIDE DEF c
<1>5. pages[c] = {}
  BY <1>4 DEF IInv, InUseIsMapped
<1> DEFINE b == <<c, 0>>
<1>6. b \in Blocks /\ b[1] = c /\ b[2] = 0 /\ b[2] \notin pages[b[1]] /\ chunks' = chunks \cup {b[1]} /\ NewBlock(t, b)
  BY <1>1, <1>4, <1>5, AllocatorAssumption DEF Blocks
<1> HIDE DEF b
<1> QED BY <1>1, <1>6, NewBlockStep

-----------------------------------------------------------------------------
(* The invariant *)

LEMMA InitIInv == Init => IInv
<1> SUFFICES ASSUME Init PROVE IInv
  OBVIOUS
<1>1. /\ \A t \in Threads : th[t] = Idle
      /\ \A b \in Blocks : block[b].ref_count = 0 /\ inUse[b] = {}
      /\ \A n \in 1 .. Slots : control_blocks[n] = NoBlock
      /\ recycled = <<>> /\ recycle_count = 0 /\ chunks = {} /\ \A c \in 1 .. MaxChunks : pages[c] = {}
  BY DEF Init, Fresh
<1>2. /\ Idle.pc = "idle" /\ Idle.p = NoBlock /\ Idle.item = NoItem /\ Idle.op = "none" /\ Idle.rest = <<>>
  BY DEF Idle
<1>3. Idle \in ThreadState
  <2>1. <<>> \in Seq(Blocks) /\ 1 \in 1 .. Slots
    BY AllocatorAssumption
  <2> QED BY <2>1 DEF Idle, ThreadState
<1>4. TypeOK
  <2>1. th \in [Threads -> ThreadState]
    BY <1>3 DEF Init
  <2>2. block \in [Blocks -> [ref_count : Nat, managed : {0, 1}, bitmap : SUBSET (0 .. Bits - 1)]]
    <3>1. [Fresh EXCEPT !.ref_count = 0] \in [ref_count : Nat, managed : {0, 1}, bitmap : SUBSET (0 .. Bits - 1)]
      BY DEF Fresh
    <3> QED BY <3>1 DEF Init
  <2>3. recycled \in Seq(Blocks) /\ recycle_count \in Nat
    BY <1>1
  <2> QED BY <2>1, <2>2, <2>3 DEF Init, TypeOK
<1>5. PlaceInv /\ FreeInv /\ BitsInv /\ NoDoubleAllocation
  BY <1>1, <1>2 DEF PlaceInv, PlaceOk, FreeInv, BitsInv, NoDoubleAllocation, Owns, At
<1>6. \A b \in Blocks : /\ ~Kept(b) /\ ~InList(b) /\ \A t \in Threads : ~InRest(t, b) /\ ~InHand(t, b)
                        /\ \A n \in 1 .. Slots : ~InSlot(n, b)
  BY <1>1, <1>2, NoBlockIs, EmptyIs DEF Kept, InList, InSlot, InRest, InHand
<1>7. KeptOnce
  BY <1>1, <1>2, <1>6, EmptyIs DEF KeptOnce, AtMostOnce
<1>8. RefsExact
  <2>1. ASSUME NEW b \in Blocks PROVE Refs(b) = {}
    <3>1. ASSUME NEW r \in Tags PROVE ~Refers(r, b)
      <4>1. \A i : ~Out(b, i)
        BY <1>1, <1>2 DEF Out, HandsOut
      <4>2. \A u \in Threads : ~Holds(u, b)
        BY <1>1, <1>2, NoBlockIs DEF Holds
      <4>3. CASE r \in {"item"} \X (0 .. Items - 1)
        <5> PICK i : r = <<"item", i>>
          BY <4>3
        <5> QED BY <4>1, RefersIs
      <4>4. CASE r \in {"thread"} \X Threads
        <5> PICK u \in Threads : r = <<"thread", u>>
          BY <4>4
        <5> QED BY <4>2, RefersIs
      <4>5. CASE r = <<"kept", 0>>
        BY <1>6, <4>5, RefersIs
      <4> QED BY <4>3, <4>4, <4>5 DEF Tags
    <3> QED BY <3>1 DEF Refs
  <2> QED BY <1>1, <2>1, FS_EmptySet DEF RefsExact
<1>9. InUseIsMapped
  BY <1>1, <1>2 DEF InUseIsMapped, At, Blocks
<1>10. RecycledIsBounded
  <2>1. Listed = {} /\ Counts = {} /\ Putting = {}
    BY <1>1, <1>2, <1>6 DEF Listed, Counts, Putting
  <2>2. Cardinality({}) = 0 /\ Cardinality(Threads) \in Nat
    BY FS_EmptySet, Bounded
  <2> QED BY <1>1, <2>1, <2>2, AllocatorAssumption DEF RecycledIsBounded
<1> QED BY <1>4, <1>5, <1>7, <1>8, <1>9, <1>10 DEF IInv

LEMMA NextIInv == IInv /\ [Next]_vars => IInv'
<1> SUFFICES ASSUME IInv, [Next]_vars PROVE IInv'
  OBVIOUS
<1>1. CASE UNCHANGED vars
  <2>1. /\ chunks' = chunks /\ pages' = pages /\ block' = block /\ control_blocks' = control_blocks
        /\ recycled' = recycled /\ recycle_count' = recycle_count /\ th' = th /\ inUse' = inUse
    BY <1>1 DEF vars, root, cache
  <2>2. TypeOK' /\ PlaceInv' /\ BitsInv' /\ FreeInv' /\ NoDoubleAllocation' /\ InUseIsMapped'
    BY <2>1 DEF IInv, TypeOK, PlaceInv, PlaceOk, BitsInv, FreeInv, NoDoubleAllocation, InUseIsMapped, Owns, Mine, At
  <2>3. \A b : /\ (InList(b)' <=> InList(b)) /\ \A n : InSlot(n, b)' <=> InSlot(n, b)
              /\ \A t : (InRest(t, b)' <=> InRest(t, b)) /\ (InHand(t, b)' <=> InHand(t, b))
    BY <2>1 DEF InList, InSlot, InRest, InHand
  <2>4. \A b : Kept(b)' <=> Kept(b)
    BY <2>3 DEF Kept
  <2>5. KeptOnce'
    BY <2>1, <2>3, <2>4 DEF IInv, KeptOnce, AtMostOnce
  <2>6. \A b : \A r : Refers(r, b)' <=> Refers(r, b)
    BY <2>1, <2>4 DEF Refers, Out, HandsOut, Holds, At
  <2>7. RefsExact'
    BY <2>1, <2>6 DEF IInv, RefsExact, Refs
  <2>8. Listed' = Listed /\ Counts' = Counts /\ Putting' = Putting
    BY <2>1, <2>3 DEF Listed, Counts, Putting
  <2>9. RecycledIsBounded'
    BY <2>1, <2>8 DEF IInv, RecycledIsBounded
  <2> QED BY <2>2, <2>5, <2>7, <2>9 DEF IInv
<1>2. CASE \E t \in Threads : Thread(t)
  <2> PICK t \in Threads : Thread(t)
    BY <1>2
  <2> QED BY AllocateStep, TakeSlotStep, TakeRecycledStep, PutBackStep, UncountStep, UnmanageStep, RootAllocateStep,
             RootGrowStep, SearchStep, ClaimStep, CountStep, DeallocateStep, ClearStep, RecycleStep, ManageStep,
             PutStep, NextSlotStep, TryFreeStep, RootDeallocateStep DEF Thread
<1> QED BY <1>1, <1>2 DEF Next

\* The invariant holds of every state that is reached.
THEOREM Inductive == Spec => []IInv
BY InitIInv, NextIInv, PTL DEF Spec

\* The variables have their types: counts never go below zero, bits stay in the bitmap.
THEOREM TypeCorrect == Spec => []TypeOK
<1>1. IInv => TypeOK
  BY DEF IInv
<1> QED BY Inductive, <1>1, PTL

\* grid_allocator_t: no item is handed out twice, whatever the threads do between reading
\* the bitmap and fetch_or.
THEOREM ItemsOnce == Spec => []NoDoubleAllocation
<1>1. IInv => NoDoubleAllocation
  BY DEF IInv
<1> QED BY Inductive, <1>1, PTL

\* grid_root_allocator_t: a page is in use as long as its block is referred to, and a chunk is
\* given back with the last of its pages.
THEOREM PagesAreMapped == Spec => []InUseIsMapped
<1>1. IInv => InUseIsMapped
  BY DEF IInv
<1> QED BY Inductive, <1>1, PTL

\* ref_count is what refers to the block: items in use or handed out, threads, the cache.
THEOREM ReferencesCounted == Spec => []RefsExact
<1>1. IInv => RefsExact
  BY DEF IInv
<1> QED BY Inductive, <1>1, PTL

\* A block is in one slot or in the recycled list once, or in the hands of one thread.
THEOREM KeptInOnePlace == Spec => []KeptOnce
<1>1. IInv => KeptOnce
  BY DEF IInv
<1> QED BY Inductive, <1>1, PTL

\* recycle_count counts the recycled list, which exceeds its limit by less than there are threads.
THEOREM RecycledBounded == Spec => []RecycledIsBounded
<1>1. IInv => RecycledIsBounded
  BY DEF IInv
<1> QED BY Inductive, <1>1, PTL

=============================================================================
