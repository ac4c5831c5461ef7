----------------------------- MODULE Worker_proofs -----------------------------
(***************************************************************************)
(* Proofs about module Worker, for any number of threads, heads, tasks and *)
(* priorities.                                                             *)
(***************************************************************************)
EXTENDS Worker, FiniteSetTheorems, WellFoundedInduction, SequenceTheorems, TLAPS

(* Lists of tasks that have each task once.                                *)
Good(l) == l \in Seq(Tasks) /\ IsInjective(l)

LEMMA EmptyIs == Good(<<>>) /\ ToSet(<<>>) = {}
BY DEF Good, ToSet, IsInjective

LEMMA PushIs ==
  ASSUME NEW s, Good(s), NEW x \in Tasks, x \notin ToSet(s)
  PROVE  Good(<<x>> \o s) /\ ToSet(<<x>> \o s) = {x} \cup ToSet(s) /\ <<x>> \o s # <<>>
<1> DEFINE q == <<x>> \o s
<1>1. /\ q \in Seq(Tasks) /\ Len(q) = Len(s) + 1 /\ q[1] = x
      /\ \A i \in 2 .. Len(q) : q[i] = s[i - 1]
  BY DEF Good
<1>2. DOMAIN q = 1 .. Len(s) + 1 /\ DOMAIN s = 1 .. Len(s) /\ Len(s) \in Nat /\ q # <<>>
  BY <1>1 DEF Good
<1> HIDE DEF q
<1>3. \A j \in DOMAIN s : j + 1 \in DOMAIN q /\ q[j + 1] = s[j]
  BY <1>1, <1>2
<1>4. \A i \in DOMAIN q : i = 1 \/ (i - 1 \in DOMAIN s /\ q[i] = s[i - 1])
  BY <1>1, <1>2
<1>5. ToSet(q) = {x} \cup ToSet(s)
  <2>1. ToSet(q) \subseteq {x} \cup ToSet(s)
    BY <1>1, <1>4 DEF ToSet
  <2>2. {x} \cup ToSet(s) \subseteq ToSet(q)
    BY <1>1, <1>2, <1>3 DEF ToSet
  <2> QED BY <2>1, <2>2
<1>6. IsInjective(q)
  <2> SUFFICES ASSUME NEW i \in DOMAIN q, NEW j \in DOMAIN q, q[i] = q[j] PROVE i = j
    BY DEF IsInjective
  <2>1. CASE i = 1 \/ j = 1
    BY <1>1, <1>4, <2>1 DEF ToSet
  <2>2. CASE i # 1 /\ j # 1
    <3>1. i - 1 \in DOMAIN s /\ j - 1 \in DOMAIN s /\ s[i - 1] = s[j - 1]
      BY <1>4, <2>2
    <3>2. i - 1 = j - 1
      BY <3>1 DEF Good, IsInjective
    <3> QED BY <1>2, <3>2
  <2> QED BY <2>1, <2>2
<1> QED BY <1>1, <1>2, <1>5, <1>6 DEF q, Good

LEMMA PopIs ==
  ASSUME NEW s, Good(s), s # <<>>
  PROVE  /\ Head(s) \in Tasks /\ Good(Tail(s)) /\ Good(<<Head(s)>>)
         /\ ToSet(s) = {Head(s)} \cup ToSet(Tail(s)) /\ Head(s) \notin ToSet(Tail(s))
         /\ ToSet(<<Head(s)>>) = {Head(s)} /\ Len(s) = 1 <=> Tail(s) = <<>>
<1> DEFINE r == Tail(s)
<1>1. /\ r \in Seq(Tasks) /\ Len(r) = Len(s) - 1 /\ Head(s) = s[1] /\ Len(s) \in Nat \ {0}
      /\ \A i \in 1 .. Len(r) : r[i] = s[i + 1]
  <2>1. Len(s) \in Nat \ {0} /\ Head(s) = s[1]
    BY DEF Good
  <2> QED BY <2>1, HeadTailProperties DEF Good
<1>2. DOMAIN r = 1 .. Len(s) - 1 /\ DOMAIN s = 1 .. Len(s)
  BY <1>1 DEF Good
<1>3. Len(s) = 1 <=> r = <<>>
  <2> HIDE DEF r
  <2>1. r = <<>> <=> Len(r) = 0
    BY <1>1, EmptySeq
  <2> QED BY <1>1, <2>1
<1> HIDE DEF r
<1>4. \A j \in DOMAIN r : j + 1 \in DOMAIN s /\ r[j] = s[j + 1]
  BY <1>1, <1>2
<1>5. \A i \in DOMAIN s : i = 1 \/ (i - 1 \in DOMAIN r /\ s[i] = r[i - 1])
  BY <1>1, <1>2
<1>6. ToSet(s) = {s[1]} \cup ToSet(r)
  <2>1. ToSet(s) \subseteq {s[1]} \cup ToSet(r)
    BY <1>5 DEF ToSet
  <2>2. {s[1]} \cup ToSet(r) \subseteq ToSet(s)
    BY <1>1, <1>2, <1>4 DEF ToSet
  <2> QED BY <2>1, <2>2
<1>7. IsInjective(r) /\ s[1] \notin ToSet(r)
  <2>1. ASSUME NEW i \in DOMAIN r, NEW j \in DOMAIN r, r[i] = r[j] PROVE i = j
    <3>1. i + 1 = j + 1
      BY <1>4, <2>1 DEF IsInjective, Good
    <3> QED BY <1>2, <3>1
  <2>2. ASSUME NEW i \in DOMAIN r, r[i] = s[1] PROVE FALSE
    <3>1. i + 1 = 1
      BY <1>1, <1>2, <1>4, <2>2 DEF IsInjective, Good
    <3> QED BY <1>2, <3>1
  <2> QED BY <2>1, <2>2 DEF IsInjective, ToSet
<1>8. s[1] \in Tasks
  BY <1>1 DEF Good
<1>9. Good(<<s[1]>>) /\ ToSet(<<s[1]>>) = {s[1]}
  BY <1>8 DEF Good, ToSet, IsInjective
<1> QED BY <1>1, <1>3, <1>6, <1>7, <1>8, <1>9 DEF r, Good

-----------------------------------------------------------------------------
(* Tasks that move from list to list.  All lists have each task once, together. *)

AllGood(all) == all \in [Where -> Seq(Tasks)]

LEMMA OnceIs ==
  ASSUME NEW all, AllGood(all), NEW done, NEW n, Once(all, done, n)
  PROVE  /\ \A x \in Where : Good(all[x]) /\ ToSet(all[x]) \cap done = {} /\ ToSet(all[x]) \subseteq 1 .. n
         /\ \A x, y \in Where : x # y => ToSet(all[x]) \cap ToSet(all[y]) = {}
         /\ done \subseteq 1 .. n
BY DEF AllGood, Once, Good

(* A new task is put on top of a list.                                        *)
LEMMA Added ==
  ASSUME NEW all, AllGood(all), NEW done, NEW n \in Nat, Once(all, done, n), n < MaxTasks,
         NEW x \in Where,
         NEW more, more = [all EXCEPT ![x] = <<n + 1>> \o @]
  PROVE  AllGood(more) /\ Once(more, done, n + 1)
<1>1. n + 1 \in Tasks /\ n + 1 \notin 1 .. n /\ 1 .. n + 1 = 1 .. n \cup {n + 1}
  BY WorkerAssumption DEF Tasks
<1>2. Good(all[x]) /\ n + 1 \notin ToSet(all[x]) /\ n + 1 \notin done
  BY <1>1, OnceIs
<1>3. Good(more[x]) /\ ToSet(more[x]) = {n + 1} \cup ToSet(all[x])
  BY <1>1, <1>2, PushIs DEF AllGood
<1>4. \A y \in Where : y # x => more[y] = all[y] /\ n + 1 \notin ToSet(all[y])
  BY <1>1, OnceIs DEF AllGood
<1>5. AllGood(more)
  BY <1>3 DEF AllGood, Good
<1>6. \A y \in Where : IsInjective(more[y]) /\ ToSet(more[y]) \cap done = {}
  BY <1>2, <1>3, <1>4, OnceIs DEF Good
<1>7. \A y, z \in Where : y # z => ToSet(more[y]) \cap ToSet(more[z]) = {}
  BY <1>3, <1>4, OnceIs
<1>8. 1 .. n + 1 = done \cup UNION {ToSet(more[y]) : y \in Where}
  <2>1. 1 .. n = done \cup UNION {ToSet(all[y]) : y \in Where}
    BY DEF Once
  <2>2. UNION {ToSet(more[y]) : y \in Where} = {n + 1} \cup UNION {ToSet(all[y]) : y \in Where}
    BY <1>3, <1>4
  <2> HIDE DEF Once
  <2> QED BY <1>1, <2>1, <2>2
<1> QED BY <1>5, <1>6, <1>7, <1>8 DEF Once

(* The top of a list is put on top of another.                                *)
LEMMA Shifted ==
  ASSUME NEW all, AllGood(all), NEW done, NEW n, Once(all, done, n), NEW x \in Where,
         NEW y \in Where, x # y,
         all[y] # <<>>, NEW more, more = [all EXCEPT ![x] = <<Head(all[y])>> \o @, ![y] = Tail(@)]
  PROVE  AllGood(more) /\ Once(more, done, n)
<1> DEFINE k == Head(all[y])
<1>1. /\ k \in Tasks /\ Good(Tail(all[y])) /\ ToSet(all[y]) = {k} \cup ToSet(Tail(all[y]))
      /\ k \notin ToSet(Tail(all[y]))
  BY OnceIs, PopIs
<1>2. /\ Good(all[x]) /\ k \notin ToSet(all[x])
      /\ ToSet(all[x]) \cap ToSet(all[y]) = {} /\ k \notin done
  BY <1>1, OnceIs
<1>3. more[x] = <<k>> \o all[x] /\ more[y] = Tail(all[y])
  <2>1. x \in DOMAIN all /\ y \in DOMAIN all
    BY DEF AllGood
  <2> QED BY <2>1
<1>4. \A z \in Where \ {x, y} : more[z] = all[z]
  BY DEF AllGood
<1> HIDE DEF k
<1>5. Good(more[x]) /\ ToSet(more[x]) = {k} \cup ToSet(all[x])
  <2>1. Good(<<k>> \o all[x]) /\ ToSet(<<k>> \o all[x]) = {k} \cup ToSet(all[x])
    BY <1>1, <1>2, PushIs
  <2> QED BY <1>3, <2>1
<1>6. AllGood(more)
  <2>1. \A z \in Where : more[z] \in Seq(Tasks)
    BY <1>1, <1>3, <1>4, <1>5 DEF AllGood, Good
  <2>2. DOMAIN more = Where /\ more = [z \in Where |-> more[z]]
    BY DEF AllGood
  <2> QED BY <2>1, <2>2 DEF AllGood
<1>7. \A z \in Where : IsInjective(more[z]) /\ ToSet(more[z]) \cap done = {}
  <2>1. \A z \in Where \ {x, y} : Good(all[z]) /\ ToSet(all[z]) \cap done = {}
    BY OnceIs
  <2>2. ToSet(all[x]) \cap done = {} /\ ToSet(all[y]) \cap done = {}
    BY OnceIs
  <2> QED BY <1>1, <1>2, <1>3, <1>4, <1>5, <2>1, <2>2 DEF Good
<1>8. \A z, w \in Where : z # w => ToSet(more[z]) \cap ToSet(more[w]) = {}
  <2>1. \A z \in Where \ {x, y} : /\ ToSet(more[z]) \cap ToSet(all[x]) = {}
                                   /\ ToSet(more[z]) \cap ToSet(all[y]) = {}
    BY <1>4, OnceIs
  <2>2. \A z \in Where \ {x, y} : /\ ToSet(more[z]) \cap ToSet(more[x]) = {}
                                   /\ ToSet(more[z]) \cap ToSet(more[y]) = {}
    BY <1>1, <1>3, <1>5, <2>1
  <2>3. ToSet(more[x]) \cap ToSet(more[y]) = {}
    BY <1>1, <1>2, <1>3, <1>5
  <2>4. \A z, w \in Where \ {x, y} : z # w => ToSet(more[z]) \cap ToSet(more[w]) = {}
    BY <1>4, OnceIs
  <2> QED BY <2>2, <2>3, <2>4
<1>9. UNION {ToSet(more[z]) : z \in Where} = UNION {ToSet(all[z]) : z \in Where}
  <2>1. ToSet(more[x]) \cup ToSet(more[y]) = ToSet(all[x]) \cup ToSet(all[y])
    BY <1>1, <1>3, <1>5
  <2> QED BY <1>4, <2>1
<1> QED BY <1>6, <1>7, <1>8, <1>9 DEF Once

(* A whole list is moved to a place that has none.                            *)
LEMMA Handed ==
  ASSUME NEW all, AllGood(all), NEW done, NEW n, Once(all, done, n), NEW x \in Where,
         NEW y \in Where, x # y,
         all[x] = <<>>, NEW more, more = [all EXCEPT ![x] = all[y], ![y] = <<>>]
  PROVE  AllGood(more) /\ Once(more, done, n)
<1>1. more[x] = all[y] /\ more[y] = <<>> /\ \A z \in Where \ {x, y} : more[z] = all[z]
  BY DEF AllGood
<1>2. ToSet(more[y]) = {} /\ ToSet(all[x]) = {} /\ Good(more[y])
  BY <1>1, EmptyIs
<1>3. AllGood(more)
  BY EmptyIs DEF AllGood, Good
<1>4. /\ \A z \in Where : Good(all[z]) /\ ToSet(all[z]) \cap done = {}
      /\ \A z, w \in Where : z # w => ToSet(all[z]) \cap ToSet(all[w]) = {}
  BY OnceIs
<1>5. \A z \in Where : Good(more[z]) /\ ToSet(more[z]) \cap done = {}
  BY <1>1, <1>2, <1>4
<1>6. \A z, w \in Where : z # w => ToSet(more[z]) \cap ToSet(more[w]) = {}
  <2> SUFFICES ASSUME NEW z \in Where, NEW w \in Where, z # w
               PROVE  ToSet(more[z]) \cap ToSet(more[w]) = {}
    OBVIOUS
  <2>1. CASE z = y \/ w = y
    BY <1>2, <2>1
  <2>2. CASE z = x /\ w # y
    BY <1>1, <1>4, <2>2
  <2>3. CASE w = x /\ z # y
    BY <1>1, <1>4, <2>3
  <2>4. CASE z \notin {x, y} /\ w \notin {x, y}
    BY <1>1, <1>4, <2>4
  <2> QED BY <2>1, <2>2, <2>3, <2>4
<1>7. UNION {ToSet(more[z]) : z \in Where} = UNION {ToSet(all[z]) : z \in Where}
  BY <1>1, <1>2
<1> QED BY <1>3, <1>5, <1>6, <1>7 DEF Once, Good

(* The top of a list is run.                                                  *)
LEMMA Done ==
  ASSUME NEW all, AllGood(all), NEW done, NEW n, Once(all, done, n), NEW y \in Where, all[y] # <<>>,
         NEW more, more = [all EXCEPT ![y] = Tail(@)]
  PROVE  AllGood(more) /\ Once(more, done \cup {Head(all[y])}, n)
<1> DEFINE k == Head(all[y])
<1>1. /\ k \in Tasks /\ Good(Tail(all[y])) /\ ToSet(all[y]) = {k} \cup ToSet(Tail(all[y]))
      /\ k \notin ToSet(Tail(all[y]))
  BY OnceIs, PopIs
<1>2. more[y] = Tail(all[y]) /\ \A z \in Where \ {y} : more[z] = all[z] /\ k \notin ToSet(all[z])
  BY <1>1, OnceIs DEF AllGood
<1> HIDE DEF k
<1>3. AllGood(more)
  BY <1>1, <1>2 DEF AllGood, Good
<1>4. \A z \in Where : IsInjective(more[z]) /\ ToSet(more[z]) \cap (done \cup {k}) = {}
  BY <1>1, <1>2, OnceIs DEF Good
<1>5. \A z, w \in Where : z # w => ToSet(more[z]) \cap ToSet(more[w]) = {}
  <2>1. \A z \in Where : ToSet(more[z]) \subseteq ToSet(all[z])
    BY <1>1, <1>2
  <2> QED BY <2>1, OnceIs
<1>6. {k} \cup UNION {ToSet(more[z]) : z \in Where} = UNION {ToSet(all[z]) : z \in Where}
  BY <1>1, <1>2
<1>7. 1 .. n = done \cup UNION {ToSet(all[z]) : z \in Where}
  BY DEF Once
<1>8. 1 .. n = (done \cup {k}) \cup UNION {ToSet(more[z]) : z \in Where}
  BY <1>6, <1>7
<1> QED BY <1>3, <1>4, <1>5, <1>8 DEF Once, k

-----------------------------------------------------------------------------
(* Numbers *)

LEMMA Ids ==
  /\ NThreads \in Nat \ {0} /\ Threads = 1 .. NThreads /\ Main \notin Threads /\ Main \in Actors
  /\ Actors = Threads \cup {Main} /\ NoActor \notin Actors /\ \A t \in Threads : t \in Actors /\ t # Main
  /\ IsFiniteSet(Threads) /\ Cardinality(Threads) = NThreads
<1>1. NThreads \in Nat \ {0}
  BY WorkerAssumption
<1>2. IsFiniteSet(1 .. NThreads) /\ Cardinality(1 .. NThreads) = NThreads
  BY <1>1, FS_Interval
<1> QED BY <1>1, <1>2 DEF Threads, Main, Actors, NoActor

LEMMA SlotsAre ==
  /\ NHeads \in Nat /\ NHeads >= NThreads /\ Slots = 0 .. NHeads - 1
  /\ 0 \in Slots /\ Priorities \subseteq Slots
<1>1. Duplicates \in Nat \ {0} /\ NThreads \in Nat \ {0} /\ Priorities \subseteq 0 .. NThreads - 1
  BY WorkerAssumption
<1>2. Duplicates * NThreads = (Duplicates - 1) * NThreads + NThreads
  BY <1>1
<1>3. (Duplicates - 1) * NThreads >= 0
  BY <1>1
<1>4. NHeads \in Nat /\ NHeads >= NThreads
  BY <1>1, <1>2, <1>3 DEF NHeads
<1> QED BY <1>1, <1>4 DEF Slots

-----------------------------------------------------------------------------
(* Steps of one actor *)

Only(a) ==
  \A u \in Actors \ {a} : /\ pc'[u] = pc[u] /\ cont'[u] = cont[u] /\ at'[u] = at[u]
                           /\ hand'[u] = hand[u] /\ rest'[u] = rest[u]

LEMMA OthersPlaced ==
  ASSUME PlaceInv, NEW a \in Actors, Only(a), PlaceOk(a)', HandOk(a)'
  PROVE  PlaceInv'
<1> SUFFICES ASSUME NEW u \in Actors, u # a PROVE PlaceOk(u)' /\ HandOk(u)'
  BY DEF PlaceInv
<1>1. /\ pc'[u] = pc[u] /\ cont'[u] = cont[u] /\ at'[u] = at[u]
      /\ hand'[u] = hand[u] /\ rest'[u] = rest[u]
      /\ PlaceOk(u) /\ HandOk(u)
  BY DEF Only, PlaceInv
<1> QED BY <1>1 DEF PlaceOk, HandOk, Queues

LEMMA OthersCounted ==
  ASSUME NEW a \in Actors, Only(a), NEW t \in Threads \ {a}
  PROVE  (Polls(t)' <=> Polls(t)) /\ (Waits(t)' <=> Waits(t))
BY Ids DEF Only, Polls, Waits, Queues

(* The number of threads that poll, and of those that wait, before and after. *)
LEMMA CountsTyped ==
  ASSUME TypeOK, UNCHANGED internal_thread_count
  PROVE  /\ IsFiniteSet(Polling) /\ Cardinality(Polling) \in 0 .. NThreads
         /\ IsFiniteSet(Polling') /\ Cardinality(Polling') \in 0 .. NThreads
         /\ IsFiniteSet(Counted) /\ Cardinality(Counted) \in 0 .. NThreads
         /\ IsFiniteSet(Counted') /\ Cardinality(Counted') \in 0 .. NThreads
<1>1. Internal \subseteq Threads /\ Internal' \subseteq Threads
  BY Ids DEF TypeOK, Internal
<1>2. /\ Polling \in SUBSET Threads /\ Polling' \in SUBSET Threads
      /\ Counted \in SUBSET Threads /\ Counted' \in SUBSET Threads
  BY <1>1 DEF Polling, Counted
<1>3. \A S \in SUBSET Threads : IsFiniteSet(S) /\ Cardinality(S) \in 0 .. NThreads
  <2> SUFFICES ASSUME NEW S \in SUBSET Threads PROVE IsFiniteSet(S) /\ Cardinality(S) \in 0 .. NThreads
    OBVIOUS
  <2>1. IsFiniteSet(S) /\ Cardinality(S) <= Cardinality(Threads)
    <3>1. IsFiniteSet(Threads)
      BY Ids
    <3> QED BY <3>1, FS_Subset
  <2>2. Cardinality(S) \in Nat
    BY <2>1, FS_CardinalityType
  <2> QED BY <2>1, <2>2, Ids
<1> QED BY <1>2, <1>3

LEMMA PollsKept ==
  ASSUME NEW a \in Actors, Only(a), a \in Threads => (Polls(a)' <=> Polls(a))
  PROVE  Polling' = Polling
BY OthersCounted DEF Polling

LEMMA PollsMore ==
  ASSUME TypeOK, UNCHANGED internal_thread_count, NEW a \in Threads, Only(a), ~Polls(a), Polls(a)'
  PROVE  Cardinality(Polling') = Cardinality(Polling) + 1
<1>1. Polling' = Polling \cup {a} /\ a \notin Polling
  BY Ids, OthersCounted DEF Polling
<1> QED BY <1>1, CountsTyped, FS_AddElement

LEMMA PollsLess ==
  ASSUME TypeOK, UNCHANGED internal_thread_count, NEW a \in Threads, Only(a), Polls(a), ~Polls(a)'
  PROVE  Cardinality(Polling') = Cardinality(Polling) - 1
<1>1. Polling' = Polling \ {a} /\ a \in Polling
  BY Ids, OthersCounted DEF Polling
<1> QED BY <1>1, CountsTyped, FS_RemoveElement

LEMMA CountedKept ==
  ASSUME UNCHANGED internal_thread_count, NEW a \in Actors, Only(a),
         a \in Internal => (Waits(a)' /\ a \notin unseen' <=> Waits(a) /\ a \notin unseen),
         \A t \in Internal \ {a} : t \in unseen' <=> t \in unseen, TypeOK
  PROVE  Counted' = Counted
<1>1. Internal' = Internal /\ Internal \subseteq Threads
  BY Ids DEF TypeOK, Internal
<1> QED BY <1>1, OthersCounted DEF Counted

LEMMA CountedMore ==
  ASSUME UNCHANGED internal_thread_count, NEW a \in Internal, Only(a), TypeOK,
         Waits(a)' /\ a \notin unseen', ~(Waits(a) /\ a \notin unseen),
         \A t \in Internal \ {a} : t \in unseen' <=> t \in unseen
  PROVE  Cardinality(Counted') = Cardinality(Counted) + 1
<1>1. Internal' = Internal /\ Internal \subseteq Threads
  BY Ids DEF TypeOK, Internal
<1>2. Counted' = Counted \cup {a} /\ a \notin Counted
  BY <1>1, Ids, OthersCounted DEF Counted
<1> QED BY <1>2, CountsTyped, FS_AddElement

LEMMA CountedLess ==
  ASSUME UNCHANGED internal_thread_count, NEW a \in Internal, Only(a), TypeOK,
         Waits(a) /\ a \notin unseen, ~(Waits(a)' /\ a \notin unseen'),
         \A t \in Internal \ {a} : t \in unseen' <=> t \in unseen
  PROVE  Cardinality(Counted') = Cardinality(Counted) - 1
<1>1. Internal' = Internal /\ Internal \subseteq Threads
  BY Ids DEF TypeOK, Internal
<1>2. Counted' = Counted \ {a} /\ a \in Counted
  BY <1>1, Ids, OthersCounted DEF Counted
<1> QED BY <1>2, CountsTyped, FS_RemoveElement

-----------------------------------------------------------------------------
(* What the lists are after a step *)

LEMMA ListsAre ==
  /\ \A s \in Slots : <<"head", s>> \in Where /\ Lists[<<"head", s>>] = task_heads[s]
  /\ \A a \in Actors : /\ <<"hand", a>> \in Where /\ Lists[<<"hand", a>>] = hand[a]
                        /\ <<"rest", a>> \in Where /\ Lists[<<"rest", a>>] = rest[a]
  /\ \A x \in Where : \/ \E s \in Slots : x = <<"head", s>>
                      \/ \E a \in Actors : x = <<"hand", a>> \/ x = <<"rest", a>>
  /\ TypeOK => AllGood(Lists)
<1>1. \A x \in Where : \/ \E s \in Slots : x = <<"head", s>>
                       \/ \E a \in Actors : x = <<"hand", a>> \/ x = <<"rest", a>>
  BY DEF Where
<1>2. \A s \in Slots : <<"head", s>> \in Where /\ ListAt(<<"head", s>>) = task_heads[s]
  BY DEF Where, ListAt
<1>3. \A a \in Actors : /\ <<"hand", a>> \in Where /\ ListAt(<<"hand", a>>) = hand[a]
                        /\ <<"rest", a>> \in Where /\ ListAt(<<"rest", a>>) = rest[a]
  BY DEF Where, ListAt
<1>4. ASSUME TypeOK PROVE AllGood(Lists)
  <2>1. \A s \in Slots : task_heads[s] \in Seq(Tasks)
    BY <1>4 DEF TypeOK
  <2>2. \A a \in Actors : hand[a] \in Seq(Tasks) /\ rest[a] \in Seq(Tasks)
    BY <1>4 DEF TypeOK
  <2>3. ASSUME NEW x \in Where PROVE ListAt(x) \in Seq(Tasks)
    <3>1. CASE \E s \in Slots : x = <<"head", s>>
      BY <1>2, <2>1, <3>1
    <3>2. CASE \E a \in Actors : x = <<"hand", a>> \/ x = <<"rest", a>>
      BY <1>3, <2>2, <3>2
    <3> QED BY <1>1, <3>1, <3>2
  <2> QED BY <2>3 DEF AllGood, Lists
<1> QED BY <1>1, <1>2, <1>3, <1>4 DEF Lists

LEMMA ListsNext ==
  ASSUME NEW f, AllGood(f), \A s \in Slots : task_heads'[s] = f[<<"head", s>>],
         \A a \in Actors : hand'[a] = f[<<"hand", a>>] /\ rest'[a] = f[<<"rest", a>>]
  PROVE  Lists' = f
<1>1. \A s \in Slots : ListAt(<<"head", s>>)' = task_heads'[s]
  BY DEF ListAt
<1>2. \A a \in Actors : ListAt(<<"hand", a>>)' = hand'[a] /\ ListAt(<<"rest", a>>)' = rest'[a]
  BY DEF ListAt
<1>3. ASSUME NEW x \in Where PROVE ListAt(x)' = f[x]
  <2>1. CASE \E s \in Slots : x = <<"head", s>>
    BY <1>1, <2>1
  <2>2. CASE \E a \in Actors : x = <<"hand", a>> \/ x = <<"rest", a>>
    BY <1>2, <2>2
  <2> QED BY <2>1, <2>2, ListsAre
<1>4. f = [x \in Where |-> f[x]]
  BY DEF AllGood
<1> QED BY <1>3, <1>4 DEF Lists

LEMMA OnceKept ==
  ASSUME OnceInv, UNCHANGED <<lists, tally>>
  PROVE  OnceInv'
<1>1. Lists' = Lists
  BY DEF Lists, ListAt, lists
<1> QED BY <1>1 DEF OnceInv, tally

LEMMA CountKept ==
  ASSUME TypeOK, CountInv, NEW a \in Actors, Only(a),
         UNCHANGED <<pool, running_count, waiting_thread_count, unseen>>,
         a \in Threads => (Polls(a)' <=> Polls(a)) /\ (Waits(a)' <=> Waits(a))
  PROVE  CountInv'
<1>1. Internal \subseteq Threads
  BY Ids DEF Internal, TypeOK
<1>2. Polling' = Polling /\ Counted' = Counted
  BY <1>1, PollsKept, CountedKept DEF pool
<1> QED BY <1>2 DEF CountInv

LEMMA SleepKept ==
  ASSUME TypeOK, SleepInv, NEW a \in Actors, Only(a), UNCHANGED <<sleep, unseen>>,
         a \in Threads => SleepOk(a)'
  PROVE  SleepInv'
<1> SUFFICES ASSUME NEW t \in Threads, t # a PROVE SleepOk(t)'
  BY DEF SleepInv
<1> QED BY Ids DEF SleepInv, SleepOk, sleep, Only

-----------------------------------------------------------------------------
(* Each step preserves the invariant: the steps that move no task *)

LEMMA SignalStep ==
  ASSUME IInv, NEW a \in Actors, Signal(a)
  PROVE  IInv'
<1> USE DEF Signal, Move
<1>1. /\ Only(a) /\ UNCHANGED internal_thread_count /\ pc[a] = "signal"
      /\ pc'[a] \in {"wakeup", cont[a]}
  BY DEF Only, lists, pool, place, IInv, TypeOK
<1>2. PlaceInv'
  <2>1. PlaceOk(a) /\ HandOk(a)
    BY Ids DEF IInv, PlaceInv
  <2>2. PlaceOk(a)'
    BY <1>1, <2>1, Ids, SlotsAre DEF PlaceOk, Queues, MainPlaces, IInv, TypeOK
  <2>3. HandOk(a)'
    BY <1>1, <2>1, Ids DEF HandOk, PlaceOk, Queues, MainPlaces, IInv, TypeOK, lists
  <2> QED BY <1>1, <2>2, <2>3, Ids, OthersPlaced DEF IInv
<1>3. CountInv'
  <2>1. a \in Threads => (Polls(a)' <=> Polls(a)) /\ (Waits(a)' <=> Waits(a))
    BY <1>1, Ids DEF Polls, Waits, Queues, IInv, PlaceInv, PlaceOk, MainPlaces, TypeOK
  <2> QED BY <1>1, <2>1, Ids, CountKept DEF IInv, pool
<1>4. TypeOK'
  <2>1. running_count' \in 0 .. NThreads /\ waiting_thread_count' \in 0 .. NThreads
    BY <1>1, <1>3, CountsTyped DEF CountInv, IInv
  <2>2. at' \in [Actors -> -1 .. NHeads]
    BY <1>1, Ids DEF IInv, TypeOK, place
  <2> QED BY <1>1, <2>1, <2>2, Ids DEF IInv, TypeOK, lists, sleep, tally, pool, place, Internal
<1>5. SleepInv'
  <2>1. a \in Threads => SleepOk(a)'
    BY <1>1, Ids DEF SleepOk, SleepInv, sleep, IInv, TypeOK, PlaceInv, PlaceOk, MainPlaces
  <2> QED BY <1>1, <2>1, Ids, SleepKept DEF IInv
<1>6. JoinInv'
  <2>1. UNCHANGED <<terminated, found, at, task_heads, hand>>
    BY DEF lists
  <2>2. pc[a] \notin MainPlaces \cup {"exited"} /\ pc'[a] \in {"wakeup", "run", "loop", "client"}
    BY <1>1 DEF MainPlaces, IInv, TypeOK
  <2>3. a = Main => pc'[a] \in {"wakeup", "client"} /\ ~terminated
    BY <1>1, <2>2, Ids DEF IInv, JoinInv, PlaceInv, PlaceOk, MainPlaces
  <2>4. \A u \in Actors \ {a} : pc'[u] = pc[u]
    BY <1>1 DEF Only
  <2> HIDE DEF Signal
  <2> QED BY <2>1, <2>2, <2>3, <2>4, Ids DEF IInv, JoinInv, MainPlaces
<1>7. OnceInv'
  BY OnceKept DEF IInv
<1> QED BY <1>2, <1>3, <1>4, <1>5, <1>6, <1>7 DEF IInv

LEMMA WakeupStep ==
  ASSUME IInv, NEW a \in Actors, Wakeup(a)
  PROVE  IInv'
<1> USE DEF Wakeup, Move
<1>0. /\ sleepers' \in SUBSET Threads /\ notified' \in SUBSET Threads /\ mutex' = mutex
      /\ sleepers' \cup notified' = sleepers \cup notified
  BY DEF IInv, TypeOK
<1>1. Only(a) /\ UNCHANGED internal_thread_count /\ pc[a] = "wakeup" /\ pc'[a] = cont[a]
  BY DEF Only, lists, pool, place, IInv, TypeOK
<1>2. PlaceInv'
  <2>1. PlaceOk(a) /\ HandOk(a)
    BY Ids DEF IInv, PlaceInv
  <2>2. PlaceOk(a)'
    BY <1>0, <1>1, <2>1, Ids, SlotsAre DEF PlaceOk, Queues, MainPlaces, IInv, TypeOK
  <2>3. HandOk(a)'
    BY <1>0, <1>1, <2>1, Ids DEF HandOk, PlaceOk, Queues, MainPlaces, IInv, TypeOK, lists
  <2> QED BY <1>0, <1>1, <2>2, <2>3, Ids, OthersPlaced DEF IInv
<1>3. CountInv'
  <2>1. a \in Threads => (Polls(a)' <=> Polls(a)) /\ (Waits(a)' <=> Waits(a))
    BY <1>0, <1>1, Ids DEF Polls, Waits, Queues, IInv, PlaceInv, PlaceOk, MainPlaces, TypeOK
  <2> QED BY <1>0, <1>1, <2>1, Ids, CountKept DEF IInv, pool
<1>4. TypeOK'
  <2>1. running_count' \in 0 .. NThreads /\ waiting_thread_count' \in 0 .. NThreads
    BY <1>0, <1>1, <1>3, CountsTyped DEF CountInv, IInv
  <2>2. at' \in [Actors -> -1 .. NHeads]
    BY <1>0, <1>1, Ids DEF IInv, TypeOK, place
  <2> QED BY <1>0, <1>1, <2>1, <2>2, Ids DEF IInv, TypeOK, lists, sleep, tally, pool, place,
             Internal
<1>5. SleepInv'
  <2>0. unseen' = unseen /\ mutex = NoActor
    OBVIOUS
  <2> HIDE DEF Wakeup
  <2> SUFFICES ASSUME NEW u \in Threads PROVE SleepOk(u)'
    BY DEF SleepInv
  <2>1. SleepOk(u) /\ (a \in Threads => SleepOk(a))
    BY Ids DEF IInv, SleepInv
  <2>2. CASE u = a
    BY <1>0, <1>1, <2>0, <2>1, <2>2, Ids DEF SleepOk, sleep, IInv, TypeOK, PlaceInv, PlaceOk,
       MainPlaces
  <2>3. CASE u # a
    BY <1>0, <1>1, <2>0, <2>1, <2>3, Ids DEF SleepOk, sleep, Only, IInv, TypeOK
  <2> QED BY <2>2, <2>3
<1>6. JoinInv'
  <2>1. UNCHANGED <<terminated, found, at, task_heads, hand>>
    BY DEF lists
  <2>2. pc[a] \notin MainPlaces \cup {"exited"} /\ pc'[a] \in {"wakeup", "run", "loop", "client"}
    BY <1>1 DEF MainPlaces, IInv, TypeOK
  <2>3. a = Main => pc'[a] \in {"wakeup", "client"} /\ ~terminated
    BY <1>1, <2>2, Ids DEF IInv, JoinInv, PlaceInv, PlaceOk, MainPlaces
  <2>4. \A u \in Actors \ {a} : pc'[u] = pc[u]
    BY <1>1 DEF Only
  <2> HIDE DEF Wakeup
  <2> QED BY <2>1, <2>2, <2>3, <2>4, Ids DEF IInv, JoinInv, MainPlaces
<1>7. OnceInv'
  BY OnceKept DEF IInv
<1> QED BY <1>2, <1>3, <1>4, <1>5, <1>6, <1>7 DEF IInv

LEMMA ExitStep ==
  ASSUME IInv, NEW t \in Threads, Exit(t)
  PROVE  IInv'
<1> USE DEF Exit, Move
<1>1. Only(t) /\ UNCHANGED internal_thread_count /\ pc[t] = "loop" /\ pc'[t] = "exited"
  BY Ids DEF Only, lists, pool, place, IInv, TypeOK
<1>2. PlaceInv'
  <2>1. PlaceOk(t) /\ HandOk(t)
    BY Ids DEF IInv, PlaceInv
  <2>2. PlaceOk(t)'
    BY <1>1, <2>1, Ids, SlotsAre DEF PlaceOk, Queues, MainPlaces, IInv, TypeOK
  <2>3. HandOk(t)'
    BY <1>1, <2>1, Ids DEF HandOk, PlaceOk, Queues, MainPlaces, IInv, TypeOK, lists
  <2> QED BY <1>1, <2>2, <2>3, Ids, OthersPlaced DEF IInv
<1>3. CountInv'
  <2>1. t \in Threads => (Polls(t)' <=> Polls(t)) /\ (Waits(t)' <=> Waits(t))
    BY <1>1, Ids DEF Polls, Waits, Queues, IInv, PlaceInv, PlaceOk, MainPlaces, TypeOK
  <2> QED BY <1>1, <2>1, Ids, CountKept DEF IInv, pool
<1>4. TypeOK'
  <2>1. running_count' \in 0 .. NThreads /\ waiting_thread_count' \in 0 .. NThreads
    BY <1>1, <1>3, CountsTyped DEF CountInv, IInv
  <2>2. at' \in [Actors -> -1 .. NHeads]
    BY <1>1, Ids DEF IInv, TypeOK, place
  <2> QED BY <1>1, <2>1, <2>2, Ids DEF IInv, TypeOK, lists, sleep, tally, pool, place, Internal
<1>5. SleepInv'
  <2>1. t \in Threads => SleepOk(t)'
    BY <1>1, Ids DEF SleepOk, SleepInv, sleep, IInv, TypeOK, PlaceInv, PlaceOk, MainPlaces
  <2> QED BY <1>1, <2>1, Ids, SleepKept DEF IInv
<1>6. JoinInv'
  BY <1>1, Ids DEF JoinInv, IInv, PlaceInv, PlaceOk, HandOk, Queues, MainPlaces, lists, TypeOK
<1>7. OnceInv'
  BY OnceKept DEF IInv
<1> QED BY <1>2, <1>3, <1>4, <1>5, <1>6, <1>7 DEF IInv

LEMMA DelayStep ==
  ASSUME IInv, NEW t \in Threads, Delay(t)
  PROVE  IInv'
<1> USE DEF Delay, Move
<1>1. Only(t) /\ UNCHANGED internal_thread_count /\ pc[t] = "delay" /\ pc'[t] \in {"loop", "lock"}
  BY Ids DEF Only, lists, pool, place, IInv, TypeOK
<1>2. PlaceInv'
  <2>1. PlaceOk(t) /\ HandOk(t)
    BY Ids DEF IInv, PlaceInv
  <2>2. PlaceOk(t)'
    BY <1>1, <2>1, Ids, SlotsAre DEF PlaceOk, Queues, MainPlaces, IInv, TypeOK
  <2>3. HandOk(t)'
    BY <1>1, <2>1, Ids DEF HandOk, PlaceOk, Queues, MainPlaces, IInv, TypeOK, lists
  <2> QED BY <1>1, <2>2, <2>3, Ids, OthersPlaced DEF IInv
<1>3. CountInv'
  <2>1. t \in Threads => (Polls(t)' <=> Polls(t)) /\ (Waits(t)' <=> Waits(t))
    BY <1>1, Ids DEF Polls, Waits, Queues, IInv, PlaceInv, PlaceOk, MainPlaces, TypeOK
  <2> QED BY <1>1, <2>1, Ids, CountKept DEF IInv, pool
<1>4. TypeOK'
  <2>1. running_count' \in 0 .. NThreads /\ waiting_thread_count' \in 0 .. NThreads
    BY <1>1, <1>3, CountsTyped DEF CountInv, IInv
  <2>2. at' \in [Actors -> -1 .. NHeads]
    BY <1>1, Ids DEF IInv, TypeOK, place
  <2> QED BY <1>1, <2>1, <2>2, Ids DEF IInv, TypeOK, lists, sleep, tally, pool, place, Internal
<1>5. SleepInv'
  <2>1. t \in Threads => SleepOk(t)'
    BY <1>1, Ids DEF SleepOk, SleepInv, sleep, IInv, TypeOK, PlaceInv, PlaceOk, MainPlaces
  <2> QED BY <1>1, <2>1, Ids, SleepKept DEF IInv
<1>6. JoinInv'
  BY <1>1, Ids DEF JoinInv, IInv, PlaceInv, PlaceOk, HandOk, Queues, MainPlaces, lists, TypeOK
<1>7. OnceInv'
  BY OnceKept DEF IInv
<1> QED BY <1>2, <1>3, <1>4, <1>5, <1>6, <1>7 DEF IInv

LEMMA LookStep ==
  ASSUME IInv, NEW t \in Threads, Look(t)
  PROVE  IInv'
<1>a. UNCHANGED <<pool, lists, running_count, waiting_thread_count, unseen, terminated, sleep,
             cont, bound, found, tally>>
  BY DEF Look
<1> USE DEF pool, lists, sleep, tally, place
<1>0. PICK n \in -1 .. NHeads, q \in {"look", "unlock", "wait"} :
        n >= 0 /\ at' = [at EXCEPT ![t] = n] /\ pc' = [pc EXCEPT ![t] = q] /\ pc[t] = "look"
  <2>1. /\ at[t] \in -1 .. NHeads /\ at[t] >= 0
        /\ at = [at EXCEPT ![t] = at[t]] /\ pc = [pc EXCEPT ![t] = pc[t]]
    BY Ids DEF Look, IInv, TypeOK, PlaceInv, PlaceOk
  <2>2. at[t] \in Slots => at[t] + 1 \in -1 .. NHeads /\ at[t] + 1 >= 0
    BY <2>1, SlotsAre
  <2>3. CASE at[t] \in Slots /\ task_heads[at[t]] = <<>>
    <3>1. at' = [at EXCEPT ![t] = at[t] + 1] /\ pc' = pc /\ pc[t] = "look"
      BY <2>3 DEF Look
    <3> QED BY <2>1, <2>2, <2>3, <3>1
  <2>4. CASE ~(at[t] \in Slots /\ task_heads[at[t]] = <<>>)
    <3>1. at' = at /\ pc[t] = "look" /\ pc' = [pc EXCEPT ![t] = IF at[t] \in Slots THEN "unlock" ELSE "wait"]
      BY <2>4 DEF Look
    <3> QED BY <2>1, <3>1
  <2> QED BY <2>3, <2>4
<1>1. Only(t) /\ UNCHANGED internal_thread_count /\ pc[t] = "look"
  BY <1>a, <1>0, Ids DEF Only, lists, pool, place, IInv, TypeOK
<1>2. PlaceInv'
  <2>1. PlaceOk(t) /\ HandOk(t)
    BY Ids DEF IInv, PlaceInv
  <2>2. PlaceOk(t)'
    BY <1>a, <1>0, <1>1, <2>1, Ids, SlotsAre DEF PlaceOk, Queues, MainPlaces, IInv, TypeOK
  <2>3. HandOk(t)'
    BY <1>a, <1>0, <1>1, <2>1, Ids DEF HandOk, PlaceOk, Queues, MainPlaces, IInv, TypeOK, lists
  <2> QED BY <1>a, <1>0, <1>1, <2>2, <2>3, Ids, OthersPlaced DEF IInv
<1>3. CountInv'
  <2>1. t \in Threads => (Polls(t)' <=> Polls(t)) /\ (Waits(t)' <=> Waits(t))
    BY <1>a, <1>0, <1>1, Ids DEF Polls, Waits, Queues, IInv, PlaceInv, PlaceOk, MainPlaces, TypeOK
  <2> QED BY <1>a, <1>0, <1>1, <2>1, Ids, CountKept DEF IInv, pool
<1>4. TypeOK'
  <2>1. running_count' \in 0 .. NThreads /\ waiting_thread_count' \in 0 .. NThreads
    BY <1>a, <1>0, <1>1, <1>3, CountsTyped DEF CountInv, IInv
  <2>2. at' \in [Actors -> -1 .. NHeads]
    BY <1>a, <1>0, <1>1, Ids DEF IInv, TypeOK, place
  <2> QED BY <1>a, <1>0, <1>1, <2>1, <2>2, Ids DEF IInv, TypeOK, lists, sleep, tally, pool, place,
             Internal
<1>5. SleepInv'
  <2>1. t \in Threads => SleepOk(t)'
    BY <1>a, <1>0, <1>1, Ids DEF SleepOk, SleepInv, sleep, IInv, TypeOK, PlaceInv, PlaceOk,
       MainPlaces
  <2> QED BY <1>a, <1>0, <1>1, <2>1, Ids, SleepKept DEF IInv
<1>6. JoinInv'
  BY <1>a, <1>0, <1>1, Ids DEF JoinInv, IInv, PlaceInv, PlaceOk, HandOk, Queues, MainPlaces,
     lists, TypeOK
<1>7. OnceInv'
  BY <1>a, OnceKept DEF IInv
<1> QED BY <1>2, <1>3, <1>4, <1>5, <1>6, <1>7 DEF IInv

LEMMA TerminateStep ==
  ASSUME IInv, Terminate
  PROVE  IInv'
<1> USE DEF Terminate, Move
<1>1. /\ Only(Main) /\ UNCHANGED internal_thread_count
      /\ pc[Main] = "client" /\ pc'[Main] = "wakeupAll"
  BY Ids DEF Only, lists, pool, place, IInv, TypeOK
<1>2. PlaceInv'
  <2>1. PlaceOk(Main) /\ HandOk(Main)
    BY Ids DEF IInv, PlaceInv
  <2>2. PlaceOk(Main)'
    BY <1>1, <2>1, Ids, SlotsAre DEF PlaceOk, Queues, MainPlaces, IInv, TypeOK
  <2>3. HandOk(Main)'
    BY <1>1, <2>1, Ids DEF HandOk, PlaceOk, Queues, MainPlaces, IInv, TypeOK, lists
  <2> QED BY <1>1, <2>2, <2>3, Ids, OthersPlaced DEF IInv
<1>3. CountInv'
  <2>1. Main \in Threads => (Polls(Main)' <=> Polls(Main)) /\ (Waits(Main)' <=> Waits(Main))
    BY <1>1, Ids DEF Polls, Waits, Queues, IInv, PlaceInv, PlaceOk, MainPlaces, TypeOK
  <2> QED BY <1>1, <2>1, Ids, CountKept DEF IInv, pool
<1>4. TypeOK'
  <2>1. running_count' \in 0 .. NThreads /\ waiting_thread_count' \in 0 .. NThreads
    BY <1>1, <1>3, CountsTyped DEF CountInv, IInv
  <2>2. at' \in [Actors -> -1 .. NHeads]
    BY <1>1, Ids DEF IInv, TypeOK, place
  <2> QED BY <1>1, <2>1, <2>2, Ids DEF IInv, TypeOK, lists, sleep, tally, pool, place, Internal
<1>5. SleepInv'
  <2>1. Main \in Threads => SleepOk(Main)'
    BY <1>1, Ids DEF SleepOk, SleepInv, sleep, IInv, TypeOK, PlaceInv, PlaceOk, MainPlaces
  <2> QED BY <1>1, <2>1, Ids, SleepKept DEF IInv
<1>6. JoinInv'
  BY <1>1, Ids DEF JoinInv, IInv, PlaceInv, PlaceOk, HandOk, Queues, MainPlaces, lists, TypeOK
<1>7. OnceInv'
  BY OnceKept DEF IInv
<1> QED BY <1>2, <1>3, <1>4, <1>5, <1>6, <1>7 DEF IInv

LEMMA WakeupAllStep ==
  ASSUME IInv, WakeupAll
  PROVE  IInv'
<1> USE DEF WakeupAll, Move
<1>1. Only(Main) /\ UNCHANGED internal_thread_count /\ pc[Main] = "wakeupAll" /\ pc'[Main] = "join"
  BY Ids DEF Only, lists, pool, place, IInv, TypeOK
<1>2. PlaceInv'
  <2>1. PlaceOk(Main) /\ HandOk(Main)
    BY Ids DEF IInv, PlaceInv
  <2>2. PlaceOk(Main)'
    BY <1>1, <2>1, Ids, SlotsAre DEF PlaceOk, Queues, MainPlaces, IInv, TypeOK
  <2>3. HandOk(Main)'
    BY <1>1, <2>1, Ids DEF HandOk, PlaceOk, Queues, MainPlaces, IInv, TypeOK, lists
  <2> QED BY <1>1, <2>2, <2>3, Ids, OthersPlaced DEF IInv
<1>3. CountInv'
  <2>1. Main \in Threads => (Polls(Main)' <=> Polls(Main)) /\ (Waits(Main)' <=> Waits(Main))
    BY <1>1, Ids DEF Polls, Waits, Queues, IInv, PlaceInv, PlaceOk, MainPlaces, TypeOK
  <2> QED BY <1>1, <2>1, Ids, CountKept DEF IInv, pool
<1>4. TypeOK'
  <2>1. running_count' \in 0 .. NThreads /\ waiting_thread_count' \in 0 .. NThreads
    BY <1>1, <1>3, CountsTyped DEF CountInv, IInv
  <2>2. at' \in [Actors -> -1 .. NHeads]
    BY <1>1, Ids DEF IInv, TypeOK, place
  <2> QED BY <1>1, <2>1, <2>2, Ids DEF IInv, TypeOK, lists, sleep, tally, pool, place, Internal
<1>5. SleepInv'
  <2> SUFFICES ASSUME NEW u \in Threads PROVE SleepOk(u)'
    BY DEF SleepInv
  <2>1. SleepOk(u) /\ (Main \in Threads => SleepOk(Main))
    BY Ids DEF IInv, SleepInv
  <2>2. CASE u = Main
    BY <1>1, <2>1, <2>2, Ids DEF SleepOk, sleep, IInv, TypeOK, PlaceInv, PlaceOk, MainPlaces
  <2>3. CASE u # Main
    BY <1>1, <2>1, <2>3, Ids DEF SleepOk, sleep, Only, IInv, TypeOK
  <2> QED BY <2>2, <2>3
<1>6. JoinInv'
  BY <1>1, Ids DEF JoinInv, IInv, PlaceInv, PlaceOk, HandOk, Queues, MainPlaces, lists, TypeOK
<1>7. OnceInv'
  BY OnceKept DEF IInv
<1> QED BY <1>2, <1>3, <1>4, <1>5, <1>6, <1>7 DEF IInv

LEMMA JoinThreadsStep ==
  ASSUME IInv, JoinThreads
  PROVE  IInv'
<1> USE DEF JoinThreads, Move
<1>0. at' = [at EXCEPT ![Main] = -1] /\ -1 \in -1 .. NHeads
  BY SlotsAre
<1>1. Only(Main) /\ UNCHANGED internal_thread_count /\ pc[Main] = "join" /\ pc'[Main] = "cleanup"
  BY Ids DEF Only, lists, pool, place, IInv, TypeOK
<1>2. PlaceInv'
  <2>1. PlaceOk(Main) /\ HandOk(Main)
    BY Ids DEF IInv, PlaceInv
  <2>2. PlaceOk(Main)'
    BY <1>0, <1>1, <2>1, Ids, SlotsAre DEF PlaceOk, Queues, MainPlaces, IInv, TypeOK
  <2>3. HandOk(Main)'
    BY <1>0, <1>1, <2>1, Ids DEF HandOk, PlaceOk, Queues, MainPlaces, IInv, TypeOK, lists
  <2> QED BY <1>0, <1>1, <2>2, <2>3, Ids, OthersPlaced DEF IInv
<1>3. CountInv'
  <2>1. Main \in Threads => (Polls(Main)' <=> Polls(Main)) /\ (Waits(Main)' <=> Waits(Main))
    BY <1>0, <1>1, Ids DEF Polls, Waits, Queues, IInv, PlaceInv, PlaceOk, MainPlaces, TypeOK
  <2> QED BY <1>0, <1>1, <2>1, Ids, CountKept DEF IInv, pool
<1>4. TypeOK'
  <2>1. running_count' \in 0 .. NThreads /\ waiting_thread_count' \in 0 .. NThreads
    BY <1>0, <1>1, <1>3, CountsTyped DEF CountInv, IInv
  <2>2. at' \in [Actors -> -1 .. NHeads]
    BY <1>0, <1>1, Ids DEF IInv, TypeOK, place
  <2> QED BY <1>0, <1>1, <2>1, <2>2, Ids DEF IInv, TypeOK, lists, sleep, tally, pool, place,
             Internal
<1>5. SleepInv'
  <2>1. Main \in Threads => SleepOk(Main)'
    BY <1>0, <1>1, Ids DEF SleepOk, SleepInv, sleep, IInv, TypeOK, PlaceInv, PlaceOk, MainPlaces
  <2> QED BY <1>0, <1>1, <2>1, Ids, SleepKept DEF IInv
<1>6. JoinInv'
  <2>1. /\ pc'[Main] # "joined" \/ (pc[Main] = "cleanup" /\ hand[Main] = <<>> /\ ~found /\ at[Main] + 1 \notin Slots)
        /\ ~(at[Main] + 1 \notin Slots /\ pc[Main] = "cleanup" /\ \E s \in Slots : ~(s <= at[Main]))
    <3>1. at[Main] \in -1 .. NHeads /\ (pc[Main] = "cleanup" => at[Main] < NHeads)
      BY Ids DEF IInv, TypeOK, PlaceInv, PlaceOk
    <3> QED BY <1>0, <1>1, <3>1, Ids, SlotsAre DEF IInv, TypeOK
  <2>2. at'[Main] = -1 /\ \A s \in Slots : ~(s <= at'[Main])
    BY <1>0, <1>1, Ids, SlotsAre DEF IInv, TypeOK
  <2> QED BY <1>0, <1>1, <2>1, <2>2, Ids DEF JoinInv, IInv, PlaceInv, PlaceOk, HandOk, Queues,
             MainPlaces, lists, TypeOK
<1>7. OnceInv'
  BY OnceKept DEF IInv
<1> QED BY <1>2, <1>3, <1>4, <1>5, <1>6, <1>7 DEF IInv

LEMMA CleanupEndsStep ==
  ASSUME IInv, CleanupEnds
  PROVE  IInv'
<1> USE DEF CleanupEnds, Move
<1>0. at' = [at EXCEPT ![Main] = -1] /\ -1 \in -1 .. NHeads
  BY SlotsAre
<1>1. /\ Only(Main) /\ UNCHANGED internal_thread_count
      /\ pc[Main] = "cleanup" /\ pc'[Main] \in {"cleanup", "joined"}
  BY Ids DEF Only, lists, pool, place, IInv, TypeOK
<1>2. PlaceInv'
  <2>1. PlaceOk(Main) /\ HandOk(Main)
    BY Ids DEF IInv, PlaceInv
  <2>2. PlaceOk(Main)'
    BY <1>0, <1>1, <2>1, Ids, SlotsAre DEF PlaceOk, Queues, MainPlaces, IInv, TypeOK
  <2>3. HandOk(Main)'
    BY <1>0, <1>1, <2>1, Ids DEF HandOk, PlaceOk, Queues, MainPlaces, IInv, TypeOK, lists
  <2> QED BY <1>0, <1>1, <2>2, <2>3, Ids, OthersPlaced DEF IInv
<1>3. CountInv'
  <2>1. Main \in Threads => (Polls(Main)' <=> Polls(Main)) /\ (Waits(Main)' <=> Waits(Main))
    BY <1>0, <1>1, Ids DEF Polls, Waits, Queues, IInv, PlaceInv, PlaceOk, MainPlaces, TypeOK
  <2> QED BY <1>0, <1>1, <2>1, Ids, CountKept DEF IInv, pool
<1>4. TypeOK'
  <2>1. running_count' \in 0 .. NThreads /\ waiting_thread_count' \in 0 .. NThreads
    BY <1>0, <1>1, <1>3, CountsTyped DEF CountInv, IInv
  <2>2. at' \in [Actors -> -1 .. NHeads]
    BY <1>0, <1>1, Ids DEF IInv, TypeOK, place
  <2> QED BY <1>0, <1>1, <2>1, <2>2, Ids DEF IInv, TypeOK, lists, sleep, tally, pool, place,
             Internal
<1>5. SleepInv'
  <2>1. Main \in Threads => SleepOk(Main)'
    BY <1>0, <1>1, Ids DEF SleepOk, SleepInv, sleep, IInv, TypeOK, PlaceInv, PlaceOk, MainPlaces
  <2> QED BY <1>0, <1>1, <2>1, Ids, SleepKept DEF IInv
<1>6. JoinInv'
  <2>1. /\ pc'[Main] # "joined" \/ (pc[Main] = "cleanup" /\ hand[Main] = <<>> /\ ~found /\ at[Main] + 1 \notin Slots)
        /\ ~(at[Main] + 1 \notin Slots /\ pc[Main] = "cleanup" /\ \E s \in Slots : ~(s <= at[Main]))
    <3>1. at[Main] \in -1 .. NHeads /\ (pc[Main] = "cleanup" => at[Main] < NHeads)
      BY Ids DEF IInv, TypeOK, PlaceInv, PlaceOk
    <3>2. at[Main] + 1 \notin Slots /\ pc[Main] = "cleanup" /\ hand[Main] = <<>>
          /\ (pc'[Main] = "joined" => ~found)
      BY <1>0, <1>1, Ids DEF IInv, TypeOK
    <3>3. \A s \in Slots : s <= at[Main]
      <4> HIDE DEF CleanupEnds
      <4> QED BY <3>1, <3>2, SlotsAre
    <3> QED BY <3>2, <3>3
  <2>2. at'[Main] = -1 /\ \A s \in Slots : ~(s <= at'[Main])
    BY <1>0, <1>1, Ids, SlotsAre DEF IInv, TypeOK
  <2> QED BY <1>0, <1>1, <2>1, <2>2, Ids DEF JoinInv, IInv, PlaceInv, PlaceOk, HandOk, Queues,
             MainPlaces, lists, TypeOK
<1>7. OnceInv'
  BY OnceKept DEF IInv
<1> QED BY <1>2, <1>3, <1>4, <1>5, <1>6, <1>7 DEF IInv

-----------------------------------------------------------------------------
(* The next head to look at *)

(* A set of naturals has a least one. *)
LEMMA LeastIs ==
  ASSUME NEW S, S \subseteq Nat, S # {}
  PROVE  \E m \in S : \A n \in S : m <= n
<1> DEFINE T == {0 .. n : n \in S}
           R == StrictSubsetOrdering(Nat)
<1>1. T \subseteq FiniteSubsetsOf(Nat) /\ T # {}
  <2>1. \A n \in S : IsFiniteSet(0 .. n) /\ 0 .. n \subseteq Nat
    BY FS_Interval
  <2> QED BY <2>1 DEF FiniteSubsetsOf
<1>2. PICK x \in T : \A y \in T : ~ (<<y, x>> \in R)
  <2> HIDE DEF T
  <2> QED BY <1>1, FS_StrictSubsetOrderingWellFounded, WFMin
<1>3. PICK m \in S : x = 0 .. m
  OBVIOUS
<1>4. \A n \in S : m <= n
  <2> SUFFICES ASSUME NEW n \in S, n < m PROVE FALSE
    OBVIOUS
  <2>1. 0 .. n \subseteq 0 .. m /\ m \in 0 .. m /\ m \notin 0 .. n
    OBVIOUS
  <2>2. <<0 .. n, x>> \in R
    BY <1>3, <2>1 DEF StrictSubsetOrdering
  <2> QED BY <1>2, <2>2
<1> QED BY <1>4

LEMMA NextSlotIs ==
  ASSUME NEW s, NEW b
  PROVE  NextSlot(s, b) \in -1 .. NHeads /\ NextSlot(s, b) >= 0
<1> DEFINE open == {n \in Slots : n >= s /\ Priority(n) < b}
<1>1. CASE open = {}
  BY <1>1, SlotsAre DEF NextSlot
<1>2. CASE open # {}
  <2>1. open \subseteq Nat /\ open \subseteq Slots
    BY SlotsAre
  <2>2. NextSlot(s, b) = CHOOSE n \in open : \A m \in open : n <= m
    BY <1>2 DEF NextSlot
  <2>3. \E n \in open : \A m \in open : n <= m
    <3> HIDE DEF open
    <3> QED BY <1>2, <2>1, LeastIs
  <2>4. NextSlot(s, b) \in open
    BY <2>2, <2>3
  <2> QED BY <2>1, <2>4, SlotsAre
<1> QED BY <1>1, <1>2

-----------------------------------------------------------------------------
(* poll() and delay(), but for the steps that move a task *)

LEMMA PollStep ==
  ASSUME IInv, NEW t \in Threads, Poll(t)
  PROVE  IInv'
<1>a. UNCHANGED <<pool, lists, waiting_thread_count, unseen, terminated, sleep, cont, found, tally>>
  BY DEF Poll
<1> USE DEF pool, lists, sleep, tally, place
<1>0. PICK n \in -1 .. NHeads, b \in 0 .. NThreads :
        /\ n >= 0 /\ at' = [at EXCEPT ![t] = n] /\ bound' = [bound EXCEPT ![t] = b]
        /\ pc' = [pc EXCEPT ![t] = "fetch"] /\ pc[t] = "loop"
        /\ running_count' = running_count + 1 /\ ~terminated
  <2>1. Bound(t) \in 0 .. NThreads
    BY Ids DEF Bound, IInv, TypeOK
  <2> QED BY <2>1, NextSlotIs DEF Poll, Move
<1>1. Only(t) /\ UNCHANGED internal_thread_count /\ pc[t] = "loop"
  BY <1>a, <1>0, Ids DEF Only, lists, pool, place, IInv, TypeOK
<1>2. PlaceInv'
  <2>1. PlaceOk(t) /\ HandOk(t)
    BY Ids DEF IInv, PlaceInv
  <2>2. PlaceOk(t)'
    BY <1>a, <1>0, <1>1, <2>1, Ids, SlotsAre DEF PlaceOk, Queues, MainPlaces, IInv, TypeOK
  <2>3. HandOk(t)'
    BY <1>a, <1>0, <1>1, <2>1, Ids DEF HandOk, PlaceOk, Queues, MainPlaces, IInv, TypeOK, lists
  <2> QED BY <1>a, <1>0, <1>1, <2>2, <2>3, Ids, OthersPlaced DEF IInv
<1>3. CountInv'
  <2>1. ~Polls(t) /\ Polls(t)'
    BY <1>a, <1>0, <1>1, Ids DEF Polls, Queues, IInv, PlaceInv, PlaceOk, HandOk, MainPlaces, TypeOK
  <2>2. Cardinality(Polling') = Cardinality(Polling) + 1
    BY <1>a, <1>0, <1>1, <2>1, Ids, PollsMore DEF IInv
  <2>3. ~Waits(t) /\ ~Waits(t)'
    BY <1>a, <1>0, <1>1, Ids DEF Waits, Queues, IInv, TypeOK
  <2>4. Counted' = Counted
    BY <1>a, <1>0, <1>1, <2>3, Ids, CountedKept DEF IInv, pool
  <2> QED BY <1>a, <1>0, <1>1, <2>2, <2>4, CountsTyped DEF CountInv, IInv, TypeOK
<1>4. TypeOK'
  <2>1. running_count' \in 0 .. NThreads /\ waiting_thread_count' \in 0 .. NThreads
    BY <1>a, <1>0, <1>1, <1>3, CountsTyped DEF CountInv, IInv
  <2>2. at' \in [Actors -> -1 .. NHeads]
    BY <1>a, <1>0, <1>1, Ids DEF IInv, TypeOK, place
  <2> QED BY <1>a, <1>0, <1>1, <2>1, <2>2, Ids DEF IInv, TypeOK, lists, sleep, tally, pool, place,
             Internal
<1>5. SleepInv'
  <2>1. t \in Threads => SleepOk(t)'
    BY <1>a, <1>0, <1>1, Ids DEF SleepOk, SleepInv, sleep, IInv, TypeOK, PlaceInv, PlaceOk,
       MainPlaces
  <2> QED BY <1>a, <1>0, <1>1, <2>1, Ids, SleepKept DEF IInv
<1>6. JoinInv'
  BY <1>a, <1>0, <1>1, Ids DEF JoinInv, IInv, PlaceInv, PlaceOk, HandOk, Queues, MainPlaces,
     lists, TypeOK
<1>7. OnceInv'
  BY <1>a, OnceKept DEF IInv
<1> QED BY <1>2, <1>3, <1>4, <1>5, <1>6, <1>7 DEF IInv

LEMMA FetchStep ==
  ASSUME IInv, NEW t \in Threads, Fetch(t)
  PROVE  IInv'
<1>a. UNCHANGED <<pool, lists, waiting_thread_count, unseen, terminated, sleep, cont, bound,
             found, tally>>
  BY DEF Fetch
<1> USE DEF pool, lists, sleep, tally, place
<1>0. PICK n \in -1 .. NHeads, q \in {"fetch", "take", "delay"} :
        /\ n >= 0 /\ at' = [at EXCEPT ![t] = n] /\ pc' = [pc EXCEPT ![t] = q] /\ pc[t] = "fetch"
        /\ q = "take" => n \in Slots
        /\ running_count' = running_count - (IF q = "delay" THEN 1 ELSE 0)
  <2>1. /\ at[t] \in -1 .. NHeads /\ at[t] >= 0
        /\ at = [at EXCEPT ![t] = at[t]] /\ pc = [pc EXCEPT ![t] = pc[t]]
        /\ pc[t] = "fetch" /\ running_count \in Int
    BY Ids DEF Fetch, IInv, TypeOK, PlaceInv, PlaceOk
  <2>2. CASE at[t] \in Slots /\ task_heads[at[t]] = <<>>
    <3>1. /\ at' = [at EXCEPT ![t] = NextSlot(at[t] + 1, bound[t])]
          /\ pc' = pc /\ running_count' = running_count
      BY <2>2 DEF Fetch
    <3>2. NextSlot(at[t] + 1, bound[t]) \in -1 .. NHeads /\ NextSlot(at[t] + 1, bound[t]) >= 0
      BY NextSlotIs
    <3>3. pc' = [pc EXCEPT ![t] = "fetch"] /\ running_count' = running_count - (IF "fetch" = "delay" THEN 1 ELSE 0)
      BY <2>1, <3>1
    <3> QED BY <2>1, <3>1, <3>2, <3>3
  <2>3. CASE ~(at[t] \in Slots /\ task_heads[at[t]] = <<>>)
    <3>1. /\ at' = at /\ pc' = [pc EXCEPT ![t] = IF at[t] \in Slots THEN "take" ELSE "delay"]
          /\ running_count' = running_count - (IF at[t] \in Slots THEN 0 ELSE 1)
      BY <2>3 DEF Fetch
    <3> QED BY <2>1, <3>1
  <2> QED BY <2>2, <2>3
<1>1. Only(t) /\ UNCHANGED internal_thread_count /\ pc[t] = "fetch"
  BY <1>a, <1>0, Ids DEF Only, lists, pool, place, IInv, TypeOK
<1>2. PlaceInv'
  <2>1. PlaceOk(t) /\ HandOk(t)
    BY Ids DEF IInv, PlaceInv
  <2>2. PlaceOk(t)'
    BY <1>a, <1>0, <1>1, <2>1, Ids, SlotsAre DEF PlaceOk, Queues, MainPlaces, IInv, TypeOK
  <2>3. HandOk(t)'
    BY <1>a, <1>0, <1>1, <2>1, Ids DEF HandOk, PlaceOk, Queues, MainPlaces, IInv, TypeOK, lists
  <2> QED BY <1>a, <1>0, <1>1, <2>2, <2>3, Ids, OthersPlaced DEF IInv
<1>3. CountInv'
  <2>1. CASE q = "delay"
    <3>1. Polls(t) /\ ~Polls(t)'
      BY <1>a, <1>0, <1>1, <2>1, Ids DEF Polls, Queues, IInv, PlaceInv, PlaceOk, HandOk,
         MainPlaces, TypeOK
    <3>2. Cardinality(Polling') = Cardinality(Polling) - 1
      BY <1>a, <1>0, <1>1, <2>1, <3>1, Ids, PollsLess DEF IInv
    <3>3. ~Waits(t) /\ ~Waits(t)'
      BY <1>a, <1>0, <1>1, <2>1, Ids DEF Waits, Queues, IInv, TypeOK
    <3>4. Counted' = Counted
      BY <1>a, <1>0, <1>1, <2>1, <3>3, Ids, CountedKept DEF IInv, pool
    <3> QED BY <1>a, <1>0, <1>1, <2>1, <3>2, <3>4, CountsTyped DEF CountInv, IInv, TypeOK
  <2>2. CASE q # "delay"
    <3>1. (Polls(t)' <=> Polls(t)) /\ (Waits(t)' <=> Waits(t))
      BY <1>a, <1>0, <1>1, <2>2, Ids DEF Polls, Waits, Queues, IInv, PlaceInv, PlaceOk,
         MainPlaces, TypeOK
    <3>2. running_count' = running_count
      BY <1>a, <1>0, <1>1, <2>2 DEF IInv, TypeOK
    <3> QED BY <1>a, <1>0, <1>1, <3>1, <3>2, Ids, CountKept DEF IInv, pool
  <2> QED BY <2>1, <2>2
<1>4. TypeOK'
  <2>1. running_count' \in 0 .. NThreads /\ waiting_thread_count' \in 0 .. NThreads
    BY <1>a, <1>0, <1>1, <1>3, CountsTyped DEF CountInv, IInv
  <2>2. at' \in [Actors -> -1 .. NHeads]
    BY <1>a, <1>0, <1>1, Ids DEF IInv, TypeOK, place
  <2> QED BY <1>a, <1>0, <1>1, <2>1, <2>2, Ids DEF IInv, TypeOK, lists, sleep, tally, pool, place,
             Internal
<1>5. SleepInv'
  <2>1. t \in Threads => SleepOk(t)'
    BY <1>a, <1>0, <1>1, Ids DEF SleepOk, SleepInv, sleep, IInv, TypeOK, PlaceInv, PlaceOk,
       MainPlaces
  <2> QED BY <1>a, <1>0, <1>1, <2>1, Ids, SleepKept DEF IInv
<1>6. JoinInv'
  BY <1>a, <1>0, <1>1, Ids DEF JoinInv, IInv, PlaceInv, PlaceOk, HandOk, Queues, MainPlaces,
     lists, TypeOK
<1>7. OnceInv'
  BY <1>a, OnceKept DEF IInv
<1> QED BY <1>2, <1>3, <1>4, <1>5, <1>6, <1>7 DEF IInv

LEMMA LockStep ==
  ASSUME IInv, NEW t \in Threads, Lock(t)
  PROVE  IInv'
<1>a. UNCHANGED <<pool, lists, running_count, terminated, sleepers, notified, cont, bound, found,
             tally>>
  BY DEF Lock
<1> USE DEF pool, lists, sleep, tally, place
<1>0. /\ mutex = NoActor /\ mutex' = t /\ pc[t] = "lock" /\ pc' = [pc EXCEPT ![t] = "look"]
      /\ at' = [at EXCEPT ![t] = 0] /\ 0 \in -1 .. NHeads /\ t \notin unseen
      /\ unseen' \in SUBSET Internal /\ unseen' = unseen \cup (IF t \in Internal /\ StoreBuffer THEN {t} ELSE {})
      /\ waiting_thread_count' = waiting_thread_count + (IF t \in Internal /\ ~StoreBuffer THEN 1 ELSE 0)
  <2>1. t \in Internal <=> t \notin Appended
    <3>1. internal_thread_count \in 1 .. NThreads /\ NThreads \in Nat /\ t \in 1 .. NThreads
      BY Ids DEF IInv, TypeOK
    <3> QED BY <3>1 DEF Internal, Appended
  <2>2. waiting_thread_count \in Int /\ unseen \in SUBSET Internal /\ t \notin unseen
    <3>1. mutex # t
      BY Ids DEF Lock
    <3> QED BY <3>1 DEF IInv, TypeOK, SleepInv, SleepOk
  <2>3. 0 \in -1 .. NHeads
    BY SlotsAre
  <2> QED BY <2>1, <2>2, <2>3 DEF Lock, Move
<1>1. Only(t) /\ UNCHANGED internal_thread_count /\ pc[t] = "lock"
  BY <1>a, <1>0, Ids DEF Only, lists, pool, place, IInv, TypeOK
<1>2. PlaceInv'
  <2>1. PlaceOk(t) /\ HandOk(t)
    BY Ids DEF IInv, PlaceInv
  <2>2. PlaceOk(t)'
    BY <1>a, <1>0, <1>1, <2>1, Ids, SlotsAre DEF PlaceOk, Queues, MainPlaces, IInv, TypeOK
  <2>3. HandOk(t)'
    BY <1>a, <1>0, <1>1, <2>1, Ids DEF HandOk, PlaceOk, Queues, MainPlaces, IInv, TypeOK, lists
  <2> QED BY <1>a, <1>0, <1>1, <2>2, <2>3, Ids, OthersPlaced DEF IInv
<1>3. CountInv'
  <2>1. (Polls(t)' <=> Polls(t))
    BY <1>a, <1>0, <1>1, Ids DEF Polls, Queues, IInv, PlaceInv, PlaceOk, HandOk, MainPlaces, TypeOK
  <2>2. Polling' = Polling
    BY <1>a, <1>0, <1>1, <2>1, Ids, PollsKept DEF IInv
  <2>3. ~Waits(t) /\ Waits(t)'
    BY <1>a, <1>0, <1>1, Ids DEF Waits, Queues, IInv, TypeOK
  <2>4. Cardinality(Counted') = Cardinality(Counted) + (IF t \in Internal /\ ~StoreBuffer THEN 1 ELSE 0)
    <3>1. CASE t \in Internal /\ ~StoreBuffer
      BY <1>a, <1>0, <1>1, <2>3, <3>1, CountedMore DEF IInv
    <3>2. CASE ~(t \in Internal /\ ~StoreBuffer)
      <4>1. Counted' = Counted
        BY <1>a, <1>0, <1>1, <2>3, <3>2, Ids, CountedKept DEF IInv
      <4> QED BY <3>2, <4>1, CountsTyped, <1>1 DEF IInv
    <3> QED BY <3>1, <3>2
  <2> QED BY <1>a, <1>0, <1>1, <2>2, <2>4, CountsTyped DEF CountInv, IInv, TypeOK
<1>4. TypeOK'
  <2>1. running_count' \in 0 .. NThreads /\ waiting_thread_count' \in 0 .. NThreads
    BY <1>a, <1>0, <1>1, <1>3, CountsTyped DEF CountInv, IInv
  <2>2. at' \in [Actors -> -1 .. NHeads]
    BY <1>a, <1>0, <1>1, Ids DEF IInv, TypeOK, place
  <2> QED BY <1>a, <1>0, <1>1, <2>1, <2>2, Ids DEF IInv, TypeOK, lists, sleep, tally, pool, place,
             Internal
<1>5. SleepInv'
  <2> SUFFICES ASSUME NEW u \in Threads PROVE SleepOk(u)'
    BY DEF SleepInv
  <2>1. SleepOk(u) /\ (t \in Threads => SleepOk(t))
    BY Ids DEF IInv, SleepInv
  <2>2. CASE u = t
    BY <1>a, <1>0, <1>1, <2>1, <2>2, Ids DEF SleepOk, sleep, IInv, TypeOK, PlaceInv, PlaceOk,
       MainPlaces
  <2>3. CASE u # t
    BY <1>a, <1>0, <1>1, <2>1, <2>3, Ids DEF SleepOk, sleep, Only, IInv, TypeOK
  <2> QED BY <2>2, <2>3
<1>6. JoinInv'
  BY <1>a, <1>0, <1>1, Ids DEF JoinInv, IInv, PlaceInv, PlaceOk, HandOk, Queues, MainPlaces,
     lists, TypeOK
<1>7. OnceInv'
  BY <1>a, OnceKept DEF IInv
<1> QED BY <1>2, <1>3, <1>4, <1>5, <1>6, <1>7 DEF IInv

LEMMA WaitStep ==
  ASSUME IInv, NEW t \in Threads, Wait(t)
  PROVE  IInv'
<1>a. UNCHANGED <<pool, lists, running_count, waiting_thread_count, unseen, terminated, cont,
             bound, at, found, tally>>
  BY DEF Wait
<1> USE DEF pool, lists, sleep, tally, place
<1>0. PICK q \in {"unlock", "asleep"} :
        /\ t \notin unseen /\ pc[t] = "wait" /\ pc' = [pc EXCEPT ![t] = q] /\ mutex = t
        /\ q = "unlock" => UNCHANGED <<mutex, sleepers>>
        /\ q = "asleep" => mutex' = NoActor /\ sleepers' = sleepers \cup {t}
  <2>1. pc[t] = "wait" => mutex = t
    BY DEF IInv, SleepInv, SleepOk
  <2> QED BY <2>1 DEF Wait, Move, sleep
<1>b. notified' = notified
  BY DEF Wait, sleep
<1>1. Only(t) /\ UNCHANGED internal_thread_count /\ pc[t] = "wait"
  BY <1>a, <1>0, Ids DEF Only, lists, pool, place, IInv, TypeOK
<1>2. PlaceInv'
  <2>1. PlaceOk(t) /\ HandOk(t)
    BY Ids DEF IInv, PlaceInv
  <2>2. PlaceOk(t)'
    BY <1>a, <1>0, <1>b, <1>1, <2>1, Ids, SlotsAre DEF PlaceOk, Queues, MainPlaces, IInv, TypeOK
  <2>3. HandOk(t)'
    BY <1>a, <1>0, <1>b, <1>1, <2>1, Ids DEF HandOk, PlaceOk, Queues, MainPlaces, IInv, TypeOK,
       lists
  <2> QED BY <1>a, <1>0, <1>b, <1>1, <2>2, <2>3, Ids, OthersPlaced DEF IInv
<1>3. CountInv'
  <2>1. t \in Threads => (Polls(t)' <=> Polls(t)) /\ (Waits(t)' <=> Waits(t))
    BY <1>a, <1>0, <1>b, <1>1, Ids DEF Polls, Waits, Queues, IInv, PlaceInv, PlaceOk, MainPlaces,
       TypeOK
  <2> QED BY <1>a, <1>0, <1>b, <1>1, <2>1, Ids, CountKept DEF IInv, pool
<1>4. TypeOK'
  <2>1. running_count' \in 0 .. NThreads /\ waiting_thread_count' \in 0 .. NThreads
    BY <1>a, <1>0, <1>b, <1>1, <1>3, CountsTyped DEF CountInv, IInv
  <2>2. at' \in [Actors -> -1 .. NHeads]
    BY <1>a, <1>0, <1>b, <1>1, Ids DEF IInv, TypeOK, place
  <2> QED BY <1>a, <1>0, <1>b, <1>1, <2>1, <2>2, Ids DEF IInv, TypeOK, lists, sleep, tally, pool,
             place, Internal
<1>5. SleepInv'
  <2> SUFFICES ASSUME NEW u \in Threads PROVE SleepOk(u)'
    BY DEF SleepInv
  <2>1. SleepOk(u) /\ (t \in Threads => SleepOk(t))
    BY Ids DEF IInv, SleepInv
  <2>2. CASE u = t
    BY <1>a, <1>0, <1>b, <1>1, <2>1, <2>2, Ids DEF SleepOk, sleep, IInv, TypeOK, PlaceInv,
       PlaceOk, MainPlaces
  <2>3. CASE u # t
    <3>1. pc'[u] = pc[u] /\ mutex # u /\ mutex' # u /\ unseen' = unseen
      BY <1>a, <1>0, <1>b, <1>1, <2>3, Ids DEF Only
    <3>2. u \in sleepers' \cup notified' <=> u \in sleepers \cup notified
      BY <1>a, <1>0, <1>b, <1>1, <2>3
    <3> QED BY <2>1, <3>1, <3>2 DEF SleepOk
  <2> QED BY <2>2, <2>3
<1>6. JoinInv'
  BY <1>a, <1>0, <1>b, <1>1, Ids DEF JoinInv, IInv, PlaceInv, PlaceOk, HandOk, Queues, MainPlaces,
     lists, TypeOK
<1>7. OnceInv'
  BY <1>a, OnceKept DEF IInv
<1> QED BY <1>2, <1>3, <1>4, <1>5, <1>6, <1>7 DEF IInv

LEMMA WakeStep ==
  ASSUME IInv, NEW t \in Threads, Wake(t)
  PROVE  IInv'
<1>a. UNCHANGED <<pool, lists, running_count, unseen, terminated, mutex, cont, bound, at, found,
             tally>>
  BY DEF Wake
<1> USE DEF pool, lists, sleep, tally, place
<1>0. /\ mutex = NoActor /\ pc[t] = "asleep" /\ pc' = [pc EXCEPT ![t] = "loop"] /\ t \notin unseen
      /\ sleepers' = sleepers \ {t} /\ notified' = notified \ {t}
      /\ waiting_thread_count' = waiting_thread_count - (IF t \in Internal THEN 1 ELSE 0)
  <2>1. mutex = NoActor => mutex # t
    BY Ids
  <2> QED BY <2>1 DEF Wake, Move, Uncount, IInv, SleepInv, SleepOk
<1>1. Only(t) /\ UNCHANGED internal_thread_count /\ pc[t] = "asleep"
  BY <1>a, <1>0, Ids DEF Only, lists, pool, place, IInv, TypeOK
<1>2. PlaceInv'
  <2>1. PlaceOk(t) /\ HandOk(t)
    BY Ids DEF IInv, PlaceInv
  <2>2. PlaceOk(t)'
    BY <1>a, <1>0, <1>1, <2>1, Ids, SlotsAre DEF PlaceOk, Queues, MainPlaces, IInv, TypeOK
  <2>3. HandOk(t)'
    BY <1>a, <1>0, <1>1, <2>1, Ids DEF HandOk, PlaceOk, Queues, MainPlaces, IInv, TypeOK, lists
  <2> QED BY <1>a, <1>0, <1>1, <2>2, <2>3, Ids, OthersPlaced DEF IInv
<1>3. CountInv'
  <2>1. (Polls(t)' <=> Polls(t))
    BY <1>a, <1>0, <1>1, Ids DEF Polls, Queues, IInv, PlaceInv, PlaceOk, HandOk, MainPlaces, TypeOK
  <2>2. Polling' = Polling
    BY <1>a, <1>0, <1>1, <2>1, Ids, PollsKept DEF IInv
  <2>3. Waits(t) /\ ~Waits(t)'
    BY <1>a, <1>0, <1>1, Ids DEF Waits, Queues, IInv, TypeOK
  <2>4. Cardinality(Counted') = Cardinality(Counted) - (IF t \in Internal THEN 1 ELSE 0)
    <3>1. CASE t \in Internal
      BY <1>a, <1>0, <1>1, <2>3, <3>1, CountedLess DEF IInv
    <3>2. CASE t \notin Internal
      <4>1. Counted' = Counted
        BY <1>a, <1>0, <1>1, <2>3, <3>2, Ids, CountedKept DEF IInv
      <4> QED BY <3>2, <4>1, CountsTyped, <1>1 DEF IInv
    <3> QED BY <3>1, <3>2
  <2> QED BY <1>a, <1>0, <1>1, <2>2, <2>4, CountsTyped DEF CountInv, IInv, TypeOK
<1>4. TypeOK'
  <2>1. running_count' \in 0 .. NThreads /\ waiting_thread_count' \in 0 .. NThreads
    BY <1>a, <1>0, <1>1, <1>3, CountsTyped DEF CountInv, IInv
  <2>2. at' \in [Actors -> -1 .. NHeads]
    BY <1>a, <1>0, <1>1, Ids DEF IInv, TypeOK, place
  <2> QED BY <1>a, <1>0, <1>1, <2>1, <2>2, Ids DEF IInv, TypeOK, lists, sleep, tally, pool, place,
             Internal
<1>5. SleepInv'
  <2> SUFFICES ASSUME NEW u \in Threads PROVE SleepOk(u)'
    BY DEF SleepInv
  <2>1. SleepOk(u) /\ (t \in Threads => SleepOk(t))
    BY Ids DEF IInv, SleepInv
  <2>2. CASE u = t
    BY <1>a, <1>0, <1>1, <2>1, <2>2, Ids DEF SleepOk, sleep, IInv, TypeOK, PlaceInv, PlaceOk,
       MainPlaces
  <2>3. CASE u # t
    BY <1>a, <1>0, <1>1, <2>1, <2>3, Ids DEF SleepOk, sleep, Only, IInv, TypeOK
  <2> QED BY <2>2, <2>3
<1>6. JoinInv'
  BY <1>a, <1>0, <1>1, Ids DEF JoinInv, IInv, PlaceInv, PlaceOk, HandOk, Queues, MainPlaces,
     lists, TypeOK
<1>7. OnceInv'
  BY <1>a, OnceKept DEF IInv
<1> QED BY <1>2, <1>3, <1>4, <1>5, <1>6, <1>7 DEF IInv

LEMMA UnlockStep ==
  ASSUME IInv, NEW t \in Threads, Unlock(t)
  PROVE  IInv'
<1>a. UNCHANGED <<pool, lists, running_count, unseen, terminated, sleepers, notified, cont, bound,
             at, found, tally>>
  BY DEF Unlock
<1> USE DEF pool, lists, sleep, tally, place
<1>0. /\ mutex = t /\ mutex' = NoActor /\ pc[t] = "unlock"
      /\ pc' = [pc EXCEPT ![t] = "loop"] /\ t \notin unseen
      /\ waiting_thread_count' = waiting_thread_count - (IF t \in Internal THEN 1 ELSE 0)
  <2>1. pc[t] = "unlock" => mutex = t
    BY DEF IInv, SleepInv, SleepOk
  <2> QED BY <2>1 DEF Unlock, Move, Uncount
<1>1. Only(t) /\ UNCHANGED internal_thread_count /\ pc[t] = "unlock"
  BY <1>a, <1>0, Ids DEF Only, lists, pool, place, IInv, TypeOK
<1>2. PlaceInv'
  <2>1. PlaceOk(t) /\ HandOk(t)
    BY Ids DEF IInv, PlaceInv
  <2>2. PlaceOk(t)'
    BY <1>a, <1>0, <1>1, <2>1, Ids, SlotsAre DEF PlaceOk, Queues, MainPlaces, IInv, TypeOK
  <2>3. HandOk(t)'
    BY <1>a, <1>0, <1>1, <2>1, Ids DEF HandOk, PlaceOk, Queues, MainPlaces, IInv, TypeOK, lists
  <2> QED BY <1>a, <1>0, <1>1, <2>2, <2>3, Ids, OthersPlaced DEF IInv
<1>3. CountInv'
  <2>1. (Polls(t)' <=> Polls(t))
    BY <1>a, <1>0, <1>1, Ids DEF Polls, Queues, IInv, PlaceInv, PlaceOk, HandOk, MainPlaces, TypeOK
  <2>2. Polling' = Polling
    BY <1>a, <1>0, <1>1, <2>1, Ids, PollsKept DEF IInv
  <2>3. Waits(t) /\ ~Waits(t)'
    BY <1>a, <1>0, <1>1, Ids DEF Waits, Queues, IInv, TypeOK
  <2>4. Cardinality(Counted') = Cardinality(Counted) - (IF t \in Internal THEN 1 ELSE 0)
    <3>1. CASE t \in Internal
      BY <1>a, <1>0, <1>1, <2>3, <3>1, CountedLess DEF IInv
    <3>2. CASE t \notin Internal
      <4>1. Counted' = Counted
        BY <1>a, <1>0, <1>1, <2>3, <3>2, Ids, CountedKept DEF IInv
      <4> QED BY <3>2, <4>1, CountsTyped, <1>1 DEF IInv
    <3> QED BY <3>1, <3>2
  <2> QED BY <1>a, <1>0, <1>1, <2>2, <2>4, CountsTyped DEF CountInv, IInv, TypeOK
<1>4. TypeOK'
  <2>1. running_count' \in 0 .. NThreads /\ waiting_thread_count' \in 0 .. NThreads
    BY <1>a, <1>0, <1>1, <1>3, CountsTyped DEF CountInv, IInv
  <2>2. at' \in [Actors -> -1 .. NHeads]
    BY <1>a, <1>0, <1>1, Ids DEF IInv, TypeOK, place
  <2> QED BY <1>a, <1>0, <1>1, <2>1, <2>2, Ids DEF IInv, TypeOK, lists, sleep, tally, pool, place,
             Internal
<1>5. SleepInv'
  <2> SUFFICES ASSUME NEW u \in Threads PROVE SleepOk(u)'
    BY DEF SleepInv
  <2>1. SleepOk(u) /\ (t \in Threads => SleepOk(t))
    BY Ids DEF IInv, SleepInv
  <2>2. CASE u = t
    BY <1>a, <1>0, <1>1, <2>1, <2>2, Ids DEF SleepOk, sleep, IInv, TypeOK, PlaceInv, PlaceOk,
       MainPlaces
  <2>3. CASE u # t
    BY <1>a, <1>0, <1>1, <2>1, <2>3, Ids DEF SleepOk, sleep, Only, IInv, TypeOK
  <2> QED BY <2>2, <2>3
<1>6. JoinInv'
  BY <1>a, <1>0, <1>1, Ids DEF JoinInv, IInv, PlaceInv, PlaceOk, HandOk, Queues, MainPlaces,
     lists, TypeOK
<1>7. OnceInv'
  BY <1>a, OnceKept DEF IInv
<1> QED BY <1>2, <1>3, <1>4, <1>5, <1>6, <1>7 DEF IInv

-----------------------------------------------------------------------------
(* The steps that move a task *)

LEMMA OneIs ==
  ASSUME NEW s \in Seq(Tasks)
  PROVE  /\ s = <<>> <=> Len(s) = 0
         /\ s # <<>> => (Len(s) = 1 <=> Tail(s) = <<>>)
<1>1. s = <<>> <=> Len(s) = 0
  BY EmptySeq
<1>2. ASSUME s # <<>> PROVE Len(s) = 1 <=> Tail(s) = <<>>
  <2>1. Tail(s) \in Seq(Tasks) /\ Len(Tail(s)) = Len(s) - 1 /\ Len(s) \in Nat
    BY <1>2, HeadTailProperties
  <2>2. Tail(s) = <<>> <=> Len(Tail(s)) = 0
    BY <2>1, EmptySeq
  <2> QED BY <2>1, <2>2
<1> QED BY <1>1, <1>2

LEMMA OnlyOneIs ==
  ASSUME NEW s \in Seq(Tasks), Len(s) = 1
  PROVE  s # <<>> /\ Tail(s) = <<>>
<1>1. s # <<>>
  BY EmptySeq
<1> QED BY <1>1, OneIs

HeadOf(s) == <<"head", s>>
HandOf(a) == <<"hand", a>>
RestOf(a) == <<"rest", a>>

LEMMA Places ==
  /\ \A s \in Slots : HeadOf(s) \in Where /\ Lists[HeadOf(s)] = task_heads[s]
  /\ \A a \in Actors : /\ HandOf(a) \in Where /\ Lists[HandOf(a)] = hand[a]
                        /\ RestOf(a) \in Where /\ Lists[RestOf(a)] = rest[a]
  /\ \A s, u \in Slots : HeadOf(s) = HeadOf(u) <=> s = u
  /\ \A a, b \in Actors : (HandOf(a) = HandOf(b) <=> a = b) /\ (RestOf(a) = RestOf(b) <=> a = b)
  /\ \A s \in Slots, a \in Actors : HeadOf(s) # HandOf(a) /\ HeadOf(s) # RestOf(a)
  /\ \A a, b \in Actors : HandOf(a) # RestOf(b)
BY ListsAre DEF HeadOf, HandOf, RestOf

LEMMA ListsTyped ==
  ASSUME TypeOK
  PROVE  /\ AllGood(Lists) /\ DOMAIN Lists = Where
         /\ task_heads \in [Slots -> Seq(Tasks)] /\ hand \in [Actors -> Seq(Tasks)]
         /\ rest \in [Actors -> Seq(Tasks)]
         /\ queued \in Nat /\ queued <= MaxTasks /\ ran \in SUBSET Tasks
<1>1. MaxTasks \in Nat
  BY WorkerAssumption
<1> QED BY <1>1, ListsAre DEF TypeOK, AllGood

LEMMA ListsBecome ==
  ASSUME NEW f, AllGood(f), \A s \in Slots : task_heads'[s] = f[HeadOf(s)],
         \A a \in Actors : hand'[a] = f[HandOf(a)] /\ rest'[a] = f[RestOf(a)]
  PROVE  Lists' = f
BY ListsNext DEF HeadOf, HandOf, RestOf

LEMMA TypesBecome ==
  ASSUME AllGood(Lists'), TypeOK,
         \/ task_heads' = task_heads
         \/ \E s \in Slots : \E l : task_heads' = [task_heads EXCEPT ![s] = l],
         \/ hand' = hand
         \/ \E a \in Actors : \E l : hand' = [hand EXCEPT ![a] = l],
         \/ rest' = rest
         \/ \E a \in Actors : \E l : rest' = [rest EXCEPT ![a] = l]
  PROVE  /\ task_heads' \in [Slots -> Seq(Tasks)] /\ hand' \in [Actors -> Seq(Tasks)]
         /\ rest' \in [Actors -> Seq(Tasks)]
<1>1. /\ \A s \in Slots : HeadOf(s) \in Where /\ Lists'[HeadOf(s)] = task_heads'[s]
      /\ \A a \in Actors : /\ HandOf(a) \in Where /\ Lists'[HandOf(a)] = hand'[a]
                            /\ RestOf(a) \in Where /\ Lists'[RestOf(a)] = rest'[a]
  BY DEF Where, Lists, ListAt, HeadOf, HandOf, RestOf
<1>2. /\ \A s \in Slots : task_heads'[s] \in Seq(Tasks)
      /\ \A a \in Actors : hand'[a] \in Seq(Tasks) /\ rest'[a] \in Seq(Tasks)
  BY <1>1 DEF AllGood
<1>3. task_heads' \in [Slots -> Seq(Tasks)]
  BY <1>2 DEF TypeOK
<1>4. hand' \in [Actors -> Seq(Tasks)]
  BY <1>2 DEF TypeOK
<1>5. rest' \in [Actors -> Seq(Tasks)]
  BY <1>2 DEF TypeOK
<1> QED BY <1>3, <1>4, <1>5

Typed == /\ task_heads' \in [Slots -> Seq(Tasks)] /\ hand' \in [Actors -> Seq(Tasks)]
         /\ rest' \in [Actors -> Seq(Tasks)]

LEMMA PushesRest ==
  ASSUME TypeOK, OnceInv, NEW a \in Actors, NEW s \in Slots, rest[a] # <<>>,
         task_heads' = [task_heads EXCEPT ![s] = <<Head(rest[a])>> \o @],
         rest' = [rest EXCEPT ![a] = Tail(@)], UNCHANGED <<hand, tally>>
  PROVE  OnceInv' /\ Typed
<1> DEFINE f == [Lists EXCEPT ![HeadOf(s)] = <<Head(Lists[RestOf(a)])>> \o @,
                              ![RestOf(a)] = Tail(@)]
<1>1. AllGood(f) /\ Once(f, ran, queued)
  <2>1. /\ HeadOf(s) \in Where /\ RestOf(a) \in Where /\ HeadOf(s) # RestOf(a)
        /\ Lists[RestOf(a)] # <<>>
    BY Places
  <2>2. AllGood(Lists) /\ Once(Lists, ran, queued)
    BY ListsTyped DEF OnceInv
  <2> QED BY <2>1, <2>2, Shifted
<1>2. Lists' = f
  <2>1. \A u \in Slots : task_heads'[u] = f[HeadOf(u)]
    BY Places, ListsTyped
  <2>2. \A b \in Actors : hand'[b] = f[HandOf(b)] /\ rest'[b] = f[RestOf(b)]
    BY Places, ListsTyped
  <2> HIDE DEF f
  <2> QED BY <1>1, <2>1, <2>2, ListsBecome
<1> HIDE DEF f
<1>3. Typed
  BY <1>1, <1>2, TypesBecome DEF Typed
<1> QED BY <1>1, <1>2, <1>3 DEF OnceInv, tally

LEMMA TakesList ==
  ASSUME TypeOK, OnceInv, NEW a \in Actors, NEW s \in Slots, hand[a] = <<>>,
         task_heads' = [task_heads EXCEPT ![s] = <<>>],
         hand' = [hand EXCEPT ![a] = task_heads[s]], UNCHANGED <<rest, tally>>
  PROVE  OnceInv' /\ Typed
<1> DEFINE f == [Lists EXCEPT ![HandOf(a)] = Lists[HeadOf(s)], ![HeadOf(s)] = <<>>]
<1>1. AllGood(f) /\ Once(f, ran, queued)
  <2>1. /\ HandOf(a) \in Where /\ HeadOf(s) \in Where
        /\ HandOf(a) # HeadOf(s) /\ Lists[HandOf(a)] = <<>>
        /\ AllGood(Lists) /\ Once(Lists, ran, queued)
    BY Places, ListsTyped DEF OnceInv
  <2> QED BY <2>1, Handed
<1>2. Lists' = f
  <2>1. \A u \in Slots : task_heads'[u] = f[HeadOf(u)]
    BY Places, ListsTyped
  <2>2. \A b \in Actors : hand'[b] = f[HandOf(b)] /\ rest'[b] = f[RestOf(b)]
    BY Places, ListsTyped
  <2> HIDE DEF f
  <2> QED BY <1>1, <2>1, <2>2, ListsBecome
<1> HIDE DEF f
<1>3. Typed
  BY <1>1, <1>2, TypesBecome DEF Typed
<1> QED BY <1>1, <1>2, <1>3 DEF OnceInv, tally

\* The list of the head is laid aside, that in hand goes there, and its top back.
LEMMA PutsListBack ==
  ASSUME TypeOK, OnceInv, NEW a \in Actors, NEW s \in Slots, hand[a] # <<>>, rest[a] = <<>>,
         task_heads' = [task_heads EXCEPT ![s] = Tail(hand[a])],
         hand' = [hand EXCEPT ![a] = <<Head(@)>>],
         rest' = [rest EXCEPT ![a] = task_heads[s]], UNCHANGED tally
  PROVE  OnceInv' /\ Typed
<1> DEFINE d == [Lists EXCEPT ![RestOf(a)] = Lists[HeadOf(s)], ![HeadOf(s)] = <<>>]
           e == [d EXCEPT ![HeadOf(s)] = d[HandOf(a)], ![HandOf(a)] = <<>>]
           f == [e EXCEPT ![HandOf(a)] = <<Head(e[HeadOf(s)])>> \o @, ![HeadOf(s)] = Tail(@)]
<1>1. AllGood(d) /\ Once(d, ran, queued)
  BY Places, ListsTyped, Handed DEF OnceInv
<1>2. /\ d[HeadOf(s)] = <<>> /\ d[HandOf(a)] = hand[a] /\ d[RestOf(a)] = task_heads[s]
      /\ \A x \in Where \ {HeadOf(s), HandOf(a), RestOf(a)} : d[x] = Lists[x]
  BY Places, ListsTyped
<1> HIDE DEF d
<1>3. AllGood(e) /\ Once(e, ran, queued)
  BY <1>1, <1>2, Places, Handed
<1>4. /\ e[HeadOf(s)] = hand[a] /\ e[HandOf(a)] = <<>> /\ e[RestOf(a)] = task_heads[s]
      /\ \A x \in Where \ {HeadOf(s), HandOf(a), RestOf(a)} : e[x] = Lists[x]
  BY <1>1, <1>2, Places DEF AllGood
<1> HIDE DEF e
<1>5. AllGood(f) /\ Once(f, ran, queued)
  BY <1>3, <1>4, Places, Shifted
<1>6. /\ f[HeadOf(s)] = Tail(hand[a]) /\ f[HandOf(a)] = <<Head(hand[a])>>
      /\ f[RestOf(a)] = task_heads[s]
      /\ \A x \in Where \ {HeadOf(s), HandOf(a), RestOf(a)} : f[x] = Lists[x]
  <2>1. <<Head(hand[a])>> \o <<>> = <<Head(hand[a])>>
    BY OnceIs, PopIs, ListsTyped, Places DEF OnceInv
  <2> QED BY <1>3, <1>4, <2>1, Places DEF AllGood
<1> HIDE DEF f
<1>7. Lists' = f
  <2>1. \A u \in Slots : task_heads'[u] = f[HeadOf(u)]
    BY <1>6, Places, ListsTyped
  <2>2. \A b \in Actors : hand'[b] = f[HandOf(b)]
    <3> SUFFICES ASSUME NEW b \in Actors PROVE hand'[b] = f[HandOf(b)]
      OBVIOUS
    <3>1. CASE b = a
      BY <1>6, <3>1, ListsTyped
    <3>2. CASE b # a
      <4>1. hand'[b] = hand[b] /\ HandOf(b) \in Where \ {HeadOf(s), HandOf(a), RestOf(a)}
        BY <3>2, Places, ListsTyped
      <4> QED BY <1>6, <4>1, Places
    <3> QED BY <3>1, <3>2
  <2>3. \A b \in Actors : rest'[b] = f[RestOf(b)]
    <3> SUFFICES ASSUME NEW b \in Actors PROVE rest'[b] = f[RestOf(b)]
      OBVIOUS
    <3>1. CASE b = a
      BY <1>6, <3>1, ListsTyped
    <3>2. CASE b # a
      <4>1. rest'[b] = rest[b] /\ RestOf(b) \in Where \ {HeadOf(s), HandOf(a), RestOf(a)}
        BY <3>2, Places, ListsTyped
      <4> QED BY <1>6, <4>1, Places
    <3> QED BY <3>1, <3>2
  <2> QED BY <1>5, <2>1, <2>2, <2>3, ListsBecome
<1>8. Typed
  BY <1>5, <1>7, TypesBecome DEF Typed
<1> QED BY <1>5, <1>7, <1>8 DEF OnceInv, tally

LEMMA RunsTop ==
  ASSUME TypeOK, OnceInv, NEW a \in Actors, hand[a] # <<>>,
         hand' = [hand EXCEPT ![a] = Tail(@)], ran' = ran \cup {Head(hand[a])},
         UNCHANGED <<task_heads, rest, queued>>
  PROVE  OnceInv' /\ Typed /\ ran' \in SUBSET Tasks
<1> DEFINE f == [Lists EXCEPT ![HandOf(a)] = Tail(@)]
<1>1. AllGood(f) /\ Once(f, ran \cup {Head(hand[a])}, queued)
  <2>1. /\ HandOf(a) \in Where /\ Lists[HandOf(a)] # <<>> /\ Lists[HandOf(a)] = hand[a]
        /\ AllGood(Lists) /\ Once(Lists, ran, queued)
    BY Places, ListsTyped DEF OnceInv
  <2> QED BY <2>1, Done
<1>2. Lists' = f
  <2>1. \A u \in Slots : task_heads'[u] = f[HeadOf(u)]
    BY Places, ListsTyped
  <2>2. \A b \in Actors : hand'[b] = f[HandOf(b)] /\ rest'[b] = f[RestOf(b)]
    BY Places, ListsTyped
  <2> HIDE DEF f
  <2> QED BY <1>1, <2>1, <2>2, ListsBecome
<1> HIDE DEF f
<1>3. Typed
  BY <1>1, <1>2, TypesBecome DEF Typed
<1>4. Head(hand[a]) \in Tasks
  BY OnceIs, PopIs, ListsTyped, Places DEF OnceInv
<1> QED BY <1>1, <1>2, <1>3, <1>4, ListsTyped DEF OnceInv

LEMMA QueuesInHand ==
  ASSUME TypeOK, OnceInv, NEW a \in Actors, rest[a] = <<>>, queued < MaxTasks,
         rest' = [rest EXCEPT ![a] = <<queued + 1>>], queued' = queued + 1,
         UNCHANGED <<task_heads, hand, ran>>
  PROVE  OnceInv' /\ Typed /\ queued' \in 0 .. MaxTasks
<1> DEFINE f == [Lists EXCEPT ![RestOf(a)] = <<queued + 1>> \o @]
<1>1. AllGood(f) /\ Once(f, ran, queued + 1)
  BY Places, ListsTyped, Added DEF OnceInv
<1>2. Lists' = f
  <2>1. \A u \in Slots : task_heads'[u] = f[HeadOf(u)]
    BY Places, ListsTyped
  <2>2. <<queued + 1>> \o <<>> = <<queued + 1>>
    BY ListsTyped
  <2>3. \A b \in Actors : hand'[b] = f[HandOf(b)] /\ rest'[b] = f[RestOf(b)]
    BY <2>2, Places, ListsTyped
  <2> HIDE DEF f
  <2> QED BY <1>1, <2>1, <2>3, ListsBecome
<1> HIDE DEF f
<1>3. Typed
  BY <1>1, <1>2, TypesBecome DEF Typed
<1>4. queued' \in 0 .. MaxTasks
  BY ListsTyped, WorkerAssumption
<1> QED BY <1>1, <1>2, <1>3, <1>4 DEF OnceInv

LEMMA QueuesOnHead ==
  ASSUME TypeOK, OnceInv, NEW s \in Slots, queued < MaxTasks,
         task_heads' = [task_heads EXCEPT ![s] = <<queued + 1>> \o @], queued' = queued + 1,
         UNCHANGED <<rest, hand, ran>>
  PROVE  OnceInv' /\ Typed /\ queued' \in 0 .. MaxTasks
<1> DEFINE f == [Lists EXCEPT ![HeadOf(s)] = <<queued + 1>> \o @]
<1>1. AllGood(f) /\ Once(f, ran, queued + 1)
  BY Places, ListsTyped, Added DEF OnceInv
<1>2. Lists' = f
  <2>1. \A u \in Slots : task_heads'[u] = f[HeadOf(u)]
    BY Places, ListsTyped
  <2>2. \A b \in Actors : hand'[b] = f[HandOf(b)] /\ rest'[b] = f[RestOf(b)]
    BY Places, ListsTyped
  <2> HIDE DEF f
  <2> QED BY <1>1, <2>1, <2>2, ListsBecome
<1> HIDE DEF f
<1>3. Typed
  BY <1>1, <1>2, TypesBecome DEF Typed
<1>4. queued' \in 0 .. MaxTasks
  BY ListsTyped, WorkerAssumption
<1> QED BY <1>1, <1>2, <1>3, <1>4 DEF OnceInv

LEMMA QueueStep ==
  ASSUME IInv, NEW a \in Actors, NEW p \in Priorities, Queue(a, p)
  PROVE  IInv'
<1>a. UNCHANGED <<pool, task_heads, hand, running_count, waiting_thread_count, unseen, terminated,
             sleep, bound, found, ran>>
  BY DEF Queue
<1> USE DEF pool, lists, sleep, tally, place
<1>0. /\ pc[a] \in {"client", "run", "loop"}
      /\ pc' = [pc EXCEPT ![a] = "try"] /\ cont' = [cont EXCEPT ![a] = pc[a]]
      /\ at' = [at EXCEPT ![a] = p] /\ p \in -1 .. NHeads /\ p \in Slots
      /\ rest[a] = <<>> /\ ~terminated
      /\ rest' = [rest EXCEPT ![a] = <<queued + 1>>] /\ queued' = queued + 1 /\ queued < MaxTasks
  <2>1. p \in -1 .. NHeads /\ p \in Slots
    BY SlotsAre
  <2>2. pc[a] \in {"client", "run", "loop"}
    BY DEF Queue
  <2>3. rest[a] = <<>>
    BY <2>2 DEF IInv, PlaceInv, HandOk
  <2> QED BY <2>1, <2>2, <2>3 DEF Queue
<1>t. /\ OnceInv' /\ Typed /\ queued' \in 0 .. MaxTasks
      /\ Len(<<queued + 1>>) = 1 /\ <<queued + 1>> # <<>>
  BY <1>a, <1>0, QueuesInHand DEF IInv
<1>1. Only(a) /\ UNCHANGED internal_thread_count
  BY <1>a, <1>0, Ids DEF Only, lists, pool, place, IInv, TypeOK
<1>2. PlaceInv'
  <2>1. PlaceOk(a) /\ HandOk(a)
    BY Ids DEF IInv, PlaceInv
  <2>2. PlaceOk(a)'
    BY <1>a, <1>0, <1>t, <1>1, <2>1, Ids, SlotsAre DEF PlaceOk, Queues, MainPlaces, IInv, TypeOK
  <2>3. HandOk(a)'
    BY <1>a, <1>0, <1>t, <1>1, <2>1, Ids DEF HandOk, PlaceOk, Queues, MainPlaces, IInv, TypeOK,
       lists
  <2> QED BY <1>a, <1>0, <1>t, <1>1, <2>2, <2>3, Ids, OthersPlaced DEF IInv
<1>3. CountInv'
  <2>1. a \in Threads => (Polls(a)' <=> Polls(a)) /\ ~Waits(a) /\ ~Waits(a)'
    BY <1>a, <1>0, <1>t, <1>1, Ids DEF Polls, Waits, Queues, IInv, PlaceInv, PlaceOk, HandOk,
       MainPlaces, TypeOK
  <2> QED BY <1>a, <1>0, <1>t, <1>1, <2>1, Ids, CountKept DEF IInv, pool
<1>4. TypeOK'
  <2>1. running_count' \in 0 .. NThreads /\ waiting_thread_count' \in 0 .. NThreads
    BY <1>a, <1>0, <1>t, <1>1, <1>3, CountsTyped DEF CountInv, IInv
  <2>2. at' \in [Actors -> -1 .. NHeads]
    BY <1>a, <1>0, <1>t, <1>1, Ids DEF IInv, TypeOK, place
  <2> QED BY <1>a, <1>0, <1>t, <1>1, <2>1, <2>2, Ids DEF IInv, Typed, TypeOK, lists, sleep, tally,
             pool, place, Internal
<1>5. SleepInv'
  <2>1. a \in Threads => SleepOk(a)'
    BY <1>a, <1>0, <1>t, <1>1, Ids DEF SleepOk, SleepInv, sleep, IInv, TypeOK, PlaceInv, PlaceOk,
       MainPlaces
  <2> QED BY <1>a, <1>0, <1>t, <1>1, <2>1, Ids, SleepKept DEF IInv
<1>6. JoinInv'
  BY <1>a, <1>0, <1>t, <1>1, Ids DEF JoinInv, IInv, PlaceInv, PlaceOk, HandOk, Queues, MainPlaces,
     lists, TypeOK
<1>7. OnceInv'
  BY <1>t
<1> QED BY <1>2, <1>3, <1>4, <1>5, <1>6, <1>7 DEF IInv

LEMMA TryStep ==
  ASSUME IInv, NEW a \in Actors, Try(a)
  PROVE  IInv'
<1>a. UNCHANGED <<pool, hand, running_count, waiting_thread_count, unseen, terminated, sleep,
             cont, bound, found, tally>>
  BY DEF Try
<1> USE DEF pool, lists, sleep, tally, place
<1>0. PICK n \in -1 .. NHeads, q \in {"try", "chain", "signal"} :
        /\ pc[a] = "try" /\ n \in Slots /\ at' = [at EXCEPT ![a] = n] /\ pc' = [pc EXCEPT ![a] = q]
        /\ q # "signal" => UNCHANGED <<task_heads, rest>>
        /\ q = "signal" => /\ task_heads' = [task_heads EXCEPT ![n] = <<Head(rest[a])>> \o @]
                           /\ rest' = [rest EXCEPT ![a] = <<>>]
  <2>1. /\ at[a] \in -1 .. NHeads /\ at[a] \in Slots
        /\ at = [at EXCEPT ![a] = at[a]] /\ pc = [pc EXCEPT ![a] = pc[a]]
        /\ pc[a] = "try"
    BY DEF Try, IInv, TypeOK, PlaceInv, PlaceOk, Queues
  <2>2. at[a] + NThreads \in Slots => at[a] + NThreads \in -1 .. NHeads
    BY SlotsAre
  <2>3. CASE task_heads[at[a]] = <<>>
    BY <2>1, <2>3 DEF Try, Push
  <2>4. CASE task_heads[at[a]] # <<>> /\ at[a] + NThreads \in Slots
    BY <2>1, <2>2, <2>4 DEF Try
  <2>5. CASE task_heads[at[a]] # <<>> /\ at[a] + NThreads \notin Slots
    BY <2>1, <2>5 DEF Try
  <2> QED BY <2>3, <2>4, <2>5
<1>t. OnceInv' /\ Typed /\ (q = "signal" => rest'[a] = <<>>) /\ (q # "signal" => rest' = rest)
  <2>1. rest[a] # <<>> /\ Tail(rest[a]) = <<>>
    <3>1. Len(rest[a]) = 1 /\ rest[a] \in Seq(Tasks)
      BY <1>0 DEF IInv, PlaceInv, HandOk, TypeOK
    <3> QED BY <3>1, OnlyOneIs
  <2>2. CASE q = "signal"
    BY <1>a, <1>0, <2>1, <2>2, PushesRest DEF IInv, TypeOK
  <2>3. CASE q # "signal"
    BY <1>a, <1>0, <2>3, OnceKept DEF IInv, TypeOK, Typed
  <2> QED BY <1>0, <2>2, <2>3 DEF IInv, TypeOK
<1>1. Only(a) /\ UNCHANGED internal_thread_count
  BY <1>a, <1>0, Ids DEF Only, lists, pool, place, IInv, TypeOK
<1>2. PlaceInv'
  <2>1. PlaceOk(a) /\ HandOk(a)
    BY Ids DEF IInv, PlaceInv
  <2>2. PlaceOk(a)'
    BY <1>a, <1>0, <1>t, <1>1, <2>1, Ids, SlotsAre DEF PlaceOk, Queues, MainPlaces, IInv, TypeOK
  <2>3. HandOk(a)'
    BY <1>a, <1>0, <1>t, <1>1, <2>1, Ids DEF HandOk, PlaceOk, Queues, MainPlaces, IInv, TypeOK,
       lists
  <2> QED BY <1>a, <1>0, <1>t, <1>1, <2>2, <2>3, Ids, OthersPlaced DEF IInv
<1>3. CountInv'
  <2>1. a \in Threads => (Polls(a)' <=> Polls(a)) /\ ~Waits(a) /\ ~Waits(a)'
    BY <1>a, <1>0, <1>t, <1>1, Ids DEF Polls, Waits, Queues, IInv, PlaceInv, PlaceOk, HandOk,
       MainPlaces, TypeOK
  <2> QED BY <1>a, <1>0, <1>t, <1>1, <2>1, Ids, CountKept DEF IInv, pool
<1>4. TypeOK'
  <2>1. running_count' \in 0 .. NThreads /\ waiting_thread_count' \in 0 .. NThreads
    BY <1>a, <1>0, <1>t, <1>1, <1>3, CountsTyped DEF CountInv, IInv
  <2>2. at' \in [Actors -> -1 .. NHeads]
    BY <1>a, <1>0, <1>t, <1>1, Ids DEF IInv, TypeOK, place
  <2> QED BY <1>a, <1>0, <1>t, <1>1, <2>1, <2>2, Ids DEF IInv, Typed, TypeOK, lists, sleep, tally,
             pool, place, Internal
<1>5. SleepInv'
  <2>1. a \in Threads => SleepOk(a)'
    BY <1>a, <1>0, <1>t, <1>1, Ids DEF SleepOk, SleepInv, sleep, IInv, TypeOK, PlaceInv, PlaceOk,
       MainPlaces
  <2> QED BY <1>a, <1>0, <1>t, <1>1, <2>1, Ids, SleepKept DEF IInv
<1>6. JoinInv'
  BY <1>a, <1>0, <1>t, <1>1, Ids DEF JoinInv, IInv, PlaceInv, PlaceOk, HandOk, Queues, MainPlaces,
     lists, TypeOK
<1>7. OnceInv'
  BY <1>t
<1> QED BY <1>2, <1>3, <1>4, <1>5, <1>6, <1>7 DEF IInv

LEMMA ChainStep ==
  ASSUME IInv, NEW a \in Actors, Chain(a)
  PROVE  IInv'
<1>a. UNCHANGED <<pool, hand, running_count, waiting_thread_count, unseen, terminated, sleep,
             cont, bound, found, tally>>
  BY DEF Chain
<1> USE DEF pool, lists, sleep, tally, place
<1>0. PICK n \in -1 .. NHeads :
        /\ pc[a] = "chain" /\ n \in Slots
        /\ at' = [at EXCEPT ![a] = n] /\ pc' = [pc EXCEPT ![a] = "signal"]
        /\ task_heads' = [task_heads EXCEPT ![n] = <<Head(rest[a])>> \o @]
        /\ rest' = [rest EXCEPT ![a] = <<>>]
  <2>1. PICK s \in Slots : task_heads' = [task_heads EXCEPT ![s] = <<Head(rest[a])>> \o @] /\ at' = [at EXCEPT ![a] = s]
    BY DEF Chain, Push
  <2>2. s \in -1 .. NHeads
    BY SlotsAre
  <2> QED BY <2>1, <2>2 DEF Chain, Move
<1>t. OnceInv' /\ Typed /\ rest'[a] = <<>>
  <2>1. rest[a] # <<>> /\ Tail(rest[a]) = <<>>
    <3>1. Len(rest[a]) = 1 /\ rest[a] \in Seq(Tasks)
      BY <1>0 DEF IInv, PlaceInv, HandOk, TypeOK
    <3> QED BY <3>1, OnlyOneIs
  <2> QED BY <1>a, <1>0, <2>1, PushesRest DEF IInv, TypeOK
<1>1. Only(a) /\ UNCHANGED internal_thread_count
  BY <1>a, <1>0, Ids DEF Only, lists, pool, place, IInv, TypeOK
<1>2. PlaceInv'
  <2>1. PlaceOk(a) /\ HandOk(a)
    BY Ids DEF IInv, PlaceInv
  <2>2. PlaceOk(a)'
    BY <1>a, <1>0, <1>t, <1>1, <2>1, Ids, SlotsAre DEF PlaceOk, Queues, MainPlaces, IInv, TypeOK
  <2>3. HandOk(a)'
    BY <1>a, <1>0, <1>t, <1>1, <2>1, Ids DEF HandOk, PlaceOk, Queues, MainPlaces, IInv, TypeOK,
       lists
  <2> QED BY <1>a, <1>0, <1>t, <1>1, <2>2, <2>3, Ids, OthersPlaced DEF IInv
<1>3. CountInv'
  <2>1. a \in Threads => (Polls(a)' <=> Polls(a)) /\ ~Waits(a) /\ ~Waits(a)'
    BY <1>a, <1>0, <1>t, <1>1, Ids DEF Polls, Waits, Queues, IInv, PlaceInv, PlaceOk, HandOk,
       MainPlaces, TypeOK
  <2> QED BY <1>a, <1>0, <1>t, <1>1, <2>1, Ids, CountKept DEF IInv, pool
<1>4. TypeOK'
  <2>1. running_count' \in 0 .. NThreads /\ waiting_thread_count' \in 0 .. NThreads
    BY <1>a, <1>0, <1>t, <1>1, <1>3, CountsTyped DEF CountInv, IInv
  <2>2. at' \in [Actors -> -1 .. NHeads]
    BY <1>a, <1>0, <1>t, <1>1, Ids DEF IInv, TypeOK, place
  <2> QED BY <1>a, <1>0, <1>t, <1>1, <2>1, <2>2, Ids DEF IInv, Typed, TypeOK, lists, sleep, tally,
             pool, place, Internal
<1>5. SleepInv'
  <2>1. a \in Threads => SleepOk(a)'
    BY <1>a, <1>0, <1>t, <1>1, Ids DEF SleepOk, SleepInv, sleep, IInv, TypeOK, PlaceInv, PlaceOk,
       MainPlaces
  <2> QED BY <1>a, <1>0, <1>t, <1>1, <2>1, Ids, SleepKept DEF IInv
<1>6. JoinInv'
  BY <1>a, <1>0, <1>t, <1>1, Ids DEF JoinInv, IInv, PlaceInv, PlaceOk, HandOk, Queues, MainPlaces,
     lists, TypeOK
<1>7. OnceInv'
  BY <1>t
<1> QED BY <1>2, <1>3, <1>4, <1>5, <1>6, <1>7 DEF IInv

LEMMA TakeStep ==
  ASSUME IInv, NEW t \in Threads, Take(t)
  PROVE  IInv'
<1>a. UNCHANGED <<pool, rest, waiting_thread_count, unseen, terminated, sleep, cont, bound, at,
             found, tally>>
  BY DEF Take
<1> USE DEF pool, lists, sleep, tally, place
<1>0. PICK q \in {"loop", "putback"} :
        /\ pc[t] = "take" /\ pc' = [pc EXCEPT ![t] = q] /\ at[t] \in Slots /\ hand[t] = <<>>
        /\ hand' = [hand EXCEPT ![t] = task_heads[at[t]]]
        /\ task_heads' = [task_heads EXCEPT ![at[t]] = <<>>]
        /\ q = "loop" => running_count' = running_count - 1 /\ task_heads[at[t]] = <<>>
        /\ q = "putback" => running_count' = running_count /\ task_heads[at[t]] # <<>>
  <2>1. at[t] \in Slots /\ hand[t] = <<>> /\ pc[t] = "take"
    BY Ids DEF Take, IInv, TypeOK, PlaceInv, PlaceOk, HandOk, Queues
  <2>2. CASE task_heads[at[t]] = <<>>
    BY <2>1, <2>2 DEF Take
  <2>3. CASE task_heads[at[t]] # <<>>
    BY <2>1, <2>3 DEF Take
  <2> QED BY <2>2, <2>3
<1>t. OnceInv' /\ Typed /\ hand'[t] = task_heads[at[t]]
  BY <1>a, <1>0, Ids, TakesList DEF IInv, TypeOK
<1>1. Only(t) /\ UNCHANGED internal_thread_count
  BY <1>a, <1>0, Ids DEF Only, lists, pool, place, IInv, TypeOK
<1>2. PlaceInv'
  <2>1. PlaceOk(t) /\ HandOk(t)
    BY Ids DEF IInv, PlaceInv
  <2>2. PlaceOk(t)'
    BY <1>a, <1>0, <1>t, <1>1, <2>1, Ids, SlotsAre DEF PlaceOk, Queues, MainPlaces, IInv, TypeOK
  <2>3. HandOk(t)'
    BY <1>a, <1>0, <1>t, <1>1, <2>1, Ids DEF HandOk, PlaceOk, Queues, MainPlaces, IInv, TypeOK,
       lists
  <2> QED BY <1>a, <1>0, <1>t, <1>1, <2>2, <2>3, Ids, OthersPlaced DEF IInv
<1>3. CountInv'
  <2>1. CASE q = "loop"
    <3>1. Polls(t) /\ ~Polls(t)'
      BY <1>a, <1>0, <1>t, <1>1, <2>1, Ids DEF Polls, Queues, IInv, PlaceInv, PlaceOk, HandOk,
         MainPlaces, TypeOK
    <3>2. Cardinality(Polling') = Cardinality(Polling) - 1
      BY <1>a, <1>0, <1>t, <1>1, <2>1, <3>1, Ids, PollsLess DEF IInv
    <3>3. ~Waits(t) /\ ~Waits(t)'
      BY <1>a, <1>0, <1>t, <1>1, <2>1, Ids DEF Waits, Queues, IInv, TypeOK
    <3>4. Counted' = Counted
      BY <1>a, <1>0, <1>t, <1>1, <2>1, <3>3, Ids, CountedKept DEF IInv, pool
    <3> QED BY <1>a, <1>0, <1>t, <1>1, <2>1, <3>2, <3>4, CountsTyped DEF CountInv, IInv, TypeOK
  <2>2. CASE q # "loop"
    <3>1. (Polls(t)' <=> Polls(t)) /\ (Waits(t)' <=> Waits(t))
      BY <1>a, <1>0, <1>t, <1>1, <2>2, Ids DEF Polls, Waits, Queues, IInv, PlaceInv, PlaceOk,
         MainPlaces, TypeOK
    <3>2. running_count' = running_count
      BY <1>a, <1>0, <1>t, <1>1, <2>2 DEF IInv, TypeOK
    <3> QED BY <1>a, <1>0, <1>t, <1>1, <3>1, <3>2, Ids, CountKept DEF IInv, pool
  <2> QED BY <2>1, <2>2
<1>4. TypeOK'
  <2>1. running_count' \in 0 .. NThreads /\ waiting_thread_count' \in 0 .. NThreads
    BY <1>a, <1>0, <1>t, <1>1, <1>3, CountsTyped DEF CountInv, IInv
  <2>2. at' \in [Actors -> -1 .. NHeads]
    BY <1>a, <1>0, <1>t, <1>1, Ids DEF IInv, TypeOK, place
  <2> QED BY <1>a, <1>0, <1>t, <1>1, <2>1, <2>2, Ids DEF IInv, Typed, TypeOK, lists, sleep, tally,
             pool, place, Internal
<1>5. SleepInv'
  <2>1. t \in Threads => SleepOk(t)'
    BY <1>a, <1>0, <1>t, <1>1, Ids DEF SleepOk, SleepInv, sleep, IInv, TypeOK, PlaceInv, PlaceOk,
       MainPlaces
  <2> QED BY <1>a, <1>0, <1>t, <1>1, <2>1, Ids, SleepKept DEF IInv
<1>6. JoinInv'
  BY <1>a, <1>0, <1>t, <1>1, Ids DEF JoinInv, IInv, PlaceInv, PlaceOk, HandOk, Queues, MainPlaces,
     lists, TypeOK
<1>7. OnceInv'
  BY <1>t
<1> QED BY <1>2, <1>3, <1>4, <1>5, <1>6, <1>7 DEF IInv

LEMMA PutBackStep ==
  ASSUME IInv, NEW t \in Threads, PutBack(t)
  PROVE  IInv'
<1>a. UNCHANGED <<pool, running_count, waiting_thread_count, unseen, terminated, sleep, cont,
             bound, at, found, tally>>
  BY DEF PutBack
<1> USE DEF pool, lists, sleep, tally, place
<1>0. PICK q \in {"run", "return"} :
        /\ pc[t] = "putback" /\ pc' = [pc EXCEPT ![t] = q] /\ at[t] \in Slots
        /\ hand[t] # <<>> /\ rest[t] = <<>>
        /\ task_heads' = [task_heads EXCEPT ![at[t]] = Tail(hand[t])]
        /\ hand' = [hand EXCEPT ![t] = <<Head(@)>>]
        /\ rest' = [rest EXCEPT ![t] = task_heads[at[t]]]
        /\ q = "run" <=> task_heads[at[t]] = <<>>
  <2>1. at[t] \in Slots /\ hand[t] # <<>> /\ rest[t] = <<>> /\ pc[t] = "putback"
    BY Ids DEF PutBack, IInv, TypeOK, PlaceInv, PlaceOk, HandOk, Queues
  <2>2. CASE task_heads[at[t]] = <<>>
    BY <2>1, <2>2 DEF PutBack
  <2>3. CASE task_heads[at[t]] # <<>>
    BY <2>1, <2>3 DEF PutBack
  <2> QED BY <2>2, <2>3
<1>t. OnceInv' /\ Typed /\ Len(hand'[t]) = 1 /\ rest'[t] = task_heads[at[t]]
  <2>1. hand'[t] = <<Head(hand[t])>> /\ rest'[t] = task_heads[at[t]]
    BY <1>0, Ids DEF IInv, TypeOK
  <2> QED BY <1>a, <1>0, <2>1, Ids, PutsListBack DEF IInv, TypeOK
<1>1. Only(t) /\ UNCHANGED internal_thread_count
  BY <1>a, <1>0, Ids DEF Only, lists, pool, place, IInv, TypeOK
<1>2. PlaceInv'
  <2>1. PlaceOk(t) /\ HandOk(t)
    BY Ids DEF IInv, PlaceInv
  <2>2. PlaceOk(t)'
    BY <1>a, <1>0, <1>t, <1>1, <2>1, Ids, SlotsAre DEF PlaceOk, Queues, MainPlaces, IInv, TypeOK
  <2>3. HandOk(t)'
    BY <1>a, <1>0, <1>t, <1>1, <2>1, Ids DEF HandOk, PlaceOk, Queues, MainPlaces, IInv, TypeOK,
       lists
  <2> QED BY <1>a, <1>0, <1>t, <1>1, <2>2, <2>3, Ids, OthersPlaced DEF IInv
<1>3. CountInv'
  <2>1. t \in Threads => (Polls(t)' <=> Polls(t)) /\ ~Waits(t) /\ ~Waits(t)'
    BY <1>a, <1>0, <1>t, <1>1, Ids DEF Polls, Waits, Queues, IInv, PlaceInv, PlaceOk, HandOk,
       MainPlaces, TypeOK
  <2> QED BY <1>a, <1>0, <1>t, <1>1, <2>1, Ids, CountKept DEF IInv, pool
<1>4. TypeOK'
  <2>1. running_count' \in 0 .. NThreads /\ waiting_thread_count' \in 0 .. NThreads
    BY <1>a, <1>0, <1>t, <1>1, <1>3, CountsTyped DEF CountInv, IInv
  <2>2. at' \in [Actors -> -1 .. NHeads]
    BY <1>a, <1>0, <1>t, <1>1, Ids DEF IInv, TypeOK, place
  <2> QED BY <1>a, <1>0, <1>t, <1>1, <2>1, <2>2, Ids DEF IInv, Typed, TypeOK, lists, sleep, tally,
             pool, place, Internal
<1>5. SleepInv'
  <2>1. t \in Threads => SleepOk(t)'
    BY <1>a, <1>0, <1>t, <1>1, Ids DEF SleepOk, SleepInv, sleep, IInv, TypeOK, PlaceInv, PlaceOk,
       MainPlaces
  <2> QED BY <1>a, <1>0, <1>t, <1>1, <2>1, Ids, SleepKept DEF IInv
<1>6. JoinInv'
  BY <1>a, <1>0, <1>t, <1>1, Ids DEF JoinInv, IInv, PlaceInv, PlaceOk, HandOk, Queues, MainPlaces,
     lists, TypeOK
<1>7. OnceInv'
  BY <1>t
<1> QED BY <1>2, <1>3, <1>4, <1>5, <1>6, <1>7 DEF IInv

LEMMA ReturnStep ==
  ASSUME IInv, NEW t \in Threads, Return(t)
  PROVE  IInv'
<1>a. UNCHANGED <<pool, hand, running_count, waiting_thread_count, unseen, terminated, sleep,
             bound, at, found, tally>>
  BY DEF Return
<1> USE DEF pool, lists, sleep, tally, place
<1>0. PICK q \in {"signal", "return"} :
        /\ pc[t] = "return" /\ pc' = [pc EXCEPT ![t] = q] /\ at[t] \in Slots /\ rest[t] # <<>>
        /\ task_heads' = [task_heads EXCEPT ![at[t]] = <<Head(rest[t])>> \o @]
        /\ rest' = [rest EXCEPT ![t] = Tail(@)] /\ cont' = [cont EXCEPT ![t] = "run"]
        /\ q = "signal" <=> Len(rest[t]) = 1
  <2>1. at[t] \in Slots /\ rest[t] # <<>> /\ pc[t] = "return"
    BY Ids DEF Return, Move, IInv, TypeOK, PlaceInv, PlaceOk, HandOk, Queues
  <2>2. CASE Len(rest[t]) = 1
    BY <2>1, <2>2 DEF Return, Move, Push
  <2>3. CASE Len(rest[t]) # 1
    BY <2>1, <2>3 DEF Return, Move, Push
  <2> QED BY <2>2, <2>3
<1>t. OnceInv' /\ Typed /\ (rest'[t] = <<>> <=> q = "signal") /\ Len(hand[t]) = 1
  <2>1. Len(rest[t]) = 1 <=> Tail(rest[t]) = <<>>
    BY <1>0, OneIs, Ids DEF IInv, TypeOK
  <2>2. rest'[t] = Tail(rest[t])
    BY <1>0, Ids DEF IInv, TypeOK
  <2>3. Len(hand[t]) = 1
    BY <1>0, Ids DEF IInv, PlaceInv, HandOk
  <2> QED BY <1>a, <1>0, <2>1, <2>2, <2>3, Ids, PushesRest DEF IInv, TypeOK
<1>1. Only(t) /\ UNCHANGED internal_thread_count
  BY <1>a, <1>0, Ids DEF Only, lists, pool, place, IInv, TypeOK
<1>2. PlaceInv'
  <2>1. PlaceOk(t) /\ HandOk(t)
    BY Ids DEF IInv, PlaceInv
  <2>2. PlaceOk(t)'
    BY <1>a, <1>0, <1>t, <1>1, <2>1, Ids, SlotsAre DEF PlaceOk, Queues, MainPlaces, IInv, TypeOK
  <2>3. HandOk(t)'
    BY <1>a, <1>0, <1>t, <1>1, <2>1, Ids DEF HandOk, PlaceOk, Queues, MainPlaces, IInv, TypeOK,
       lists
  <2> QED BY <1>a, <1>0, <1>t, <1>1, <2>2, <2>3, Ids, OthersPlaced DEF IInv
<1>3. CountInv'
  <2>1. t \in Threads => (Polls(t)' <=> Polls(t)) /\ ~Waits(t) /\ ~Waits(t)'
    BY <1>a, <1>0, <1>t, <1>1, Ids DEF Polls, Waits, Queues, IInv, PlaceInv, PlaceOk, HandOk,
       MainPlaces, TypeOK
  <2> QED BY <1>a, <1>0, <1>t, <1>1, <2>1, Ids, CountKept DEF IInv, pool
<1>4. TypeOK'
  <2>1. running_count' \in 0 .. NThreads /\ waiting_thread_count' \in 0 .. NThreads
    BY <1>a, <1>0, <1>t, <1>1, <1>3, CountsTyped DEF CountInv, IInv
  <2>2. at' \in [Actors -> -1 .. NHeads]
    BY <1>a, <1>0, <1>t, <1>1, Ids DEF IInv, TypeOK, place
  <2> QED BY <1>a, <1>0, <1>t, <1>1, <2>1, <2>2, Ids DEF IInv, Typed, TypeOK, lists, sleep, tally,
             pool, place, Internal
<1>5. SleepInv'
  <2>1. t \in Threads => SleepOk(t)'
    BY <1>a, <1>0, <1>t, <1>1, Ids DEF SleepOk, SleepInv, sleep, IInv, TypeOK, PlaceInv, PlaceOk,
       MainPlaces
  <2> QED BY <1>a, <1>0, <1>t, <1>1, <2>1, Ids, SleepKept DEF IInv
<1>6. JoinInv'
  BY <1>a, <1>0, <1>t, <1>1, Ids DEF JoinInv, IInv, PlaceInv, PlaceOk, HandOk, Queues, MainPlaces,
     lists, TypeOK
<1>7. OnceInv'
  BY <1>t
<1> QED BY <1>2, <1>3, <1>4, <1>5, <1>6, <1>7 DEF IInv

LEMMA EndTaskStep ==
  ASSUME IInv, NEW t \in Threads, EndTask(t)
  PROVE  IInv'
<1>a. UNCHANGED <<pool, task_heads, rest, waiting_thread_count, unseen, terminated, sleep, cont,
             bound, at, found, queued>>
  BY DEF EndTask
<1> USE DEF pool, lists, sleep, tally, place
<1>0. /\ pc[t] = "run" /\ pc' = [pc EXCEPT ![t] = "loop"] /\ running_count' = running_count - 1
      /\ hand' = [hand EXCEPT ![t] = Tail(@)] /\ hand'[t] = <<>> /\ hand[t] # <<>>
      /\ ran' = ran \cup {Head(hand[t])}
  <2>1. pc[t] = "run" /\ Len(hand[t]) = 1 /\ hand[t] \in Seq(Tasks)
    BY Ids DEF EndTask, Move, IInv, TypeOK, PlaceInv, HandOk
  <2>2. Tail(hand[t]) = <<>> /\ hand[t] # <<>>
    BY <2>1, OnlyOneIs
  <2> QED BY <2>1, <2>2, Ids DEF EndTask, Move, IInv, TypeOK
<1>t. OnceInv' /\ Typed /\ ran' \in SUBSET Tasks
  BY <1>a, <1>0, Ids, RunsTop DEF IInv
<1>1. Only(t) /\ UNCHANGED internal_thread_count
  BY <1>a, <1>0, Ids DEF Only, lists, pool, place, IInv, TypeOK
<1>2. PlaceInv'
  <2>1. PlaceOk(t) /\ HandOk(t)
    BY Ids DEF IInv, PlaceInv
  <2>2. PlaceOk(t)'
    BY <1>a, <1>0, <1>t, <1>1, <2>1, Ids, SlotsAre DEF PlaceOk, Queues, MainPlaces, IInv, TypeOK
  <2>3. HandOk(t)'
    BY <1>a, <1>0, <1>t, <1>1, <2>1, Ids DEF HandOk, PlaceOk, Queues, MainPlaces, IInv, TypeOK,
       lists
  <2> QED BY <1>a, <1>0, <1>t, <1>1, <2>2, <2>3, Ids, OthersPlaced DEF IInv
<1>3. CountInv'
  <2>1. Polls(t) /\ ~Polls(t)'
    BY <1>a, <1>0, <1>t, <1>1, Ids DEF Polls, Queues, IInv, PlaceInv, PlaceOk, HandOk, MainPlaces,
       TypeOK
  <2>2. Cardinality(Polling') = Cardinality(Polling) - 1
    BY <1>a, <1>0, <1>t, <1>1, <2>1, Ids, PollsLess DEF IInv
  <2>3. ~Waits(t) /\ ~Waits(t)'
    BY <1>a, <1>0, <1>t, <1>1, Ids DEF Waits, Queues, IInv, TypeOK
  <2>4. Counted' = Counted
    BY <1>a, <1>0, <1>t, <1>1, <2>3, Ids, CountedKept DEF IInv, pool
  <2> QED BY <1>a, <1>0, <1>t, <1>1, <2>2, <2>4, CountsTyped DEF CountInv, IInv, TypeOK
<1>4. TypeOK'
  <2>1. running_count' \in 0 .. NThreads /\ waiting_thread_count' \in 0 .. NThreads
    BY <1>a, <1>0, <1>t, <1>1, <1>3, CountsTyped DEF CountInv, IInv
  <2>2. at' \in [Actors -> -1 .. NHeads]
    BY <1>a, <1>0, <1>t, <1>1, Ids DEF IInv, TypeOK, place
  <2> QED BY <1>a, <1>0, <1>t, <1>1, <2>1, <2>2, Ids DEF IInv, Typed, TypeOK, lists, sleep, tally,
             pool, place, Internal
<1>5. SleepInv'
  <2>1. t \in Threads => SleepOk(t)'
    BY <1>a, <1>0, <1>t, <1>1, Ids DEF SleepOk, SleepInv, sleep, IInv, TypeOK, PlaceInv, PlaceOk,
       MainPlaces
  <2> QED BY <1>a, <1>0, <1>t, <1>1, <2>1, Ids, SleepKept DEF IInv
<1>6. JoinInv'
  BY <1>a, <1>0, <1>t, <1>1, Ids DEF JoinInv, IInv, PlaceInv, PlaceOk, HandOk, Queues, MainPlaces,
     lists, TypeOK
<1>7. OnceInv'
  BY <1>t
<1> QED BY <1>2, <1>3, <1>4, <1>5, <1>6, <1>7 DEF IInv

LEMMA RunLeftoverStep ==
  ASSUME IInv, RunLeftover
  PROVE  IInv'
<1>a. UNCHANGED <<pool, task_heads, rest, running_count, waiting_thread_count, unseen, terminated,
             sleep, place, found, queued>>
  BY DEF RunLeftover
<1> USE DEF pool, lists, sleep, tally, place
<1>0. /\ pc[Main] = "cleanup" /\ hand[Main] # <<>> /\ found
      /\ hand' = [hand EXCEPT ![Main] = Tail(@)] /\ ran' = ran \cup {Head(hand[Main])}
  BY DEF RunLeftover, IInv, JoinInv
<1>t. OnceInv' /\ Typed /\ ran' \in SUBSET Tasks
  BY <1>a, <1>0, Ids, RunsTop DEF IInv
<1>1. Only(Main) /\ UNCHANGED internal_thread_count
  BY <1>a, <1>0, Ids DEF Only, lists, pool, place, IInv, TypeOK
<1>2. PlaceInv'
  <2>1. PlaceOk(Main) /\ HandOk(Main)
    BY Ids DEF IInv, PlaceInv
  <2>2. PlaceOk(Main)'
    BY <1>a, <1>0, <1>t, <1>1, <2>1, Ids, SlotsAre DEF PlaceOk, Queues, MainPlaces, IInv, TypeOK
  <2>3. HandOk(Main)'
    BY <1>a, <1>0, <1>t, <1>1, <2>1, Ids DEF HandOk, PlaceOk, Queues, MainPlaces, IInv, TypeOK,
       lists
  <2> QED BY <1>a, <1>0, <1>t, <1>1, <2>2, <2>3, Ids, OthersPlaced DEF IInv
<1>3. CountInv'
  <2>1. Main \in Threads => (Polls(Main)' <=> Polls(Main)) /\ (Waits(Main)' <=> Waits(Main))
    BY <1>a, <1>0, <1>t, <1>1, Ids DEF Polls, Waits, Queues, IInv, PlaceInv, PlaceOk, MainPlaces,
       TypeOK
  <2> QED BY <1>a, <1>0, <1>t, <1>1, <2>1, Ids, CountKept DEF IInv, pool
<1>4. TypeOK'
  <2>1. running_count' \in 0 .. NThreads /\ waiting_thread_count' \in 0 .. NThreads
    BY <1>a, <1>0, <1>t, <1>1, <1>3, CountsTyped DEF CountInv, IInv
  <2>2. at' \in [Actors -> -1 .. NHeads]
    BY <1>a, <1>0, <1>t, <1>1, Ids DEF IInv, TypeOK, place
  <2> QED BY <1>a, <1>0, <1>t, <1>1, <2>1, <2>2, Ids DEF IInv, Typed, TypeOK, lists, sleep, tally,
             pool, place, Internal
<1>5. SleepInv'
  <2>1. Main \in Threads => SleepOk(Main)'
    BY <1>a, <1>0, <1>t, <1>1, Ids DEF SleepOk, SleepInv, sleep, IInv, TypeOK, PlaceInv, PlaceOk,
       MainPlaces
  <2> QED BY <1>a, <1>0, <1>t, <1>1, <2>1, Ids, SleepKept DEF IInv
<1>6. JoinInv'
  BY <1>a, <1>0, <1>t, <1>1, Ids DEF JoinInv, IInv, PlaceInv, PlaceOk, HandOk, Queues, MainPlaces,
     lists, TypeOK
<1>7. OnceInv'
  BY <1>t
<1> QED BY <1>2, <1>3, <1>4, <1>5, <1>6, <1>7 DEF IInv

LEMMA CleanupHeadStep ==
  ASSUME IInv, CleanupHead
  PROVE  IInv'
<1>a. UNCHANGED <<pool, rest, running_count, waiting_thread_count, unseen, terminated, sleep, pc,
             cont, bound, tally>>
  BY DEF CleanupHead
<1> USE DEF pool, lists, sleep, tally, place
<1>0. PICK n \in -1 .. NHeads :
        /\ pc[Main] = "cleanup" /\ hand[Main] = <<>> /\ n \in Slots
        /\ n = at[Main] + 1 /\ n < NHeads
        /\ at' = [at EXCEPT ![Main] = n] /\ hand' = [hand EXCEPT ![Main] = task_heads[n]]
        /\ task_heads' = [task_heads EXCEPT ![n] = <<>>] /\ found' = (found \/ task_heads[n] # <<>>)
  <2>1. at[Main] + 1 \in Slots => at[Main] + 1 \in -1 .. NHeads /\ at[Main] + 1 < NHeads
    BY SlotsAre
  <2> QED BY <2>1, Ids DEF CleanupHead, IInv, TypeOK
<1>n. \A s \in Slots : s <= n <=> s = n \/ s <= at[Main]
  <2>1. at[Main] \in -1 .. NHeads /\ n \in Int
    BY Ids, SlotsAre DEF IInv, TypeOK
  <2> QED BY <1>0, <2>1, SlotsAre
<1>t. OnceInv' /\ Typed /\ hand'[Main] = task_heads[n]
  BY <1>a, <1>0, Ids, TakesList DEF IInv, TypeOK
<1>1. Only(Main) /\ UNCHANGED internal_thread_count
  BY <1>a, <1>0, Ids DEF Only, lists, pool, place, IInv, TypeOK
<1>2. PlaceInv'
  <2>1. PlaceOk(Main) /\ HandOk(Main)
    BY Ids DEF IInv, PlaceInv
  <2>2. PlaceOk(Main)'
    BY <1>a, <1>0, <1>t, <1>1, <2>1, Ids, SlotsAre DEF PlaceOk, Queues, MainPlaces, IInv, TypeOK
  <2>3. HandOk(Main)'
    BY <1>a, <1>0, <1>t, <1>1, <2>1, Ids DEF HandOk, PlaceOk, Queues, MainPlaces, IInv, TypeOK,
       lists
  <2> QED BY <1>a, <1>0, <1>t, <1>1, <2>2, <2>3, Ids, OthersPlaced DEF IInv
<1>3. CountInv'
  <2>1. Main \in Threads => (Polls(Main)' <=> Polls(Main)) /\ (Waits(Main)' <=> Waits(Main))
    BY <1>a, <1>0, <1>t, <1>1, Ids DEF Polls, Waits, Queues, IInv, PlaceInv, PlaceOk, MainPlaces,
       TypeOK
  <2> QED BY <1>a, <1>0, <1>t, <1>1, <2>1, Ids, CountKept DEF IInv, pool
<1>4. TypeOK'
  <2>1. running_count' \in 0 .. NThreads /\ waiting_thread_count' \in 0 .. NThreads
    BY <1>a, <1>0, <1>t, <1>1, <1>3, CountsTyped DEF CountInv, IInv
  <2>2. at' \in [Actors -> -1 .. NHeads]
    BY <1>a, <1>0, <1>t, <1>1, Ids DEF IInv, TypeOK, place
  <2> QED BY <1>a, <1>0, <1>t, <1>1, <2>1, <2>2, Ids DEF IInv, Typed, TypeOK, lists, sleep, tally,
             pool, place, Internal
<1>5. SleepInv'
  <2>1. Main \in Threads => SleepOk(Main)'
    BY <1>a, <1>0, <1>t, <1>1, Ids DEF SleepOk, SleepInv, sleep, IInv, TypeOK, PlaceInv, PlaceOk,
       MainPlaces
  <2> QED BY <1>a, <1>0, <1>t, <1>1, <2>1, Ids, SleepKept DEF IInv
<1>6. JoinInv'
  <2>1. at'[Main] = n /\ task_heads'[n] = <<>>
    BY <1>0, Ids DEF IInv, TypeOK
  <2>2. ASSUME ~found', NEW s \in Slots, s <= n PROVE task_heads'[s] = <<>>
    <3>1. CASE s = n
      BY <2>1, <3>1
    <3>2. CASE s # n
      <4>1. s <= at[Main] /\ ~found
        BY <1>0, <1>n, <2>2, <3>2
      <4>2. task_heads[s] = <<>>
        BY <1>0, <4>1 DEF IInv, JoinInv
      <4> QED BY <1>0, <3>2, <4>2 DEF IInv, TypeOK
    <3> QED BY <3>1, <3>2
  <2>3. hand'[Main] # <<>> => found'
    BY <1>0, <1>t
  <2> QED BY <1>a, <1>0, <2>1, <2>2, <2>3, Ids DEF IInv, JoinInv
<1>7. OnceInv'
  BY <1>t
<1> QED BY <1>2, <1>3, <1>4, <1>5, <1>6, <1>7 DEF IInv

LEMMA QueueTerminatedStep ==
  ASSUME IInv, NEW a \in Actors, QueueTerminated(a)
  PROVE  IInv'
<1>a. UNCHANGED <<pool, hand, rest, running_count, waiting_thread_count, unseen, terminated,
             sleep, place, found, ran>>
  BY DEF QueueTerminated
<1> USE DEF pool, lists, sleep, tally, place
<1>0. /\ terminated /\ queued < MaxTasks /\ 0 \in Slots /\ queued' = queued + 1
      /\ pc[a] \in {"run", "loop"} \/ (pc[a] = "cleanup" /\ hand[a] # <<>>)
      /\ task_heads' = [task_heads EXCEPT ![0] = <<queued + 1>> \o @]
  BY SlotsAre DEF QueueTerminated, Push
<1>t. OnceInv' /\ Typed /\ queued' \in 0 .. MaxTasks
  BY <1>a, <1>0, QueuesOnHead DEF IInv
<1>1. Only(a) /\ UNCHANGED internal_thread_count
  BY <1>a, <1>0, Ids DEF Only, lists, pool, place, IInv, TypeOK
<1>2. PlaceInv'
  <2>1. PlaceOk(a) /\ HandOk(a)
    BY Ids DEF IInv, PlaceInv
  <2>2. PlaceOk(a)'
    BY <1>a, <1>0, <1>t, <1>1, <2>1, Ids, SlotsAre DEF PlaceOk, Queues, MainPlaces, IInv, TypeOK
  <2>3. HandOk(a)'
    BY <1>a, <1>0, <1>t, <1>1, <2>1, Ids DEF HandOk, PlaceOk, Queues, MainPlaces, IInv, TypeOK,
       lists
  <2> QED BY <1>a, <1>0, <1>t, <1>1, <2>2, <2>3, Ids, OthersPlaced DEF IInv
<1>3. CountInv'
  <2>1. a \in Threads => (Polls(a)' <=> Polls(a)) /\ (Waits(a)' <=> Waits(a))
    BY <1>a, <1>0, <1>t, <1>1, Ids DEF Polls, Waits, Queues, IInv, PlaceInv, PlaceOk, MainPlaces,
       TypeOK
  <2> QED BY <1>a, <1>0, <1>t, <1>1, <2>1, Ids, CountKept DEF IInv, pool
<1>4. TypeOK'
  <2>1. running_count' \in 0 .. NThreads /\ waiting_thread_count' \in 0 .. NThreads
    BY <1>a, <1>0, <1>t, <1>1, <1>3, CountsTyped DEF CountInv, IInv
  <2>2. at' \in [Actors -> -1 .. NHeads]
    BY <1>a, <1>0, <1>t, <1>1, Ids DEF IInv, TypeOK, place
  <2> QED BY <1>a, <1>0, <1>t, <1>1, <2>1, <2>2, Ids DEF IInv, Typed, TypeOK, lists, sleep, tally,
             pool, place, Internal
<1>5. SleepInv'
  <2>1. a \in Threads => SleepOk(a)'
    BY <1>a, <1>0, <1>t, <1>1, Ids DEF SleepOk, SleepInv, sleep, IInv, TypeOK, PlaceInv, PlaceOk,
       MainPlaces
  <2> QED BY <1>a, <1>0, <1>t, <1>1, <2>1, Ids, SleepKept DEF IInv
<1>6. JoinInv'
  <2>1. pc[Main] = "cleanup" => found
    <3>1. CASE a = Main
      BY <1>0, <3>1, Ids DEF IInv, JoinInv, PlaceInv, PlaceOk, MainPlaces, Queues
    <3>2. CASE a # Main
      BY <1>0, <3>2, Ids DEF IInv, JoinInv, PlaceInv, PlaceOk, MainPlaces
    <3> QED BY <3>1, <3>2
  <2>2. pc[Main] # "joined"
    <3>1. CASE a = Main
      BY <1>0, <3>1, Ids DEF IInv, JoinInv, PlaceInv, PlaceOk, MainPlaces, Queues
    <3>2. CASE a # Main
      BY <1>0, <3>2, Ids DEF IInv, JoinInv, PlaceInv, PlaceOk, MainPlaces
    <3> QED BY <3>1, <3>2
  <2> QED BY <1>a, <2>1, <2>2 DEF IInv, JoinInv
<1>7. OnceInv'
  BY <1>t
<1> QED BY <1>2, <1>3, <1>4, <1>5, <1>6, <1>7 DEF IInv

LEMMA QueueJoinedStep ==
  ASSUME IInv, QueueJoined
  PROVE  IInv'
<1>a. UNCHANGED <<pool, lists, running_count, waiting_thread_count, unseen, terminated, sleep,
             place, found>>
  BY DEF QueueJoined
<1> USE DEF pool, lists, sleep, tally, place
<1>0. queued < MaxTasks /\ queued' = queued + 1 /\ ran' = ran \cup {queued + 1}
  BY DEF QueueJoined
<1>1. /\ queued + 1 \in Tasks /\ queued' \in 0 .. MaxTasks
      /\ 1 .. queued' = 1 .. queued \cup {queued + 1} /\ queued + 1 \notin 1 .. queued
  BY <1>0, WorkerAssumption DEF IInv, TypeOK, Tasks
<1>2. PlaceInv' /\ SleepInv' /\ JoinInv'
  BY <1>a DEF IInv, PlaceInv, PlaceOk, HandOk, SleepInv, SleepOk, JoinInv, Queues
<1>3. CountInv'
  BY <1>a DEF IInv, CountInv, Polling, Counted, Polls, Waits, Queues, Internal
<1>4. TypeOK'
  BY <1>a, <1>0, <1>1 DEF IInv, TypeOK, Internal
<1>5. OnceInv'
  <2>1. Lists' = Lists
    BY <1>a DEF Lists, ListAt
  <2>2. Once(Lists, ran \cup {queued + 1}, queued')
    <3>1. Once(Lists, ran, queued) /\ AllGood(Lists)
      BY ListsTyped DEF IInv, OnceInv
    <3>2. \A x \in Where : ToSet(Lists[x]) \subseteq 1 .. queued
      BY <3>1, OnceIs
    <3> QED BY <1>1, <3>1, <3>2 DEF Once
  <2> QED BY <1>0, <2>1, <2>2 DEF OnceInv
<1> QED BY <1>2, <1>3, <1>4, <1>5 DEF IInv

LEMMA DrainStep ==
  ASSUME IInv, NEW t \in Threads, Drain(t)
  PROVE  IInv'
<1>a. UNCHANGED <<pool, lists, running_count, terminated, sleep, place, found, tally>>
  BY DEF Drain
<1> USE DEF pool, lists, sleep, tally, place
<1>0. t \in unseen /\ unseen' = unseen \ {t} /\ waiting_thread_count' = waiting_thread_count + 1
  BY DEF Drain
<1>1. Only(t)
  BY <1>a DEF Only
<1>2. PlaceInv' /\ JoinInv'
  BY <1>a DEF IInv, PlaceInv, PlaceOk, HandOk, JoinInv, Queues
<1>3. SleepInv'
  BY <1>a, <1>0 DEF IInv, SleepInv, SleepOk
<1>4. CountInv'
  <2>1. Polling' = Polling
    BY <1>a DEF Polling, Polls, Queues
  <2>2. t \in Internal /\ Waits(t) /\ Waits(t)'
    BY <1>a, <1>0 DEF IInv, TypeOK, SleepInv, SleepOk, Waits
  <2>3. Cardinality(Counted') = Cardinality(Counted) + 1
    BY <1>a, <1>0, <1>1, <2>2, CountedMore DEF IInv
  <2> QED BY <1>a, <1>0, <2>1, <2>3 DEF IInv, CountInv
<1>5. TypeOK'
  <2>1. waiting_thread_count' \in 0 .. NThreads
    BY <1>a, <1>4, CountsTyped DEF IInv, CountInv
  <2> QED BY <1>a, <1>0, <2>1 DEF IInv, TypeOK, Internal
<1>6. OnceInv'
  BY <1>a, OnceKept DEF IInv
<1> QED BY <1>2, <1>3, <1>4, <1>5, <1>6 DEF IInv

-----------------------------------------------------------------------------
(* The invariant *)

LEMMA InitIInv == Init => IInv
<1> SUFFICES ASSUME Init PROVE IInv
  OBVIOUS
<1> USE DEF Init
<1>1. TypeOK
  <2>1. internal_thread_count \in 1 .. NThreads
    BY WorkerAssumption
  <2>2. 0 \in 0 .. NThreads /\ 0 \in 0 .. MaxTasks /\ 0 \in -1 .. NHeads
    BY WorkerAssumption, SlotsAre
  <2>3. <<>> \in Seq(Tasks)
    BY EmptyIs DEF Good
  <2> QED BY <2>1, <2>2, <2>3, Ids DEF TypeOK
<1>2. \A t \in Threads : pc[t] = "loop"
  BY Ids
<1>3. pc[Main] = "client"
  BY Ids
<1>4. PlaceInv
  <2> SUFFICES ASSUME NEW a \in Actors PROVE PlaceOk(a) /\ HandOk(a)
    BY DEF PlaceInv
  <2>1. /\ a = Main => pc[a] = "client"
        /\ a # Main => pc[a] = "loop"
        /\ cont[a] = "run" /\ hand[a] = <<>> /\ rest[a] = <<>>
    BY <1>2, <1>3, Ids
  <2> QED BY <2>1 DEF PlaceOk, HandOk, Queues, MainPlaces
<1>5. CountInv
  <2>1. Polling = {} /\ Counted = {}
    <3>1. Internal \subseteq Threads
      BY <1>1, Ids DEF Internal, TypeOK
    <3> QED BY <1>2, <3>1 DEF Polling, Counted, Polls, Waits, Queues
  <2> QED BY <2>1, FS_EmptySet DEF CountInv
<1>6. SleepInv
  BY <1>2, Ids DEF SleepInv, SleepOk
<1>7. JoinInv
  BY <1>2, <1>3, Ids DEF JoinInv, MainPlaces
<1>8. OnceInv
  <2>1. \A x \in Where : Lists[x] = <<>>
    <3>1. \A s \in Slots : task_heads[s] = <<>>
      OBVIOUS
    <3>2. \A a \in Actors : hand[a] = <<>> /\ rest[a] = <<>>
      OBVIOUS
    <3>3. \A s \in Slots : Lists[<<"head", s>>] = <<>>
      BY <3>1, ListsAre
    <3>4. \A a \in Actors : Lists[<<"hand", a>>] = <<>> /\ Lists[<<"rest", a>>] = <<>>
      BY <3>2, ListsAre
    <3> HIDE DEF Init
    <3> SUFFICES ASSUME NEW x \in Where PROVE Lists[x] = <<>>
      OBVIOUS
    <3>5. CASE \E s \in Slots : x = <<"head", s>>
      BY <3>3, <3>5
    <3>6. CASE \E a \in Actors : x = <<"hand", a>> \/ x = <<"rest", a>>
      BY <3>4, <3>6
    <3> QED BY <3>5, <3>6, ListsAre
  <2>2. 1 .. 0 = {} /\ ran = {} /\ queued = 0
    OBVIOUS
  <2> QED BY <2>1, <2>2, EmptyIs DEF OnceInv, Once, Good
<1> QED BY <1>1, <1>4, <1>5, <1>6, <1>7, <1>8 DEF IInv

LEMMA NextIInv == IInv /\ [Next]_vars => IInv'
<1> SUFFICES ASSUME IInv, [Next]_vars PROVE IInv'
  OBVIOUS
<1>1. ASSUME NEW a \in Actors, Queueing(a) \/ QueueTerminated(a) \/ \E p \in Priorities : Queue(a,
             p)
      PROVE  IInv'
  BY <1>1, TryStep, ChainStep, SignalStep, WakeupStep, QueueTerminatedStep, QueueStep DEF Queueing
<1>2. ASSUME NEW t \in Threads, Thread(t) \/ Drain(t)
      PROVE  IInv'
  BY <1>2, PollStep, ExitStep, FetchStep, TakeStep, PutBackStep, ReturnStep, EndTaskStep, DelayStep,
     LockStep, LookStep, WaitStep, WakeStep, UnlockStep, DrainStep DEF Thread
<1>3. CASE Join \/ Terminate \/ QueueJoined
  BY <1>3, WakeupAllStep, JoinThreadsStep, RunLeftoverStep, CleanupHeadStep, CleanupEndsStep,
     TerminateStep, QueueJoinedStep DEF Join
<1>4. CASE UNCHANGED vars
  <2> USE <1>4 DEF vars, pool, lists, sleep, place, tally
  <2>1. TypeOK' /\ PlaceInv' /\ SleepInv' /\ JoinInv'
    BY DEF IInv, TypeOK, Internal, PlaceInv, PlaceOk, HandOk, SleepInv, SleepOk, JoinInv, Queues
  <2>2. CountInv'
    BY DEF IInv, CountInv, Polling, Counted, Polls, Waits, Queues, Internal
  <2>3. OnceInv'
    BY OnceKept DEF IInv
  <2> QED BY <2>1, <2>2, <2>3 DEF IInv
<1> QED BY <1>1, <1>2, <1>3, <1>4 DEF Next

(* No step of queue(), poll(), delay(), terminate() or join() breaks the       *)
(* invariant.                                                                  *)
THEOREM Inductive == Spec => []IInv
BY InitIInv, NextIInv, PTL DEF Spec

(* The worker's variables have their types: in particular neither counter falls *)
(* below zero, whatever is counted late.                                        *)
THEOREM TypeCorrect == Spec => []TypeOK
<1>1. IInv => TypeOK
  BY DEF IInv
<1> QED BY <1>1, Inductive, PTL

(* The places of a task among lists, as a set of pairs.                        *)
LEMMA InIs ==
  ASSUME NEW k, NEW f
  PROVE  \A x, i : <<x, i>> \in In(k, f) <=> x \in DOMAIN f /\ i \in DOMAIN f[x] /\ f[x][i] = k
BY DEF In

\* In as the pairs of a list and a position.
LEMMA InPairs ==
  ASSUME NEW k, NEW f, NEW e \in In(k, f)
  PROVE  \E x, i : e = <<x, i>> /\ x \in DOMAIN f /\ i \in DOMAIN f[x] /\ f[x][i] = k
BY DEF In

LEMMA InNone ==
  ASSUME NEW k, NEW f, \A x \in DOMAIN f : k \notin ToSet(f[x])
  PROVE  Cardinality(In(k, f)) = 0
<1>1. In(k, f) = {}
  BY InPairs DEF ToSet
<1> QED BY <1>1, FS_EmptySet

LEMMA InOne ==
  ASSUME NEW k, NEW f, NEW x \in DOMAIN f, k \in ToSet(f[x]), IsInjective(f[x]),
         \A y \in DOMAIN f : y # x => k \notin ToSet(f[y])
  PROVE  Cardinality(In(k, f)) = 1
<1>1. PICK i \in DOMAIN f[x] : f[x][i] = k
  BY DEF ToSet
<1>2. <<x, i>> \in In(k, f)
  BY <1>1, InIs
<1>3. \A e \in In(k, f) : e = <<x, i>>
  <2> SUFFICES ASSUME NEW e \in In(k, f) PROVE e = <<x, i>>
    OBVIOUS
  <2>1. PICK y, j : e = <<y, j>> /\ y \in DOMAIN f /\ j \in DOMAIN f[y] /\ f[y][j] = k
    BY InPairs
  <2>2. y = x
    BY <2>1 DEF ToSet
  <2>3. j = i
    BY <1>1, <2>1, <2>2 DEF IsInjective
  <2> QED BY <2>1, <2>2, <2>3
<1>4. In(k, f) = {<<x, i>>}
  BY <1>2, <1>3
<1> QED BY <1>4, FS_Singleton

LEMMA OnceMeansOnce == IInv => EachTaskOnce
<1> SUFFICES ASSUME IInv, NEW k \in 1 .. queued
             PROVE  Cardinality(In(k, task_heads)) + Cardinality(In(k, hand)) + Cardinality(In(k,
                    rest))
                      + Cardinality({k} \cap ran) = 1
  BY DEF EachTaskOnce
<1>1. /\ \A x \in Where : IsInjective(Lists[x]) /\ ToSet(Lists[x]) \cap ran = {}
      /\ \A x, y \in Where : x # y => ToSet(Lists[x]) \cap ToSet(Lists[y]) = {}
      /\ k \in ran \/ \E x \in Where : k \in ToSet(Lists[x])
  <2>1. 1 .. queued = ran \cup UNION {ToSet(Lists[x]) : x \in Where}
    BY DEF IInv, OnceInv, Once
  <2> QED BY <2>1 DEF IInv, OnceInv, Once
<1>2. DOMAIN task_heads = Slots /\ DOMAIN hand = Actors /\ DOMAIN rest = Actors
  BY DEF IInv, TypeOK
<1>3. CASE k \in ran
  <2>1. \A x \in Where : k \notin ToSet(Lists[x])
    BY <1>1, <1>3
  <2>2. /\ \A s \in Slots : k \notin ToSet(task_heads[s])
        /\ \A a \in Actors : k \notin ToSet(hand[a]) /\ k \notin ToSet(rest[a])
    BY <2>1, Places
  <2>3. /\ Cardinality(In(k, task_heads)) = 0 /\ Cardinality(In(k, hand)) = 0
        /\ Cardinality(In(k, rest)) = 0
    BY <1>2, <2>2, InNone
  <2>4. Cardinality({k} \cap ran) = 1
    <3>1. {k} \cap ran = {k}
      BY <1>3
    <3> QED BY <3>1, FS_Singleton
  <2> QED BY <2>3, <2>4
<1>4. CASE k \notin ran
  <2>1. PICK x \in Where : k \in ToSet(Lists[x])
    BY <1>1, <1>4
  <2>2. \A y \in Where : y # x => k \notin ToSet(Lists[y])
    BY <1>1, <2>1
  <2>3. Cardinality({k} \cap ran) = 0
    <3>1. {k} \cap ran = {}
      BY <1>4
    <3> QED BY <3>1, FS_EmptySet
  <2>4. CASE \E s \in Slots : x = HeadOf(s)
    <3>1. PICK s \in Slots : x = HeadOf(s)
      BY <2>4
    <3>2. /\ k \in ToSet(task_heads[s]) /\ IsInjective(task_heads[s])
          /\ \A u \in Slots : u # s => k \notin ToSet(task_heads[u])
          /\ \A a \in Actors : k \notin ToSet(hand[a]) /\ k \notin ToSet(rest[a])
      BY <1>1, <2>1, <2>2, <3>1, Places
    <3>3. Cardinality(In(k, task_heads)) = 1
      BY <1>2, <3>2, InOne
    <3>4. Cardinality(In(k, hand)) = 0 /\ Cardinality(In(k, rest)) = 0
      BY <1>2, <3>2, InNone
    <3> QED BY <2>3, <3>3, <3>4
  <2>5. CASE \E a \in Actors : x = HandOf(a)
    <3>1. PICK a \in Actors : x = HandOf(a)
      BY <2>5
    <3>2. /\ k \in ToSet(hand[a]) /\ IsInjective(hand[a])
          /\ \A u \in Slots : k \notin ToSet(task_heads[u])
          /\ \A b \in Actors : (b # a => k \notin ToSet(hand[b])) /\ k \notin ToSet(rest[b])
      BY <1>1, <2>1, <2>2, <3>1, Places
    <3>3. Cardinality(In(k, hand)) = 1
      BY <1>2, <3>2, InOne
    <3>4. Cardinality(In(k, task_heads)) = 0 /\ Cardinality(In(k, rest)) = 0
      BY <1>2, <3>2, InNone
    <3> QED BY <2>3, <3>3, <3>4
  <2>6. CASE \E a \in Actors : x = RestOf(a)
    <3>1. PICK a \in Actors : x = RestOf(a)
      BY <2>6
    <3>2. /\ k \in ToSet(rest[a]) /\ IsInjective(rest[a])
          /\ \A u \in Slots : k \notin ToSet(task_heads[u])
          /\ \A b \in Actors : (b # a => k \notin ToSet(rest[b])) /\ k \notin ToSet(hand[b])
      BY <1>1, <2>1, <2>2, <3>1, Places
    <3>3. Cardinality(In(k, rest)) = 1
      BY <1>2, <3>2, InOne
    <3>4. Cardinality(In(k, task_heads)) = 0 /\ Cardinality(In(k, hand)) = 0
      BY <1>2, <3>2, InNone
    <3> QED BY <2>3, <3>3, <3>4
  <2> QED BY <2>4, <2>5, <2>6, ListsAre DEF HeadOf, HandOf, RestOf
<1> QED BY <1>3, <1>4

(* Every task queued so far is on one head, in the hands of one thread, or run, *)
(* in one place and once: poll() loses none between its two exchanges and hands *)
(* none to two threads, and so does cleanup().                                  *)
THEOREM TasksOnce == Spec => []EachTaskOnce
BY Inductive, OnceMeansOnce, PTL

(* join() returns when every task that was queued has been run, those that      *)
(* leftover tasks queued while it ran them among them.                          *)
THEOREM JoinLeavesNothing == Spec => []JoinRunsAll
<1>1. IInv => JoinRunsAll
  <2> SUFFICES ASSUME IInv, pc[Main] = "joined" PROVE ran = 1 .. queued
    BY DEF JoinRunsAll
  <2>1. \A s \in Slots : task_heads[s] = <<>>
    BY DEF IInv, JoinInv
  <2>2. \A t \in Threads : pc[t] = "exited"
    BY DEF IInv, JoinInv
  <2>3. \A a \in Actors : hand[a] = <<>> /\ rest[a] = <<>>
    <3> SUFFICES ASSUME NEW a \in Actors PROVE hand[a] = <<>> /\ rest[a] = <<>>
      OBVIOUS
    <3>1. pc[a] \in {"exited", "joined"}
      BY <2>2, Ids
    <3> QED BY <3>1 DEF IInv, PlaceInv, HandOk, Queues
  <2>4. \A x \in Where : ToSet(Lists[x]) = {}
    BY <2>1, <2>3, EmptyIs, ListsAre
  <2>5. 1 .. queued = ran \cup UNION {ToSet(Lists[x]) : x \in Where}
    BY DEF IInv, OnceInv, Once
  <2> QED BY <2>4, <2>5
<1> QED BY <1>1, Inductive, PTL

(* The assertions of join() hold: when the threads have ended nobody is counted *)
(* as running or waiting.                                                       *)
THEOREM JoinFindsNobody == Spec => []JoinAsserts
<1>1. IInv => JoinAsserts
  <2> SUFFICES ASSUME IInv, pc[Main] \in {"cleanup", "joined"}
               PROVE  running_count = 0 /\ waiting_thread_count = 0
    BY DEF JoinAsserts
  <2>1. \A t \in Threads : pc[t] = "exited"
    BY DEF IInv, JoinInv
  <2>2. Internal \subseteq Threads
    BY Ids DEF IInv, TypeOK, Internal
  <2>3. Polling = {} /\ Counted = {}
    BY <2>1, <2>2 DEF Polling, Counted, Polls, Waits, Queues
  <2> QED BY <2>3, FS_EmptySet DEF IInv, CountInv
<1> QED BY <1>1, Inductive, PTL

-----------------------------------------------------------------------------
(* While there is a task, some thread does not sleep *)

LEMMA Remainder ==
  ASSUME NEW n \in Nat \ {0}, NEW a \in Int
  PROVE  /\ a % n \in 0 .. n - 1 /\ (a + n) % n = a % n
         /\ a \in 0 .. n - 1 => a % n = a
<1>1. /\ a = n * (a \div n) + (a % n) /\ a + n = n * ((a + n) \div n) + ((a + n) % n)
  BY SMTT(30)
<1>2. /\ a % n \in 0 .. n - 1 /\ a \div n \in Int
      /\ (a + n) % n \in 0 .. n - 1 /\ (a + n) \div n \in Int
  OBVIOUS
<1>3. \A q, p \in Int, r, s \in 0 .. n - 1 : n * q + r = n * p + s => r = s
  OBVIOUS
<1>4. (a + n) % n = a % n
  <2>1. a + n = n * ((a \div n) + 1) + (a % n)
    BY <1>1, <1>2
  <2>2. (a \div n) + 1 \in Int
    BY <1>2
  <2> QED BY <1>1, <1>2, <1>3, <2>1, <2>2
<1>5. ASSUME a \in 0 .. n - 1 PROVE a % n = a
  <2>1. n * 0 + a = n * (a \div n) + (a % n)
    BY <1>1
  <2>2. 0 \in Int
    OBVIOUS
  <2> QED BY <1>2, <1>3, <1>5, <2>1, <2>2
<1> QED BY <1>2, <1>4, <1>5

LEMMA PrioritiesAre ==
  /\ \A s \in Slots : Priority(s) \in 0 .. NThreads - 1 /\ Priority(s + NThreads) = Priority(s)
  /\ \A p \in Priorities : Priority(p) = p
<1>1. NThreads \in Nat \ {0} /\ Priorities \in SUBSET (0 .. NThreads - 1)
  BY WorkerAssumption
<1>2. \A s \in Slots : s \in Int
  BY SlotsAre
<1>3. ASSUME NEW s \in Slots PROVE Priority(s) \in 0 .. NThreads - 1 /\ Priority(s + NThreads) = Priority(s)
  BY <1>1, <1>2, Remainder DEF Priority
<1>4. ASSUME NEW p \in Priorities PROVE Priority(p) = p
  <2>1. p \in 0 .. NThreads - 1 /\ p \in Int
    BY <1>1
  <2> QED BY <1>1, <2>1, Remainder DEF Priority
<1> QED BY <1>3, <1>4

(* The places of tasks go with the priorities that tasks are queued with.      *)
Righted == /\ \A a \in Actors : Rightful(a)
           /\ \A s \in Slots : task_heads[s] # <<>> => Priority(s) \in Priorities

LEMMA RightedKept ==
  ASSUME NEW a \in Actors, Only(a), Righted, Rightful(a)', UNCHANGED task_heads
  PROVE  Righted'
BY DEF Righted, Rightful, Only, Queues

LEMMA RightedBecomes ==
  ASSUME NEW a \in Actors, Only(a), Righted, Rightful(a)', TypeOK, NEW s \in Slots, NEW l,
         task_heads' = [task_heads EXCEPT ![s] = l], l # <<>> => Priority(s) \in Priorities
  PROVE  Righted'
BY DEF Righted, Rightful, Only, Queues, TypeOK

LEMMA RightedNext ==
  ASSUME IInv, ~terminated, Righted, NEW a \in Actors,
         \/ Queueing(a) \/ \E p \in Priorities : Queue(a, p)
         \/ a \in Threads /\ Thread(a)
  PROVE  Righted'
<1> USE Ids DEF IInv, TypeOK, Move, lists, place
<1>1. CASE \E p \in Priorities : Queue(a, p)
  <2>1. PICK p \in Priorities : Queue(a, p)
    BY <1>1
  <2>2. Only(a) /\ UNCHANGED task_heads
    BY <2>1 DEF Only, Queue
  <2>3. p \in Slots /\ Priority(p) = p
    BY SlotsAre, PrioritiesAre
  <2>4. at'[a] = p
    BY <2>1 DEF Queue
  <2> QED BY <2>2, <2>3, <2>4, RightedKept DEF Rightful
<1>2. CASE Try(a)
  <2>1. Only(a) /\ pc[a] = "try" /\ at[a] \in Slots /\ pc'[a] \in {"try", "chain", "signal"}
    <3>1. pc[a] = "try" /\ at[a] \in Slots
      BY <1>2 DEF Try, PlaceInv, PlaceOk, Queues
    <3>2. Only(a)
      <4>1. UNCHANGED <<hand, cont>>
        BY <1>2 DEF Try
      <4>2. pc' = pc \/ \E q : pc' = [pc EXCEPT ![a] = q]
        BY <1>2 DEF Try
      <4>3. at' = at \/ \E n : at' = [at EXCEPT ![a] = n]
        BY <1>2 DEF Try
      <4>4. rest' = rest \/ \E l : rest' = [rest EXCEPT ![a] = l]
        BY <1>2 DEF Try
      <4> HIDE DEF Try
      <4> QED BY <4>1, <4>2, <4>3, <4>4 DEF Only
    <3>3. pc' = pc \/ \E q \in {"chain", "signal"} : pc' = [pc EXCEPT ![a] = q]
      BY <1>2 DEF Try
    <3> QED BY <3>1, <3>2, <3>3
  <2>2. Priority(at[a]) \in Priorities
    BY <2>1 DEF Righted, Rightful, Queues
  <2>3. CASE task_heads[at[a]] = <<>>
    <3>1. at' = at /\ task_heads' = [task_heads EXCEPT ![at[a]] = <<Head(rest[a])>> \o @]
      BY <1>2, <2>3 DEF Try, Push
    <3>2. Rightful(a)'
      BY <2>2, <3>1 DEF Rightful
    <3> QED BY <2>1, <2>2, <3>1, <3>2, RightedBecomes
  <2>4. CASE task_heads[at[a]] # <<>>
    <3>1. UNCHANGED task_heads /\ at'[a] \in {at[a], at[a] + NThreads}
      BY <1>2, <2>4 DEF Try
    <3>2. Rightful(a)'
      BY <2>1, <2>2, <3>1, PrioritiesAre DEF Rightful
    <3> QED BY <2>1, <3>1, <3>2, RightedKept
  <2> QED BY <2>3, <2>4
<1>3. CASE Chain(a)
  <2>1. PICK s \in Slots : /\ Priority(s) = Priority(at[a]) /\ at' = [at EXCEPT ![a] = s]
                           /\ task_heads' = [task_heads EXCEPT ![s] = <<Head(rest[a])>> \o @]
    BY <1>3 DEF Chain, Push
  <2>2. Only(a) /\ pc[a] = "chain" /\ at'[a] = s
    BY <1>3, <2>1 DEF Only, Chain
  <2>3. Priority(s) \in Priorities
    BY <2>1, <2>2 DEF Righted, Rightful, Queues
  <2>4. Rightful(a)'
    BY <2>2, <2>3 DEF Rightful
  <2> QED BY <2>1, <2>2, <2>3, <2>4, RightedBecomes
<1>4. CASE Signal(a) \/ Wakeup(a)
  <2>1. Only(a) /\ UNCHANGED <<task_heads, at>> /\ pc[a] \in {"signal", "wakeup"}
    BY <1>4 DEF Only, Signal, Wakeup
  <2>2. Rightful(a)'
    BY <2>1 DEF Righted, Rightful, Queues
  <2> QED BY <2>1, <2>2, RightedKept
<1>5. CASE a \in Threads /\ Take(a)
  <2>1. Only(a) /\ UNCHANGED at /\ pc[a] = "take" /\ at[a] \in Slots
    BY <1>5 DEF Only, Take, PlaceInv, PlaceOk
  <2>2. pc'[a] = "loop" \/ task_heads[at[a]] # <<>>
    BY <1>5 DEF Take
  <2>3. Rightful(a)'
    BY <2>1, <2>2 DEF Righted, Rightful, Queues
  <2>4. task_heads' = [task_heads EXCEPT ![at[a]] = <<>>]
    BY <1>5 DEF Take
  <2> QED BY <2>1, <2>3, <2>4, RightedBecomes
<1>6. CASE a \in Threads /\ PutBack(a)
  <2>1. Only(a) /\ UNCHANGED at /\ pc[a] = "putback" /\ at[a] \in Slots
    BY <1>6 DEF Only, PutBack, PlaceInv, PlaceOk
  <2>2. Priority(at[a]) \in Priorities
    BY <2>1 DEF Righted, Rightful
  <2>3. Rightful(a)'
    BY <2>1, <2>2 DEF Rightful
  <2>4. task_heads' = [task_heads EXCEPT ![at[a]] = Tail(hand[a])]
    BY <1>6 DEF PutBack
  <2> QED BY <2>1, <2>2, <2>3, <2>4, RightedBecomes
<1>7. CASE a \in Threads /\ Return(a)
  <2>1. Only(a) /\ UNCHANGED at /\ pc[a] = "return" /\ at[a] \in Slots
    BY <1>7 DEF Only, Return, PlaceInv, PlaceOk
  <2>2. Priority(at[a]) \in Priorities
    BY <2>1 DEF Righted, Rightful
  <2>3. Rightful(a)'
    BY <2>1, <2>2 DEF Rightful
  <2>4. task_heads' = [task_heads EXCEPT ![at[a]] = <<Head(rest[a])>> \o @]
    BY <1>7 DEF Return, Push
  <2> QED BY <2>1, <2>2, <2>3, <2>4, RightedBecomes
<1>8. CASE a \in Threads /\ (\/ Poll(a) \/ Exit(a) \/ Fetch(a) \/ EndTask(a) \/ Delay(a) \/ Lock(a)
                             \/ Look(a) \/ Wait(a) \/ Wake(a) \/ Unlock(a))
  <2>1. Only(a) /\ UNCHANGED task_heads /\ pc'[a] \notin {"try", "chain", "signal", "wakeup",
               "putback", "return"}
    <3>1. CASE Poll(a)
      BY <3>1 DEF Only, Poll
    <3>2. CASE Exit(a)
      BY <3>2 DEF Only, Exit
    <3>3. CASE Fetch(a)
      <4>1. UNCHANGED <<task_heads, cont, hand, rest>> /\ pc[a] = "fetch"
        BY <3>3 DEF Fetch
      <4>2. at' = at \/ \E n : at' = [at EXCEPT ![a] = n]
        BY <3>3 DEF Fetch
      <4>3. pc' = pc \/ \E q \in {"take", "delay"} : pc' = [pc EXCEPT ![a] = q]
        BY <3>3 DEF Fetch
      <4> QED BY <4>1, <4>2, <4>3 DEF Only
    <3>4. CASE EndTask(a)
      BY <3>4 DEF Only, EndTask
    <3>5. CASE Delay(a)
      BY <3>5 DEF Only, Delay
    <3>6. CASE Lock(a)
      BY <3>6 DEF Only, Lock
    <3>7. CASE Look(a)
      <4>1. UNCHANGED <<task_heads, cont, hand, rest>> /\ pc[a] = "look"
        BY <3>7 DEF Look
      <4>2. at' = at \/ \E n : at' = [at EXCEPT ![a] = n]
        BY <3>7 DEF Look
      <4>3. pc' = pc \/ \E q \in {"unlock", "wait"} : pc' = [pc EXCEPT ![a] = q]
        BY <3>7 DEF Look
      <4> QED BY <4>1, <4>2, <4>3 DEF Only
    <3>8. CASE Wait(a)
      <4>1. UNCHANGED <<task_heads, at, cont, hand, rest>>
        BY <3>8 DEF Wait
      <4>2. \E q \in {"unlock", "asleep"} : pc' = [pc EXCEPT ![a] = q]
        BY <3>8 DEF Wait
      <4> QED BY <4>1, <4>2 DEF Only
    <3>9. CASE Wake(a) \/ Unlock(a)
      BY <3>9 DEF Only, Wake, Unlock
    <3> QED BY <1>8, <3>1, <3>2, <3>3, <3>4, <3>5, <3>6, <3>7, <3>8, <3>9
  <2> QED BY <2>1, RightedKept DEF Rightful, Queues
<1> QED BY <1>1, <1>2, <1>3, <1>4, <1>5, <1>6, <1>7, <1>8 DEF Queueing, Thread

LEMMA DelayedOnly ==
  ASSUME IInv, unseen # {} => StoreBuffer, [Next]_vars
  PROVE  unseen' # {} => StoreBuffer
<1>1. CASE \E t \in Threads : Lock(t) \/ Drain(t)
  BY <1>1 DEF Lock, Drain
<1>2. CASE ~(\E t \in Threads : Lock(t) \/ Drain(t))
  <2>1. UNCHANGED unseen
    BY <1>2 DEF Next, vars, Queueing, Thread, Join, QueueTerminated, Queue, Try, Chain, Signal,
       Wakeup,
       Poll, Exit, Fetch, Take, PutBack, Return, EndTask, Delay, Look, Wait, Wake, Unlock,
              Terminate,
       WakeupAll, JoinThreads, RunLeftover, CleanupHead, CleanupEnds, QueueJoined
  <2> QED BY <2>1
<1> QED BY <1>1, <1>2

-----------------------------------------------------------------------------
(* Who minds a head after a step *)

Awake(t) == pc[t] \notin {"look", "wait", "asleep", "exited"}

LEMMA OthersMind ==
  ASSUME NEW a \in Actors, Only(a), UNCHANGED notified, NEW s, Attended(s), ~Notifies(a),
         a \in Threads /\ Minds(a, s) => Minds(a, s)'
  PROVE  Attended(s)'
BY Ids DEF Attended, Minds, Notifies, Only

\* A thread that does not wait is awake before terminate().
LEMMA OneAwake ==
  ASSUME IInv, ~terminated, Appended = {}, unseen # {} => StoreBuffer, Notifiable,
         NEW p \in Priorities,
         ~(waiting_thread_count > p + LimitCount)
  PROVE  \E t \in Threads : Awake(t)
<1>1. Internal = Threads
  <2>1. internal_thread_count \in 1 .. NThreads /\ NThreads \in Nat
    BY Ids DEF IInv, TypeOK
  <2>2. ~(internal_thread_count < NThreads)
    <3>1. internal_thread_count < NThreads => NThreads \in Appended
      BY <2>1 DEF Appended
    <3> QED BY <3>1
  <2>3. internal_thread_count = NThreads
    BY <2>1, <2>2
  <2> QED BY <2>3, Ids DEF Internal
<1>2. waiting_thread_count = Cardinality(Counted) /\ Counted \subseteq Threads
  BY <1>1 DEF IInv, CountInv, Counted
<1>3. NThreads \in Nat \ {0} /\ p \in Nat /\ LimitCount \in Nat /\ waiting_thread_count \in Nat
  BY WorkerAssumption DEF IInv, TypeOK
<1>4. p + LimitCount < NThreads - (IF StoreBuffer THEN 1 ELSE 0)
  BY DEF Notifiable
<1> SUFFICES ASSUME \A t \in Threads : ~Awake(t) PROVE FALSE
  OBVIOUS
<1>5. \A t \in Threads : Waits(t)
  BY DEF Awake, Waits, IInv, JoinInv
<1>6. Counted = Threads \ unseen
  BY <1>1, <1>5 DEF Counted
<1>7. CASE unseen = {}
  <2>1. waiting_thread_count = NThreads
    BY <1>2, <1>6, <1>7, Ids
  <2> QED BY <1>3, <1>4, <2>1
<1>8. CASE unseen # {}
  <2>1. PICK u \in unseen : TRUE
    BY <1>8
  <2>2. unseen = {u} /\ u \in Threads
    BY <1>1, <2>1 DEF IInv, TypeOK, SleepInv, SleepOk
  <2>3. waiting_thread_count = NThreads - 1
    <3>1. Counted = Threads \ {u} /\ IsFiniteSet(Threads) /\ Cardinality(Threads) = NThreads
      BY <1>6, <2>2, Ids
    <3>2. Cardinality(Threads \ {u}) = NThreads - 1
      BY <2>2, <3>1, FS_RemoveElement
    <3> QED BY <1>2, <3>1, <3>2
  <2> QED BY <1>3, <1>4, <1>8, <2>3
<1> QED BY <1>7, <1>8

LEMMA AwakeAfter ==
  ASSUME NEW t \in Threads, Awake(t)', NEW s
  PROVE  Attended(s)'
BY DEF Awake, Minds, Attended

LEMMA MainSignals ==
  ASSUME pc'[Main] \in {"signal", "wakeup"}, NEW s
  PROVE  Attended(s)'
BY Ids DEF Notifies, Attended

\* One who looks passes a head only when it is empty.
LEMMA LookMinds ==
  ASSUME IInv, NEW t \in Threads, Look(t), NEW s \in Slots, task_heads[s] # <<>>, Minds(t, s)
  PROVE  Minds(t, s)'
<1> USE DEF IInv, TypeOK
<1>1. /\ pc[t] = "look" /\ at[t] \in -1 .. NHeads /\ at[t] >= 0 /\ notified' = notified
  BY Ids DEF Look, PlaceInv, PlaceOk, sleep
<1>2. s \in 0 .. NHeads - 1 /\ NHeads \in Nat
  BY SlotsAre
<1>3. CASE t \in notified
  BY <1>1, <1>3 DEF Minds
<1>4. CASE t \notin notified
  <2>1. at[t] <= s
    BY <1>1, <1>4 DEF Minds
  <2>2. at[t] \in Slots
    BY <1>1, <1>2, <2>1, SlotsAre
  <2>3. CASE task_heads[at[t]] = <<>>
    <3>1. at' = [at EXCEPT ![t] = @ + 1] /\ pc' = pc
      BY <2>2, <2>3 DEF Look
    <3>2. at[t] # s
      BY <2>3
    <3>3. at[t] + 1 <= s
      BY <1>1, <1>2, <2>1, <3>2
    <3> QED BY <1>1, <3>1, <3>3, Ids DEF Minds
  <2>4. CASE task_heads[at[t]] # <<>>
    <3>1. pc' = [pc EXCEPT ![t] = "unlock"]
      BY <2>2, <2>4 DEF Look
    <3> QED BY <3>1, Ids DEF Minds
  <2> QED BY <2>3, <2>4
<1> QED BY <1>3, <1>4

LEMMA AttendedNext ==
  ASSUME IInv, ~terminated, Appended = {}, unseen # {} => StoreBuffer, Righted, Notifiable,
         NEW a \in Actors, \/ Queueing(a) \/ \E p \in Priorities : Queue(a, p)
                           \/ a \in Threads /\ Thread(a),
         NEW s \in Slots, task_heads[s] # <<>> => Attended(s), task_heads'[s] # <<>>
  PROVE  Attended(s)'
<1> USE Ids DEF IInv, TypeOK, Move, lists, place
<1>1. CASE a \in Threads /\ (\/ Queueing(a) \/ \E p \in Priorities : Queue(a, p))
  <2>1. pc'[a] \in {"try", "chain", "signal", "wakeup", "run", "loop"}
    <3>1. CASE Try(a)
      <4>1. pc' = pc \/ \E q \in {"chain", "signal"} : pc' = [pc EXCEPT ![a] = q]
        BY <3>1 DEF Try
      <4>2. pc[a] = "try"
        BY <3>1 DEF Try
      <4> QED BY <4>1, <4>2
    <3>2. CASE Chain(a) \/ \E p \in Priorities : Queue(a, p)
      BY <3>2 DEF Chain, Queue
    <3>3. CASE Signal(a) \/ Wakeup(a)
      BY <1>1, <3>3 DEF Signal, Wakeup, PlaceInv, PlaceOk
    <3> QED BY <1>1, <3>1, <3>2, <3>3 DEF Queueing
  <2> QED BY <1>1, <2>1, AwakeAfter DEF Awake
<1>2. CASE a \in Threads /\ (\/ Poll(a) \/ Fetch(a) \/ Take(a) \/ PutBack(a) \/ Return(a) \/ EndTask(a)
                             \/ Delay(a) \/ Wake(a) \/ Unlock(a))
  <2>1. pc'[a] \in {"loop", "fetch", "take", "putback", "return", "signal", "run", "delay", "lock"}
    <3>1. CASE Poll(a) \/ EndTask(a) \/ Wake(a) \/ Unlock(a)
      BY <3>1 DEF Poll, EndTask, Wake, Unlock
    <3>2. CASE Fetch(a)
      <4>1. pc[a] = "fetch" /\ (pc' = pc \/ \E q \in {"take", "delay"} : pc' = [pc EXCEPT ![a] = q])
        BY <3>2 DEF Fetch
      <4> QED BY <4>1
    <3>3. CASE Take(a)
      BY <3>3 DEF Take
    <3>4. CASE PutBack(a)
      BY <3>4 DEF PutBack
    <3>5. CASE Return(a)
      BY <3>5 DEF Return
    <3>6. CASE Delay(a)
      BY <3>6 DEF Delay
    <3> QED BY <1>2, <3>1, <3>2, <3>3, <3>4, <3>5, <3>6
  <2> QED BY <1>2, <2>1, AwakeAfter DEF Awake
<1>3. CASE a \in Threads /\ Exit(a)
  BY <1>3 DEF Exit
<1>4. CASE a \in Threads /\ Lock(a)
  <2>1. pc'[a] = "look" /\ at'[a] = 0 /\ 0 <= s
    BY <1>4, SlotsAre DEF Lock
  <2> QED BY <1>4, <2>1 DEF Attended, Minds
<1>5. CASE a \in Threads /\ (Look(a) \/ Wait(a))
  <2>1. Only(a) /\ UNCHANGED <<task_heads, notified>> /\ ~Notifies(a)
    <3>1. CASE Look(a)
      BY <3>1 DEF Only, Look, Notifies, sleep
    <3>2. CASE Wait(a)
      BY <3>2 DEF Only, Wait, Notifies, sleep
    <3> QED BY <1>5, <3>1, <3>2
  <2>2. Minds(a, s) => Minds(a, s)'
    <3>1. CASE Look(a)
      BY <1>5, <2>1, <3>1, LookMinds
    <3>2. CASE Wait(a)
      BY <2>1, <3>2 DEF Wait, Minds
    <3> QED BY <1>5, <3>1, <3>2
  <2> QED BY <2>1, <2>2, OthersMind
<1>6. CASE a = Main /\ \E p \in Priorities : Queue(a, p)
  <2>1. Only(a) /\ UNCHANGED <<task_heads, notified>> /\ ~Notifies(a)
    <3>1. PICK p \in Priorities : Queue(a, p)
      BY <1>6
    <3>2. Only(a)
      BY <3>1 DEF Only, Queue
    <3>3. UNCHANGED <<task_heads, notified>> /\ pc[a] \in {"client", "run", "loop"}
      BY <3>1 DEF Queue, sleep
    <3> QED BY <3>2, <3>3 DEF Notifies
  <2>2. a \notin Threads
    BY <1>6
  <2> QED BY <2>1, <2>2, OthersMind
<1>7. CASE a = Main /\ Try(a)
  <2>1. CASE task_heads[at[a]] = <<>>
    BY <1>7, <2>1, MainSignals DEF Try
  <2>2. CASE task_heads[at[a]] # <<>>
    <3>1. UNCHANGED <<task_heads, notified>> /\ ~Notifies(a)
      BY <1>7, <2>2 DEF Try, Notifies, sleep
    <3>2. Only(a)
      <4>1. UNCHANGED <<hand, cont, rest>>
        BY <1>7, <2>2 DEF Try
      <4>2. pc' = pc \/ \E q : pc' = [pc EXCEPT ![a] = q]
        BY <1>7 DEF Try
      <4>3. at' = at \/ \E n : at' = [at EXCEPT ![a] = n]
        BY <1>7 DEF Try
      <4> HIDE DEF Try
      <4> QED BY <4>1, <4>2, <4>3 DEF Only
    <3> QED BY <1>7, <3>1, <3>2, OthersMind
  <2> QED BY <2>1, <2>2
<1>8. CASE a = Main /\ Chain(a)
  BY <1>8, MainSignals DEF Chain
<1>9. CASE a = Main /\ Signal(a)
  <2>1. CASE waiting_thread_count > Priority(at[a]) + LimitCount
    BY <1>9, <2>1, MainSignals DEF Signal
  <2>2. CASE ~(waiting_thread_count > Priority(at[a]) + LimitCount)
    <3>1. pc[a] = "signal" /\ UNCHANGED <<at, notified>> /\ \A t \in Threads : pc'[t] = pc[t]
      BY <1>9 DEF Signal, sleep
    <3>2. Priority(at[a]) \in Priorities
      BY <3>1 DEF Righted, Rightful, Queues
    <3>3. PICK t \in Threads : Awake(t)
      BY <2>2, <3>2, OneAwake
    <3> QED BY <3>1, <3>3, AwakeAfter DEF Awake
  <2> QED BY <2>1, <2>2
<1>10. CASE a = Main /\ Wakeup(a)
  <2>1. mutex = NoActor /\ 1 \in Threads /\ \A t \in Threads : pc'[t] = pc[t]
    BY <1>10 DEF Wakeup
  <2>2. CASE sleepers # {}
    <3>1. PICK t \in Threads : t \in notified'
      BY <1>10, <2>2 DEF Wakeup
    <3> QED BY <3>1 DEF Attended, Minds
  <2>3. CASE sleepers = {}
    <3>1. notified' = notified
      BY <1>10, <2>3 DEF Wakeup
    <3>2. SleepOk(1) /\ pc[1] # "exited"
      BY <2>1 DEF SleepInv, JoinInv
    <3>3. Minds(1, s)
      BY <2>1, <2>3, <3>2 DEF SleepOk, Minds
    <3>4. Minds(1, s)'
      BY <2>1, <3>1, <3>2, <3>3 DEF Minds, SleepOk
    <3> QED BY <2>1, <3>4 DEF Attended
  <2> QED BY <2>2, <2>3
<1> QED BY <1>1, <1>2, <1>3, <1>4, <1>5, <1>6, <1>7, <1>8, <1>9, <1>10 DEF Queueing, Thread

LEMMA WorkInit == Init => WorkInv
<1> SUFFICES ASSUME Init PROVE WorkInv
  OBVIOUS
<1>1. \A a \in Actors : pc[a] \in {"client", "loop"}
  BY DEF Init
<1>2. unseen = {} /\ \A s \in Slots : task_heads[s] = <<>>
  BY DEF Init
<1> QED BY <1>1, <1>2 DEF WorkInv, Rightful, Queues

\* What happens before terminate() is done by one actor, or is an increment that arrives late.
LEMMA BeforeTerminate ==
  ASSUME IInv, [Next]_vars, ~terminated'
  PROVE  /\ ~terminated
         /\ \/ \E a \in Actors : \/ Queueing(a) \/ \E p \in Priorities : Queue(a, p)
                                 \/ a \in Threads /\ Thread(a)
            \/ UNCHANGED <<task_heads, pc, at, notified, internal_thread_count>>
<1>1. pc[Main] \in MainPlaces \ {"client"} => terminated
  BY DEF IInv, JoinInv
<1>2. ~Terminate
  BY DEF Terminate
<1>3. CASE Join \/ QueueJoined
  <2>1. pc[Main] \in MainPlaces \ {"client"} /\ terminated' = terminated
    BY <1>3 DEF Join, WakeupAll, JoinThreads, RunLeftover, CleanupHead, CleanupEnds, QueueJoined,
       Move,
       MainPlaces
  <2> QED BY <1>1, <2>1
<1>4. CASE \E t \in Threads : Drain(t)
  BY <1>4 DEF Drain, lists, sleep, place, pool
<1>5. CASE UNCHANGED vars
  BY <1>5 DEF vars, lists, sleep, place, pool
<1>6. CASE \E a \in Actors : QueueTerminated(a)
  BY <1>6 DEF QueueTerminated
<1>7. ASSUME NEW a \in Actors, \/ Queueing(a) \/ \E p \in Priorities : Queue(a, p)
                               \/ a \in Threads /\ Thread(a)
      PROVE  ~terminated
  BY <1>7 DEF Queueing, Thread, Queue, Try, Chain, Signal, Wakeup, Poll, Exit, Fetch, Take, PutBack,
     Return, EndTask, Delay, Lock, Look, Wait, Wake, Unlock
<1> QED BY <1>2, <1>3, <1>4, <1>5, <1>6, <1>7, Ids DEF Next

LEMMA WorkNext ==
  ASSUME Notifiable, IInv, WorkInv, [Next]_vars
  PROVE  WorkInv'
<1> SUFFICES ASSUME ~terminated'
             PROVE  /\ unseen' # {} => StoreBuffer
                    /\ \A a \in Actors : Rightful(a)'
                    /\ \A s \in Slots : task_heads'[s] # <<>> => /\ Priority(s) \in Priorities
                                                                 /\ Appended' = {} => Attended(s)'
  BY DEF WorkInv
<1>1. ~terminated /\ (unseen # {} => StoreBuffer) /\ Righted
  BY BeforeTerminate DEF WorkInv, Righted
<1>2. unseen' # {} => StoreBuffer
  BY <1>1, DelayedOnly
<1>3. Appended' = Appended
  <2>1. internal_thread_count' = internal_thread_count
    BY DEF Next, vars, pool, Queueing, Thread, Join, QueueTerminated, Queue, Try, Chain, Signal,
       Wakeup,
       Poll, Exit, Fetch, Take, PutBack, Return, EndTask, Delay, Lock, Drain, Look, Wait, Wake,
              Unlock,
       Terminate, WakeupAll, JoinThreads, RunLeftover, CleanupHead, CleanupEnds, QueueJoined
  <2> QED BY <2>1 DEF Appended
<1>4. Righted' /\ \A s \in Slots : task_heads'[s] # <<>> /\ Appended = {} => Attended(s)'
  <2>1. CASE UNCHANGED <<task_heads, pc, at, notified, internal_thread_count>>
    BY <1>1, <2>1 DEF Righted, Rightful, Queues, WorkInv, Attended, Minds, Notifies
  <2>2. ASSUME NEW a \in Actors, \/ Queueing(a) \/ \E p \in Priorities : Queue(a, p)
                                 \/ a \in Threads /\ Thread(a)
        PROVE  Righted' /\ \A s \in Slots : task_heads'[s] # <<>> /\ Appended = {} => Attended(s)'
    <3>1. Righted'
      BY <1>1, <2>2, RightedNext
    <3>2. ASSUME NEW s \in Slots, task_heads'[s] # <<>>, Appended = {} PROVE Attended(s)'
      <4>1. task_heads[s] # <<>> => Attended(s)
        BY <1>1, <3>2 DEF WorkInv
      <4> QED BY <1>1, <2>2, <3>2, <4>1, AttendedNext
    <3> QED BY <3>1, <3>2
  <2> QED BY <2>1, <2>2, BeforeTerminate
<1> QED BY <1>2, <1>3, <1>4 DEF Righted

(* The threads do not all sleep while there is a task, for any number of them   *)
(* without appended ones, if a task of each priority in use finds more waiting  *)
(* threads than its priority and limit_count leave asleep once all wait.        *)
THEOREM NeverSleepsOverWork == ASSUME Notifiable PROVE Spec => []NoSleepOverWork
<1>1. IInv /\ WorkInv => NoSleepOverWork
  <2> SUFFICES ASSUME IInv, WorkInv, AllAsleep, Appended = {}, NEW s \in Slots, task_heads[s] # <<>>
               PROVE  FALSE
    BY DEF NoSleepOverWork
  <2>1. pc[Main] = "client" /\ \A t \in Threads : pc[t] = "asleep"
    BY Ids DEF AllAsleep, IInv, PlaceInv, PlaceOk, MainPlaces, Queues
  <2>2. ~terminated
    BY <2>1 DEF IInv, JoinInv
  <2>3. Attended(s)
    BY <2>2 DEF WorkInv
  <2> QED BY <2>1, <2>3, Ids DEF Attended, Minds, Notifies, AllAsleep
<1>2. IInv /\ WorkInv /\ [Next]_vars => WorkInv'
  BY WorkNext
<1> QED BY <1>1, <1>2, WorkInit, Inductive, PTL DEF Spec
=============================================================================
