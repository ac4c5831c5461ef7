--------------------------- MODULE Dispatcher_proofs ---------------------------
(***************************************************************************)
(* Proofs about module Dispatcher, for any number of routines,             *)
(* dependencies, rounds, suspensions and exceptions.                       *)
(***************************************************************************)
EXTENDS Dispatcher, FiniteSetTheorems, WellFoundedInduction, TLAPS

(* What takes the place of induction: a set of numbers has a least one, and a bounded one *)
(* has a greatest.                                                                        *)
LEMMA Least == ASSUME NEW T, T \subseteq Nat, T # {} PROVE \E m \in T : \A n \in T : m <= n
<1>1. PICK R : R = {ss \in Nat \X Nat : ss[1] < ss[2]}
  OBVIOUS
<1>2. IsWellFoundedOn(R, Nat)
  BY <1>1, NatLessThanWellFounded, Zenon DEF OpToRel
<1>3. PICK m \in T : \A n \in T : ~ (<<n, m>> \in R)
  BY <1>2, WFMin
<1>4. ASSUME NEW n \in T PROVE m <= n
  <2>1. m \in Nat /\ n \in Nat /\ <<n, m>> \notin R
    BY <1>3
  <2>2. <<n, m>> \in Nat \X Nat /\ <<n, m>>[1] = n /\ <<n, m>>[2] = m
    BY <2>1
  <2>3. ~(n < m)
    BY <1>1, <2>1, <2>2
  <2> QED BY <2>1, <2>3
<1> QED BY <1>3, <1>4

LEMMA Greatest ==
  ASSUME NEW T, T \subseteq Nat, T # {}, NEW b \in Nat, \A n \in T : n <= b
  PROVE  \E m \in T : \A n \in T : n <= m
<1>1. PICK U : U = {d \in Nat : \E n \in T : d = b - n}
  OBVIOUS
<1>2. \A n \in T : b - n \in U
  BY <1>1
<1>3. PICK d \in U : \A u \in U : d <= u
  <2>1. U \subseteq Nat /\ U # {}
    BY <1>1, <1>2
  <2> QED BY <2>1, Least
<1>4. PICK m \in T : d = b - m
  BY <1>1, <1>3
<1>5. ASSUME NEW n \in T PROVE n <= m
  <2>1. d <= b - n /\ n \in Nat /\ m \in Nat
    BY <1>2, <1>3
  <2> QED BY <1>4, <2>1
<1> QED BY <1>5

LEMMA MinIs == ASSUME NEW T, T \subseteq Nat, T # {} PROVE Min(T) \in T
<1>1. \E m \in T : \A n \in T : m <= n
  BY Least
<1> QED BY <1>1 DEF Min

-----------------------------------------------------------------------------
(* Reach: the rounds of the search, and that it ends with a closed set.                   *)

Grown(from, g) ==
  g = [k \in 0 .. MaxRoutines |-> IF k = 0 THEN from ELSE g[k - 1] \cup UNION {Next1(i) : i \in g[k - 1]}]
After(S) == S \cup UNION {Next1(i) : i \in S}

\* The recursion has a solution up to any bound, or there were a least bound without one.
LEMMA GrownExists == ASSUME NEW from PROVE \E g : Grown(from, g)
<1>0. MaxRoutines \in Nat
  BY DispatcherAssumption
<1> DEFINE Upto(n, g) == g = [k \in 0 .. n |-> IF k = 0 THEN from ELSE After(g[k - 1])]
<1>1. PICK T : T = {n \in Nat : ~ \E g : Upto(n, g)}
  OBVIOUS
<1>2. CASE T # {}
  <2>1. PICK n \in T : \A m \in T : n <= m
    BY <1>1, <1>2, Least
  <2>2. CASE n = 0
    <3>1. PICK g : g = [k \in 0 .. 0 |-> from]
      OBVIOUS
    <3>2. Upto(0, g)
      BY <3>1
    <3> QED BY <1>1, <2>1, <2>2, <3>2
  <2>3. CASE n # 0
    <3>1. n - 1 \in Nat /\ n - 1 \notin T
      <4>1. n \in Nat /\ n # 0
        BY <1>1, <2>1, <2>3
      <4>2. n - 1 \in Nat /\ ~(n <= n - 1)
        BY <4>1
      <4> QED BY <2>1, <4>2
    <3>2. PICK g : Upto(n - 1, g)
      BY <1>1, <3>1
    <3>3. PICK h : h = [k \in 0 .. n |-> IF k = n THEN After(g[n - 1]) ELSE g[k]]
      OBVIOUS
    <3>4. ASSUME NEW k \in 0 .. n PROVE h[k] = IF k = 0 THEN from ELSE After(h[k - 1])
      <4>1. CASE k = 0
        BY <1>1, <2>1, <2>3, <3>2, <3>3, <4>1
      <4>2. CASE k = n
        BY <1>1, <2>1, <2>3, <3>3, <4>2
      <4>3. CASE k # 0 /\ k # n
        <5>1. k \in 0 .. n - 1 /\ k - 1 \in 0 .. n - 1 /\ k - 1 \in 0 .. n /\ k - 1 # n /\ n \in Nat
          BY <1>1, <2>1, <4>3
        <5>2. g[k] = After(g[k - 1])
          BY <3>2, <4>3, <5>1
        <5>3. h[k] = g[k] /\ h[k - 1] = g[k - 1]
          BY <3>3, <4>3, <5>1
        <5> QED BY <4>3, <5>2, <5>3
      <4> QED BY <4>1, <4>2, <4>3
    <3>5. Upto(n, h)
      BY <3>3, <3>4
    <3> QED BY <1>1, <2>1, <3>5
  <2> QED BY <2>2, <2>3
<1>3. CASE T = {}
  <2>1. PICK g : Upto(MaxRoutines, g)
    BY <1>0, <1>1, <1>3
  <2> QED BY <2>1 DEF Grown, After
<1> QED BY <1>2, <1>3

LEMMA ReachIs == ASSUME NEW from PROVE \E g : Grown(from, g) /\ Reach(from) = g[MaxRoutines]
<1>1. PICK h : Grown(from, h)
  BY GrownExists
<1> QED BY <1>1, Zenon DEF Reach, Grown

LEMMA Grows ==
  ASSUME NEW from, NEW g, Grown(from, g), NEW k \in 0 .. MaxRoutines, k # 0
  PROVE  k - 1 \in 0 .. MaxRoutines /\ g[k] = After(g[k - 1])
<1>1. MaxRoutines \in Nat
  BY DispatcherAssumption
<1>2. k - 1 \in 0 .. MaxRoutines
  BY <1>1
<1> QED BY <1>2 DEF Grown, After

Closed(S) == \A e \in edges : e[1] \in S => e[2] \in S

LEMMA AfterIs ==
  ASSUME NEW S
  PROVE  S \subseteq After(S) /\ (After(S) = S <=> Closed(S)) /\ \A U : Closed(U) /\ S \subseteq U => After(S) \subseteq U
BY DEF After, Closed, Next1

(* What is reached is in every closed set around the start.                               *)
LEMMA ReachLeast ==
  ASSUME NEW from, NEW U, from \subseteq U, Closed(U)
  PROVE  Reach(from) \subseteq U
<1>0. MaxRoutines \in Nat
  BY DispatcherAssumption
<1>1. PICK g : Grown(from, g) /\ Reach(from) = g[MaxRoutines]
  BY ReachIs
<1>2. PICK T : T = {k \in 0 .. MaxRoutines : ~(g[k] \subseteq U)}
  OBVIOUS
<1>3. CASE T # {}
  <2>1. PICK k \in T : \A m \in T : k <= m
    BY <1>2, <1>3, Least
  <2>2. CASE k = 0
    <3>1. g[0] = from
      BY <1>0, <1>1 DEF Grown
    <3> QED BY <1>2, <2>1, <2>2, <3>1
  <2>3. CASE k # 0
    <3>1. k \in 0 .. MaxRoutines
      BY <1>2
    <3>2. k - 1 \in 0 .. MaxRoutines /\ g[k] = After(g[k - 1])
      BY <1>1, <2>3, <3>1, Grows
    <3>3. k - 1 \notin T
      BY <1>0, <2>1, <3>1
    <3>4. g[k - 1] \subseteq U
      BY <1>2, <3>2, <3>3
    <3>5. g[k] \subseteq U
      BY <3>2, <3>4, AfterIs
    <3> QED BY <1>2, <2>1, <3>5
  <2> QED BY <2>2, <2>3
<1>4. CASE T = {}
  BY <1>0, <1>1, <1>2, <1>4
<1> QED BY <1>3, <1>4

(* It holds the start.                                                                    *)
LEMMA ReachStarts == ASSUME NEW from PROVE from \subseteq Reach(from)
<1>0. MaxRoutines \in Nat
  BY DispatcherAssumption
<1>1. PICK g : Grown(from, g) /\ Reach(from) = g[MaxRoutines]
  BY ReachIs
<1>2. PICK T : T = {k \in 0 .. MaxRoutines : ~(from \subseteq g[k])}
  OBVIOUS
<1>3. CASE T # {}
  <2>1. PICK k \in T : \A m \in T : k <= m
    BY <1>2, <1>3, Least
  <2>2. CASE k = 0
    <3>1. g[0] = from
      BY <1>0, <1>1 DEF Grown
    <3> QED BY <1>2, <2>1, <2>2, <3>1
  <2>3. CASE k # 0
    <3>1. k \in 0 .. MaxRoutines
      BY <1>2
    <3>2. k - 1 \in 0 .. MaxRoutines /\ g[k] = After(g[k - 1])
      BY <1>1, <2>3, <3>1, Grows
    <3>3. k - 1 \notin T
      BY <1>0, <2>1, <3>1
    <3>4. from \subseteq g[k - 1]
      BY <1>2, <3>2, <3>3
    <3>5. from \subseteq g[k]
      BY <3>2, <3>4, AfterIs
    <3> QED BY <1>2, <2>1, <3>5
  <2> QED BY <2>2, <2>3
<1>4. CASE T = {}
  BY <1>0, <1>1, <1>2, <1>4
<1> QED BY <1>3, <1>4

(* And it is closed: each round adds a routine until one adds none, and there are no more  *)
(* routines than rounds.                                                                  *)
LEMMA ReachClosed ==
  ASSUME GraphInv, NEW from \in SUBSET routines
  PROVE  Closed(Reach(from)) /\ Reach(from) \subseteq routines
<1>0. MaxRoutines \in Nat
  BY DispatcherAssumption
<1>1. PICK g : Grown(from, g) /\ Reach(from) = g[MaxRoutines]
  BY ReachIs
<1>2. IsFiniteSet(Ids) /\ Cardinality(Ids) = MaxRoutines
  <2>1. 1 \in Int /\ MaxRoutines \in Int
    BY <1>0
  <2>2. IsFiniteSet(1 .. MaxRoutines) /\ Cardinality(1 .. MaxRoutines) = IF 1 > MaxRoutines THEN 0 ELSE MaxRoutines - 1 + 1
    BY <2>1, FS_Interval
  <2> QED BY <1>0, <2>2 DEF Ids
<1>3. ASSUME NEW k \in 0 .. MaxRoutines PROVE g[k] \subseteq routines
  <2>1. PICK T : T = {m \in 0 .. MaxRoutines : ~(g[m] \subseteq routines)}
    OBVIOUS
  <2>2. CASE T # {}
    <3>1. PICK m \in T : \A n \in T : m <= n
      BY <2>1, <2>2, Least
    <3>2. CASE m = 0
      <4>1. g[0] = from
        BY <1>0, <1>1 DEF Grown
      <4> QED BY <2>1, <3>1, <3>2, <4>1
    <3>3. CASE m # 0
      <4>1. m \in 0 .. MaxRoutines
        BY <2>1
      <4>2. m - 1 \in 0 .. MaxRoutines /\ g[m] = After(g[m - 1])
        BY <1>1, <3>3, <4>1, Grows
      <4>3. m - 1 \notin T
        BY <1>0, <3>1, <4>1
      <4>4. g[m - 1] \subseteq routines
        BY <2>1, <4>2, <4>3
      <4>5. Closed(routines)
        BY DEF GraphInv, Closed
      <4>6. g[m] \subseteq routines
        BY <4>2, <4>4, <4>5, AfterIs
      <4> QED BY <2>1, <3>1, <4>6
    <3> QED BY <3>2, <3>3
  <2> QED BY <2>1, <2>2
<1>4. ASSUME NEW k \in 0 .. MaxRoutines PROVE IsFiniteSet(g[k]) /\ Cardinality(g[k]) \in Nat /\ Cardinality(g[k]) <= MaxRoutines
  <2>1. g[k] \in SUBSET Ids
    BY <1>3 DEF GraphInv
  <2>2. IsFiniteSet(g[k]) /\ Cardinality(g[k]) <= Cardinality(Ids)
    BY <1>2, <2>1, FS_Subset
  <2>3. Cardinality(g[k]) \in Nat
    BY <2>2, FS_CardinalityType
  <2> QED BY <1>2, <2>2, <2>3
<1>5. Reach(from) \subseteq routines
  BY <1>0, <1>1, <1>3
<1>6. CASE Closed(Reach(from))
  BY <1>5, <1>6
<1>7. CASE ~Closed(Reach(from))
\* Then no round before was the last, and round k has more than k routines.
  <2>1. ASSUME NEW k \in 0 .. MaxRoutines PROVE ~Closed(g[k])
    <3>1. PICK T : T = {d \in Nat : d <= MaxRoutines /\ Closed(g[MaxRoutines - d])}
      OBVIOUS
    <3>2. CASE T # {}
      <4>1. PICK d \in T : \A n \in T : d <= n
        BY <3>1, <3>2, Least
      <4>2. d # 0
        BY <1>0, <1>1, <1>7, <3>1, <4>1
      <4>3. PICK m : m = MaxRoutines - d /\ m \in 0 .. MaxRoutines /\ m + 1 \in 0 .. MaxRoutines /\ m + 1 = MaxRoutines - (d - 1)
        BY <1>0, <3>1, <4>2
      <4>4. Closed(g[m])
        BY <3>1, <4>3
      <4>5. (m + 1) - 1 = m /\ m + 1 # 0
        BY <1>0, <4>3
      <4>6. g[m + 1] = After(g[m])
        BY <1>1, <4>3, <4>5, Grows
      <4>7. Closed(g[m + 1])
        BY <4>4, <4>6, AfterIs
      <4>8. d - 1 \in T
        BY <1>0, <3>1, <4>2, <4>3, <4>7
      <4> QED BY <3>1, <4>1, <4>8
    <3>3. CASE T = {}
      <4>1. MaxRoutines - k \in Nat /\ MaxRoutines - k <= MaxRoutines /\ MaxRoutines - (MaxRoutines - k) = k
        BY <1>0
      <4> QED BY <3>1, <3>3, <4>1
    <3> QED BY <3>2, <3>3
  <2>2. ASSUME NEW k \in 0 .. MaxRoutines PROVE Cardinality(g[k]) > k
    <3>1. PICK T : T = {m \in 0 .. MaxRoutines : ~(Cardinality(g[m]) > m)}
      OBVIOUS
    <3>2. CASE T # {}
      <4>1. PICK m \in T : \A n \in T : m <= n
        BY <3>1, <3>2, Least
      <4>2. m \in 0 .. MaxRoutines /\ ~Closed(g[m]) /\ IsFiniteSet(g[m]) /\ Cardinality(g[m]) \in Nat
        BY <1>4, <2>1, <3>1
      <4>3. CASE m = 0
        <5>1. g[m] # {}
          BY <4>2 DEF Closed
        <5>2. Cardinality(g[m]) # 0
          BY <4>2, <5>1, FS_EmptySet
        <5> QED BY <3>1, <4>1, <4>2, <4>3, <5>2
      <4>4. CASE m # 0
        <5>1. m - 1 \in 0 .. MaxRoutines /\ g[m] = After(g[m - 1])
          BY <1>1, <4>2, <4>4, Grows
        <5>2. m - 1 \notin T
          BY <1>0, <4>1, <4>2
        <5>3. Cardinality(g[m - 1]) > m - 1 /\ ~Closed(g[m - 1]) /\ Cardinality(g[m - 1]) \in Nat
          BY <1>4, <2>1, <3>1, <5>1, <5>2
        <5>4. g[m - 1] \subseteq g[m] /\ g[m - 1] # g[m]
          BY <5>1, <5>3, AfterIs
        <5>5. g[m - 1] \in SUBSET g[m]
          BY <5>4
        <5>6. Cardinality(g[m - 1]) <= Cardinality(g[m]) /\ Cardinality(g[m - 1]) # Cardinality(g[m])
          BY <4>2, <5>4, <5>5, FS_Subset
        <5>7. PICK x, y : x = Cardinality(g[m - 1]) /\ y = Cardinality(g[m]) /\ x \in Nat /\ y \in Nat
          BY <4>2, <5>3
        <5>8. y > m
          BY <1>0, <4>2, <5>3, <5>6, <5>7
        <5> QED BY <3>1, <4>1, <5>7, <5>8
      <4> QED BY <4>3, <4>4
    <3> QED BY <3>1, <3>2
  <2>3. MaxRoutines \in 0 .. MaxRoutines
    BY <1>0
  <2>4. Cardinality(g[MaxRoutines]) > MaxRoutines /\ Cardinality(g[MaxRoutines]) <= MaxRoutines /\ Cardinality(g[MaxRoutines]) \in Nat
    BY <1>4, <2>2, <2>3
  <2> QED BY <1>0, <2>4
<1> QED BY <1>6, <1>7

LEMMA IdsFinite == IsFiniteSet(Ids) /\ Cardinality(Ids) = MaxRoutines
<1>0. MaxRoutines \in Nat
  BY DispatcherAssumption
<1>1. 1 \in Int /\ MaxRoutines \in Int
  BY <1>0
<1>2. IsFiniteSet(1 .. MaxRoutines) /\ Cardinality(1 .. MaxRoutines) = IF 1 > MaxRoutines THEN 0 ELSE MaxRoutines - 1 + 1
  BY <1>1, FS_Interval
<1> QED BY <1>0, <1>2 DEF Ids

LEMMA ReachFinite ==
  ASSUME GraphInv, NEW i \in routines
  PROVE  /\ i \in Reach({i}) /\ Closed(Reach({i})) /\ Reach({i}) \subseteq routines
         /\ IsFiniteSet(Reach({i})) /\ Cardinality(Reach({i})) \in Nat /\ Cardinality(Reach({i})) <= MaxRoutines
<1>1. i \in Reach({i}) /\ Closed(Reach({i})) /\ Reach({i}) \subseteq routines
  BY ReachStarts, ReachClosed
<1>2. Reach({i}) \in SUBSET Ids
  BY <1>1 DEF GraphInv
<1>3. IsFiniteSet(Reach({i})) /\ Cardinality(Reach({i})) <= MaxRoutines
  BY <1>2, IdsFinite, FS_Subset
<1>4. Cardinality(Reach({i})) \in Nat
  BY <1>3, FS_CardinalityType
<1> QED BY <1>1, <1>3, <1>4

(* If a routine is left out by validate(), so is one that it waits for, and this one leads *)
(* to more routines than the first, if there is no circle.                                *)
LEMMA AcyclicIs == ASSUME GraphInv PROVE AcyclicIsValid
<1>1. SUFFICES ASSUME Acyclic PROVE validate
  BY DEF AcyclicIsValid
<1>2. PICK roots : roots = {i \in routines : Locks(i) = 0}
  OBVIOUS
<1>3. PICK R : R = Reach(roots)
  OBVIOUS
<1>4. roots \subseteq R /\ Closed(R)
  <2>1. roots \in SUBSET routines
    BY <1>2
  <2> QED BY <1>3, <2>1, ReachStarts, ReachClosed
<1>5. PICK B : B = routines \ R
  OBVIOUS
<1>6. ASSUME NEW b \in B PROVE \E p \in B : <<p, b>> \in edges
  <2>1. Locks(b) # 0
    BY <1>2, <1>4, <1>5
  <2>2. {e \in edges : e[2] = b} # {}
    BY <2>1, FS_EmptySet DEF Locks
  <2>3. PICK e \in edges : e[2] = b
    BY <2>2
  <2>4. e[1] \in routines /\ e = <<e[1], b>>
    BY <2>3 DEF GraphInv
  <2>5. e[1] \notin R
    BY <1>4, <1>5, <2>3 DEF Closed
  <2> QED BY <1>5, <2>4, <2>5
<1>7. CASE B # {}
  <2>1. PICK T : T = {n \in Nat : \E b \in B : n = Cardinality(Reach({b}))}
    OBVIOUS
  <2>2. \A b \in B : Cardinality(Reach({b})) \in T /\ Cardinality(Reach({b})) <= MaxRoutines
    BY <1>5, <2>1, ReachFinite
  <2>3. T \subseteq Nat /\ T # {} /\ \A n \in T : n <= MaxRoutines
    BY <1>7, <2>1, <2>2
  <2>4. MaxRoutines \in Nat
    BY DispatcherAssumption
  <2>5. PICK m \in T : \A n \in T : n <= m
    BY <2>3, <2>4, Greatest
  <2>6. PICK b \in B : m = Cardinality(Reach({b}))
    BY <2>1, <2>5
  <2>7. PICK p \in B : <<p, b>> \in edges
    BY <1>6
  <2>8. b \in routines /\ p \in routines
    BY <1>5
  <2>9. p \notin Reach({b})
    <3>1. b \in Next1(p)
      <4>1. <<p, b>>[1] = p /\ <<p, b>>[2] = b
        OBVIOUS
      <4> QED BY <2>7, <4>1 DEF Next1
    <3> QED BY <1>1, <2>8, <3>1 DEF Acyclic
  <2>10. Reach({b}) \subseteq Reach({p})
    <3>1. p \in Reach({p}) /\ Closed(Reach({p}))
      BY <2>8, ReachFinite
    <3>2. <<p, b>>[1] = p /\ <<p, b>>[2] = b
      OBVIOUS
    <3>3. {b} \subseteq Reach({p})
      BY <2>7, <3>1, <3>2 DEF Closed
    <3> QED BY <3>1, <3>3, ReachLeast
  <2>11. p \in Reach({p}) /\ IsFiniteSet(Reach({p}))
    BY <2>8, ReachFinite
  <2>12. Cardinality(Reach({b})) <= Cardinality(Reach({p})) /\ Cardinality(Reach({b})) # Cardinality(Reach({p}))
    <3>1. Reach({b}) \in SUBSET Reach({p}) /\ Reach({b}) # Reach({p})
      BY <2>9, <2>10, <2>11
    <3> QED BY <2>11, <3>1, FS_Subset
  <2>13. PICK x : x = Cardinality(Reach({p})) /\ x \in T
    BY <2>2
  <2> QED BY <2>3, <2>5, <2>6, <2>12, <2>13
<1>8. CASE B = {}
  BY <1>2, <1>3, <1>5, <1>8 DEF validate
<1> QED BY <1>7, <1>8

-----------------------------------------------------------------------------
(* The graph has no circle, whoever adds to it.                                           *)

LEMMA QueueRoutineGraph == ASSUME GraphInv, NEW j \in BOOLEAN, queue_routine(j) PROVE GraphInv'
<1>0. MaxRoutines \in Nat
  BY DispatcherAssumption
<1>1. Cardinality(routines) \in Nat /\ Cardinality(routines) < MaxRoutines
  <2>1. routines \in SUBSET Ids
    BY DEF GraphInv
  <2>2. IsFiniteSet(routines)
    BY <2>1, IdsFinite, FS_Subset
  <2> QED BY <2>2, FS_CardinalityType DEF queue_routine
<1>2. PICK id : id = Cardinality(routines) + 1 /\ id \in Ids
  BY <1>0, <1>1 DEF Ids
<1>3. routines' = routines \cup {id} /\ junctions' \subseteq junctions \cup {id} /\ edges' = edges /\ junctions \subseteq junctions'
  BY <1>2 DEF queue_routine
<1>4. id \in junctions' => id \in routines'
  BY <1>3
<1>5. ASSUME ~Cyclic, NEW B \in SUBSET routines', B # {}
      PROVE  \E b \in B : \A e \in edges' : e[2] = b => e[1] \notin B
  <2>1. CASE B \subseteq routines
    BY <1>3, <1>5, <2>1 DEF GraphInv, NoCircle
  <2>2. CASE ~(B \subseteq routines)
    <3>1. id \in B /\ id \notin routines
      BY <1>3, <2>2
    <3>2. \A e \in edges : e[2] # id
      BY <3>1 DEF GraphInv
    <3> QED BY <1>3, <3>1, <3>2
  <2> QED BY <2>1, <2>2
<1> QED BY <1>2, <1>3, <1>5 DEF GraphInv, NoCircle

LEMMA OrderGraph == ASSUME GraphInv, NEW from, NEW to, order(from, to) PROVE GraphInv'
<1>1. /\ from \in routines /\ to \in routines /\ from # to /\ (Cyclic \/ from \notin Reach({to}))
      /\ edges' = edges \cup {<<from, to>>} /\ routines' = routines /\ junctions' = junctions
  BY DEF order
<1>2. PICK R : R = Reach({to}) /\ to \in R /\ Closed(R)
  BY <1>1, ReachFinite
<1>3. <<from, to>>[1] = from /\ <<from, to>>[2] = to
  OBVIOUS
<1>4. ASSUME ~Cyclic, NEW B \in SUBSET routines', B # {}
      PROVE  \E b \in B : \A e \in edges' : e[2] = b => e[1] \notin B
  <2>1. from \notin R /\ NoCircle(routines)
    BY <1>1, <1>2, <1>4 DEF GraphInv
  <2>2. PICK C : C = B \ R
    OBVIOUS
  <2>3. CASE C # {}
    <3>1. PICK b \in C : \A e \in edges : e[2] = b => e[1] \notin C
      BY <1>1, <1>4, <2>1, <2>2, <2>3 DEF NoCircle
    <3>2. ASSUME NEW e \in edges', e[2] = b PROVE e[1] \notin B
      <4>1. e \in edges
        BY <1>1, <1>2, <1>3, <2>2, <3>2
      <4>2. e[1] \notin R
        BY <1>2, <2>2, <3>2, <4>1 DEF Closed
      <4> QED BY <2>2, <3>1, <3>2, <4>1, <4>2
    <3> QED BY <2>2, <3>2
  <2>4. CASE C = {}
    <3>1. from \notin B
      BY <2>1, <2>2, <2>4
    <3>2. PICK b \in B : \A e \in edges : e[2] = b => e[1] \notin B
      BY <1>1, <1>4, <2>1 DEF NoCircle
    <3> QED BY <1>1, <1>3, <3>1, <3>2
  <2> QED BY <2>3, <2>4
<1>5. ASSUME NEW e \in edges' PROVE e[1] # e[2] /\ e \in routines \X routines
  BY <1>1, <1>3, <1>5 DEF GraphInv
<1> QED BY <1>1, <1>4, <1>5 DEF GraphInv, NoCircle

\* Nothing else changes the graph.
Working == flush \/ Rescue \/ (\E a \in Actors : Actor(a) \/ Throw(a))
           \/ (\E i \in Ids : Routine(i) \/ suspend(i)) \/ (\E k \in Resumers : resume(k))

LEMMA NextIs == Next <=> Building \/ Working
BY Zenon DEF Next, Working

LEMMA WorkingGraph == ASSUME Working PROVE UNCHANGED graph
<1>1. CASE flush
  BY <1>1 DEF flush
<1>2. CASE Rescue
  BY <1>2 DEF Rescue, resurrect, Look, ClearMark, FinishLook
<1>3. ASSUME NEW a \in Actors, Actor(a) \/ Throw(a) PROVE UNCHANGED graph
  BY <1>3 DEF Actor, Unlock, Add, Queue, FinishUnlock, finalize, completion, unfinish_complete, Unwind, Throw
<1>4. ASSUME NEW i \in Ids, Routine(i) \/ suspend(i) PROVE UNCHANGED graph
  BY <1>4 DEF Routine, Call, complete, suspend
<1>5. ASSUME NEW k \in Resumers, resume(k) PROVE UNCHANGED graph
  BY <1>5 DEF resume
<1> QED BY <1>1, <1>2, <1>3, <1>4, <1>5 DEF Working

LEMMA GraphKeeps == ASSUME GraphInv, [Next]_vars PROVE GraphInv'
<1>1. CASE UNCHANGED graph
  BY <1>1 DEF graph, GraphInv, NoCircle
<1>2. CASE Building
  <2>1. ASSUME NEW j \in {FALSE} \cup {Junctions}, queue_routine(j) PROVE GraphInv'
    BY <2>1, DispatcherAssumption, QueueRoutineGraph
  <2>2. ASSUME NEW f \in Ids, NEW t \in Ids, order(f, t) PROVE GraphInv'
    BY <2>2, OrderGraph
  <2> QED BY <1>2, <2>1, <2>2 DEF Building
<1>3. CASE Working
  BY <1>1, <1>3, WorkingGraph
<1>4. CASE UNCHANGED vars
  BY <1>1, <1>4 DEF vars
<1> QED BY <1>2, <1>3, <1>4, NextIs

LEMMA GraphAtFirst == ASSUME Init PROVE GraphInv
BY DEF Init, GraphInv, NoCircle

THEOREM GraphAlways == Spec => []GraphInv
<1>1. Init => GraphInv
  BY GraphAtFirst
<1>2. GraphInv /\ [Next]_vars => GraphInv'
  BY GraphKeeps
<1> QED BY <1>1, <1>2, PTL DEF Spec

(* assert(validate()) of flush() never stops a graph without circles, in any state.       *)
THEOREM AcyclicPasses == Spec => []AcyclicIsValid
<1>1. GraphInv => AcyclicIsValid
  BY AcyclicIs
<1> QED BY <1>1, GraphAlways, PTL

-----------------------------------------------------------------------------
(* The invariant of a dispatcher whose resume() does not throw, and how a step that moves *)
(* one actor only changes what it is about.                                               *)

Inv   == GraphInv /\ TypeInv /\ PlaceInv /\ LockInv /\ MarkInv /\ CountInv /\ DoneInv
Doing == [pc : Pcs, todo : SUBSET routines, at : Int]

LEMMA Apart ==
  /\ IsFiniteSet(Actors) /\ Ids \subseteq Actors /\ Main \in Actors /\ Rescuer \in Actors
  /\ Main \notin Ids /\ Rescuer \notin Ids /\ Main # Rescuer
  /\ \A k \in Resumers : k \in Actors /\ k \notin Ids /\ k # Main /\ k # Rescuer
<1>0. MaxRoutines \in Nat /\ MaxSuspends \in Nat
  BY DispatcherAssumption
<1>1. IsFiniteSet(Resumers)
  <2>1. PICK lo : lo = 0 - MaxSuspends /\ lo \in Int
    BY <1>0
  <2>2. IsFiniteSet(lo .. 0)
    BY <2>1, FS_Interval
  <2>3. Resumers \in SUBSET (lo .. 0)
    BY <1>0, <2>1 DEF Resumers
  <2> QED BY <2>2, <2>3, FS_Subset
<1>2. IsFiniteSet(Ids)
  BY IdsFinite
<1>3. IsFiniteSet({Main, Rescuer})
  <2>1. IsFiniteSet({Main}) /\ IsFiniteSet({Rescuer})
    BY FS_Singleton
  <2>2. IsFiniteSet({Main} \cup {Rescuer})
    BY <2>1, FS_Union
  <2>3. {Main} \cup {Rescuer} = {Main, Rescuer}
    OBVIOUS
  <2> QED BY <2>2, <2>3
<1>4. IsFiniteSet(Actors)
  <2>1. IsFiniteSet(Ids \cup Resumers)
    BY <1>1, <1>2, FS_Union
  <2>2. IsFiniteSet((Ids \cup Resumers) \cup {Main, Rescuer})
    BY <1>3, <2>1, FS_Union
  <2> QED BY <2>2 DEF Actors
<1>5. Main \notin Ids /\ Rescuer \notin Ids /\ Main # Rescuer /\ \A k \in Resumers : k \notin Ids /\ k # Main /\ k # Rescuer
  BY <1>0 DEF Ids, Main, Rescuer, Resumers
<1> QED BY <1>4, <1>5 DEF Actors

LEMMA Kinds ==
  ASSUME NEW a \in Actors, NEW x, x.pc \in PcsOf(a)
  PROVE  /\ x.pc \in Pcs
         /\ x.pc \in {"queued", "call", "unfinish"} => a \in Ids
         /\ x.pc \in {"look", "clear"} => a = Rescuer
         /\ x.pc \in {"unlock", "hold"} => a # Rescuer
         /\ x.pc = "hold" => a \in Resumers
<1>1. CASE a = Main
  BY <1>1, Apart DEF PcsOf, Pcs
<1>2. CASE a = Rescuer
  BY <1>2, Apart DEF PcsOf, Pcs
<1>3. CASE a \in Ids
  BY <1>3, Apart DEF PcsOf, Pcs
<1>4. CASE a \in Resumers
  BY <1>4, Apart DEF PcsOf, Pcs
<1> QED BY <1>1, <1>2, <1>3, <1>4 DEF Actors

LEMMA PlaceIs ==
  ASSUME GraphInv, TypeInv, PlaceInv, NEW a \in Actors
  PROVE  /\ act[a] \in Doing /\ act[a].pc \in Pcs /\ act[a].todo \subseteq routines
         /\ PlaceOk(a, act[a], ran[a], suspends)
         /\ act[a].pc \in {"queued", "call", "unfinish"} => a \in Ids
         /\ act[a].pc \in {"look", "clear"} => a = Rescuer
         /\ act[a].pc \in {"unlock", "hold"} => a # Rescuer
         /\ act[a].pc = "hold" => a \in Resumers
<1>1. act[a] \in Doing
  BY DEF TypeInv, Doing
<1>2. PlaceOk(a, act[a], ran[a], suspends)
  BY DEF PlaceInv
<1>3. act[a].pc \in PcsOf(a)
  BY <1>2 DEF PlaceOk
<1>4. act[a].pc \in Pcs /\ act[a].todo \subseteq routines
  BY <1>1 DEF Doing
<1> QED BY <1>1, <1>2, <1>3, <1>4, Kinds

(* Everything but actor a stays as it is, so far as the invariant looks at it.            *)
Only(a) ==
  /\ UNCHANGED <<routines, junctions, edges, round>>
  /\ \A b \in Actors \ {a} : act'[b] = act[b] /\ (b \in Ids => ran'[b] = ran[b])
  /\ suspends \in Nat /\ suspends' \in Nat /\ suspends <= suspends'

Like(b, n) ==
  /\ Owes(b, act[b], ran[b], n)' <=> Owes(b, act[b], ran[b], n)
  /\ Hands(act[b], n)' <=> Hands(act[b], n)
  /\ Clears(act[b], n)' <=> Clears(act[b], n)

LEMMA OthersLike ==
  ASSUME GraphInv, UNCHANGED <<routines, junctions, edges>>, NEW b \in Actors,
         act'[b] = act[b], b \in Ids => ran'[b] = ran[b]
  PROVE  /\ \A n : Like(b, n)
         /\ Counted(b, act[b], ran[b])' <=> Counted(b, act[b], ran[b])
         /\ (suspends \in Nat /\ suspends' \in Nat /\ suspends <= suspends' /\ PlaceOk(b, act[b], ran[b], suspends))
              => PlaceOk(b, act[b], ran[b], suspends)'
<1>1. ASSUME NEW n PROVE Like(b, n)
  <2>1. CASE b \in Ids
    BY <2>1 DEF Like, Owes, Hands, Clears
  <2>2. CASE b \notin Ids
    <3>1. <<b, n>> \notin edges
      BY <2>2 DEF GraphInv
    <3> QED BY <3>1 DEF Like, Owes, Hands, Clears
  <2> QED BY <2>1, <2>2
<1>2. Counted(b, act[b], ran[b])' <=> Counted(b, act[b], ran[b])
  <2>1. CASE b \in Ids
    BY <2>1 DEF Counted
  <2>2. CASE b \notin Ids
    BY <2>2 DEF Counted, GraphInv
  <2> QED BY <2>1, <2>2
<1>3. ASSUME suspends \in Nat, suspends' \in Nat, suspends <= suspends', PlaceOk(b, act[b], ran[b], suspends)
      PROVE  PlaceOk(b, act[b], ran[b], suspends)'
  <2>1. b \in Resumers => -b \in Int
    BY DispatcherAssumption DEF Resumers
  <2>2. Next1(b)' = Next1(b)
    BY DEF Next1
  <2>3. CASE b \in Ids
    BY <1>3, <2>1, <2>2, <2>3 DEF PlaceOk
  <2>4. CASE b \notin Ids
    BY <1>3, <2>1, <2>2, <2>4 DEF PlaceOk
  <2> QED BY <2>3, <2>4
<1> QED BY <1>1, <1>2, <1>3

LEMMA SetsLike ==
  ASSUME NEW n, NEW a \in Actors, \A b \in Actors \ {a} : Like(b, n)
  PROVE  /\ Waits(n)' = IF Owes(a, act[a], ran[a], n)' THEN Waits(n) \cup {a} ELSE Waits(n) \ {a}
         /\ Dispatchers(n)' = IF Hands(act[a], n)' THEN Dispatchers(n) \cup {a} ELSE Dispatchers(n) \ {a}
         /\ Clearers(n)' = IF Clears(act[a], n)' THEN Clearers(n) \cup {a} ELSE Clearers(n) \ {a}
BY DEF Like, Waits, Dispatchers, Clearers

LEMMA StageStays ==
  ASSUME NEW n, \A b \in Actors : Like(b, n), runtime'[n] = runtime[n], ran'[n] = ran[n],
         act'[n].pc = act[n].pc \/ (act[n].pc \notin {"idle", "queued"} /\ act'[n].pc # "queued"),
         Stage(n)
  PROVE  Stage(n)'
<1>1. Waits(n)' = Waits(n) /\ Dispatchers(n)' = Dispatchers(n) /\ Clearers(n)' = Clearers(n)
  BY DEF Like, Waits, Dispatchers, Clearers
<1>2. PICK W, D, C, lock, r : /\ W = Waits(n) /\ D = Dispatchers(n) /\ C = Clearers(n)
                              /\ lock = runtime[n] /\ r = ran[n]
  OBVIOUS
<1>3. StageOk(W, D, C, act[n].pc, r, lock)
  BY <1>2 DEF Stage
<1>4. StageOk(W, D, C, act'[n].pc, r, lock)
  BY <1>3 DEF StageOk
<1>5. W = Waits(n)' /\ D = Dispatchers(n)' /\ C = Clearers(n)' /\ lock = runtime'[n] /\ r = ran'[n]
  BY <1>1, <1>2
<1> QED BY <1>4, <1>5 DEF Stage

(* One more or less in a set of actors.                                                   *)
Differ(S, T, a) ==
  /\ S \in SUBSET Actors /\ T \in SUBSET Actors /\ a \in Actors
  /\ \A b \in Actors \ {a} : b \in T <=> b \in S

LEMMA OneMoves ==
  ASSUME NEW S, NEW T, NEW a, Differ(S, T, a)
  PROVE  /\ IsFiniteSet(S) /\ IsFiniteSet(T) /\ Cardinality(S) \in Nat /\ Cardinality(T) \in Nat
         /\ (a \in T <=> a \in S) => T = S
         /\ (a \in S /\ a \notin T) => Cardinality(T) = Cardinality(S) - 1
         /\ (a \notin S /\ a \in T) => Cardinality(T) = Cardinality(S) + 1
         /\ a \in S => Cardinality(S) > 0
<1>1. IsFiniteSet(S) /\ IsFiniteSet(T)
  BY Apart, FS_Subset DEF Differ
<1>2. Cardinality(S) \in Nat /\ Cardinality(T) \in Nat
  BY <1>1, FS_CardinalityType
<1>3. (a \in S /\ a \notin T) => Cardinality(T) = Cardinality(S) - 1
  <2>1. (a \in S /\ a \notin T) => T = S \ {a}
    BY DEF Differ
  <2>2. Cardinality(S \ {a}) = IF a \in S THEN Cardinality(S) - 1 ELSE Cardinality(S)
    BY <1>1, FS_RemoveElement
  <2> QED BY <2>1, <2>2
<1>4. (a \notin S /\ a \in T) => Cardinality(T) = Cardinality(S) + 1
  <2>1. (a \notin S /\ a \in T) => T = S \cup {a}
    BY DEF Differ
  <2>2. Cardinality(S \cup {a}) = IF a \in S THEN Cardinality(S) ELSE Cardinality(S) + 1
    BY <1>1, FS_AddElement
  <2> QED BY <2>1, <2>2
<1>5. a \in S => Cardinality(S) > 0
  <2>1. Cardinality(S) = 0 => S = {}
    BY <1>1, FS_EmptySet
  <2> QED BY <1>2, <2>1
<1>6. (a \in T <=> a \in S) => T = S
  BY DEF Differ
<1> QED BY <1>1, <1>2, <1>3, <1>4, <1>5, <1>6

LEMMA Counts ==
  /\ Busy \in SUBSET Actors /\ Handing \in SUBSET Actors
  /\ Cardinality(Busy) \in Nat /\ Cardinality(Handing) \in Nat
  /\ \A a \in Busy : Cardinality(Busy) > 0
<1>1. Busy \in SUBSET Actors /\ Handing \in SUBSET Actors
  BY DEF Busy, Handing
<1>2. IsFiniteSet(Busy) /\ IsFiniteSet(Handing)
  BY <1>1, Apart, FS_Subset
<1>3. Cardinality(Busy) \in Nat /\ Cardinality(Handing) \in Nat
  BY <1>2, FS_CardinalityType
<1>4. Cardinality(Busy) = 0 => Busy = {}
  BY <1>2, FS_EmptySet
<1> QED BY <1>1, <1>3, <1>4

(* What the invariant says when an actor is at work.                                      *)
Live ==
  /\ Running /\ round # 0 /\ \A n \in routines : Stage(n) /\ (runtime[n] = Unfinished => Rescued(n))
  /\ \A c \in Actors : ~PC(c, "completed")
  /\ pending_count = Cardinality(Busy) + Cardinality(Handing) + failed
  /\ pending_count \in Nat /\ pending_count > 0 /\ failed \in Nat

LEMMA LiveIs ==
  ASSUME Inv, NEW a \in Actors, act[a].pc \notin {"idle", "completed"}
  PROVE  Live /\ a \in Busy
<1>1. a \in Busy
  BY DEF Busy, Counted
<1>2. Running
  BY DEF Running, PC
<1>3. pending_count = Cardinality(Busy) + Cardinality(Handing) + failed /\ failed \in Nat /\ pending_count \in Nat
  BY DEF Inv, CountInv, TypeInv, TypeOK
<1>4. pending_count > 0
  BY <1>1, <1>3, Counts
<1>5. ASSUME NEW c \in Actors PROVE ~PC(c, "completed")
  BY <1>3, <1>4 DEF Inv, CountInv
<1>6. round # 0
  BY <1>2 DEF Inv, DoneInv
<1>7. \A n \in routines : Stage(n) /\ (runtime[n] = Unfinished => Rescued(n))
  BY <1>2 DEF Inv, LockInv, MarkInv
<1> QED BY <1>1, <1>2, <1>3, <1>4, <1>5, <1>6, <1>7 DEF Live

Becomes(a, pc, todo, at) ==
  /\ act' \in [Actors -> Doing] /\ act'[a].pc = pc /\ act'[a].todo = todo /\ act'[a].at = at
  /\ \A b \in Actors \ {a} : act'[b] = act[b]

LEMMA MovedIs ==
  ASSUME TypeInv, NEW a \in Actors, NEW pc \in Pcs, NEW todo \in SUBSET routines, NEW at \in Int,
         act' = [act EXCEPT ![a] = [pc |-> pc, todo |-> todo, at |-> at]]
  PROVE  Becomes(a, pc, todo, at)
<1>1. act \in [Actors -> Doing]
  BY DEF TypeInv, Doing
<1>2. PICK y : y = [pc |-> pc, todo |-> todo, at |-> at]
  OBVIOUS
<1>3. y \in Doing /\ y.pc = pc /\ y.todo = todo /\ y.at = at
  BY <1>2 DEF Doing
<1>4. act' = [act EXCEPT ![a] = y]
  BY <1>2
<1>5. act' \in [Actors -> Doing] /\ act'[a] = y /\ \A b \in Actors \ {a} : act'[b] = act[b]
  BY <1>1, <1>3, <1>4
<1> QED BY <1>3, <1>5 DEF Becomes

LEMMA QuietIs ==
  ASSUME TypeInv, NEW a \in Actors, NEW pc \in Pcs, act' = [act EXCEPT ![a] = [Quiet EXCEPT !.pc = pc]]
  PROVE  Becomes(a, pc, {}, 0)
<1>1. [Quiet EXCEPT !.pc = pc] = [pc |-> pc, todo |-> {}, at |-> 0]
  BY DEF Quiet
<1>2. {} \in SUBSET routines /\ 0 \in Int
  OBVIOUS
<1> QED BY <1>1, <1>2, MovedIs

LEMMA GoIs ==
  ASSUME TypeInv, NEW a \in Actors, NEW pc \in Pcs, Go(a, pc)
  PROVE  Becomes(a, pc, act[a].todo, act[a].at)
<1>1. act \in [Actors -> Doing]
  BY DEF TypeInv, Doing
<1>2. PICK x : x = act[a] /\ x \in Doing
  BY <1>1
<1>3. PICK y : y = [x EXCEPT !.pc = pc]
  OBVIOUS
<1>4. y \in Doing /\ y.pc = pc /\ y.todo = x.todo /\ y.at = x.at
  BY <1>2, <1>3 DEF Doing
<1>5. act' = [act EXCEPT ![a] = y]
  BY <1>2, <1>3 DEF Go
<1>6. act' \in [Actors -> Doing] /\ act'[a] = y /\ \A b \in Actors \ {a} : act'[b] = act[b]
  BY <1>1, <1>4, <1>5
<1> QED BY <1>2, <1>4, <1>6 DEF Becomes

LEMMA MoverLike ==
  ASSUME GraphInv, UNCHANGED <<routines, junctions, edges, ran>>,
         NEW a \in Actors, NEW pc, NEW todo, NEW at, Becomes(a, pc, todo, at),
         act[a].pc # "call", pc # "call", NEW n, a = Rescuer \/ (n \in todo <=> n \in act[a].todo),
         (pc \in {"add", "queue"} /\ at = n) <=> Hands(act[a], n),
         (pc = "clear" /\ at = n) <=> Clears(act[a], n)
  PROVE  \A b \in Actors : Like(b, n)
<1>1. ASSUME NEW b \in Actors \ {a} PROVE Like(b, n)
  <2>1. act'[b] = act[b]
    BY DEF Becomes
  <2> QED BY <2>1, OthersLike
<1>2. Like(a, n)
  <2>1. act'[a].pc = pc /\ act'[a].todo = todo /\ act'[a].at = at
    BY DEF Becomes
  <2>2. Owes(a, act[a], ran[a], n)' <=> Owes(a, act[a], ran[a], n)
    BY <2>1 DEF Owes
  <2>3. Hands(act[a], n)' <=> Hands(act[a], n)
    BY <2>1 DEF Hands
  <2>4. Clears(act[a], n)' <=> Clears(act[a], n)
    BY <2>1 DEF Clears
  <2> QED BY <2>2, <2>3, <2>4 DEF Like
<1> QED BY <1>1, <1>2

LEMMA StageKeeps ==
  ASSUME GraphInv, UNCHANGED <<routines, junctions, edges, ran>>,
         NEW a \in Actors, NEW pc, NEW todo, NEW at, Becomes(a, pc, todo, at),
         act[a].pc # "call", pc # "call", pc # "queued", act[a].pc \notin {"idle", "queued"} \/ a \notin Ids,
         NEW n \in routines, Stage(n), runtime'[n] = runtime[n], a = Rescuer \/ (n \in todo <=> n \in act[a].todo),
         (pc \in {"add", "queue"} /\ at = n) <=> Hands(act[a], n),
         (pc = "clear" /\ at = n) <=> Clears(act[a], n)
  PROVE  Stage(n)'
<1>1. \A b \in Actors : Like(b, n)
  BY MoverLike
<1>2. n \in Ids /\ n \in Actors
  BY Apart DEF GraphInv
<1>3. act'[n].pc = act[n].pc \/ (act[n].pc \notin {"idle", "queued"} /\ act'[n].pc # "queued")
  BY <1>2 DEF Becomes
<1> QED BY <1>1, <1>3, StageStays

LEMMA RescuedKeeps ==
  ASSUME NEW a \in Actors, NEW pc, NEW todo, NEW at, Becomes(a, pc, todo, at), a # Rescuer, act[a].pc # "unfinish",
         UNCHANGED failed, NEW n, Rescued(n)
  PROVE  Rescued(n)'
<1>1. act'[Rescuer] = act[Rescuer]
  BY Apart DEF Becomes
<1>2. \A c \in Actors : PC(c, "unfinish") => act'[c] = act[c]
  BY DEF Becomes, PC
<1> QED BY <1>1, <1>2 DEF Rescued, PC, Hands, Clears

LEMMA MoverCounts ==
  ASSUME GraphInv, UNCHANGED <<routines, junctions, edges>>,
         NEW a \in Actors, NEW pc, NEW todo, NEW at, Becomes(a, pc, todo, at), \A b \in Ids \ {a} : ran'[b] = ran[b]
  PROVE  /\ (Counted(a, act[a], ran[a])' <=> Counted(a, act[a], ran[a])) => Cardinality(Busy)' = Cardinality(Busy)
         /\ Counted(a, act[a], ran[a]) /\ ~Counted(a, act[a], ran[a])' => Cardinality(Busy)' = Cardinality(Busy) - 1
         /\ ~Counted(a, act[a], ran[a]) /\ Counted(a, act[a], ran[a])' => Cardinality(Busy)' = Cardinality(Busy) + 1
         /\ (pc = "queue" <=> act[a].pc = "queue") => Cardinality(Handing)' = Cardinality(Handing)
         /\ pc # "queue" /\ act[a].pc = "queue" => Cardinality(Handing)' = Cardinality(Handing) - 1
         /\ pc = "queue" /\ act[a].pc # "queue" => Cardinality(Handing)' = Cardinality(Handing) + 1
         /\ Cardinality(Busy)' \in Nat /\ Cardinality(Handing)' \in Nat
         /\ Counted(a, act[a], ran[a])' => Cardinality(Busy)' > 0
<1>1. ASSUME NEW b \in Actors \ {a}
      PROVE  (Counted(b, act[b], ran[b])' <=> Counted(b, act[b], ran[b])) /\ (PC(b, "queue")' <=> PC(b, "queue"))
  <2>1. act'[b] = act[b]
    BY DEF Becomes
  <2> QED BY <2>1, OthersLike DEF PC
<1>2. PICK S, T : S = Busy /\ T = Busy'
  OBVIOUS
<1>3. /\ S \in SUBSET Actors /\ T \in SUBSET Actors /\ \A b \in Actors \ {a} : b \in T <=> b \in S
      /\ (a \in S <=> Counted(a, act[a], ran[a])) /\ (a \in T <=> Counted(a, act[a], ran[a])')
  BY <1>1, <1>2 DEF Busy
<1>4. PICK U, V : U = Handing /\ V = Handing'
  OBVIOUS
<1>5. /\ U \in SUBSET Actors /\ V \in SUBSET Actors /\ \A b \in Actors \ {a} : b \in V <=> b \in U
      /\ (a \in U <=> act[a].pc = "queue") /\ (a \in V <=> pc = "queue")
  BY <1>1, <1>4 DEF Handing, PC, Becomes
<1>6. /\ Cardinality(T) \in Nat /\ Cardinality(S) \in Nat /\ ((a \in T <=> a \in S) => T = S)
      /\ (a \in S /\ a \notin T) => Cardinality(T) = Cardinality(S) - 1
      /\ (a \notin S /\ a \in T) => Cardinality(T) = Cardinality(S) + 1
      /\ a \in T => Cardinality(T) > 0
  <2>1. Differ(S, T, a) /\ Differ(T, S, a)
    BY <1>3 DEF Differ
  <2>2. a \in T => Cardinality(T) > 0
    BY <2>1, OneMoves
  <2>3. /\ Cardinality(T) \in Nat /\ Cardinality(S) \in Nat /\ ((a \in T <=> a \in S) => T = S)
        /\ (a \in S /\ a \notin T) => Cardinality(T) = Cardinality(S) - 1
        /\ (a \notin S /\ a \in T) => Cardinality(T) = Cardinality(S) + 1
    BY <2>1, OneMoves
  <2> QED BY <2>2, <2>3
<1>7. /\ Cardinality(V) \in Nat /\ Cardinality(U) \in Nat /\ ((a \in V <=> a \in U) => V = U)
      /\ (a \in U /\ a \notin V) => Cardinality(V) = Cardinality(U) - 1
      /\ (a \notin U /\ a \in V) => Cardinality(V) = Cardinality(U) + 1
  <2>1. Differ(U, V, a)
    BY <1>5 DEF Differ
  <2> QED BY <2>1, OneMoves
<1>8. PICK c, d, h, k : /\ c = Cardinality(S) /\ d = Cardinality(T) /\ h = Cardinality(U) /\ k = Cardinality(V)
                        /\ c = Cardinality(Busy) /\ d = Cardinality(Busy)'
                        /\ h = Cardinality(Handing) /\ k = Cardinality(Handing)'
  BY <1>2, <1>4
<1>9. /\ d \in Nat /\ ((a \in T <=> a \in S) => d = c)
      /\ (a \in S /\ a \notin T) => d = c - 1
      /\ (a \notin S /\ a \in T) => d = c + 1
      /\ a \in T => d > 0
  BY <1>6, <1>8
<1>10. /\ k \in Nat /\ ((a \in V <=> a \in U) => k = h)
       /\ (a \in U /\ a \notin V) => k = h - 1
       /\ (a \notin U /\ a \in V) => k = h + 1
  BY <1>7, <1>8
<1>11. /\ (a \in S <=> Counted(a, act[a], ran[a])) /\ (a \in T <=> Counted(a, act[a], ran[a])')
       /\ (a \in U <=> act[a].pc = "queue") /\ (a \in V <=> pc = "queue")
  BY <1>3, <1>5
<1>12. /\ (Counted(a, act[a], ran[a])' <=> Counted(a, act[a], ran[a])) => d = c
       /\ Counted(a, act[a], ran[a]) /\ ~Counted(a, act[a], ran[a])' => d = c - 1
       /\ ~Counted(a, act[a], ran[a]) /\ Counted(a, act[a], ran[a])' => d = c + 1
       /\ d \in Nat /\ (Counted(a, act[a], ran[a])' => d > 0)
  BY <1>9, <1>11
<1>13. /\ (pc = "queue" <=> act[a].pc = "queue") => k = h
       /\ pc # "queue" /\ act[a].pc = "queue" => k = h - 1
       /\ pc = "queue" /\ act[a].pc # "queue" => k = h + 1
       /\ k \in Nat
  BY <1>10, <1>11
<1> QED BY <1>8, <1>12, <1>13

LEMMA InvIs ==
  ASSUME Inv
  PROVE  /\ GraphInv /\ TypeInv /\ PlaceInv /\ LockInv /\ MarkInv /\ CountInv /\ DoneInv
         /\ suspends \in Nat /\ MaxSuspends \in Nat /\ suspends <= MaxSuspends
         /\ runtime \in [Ids -> Nat \cup {Unfinished}] /\ ran \in [Ids -> Nat]
         /\ junctions \subseteq routines /\ routines \subseteq Ids /\ edges \subseteq routines \X routines
BY DispatcherAssumption DEF Inv, GraphInv, TypeInv, TypeOK

LEMMA OthersPlace ==
  ASSUME Inv, NEW a \in Actors, NEW pc, NEW todo, NEW at, Becomes(a, pc, todo, at),
         UNCHANGED <<routines, junctions, edges>>, \A b \in Ids \ {a} : ran'[b] = ran[b],
         suspends' \in Nat, suspends <= suspends', PlaceOk(a, act[a], ran[a], suspends)'
  PROVE  PlaceInv' /\ (Live /\ pc # "completed" => \A c \in Actors : ~PC(c, "completed")')
<1>1. GraphInv /\ PlaceInv /\ suspends \in Nat
  BY InvIs
<1>2. ASSUME NEW b \in Actors \ {a} PROVE PlaceOk(b, act[b], ran[b], suspends)'
  <2>1. act'[b] = act[b] /\ PlaceOk(b, act[b], ran[b], suspends)
    BY <1>1 DEF Becomes, PlaceInv
  <2> QED BY <1>1, <2>1, OthersLike
<1>3. PlaceInv'
  BY <1>2 DEF PlaceInv
<1>4. Live /\ pc # "completed" => \A c \in Actors : ~PC(c, "completed")'
  BY DEF Live, PC, Becomes
<1> QED BY <1>3, <1>4

LEMMA Assemble ==
  ASSUME Inv, Live, UNCHANGED <<routines, junctions, edges, round>>,
         TypeInv', PlaceInv' /\ \A c \in Actors : ~PC(c, "completed")',
         \A n \in routines : Stage(n)' /\ (runtime'[n] = Unfinished => Rescued(n)'),
         pending_count' = Cardinality(Busy)' + Cardinality(Handing)' + failed', pending_count' > 0
  PROVE  Inv'
<1>1. GraphInv'
  BY InvIs DEF GraphInv, NoCircle
<1>2. LockInv' /\ MarkInv'
  BY DEF LockInv, MarkInv
<1>3. CountInv'
  BY DEF CountInv
<1>4. pending_count' # 0
  BY DEF TypeInv, TypeOK
<1>5. DoneInv'
  BY <1>4 DEF Live, DoneInv
<1> QED BY <1>1, <1>2, <1>3, <1>5 DEF Inv

LEMMA TypeKeeps ==
  ASSUME Inv, UNCHANGED <<routines, junctions, edges, round>>, act' \in [Actors -> Doing],
         runtime' \in [Ids -> Nat \cup {Unfinished}], ran' \in [Ids -> Nat], pending_count' \in Nat, failed' \in Nat,
         suspends' \in 0 .. MaxSuspends
  PROVE  TypeInv'
BY DEF Inv, TypeInv, TypeOK, Doing

LEMMA AddKeeps == ASSUME Inv, NEW a \in Actors, Add(a) PROVE Inv'
<1>1. /\ act[a].pc = "add" /\ Go(a, "queue") /\ pending_count' = pending_count + 1
      /\ UNCHANGED <<routines, junctions, edges, round, runtime, failed, suspends, ran>>
  BY DEF Add, PC, graph
<1>2. Live
  BY <1>1, LiveIs
<1>3. Becomes(a, "queue", act[a].todo, act[a].at)
  BY <1>1, InvIs, GoIs DEF Pcs
<1>4. PlaceOk(a, act[a], ran[a], suspends)
  BY InvIs, PlaceIs
<1>5. PlaceOk(a, act[a], ran[a], suspends)'
  <2>1. "queue" \in PcsOf(a)
    BY <1>1, <1>4 DEF PlaceOk, PcsOf
  <2>2. Next1(a)' = Next1(a)
    BY <1>1 DEF Next1
  <2> QED BY <1>1, <1>3, <1>4, <2>1, <2>2 DEF PlaceOk, Becomes
<1>6. PlaceInv' /\ \A c \in Actors : ~PC(c, "completed")'
  BY <1>1, <1>2, <1>3, <1>5, InvIs, OthersPlace
<1>7. ASSUME NEW n \in routines PROVE Stage(n)' /\ (runtime'[n] = Unfinished => Rescued(n)')
  <2>1. Stage(n) /\ (runtime[n] = Unfinished => Rescued(n))
    BY <1>2 DEF Live
  <2>2. Stage(n)'
    BY <1>1, <1>3, <2>1, InvIs, StageKeeps DEF Hands, Clears
  <2>3. ASSUME Rescued(n), a = Rescuer PROVE Rescued(n)'
    <3>1. \A c \in Actors : PC(c, "unfinish") => PC(c, "unfinish")'
      BY <1>1, <1>3 DEF Becomes, PC
    <3> QED BY <1>1, <1>3, <2>3, <3>1 DEF Rescued, Hands, Clears, Becomes
  <2>4. ASSUME Rescued(n), a # Rescuer PROVE Rescued(n)'
    BY <1>1, <1>3, <2>4, RescuedKeeps
  <2> QED BY <1>1, <2>1, <2>2, <2>3, <2>4
<1>8. pending_count' = Cardinality(Busy)' + Cardinality(Handing)' + failed' /\ pending_count' > 0 /\ pending_count' \in Nat
  <2>1. Counted(a, act[a], ran[a]) /\ Counted(a, act[a], ran[a])'
    BY <1>1, <1>3 DEF Counted, Becomes
  <2>2. Cardinality(Busy)' = Cardinality(Busy) /\ Cardinality(Handing)' = Cardinality(Handing) + 1
    BY <1>1, <1>3, <2>1, InvIs, MoverCounts
  <2> QED BY <1>1, <1>2, <2>2, Counts DEF Live
<1>9. TypeInv'
  <2>1. act' \in [Actors -> Doing]
    BY <1>3 DEF Becomes
  <2>2. failed' \in Nat /\ suspends' \in 0 .. MaxSuspends
    BY <1>1, InvIs DEF TypeInv, TypeOK
  <2> QED BY <1>1, <1>8, <2>1, <2>2, InvIs, TypeKeeps
<1> QED BY <1>1, <1>2, <1>6, <1>7, <1>8, <1>9, Assemble

(* A routine that somebody owes an unlock is blocked, and locked once for each of them.   *)
LEMMA Blocked ==
  ASSUME NEW n, Stage(n), NEW w \in Waits(n)
  PROVE  /\ runtime[n] = Cardinality(Waits(n)) /\ Dispatchers(n) = {} /\ Clearers(n) = {}
         /\ act[n].pc = "idle" /\ ran[n] = 0
         /\ Cardinality(Waits(n)) \in Nat \ {0} /\ IsFiniteSet(Waits(n))
<1>1. /\ runtime[n] = Cardinality(Waits(n)) /\ Dispatchers(n) = {} /\ Clearers(n) = {}
      /\ act[n].pc = "idle" /\ ran[n] = 0
  BY DEF Stage, StageOk
<1>2. Waits(n) \in SUBSET Actors
  BY DEF Waits
<1>3. IsFiniteSet(Waits(n))
  BY <1>2, Apart, FS_Subset
<1>4. Cardinality(Waits(n)) \in Nat /\ Cardinality(Waits(n)) # 0
  BY <1>3, FS_CardinalityType, FS_EmptySet
<1> QED BY <1>1, <1>3, <1>4

Unblock(a, n, pc, at) ==
  /\ act[a].pc \in {"unlock", "unfinish"} /\ n \in act[a].todo /\ pc \in {"unlock", "unfinish", "add"}
  /\ Becomes(a, pc, act[a].todo \ {n}, at) /\ UNCHANGED <<routines, junctions, edges, ran>>

LEMMA Unblocks ==
  ASSUME Inv, Live, NEW a \in Actors, NEW n, NEW pc, NEW at, Unblock(a, n, pc, at)
  PROVE  /\ n \in routines /\ n # a /\ act'[n].pc = "idle" /\ ran'[n] = 0 /\ runtime[n] \in Nat \ {0}
         /\ Clearers(n)' = {} /\ Dispatchers(n)' = IF pc = "add" /\ at = n THEN {a} ELSE {}
         /\ runtime[n] = 1 => Waits(n)' = {}
         /\ runtime[n] # 1 => Waits(n)' # {} /\ runtime[n] - 1 = Cardinality(Waits(n)')
<1>0. /\ act[a].pc \in {"unlock", "unfinish"} /\ n \in act[a].todo /\ pc \in {"unlock", "unfinish", "add"}
      /\ Becomes(a, pc, act[a].todo \ {n}, at) /\ UNCHANGED <<routines, junctions, edges, ran>>
  BY DEF Unblock
<1>1. /\ act[a].todo \subseteq routines /\ PlaceOk(a, act[a], ran[a], suspends) /\ act[a].pc # "idle"
      /\ a # Rescuer
  <2>1. PlaceOk(a, act[a], ran[a], suspends) /\ act[a].todo \subseteq routines
    BY <1>0, InvIs, PlaceIs
  <2>2. act[a].pc = "unlock" => a # Rescuer
    BY <1>0, InvIs, PlaceIs
  <2>3. act[a].pc = "unfinish" => a # Rescuer
    BY <1>0, Apart, InvIs, PlaceIs
  <2> QED BY <1>0, <2>1, <2>2, <2>3
<1>2. n \in routines /\ n \in Actors
  BY <1>0, <1>1, Apart, InvIs
<1>3. a \in Waits(n)
  BY <1>0, <1>1 DEF Waits, Owes
<1>4. Stage(n)
  BY <1>0, <1>2 DEF Live
<1>5. /\ runtime[n] = Cardinality(Waits(n)) /\ Dispatchers(n) = {} /\ Clearers(n) = {}
      /\ act[n].pc = "idle" /\ ran[n] = 0
      /\ Cardinality(Waits(n)) \in Nat \ {0} /\ IsFiniteSet(Waits(n))
  BY <1>0, <1>3, <1>4, Blocked
<1>6. n # a
  BY <1>0, <1>1, <1>5
<1>7. \A b \in Actors \ {a} : Like(b, n)
  <2>1. \A b \in Actors \ {a} : act'[b] = act[b]
    BY <1>0 DEF Becomes
  <2> QED BY <1>0, <2>1, InvIs, OthersLike
<1>8. ~Owes(a, act[a], ran[a], n)'
  <2>1. act'[a].pc = pc /\ act'[a].todo = act[a].todo \ {n}
    BY <1>0 DEF Becomes
  <2>2. CASE a \in Ids
    <3>1. a \notin junctions /\ ran[a] # 0
      BY <1>0, <1>1, <2>2 DEF PlaceOk
    <3> QED BY <1>0, <2>1, <3>1 DEF Owes
  <2>3. CASE a \notin Ids
    <3>1. <<a, n>> \notin edges
      BY <1>0, <2>3, InvIs
    <3> QED BY <1>0, <2>1, <3>1 DEF Owes
  <2> QED BY <1>0, <2>2, <2>3
<1>9. Waits(n)' = Waits(n) \ {a}
  BY <1>0, <1>7, <1>8, SetsLike
<1>10. Dispatchers(n)' = IF pc = "add" /\ at = n THEN {a} ELSE {}
  <2>1. Hands(act[a], n)' <=> pc = "add" /\ at = n
    BY <1>0 DEF Becomes, Hands
  <2>2. Dispatchers(n)' = IF pc = "add" /\ at = n THEN Dispatchers(n) \cup {a} ELSE Dispatchers(n) \ {a}
    BY <1>7, <2>1, SetsLike
  <2> QED BY <1>5, <2>2
<1>11. Clearers(n)' = {}
  <2>1. ~Clears(act[a], n)'
    BY <1>0 DEF Becomes, Clears
  <2>2. Clearers(n)' = Clearers(n) \ {a}
    BY <1>7, <2>1, SetsLike
  <2> QED BY <1>5, <2>2
<1>12. act'[n].pc = "idle" /\ ran'[n] = 0
  BY <1>0, <1>2, <1>5, <1>6 DEF Becomes
<1>13. PICK W, lock : W = Waits(n) /\ lock = Cardinality(W) /\ IsFiniteSet(W) /\ a \in W /\ lock = runtime[n] /\ lock \in Nat \ {0}
  BY <1>0, <1>3, <1>5
<1>14. IsFiniteSet(W \ {a}) /\ Cardinality(W \ {a}) = lock - 1
  BY <1>0, <1>13, FS_RemoveElement
<1>15. Cardinality(W \ {a}) = 0 <=> W \ {a} = {}
  BY <1>0, <1>14, FS_EmptySet
<1>16. Waits(n)' = W \ {a}
  BY <1>0, <1>9, <1>13
<1>17. /\ runtime[n] = 1 => Waits(n)' = {}
       /\ runtime[n] # 1 => Waits(n)' # {} /\ runtime[n] - 1 = Cardinality(Waits(n)')
  BY <1>0, <1>13, <1>14, <1>15, <1>16
<1> QED BY <1>0, <1>2, <1>5, <1>6, <1>10, <1>11, <1>12, <1>17

LEMMA UnlockKeeps == ASSUME Inv, NEW a \in Actors, Unlock(a) PROVE Inv'
<1>1. act[a].pc = "unlock" /\ UNCHANGED <<routines, junctions, edges, round, pending_count, failed, suspends, ran>>
  BY DEF Unlock, PC, graph
<1>2. PICK i \in act[a].todo : /\ runtime' = [runtime EXCEPT ![i] = runtime[i] - 1]
                              /\ act' = [act EXCEPT ![a] = [pc |-> IF Unlocked(i) THEN "add" ELSE "unlock",
                                                           todo |-> act[a].todo \ {i}, at |-> i]]
  BY DEF Unlock
<1>3. Live
  BY <1>1, LiveIs
<1>4. act[a].todo \subseteq routines /\ PlaceOk(a, act[a], ran[a], suspends) /\ a # Rescuer
  BY <1>1, InvIs, PlaceIs
<1>5. PICK pc : pc = IF Unlocked(i) THEN "add" ELSE "unlock"
  OBVIOUS
<1>6. Becomes(a, pc, act[a].todo \ {i}, i)
  <2>1. pc \in Pcs /\ act[a].todo \ {i} \in SUBSET routines /\ i \in Int
    BY <1>4, <1>5, InvIs, DispatcherAssumption DEF Pcs, Ids
  <2> QED BY <1>2, <1>5, <2>1, InvIs, MovedIs
<1>7. pc \in {"unlock", "add"} /\ (pc = "add" <=> runtime[i] = 1)
  BY <1>5 DEF Unlocked
<1>8. /\ i \in routines /\ i # a /\ act'[i].pc = "idle" /\ ran'[i] = 0 /\ runtime[i] \in Nat \ {0}
      /\ Clearers(i)' = {} /\ Dispatchers(i)' = IF pc = "add" /\ i = i THEN {a} ELSE {}
      /\ runtime[i] = 1 => Waits(i)' = {}
      /\ runtime[i] # 1 => Waits(i)' # {} /\ runtime[i] - 1 = Cardinality(Waits(i)')
  <2>1. Unblock(a, i, pc, i)
    BY <1>1, <1>6, <1>7 DEF Unblock
  <2> QED BY <1>3, <2>1, Unblocks
<1>9. i \in Ids /\ runtime'[i] = runtime[i] - 1 /\ \A n \in Ids \ {i} : runtime'[n] = runtime[n]
  BY <1>2, <1>8, InvIs
<1>10. ASSUME NEW n \in routines PROVE Stage(n)' /\ (runtime'[n] = Unfinished => Rescued(n)')
  <2>1. Stage(n) /\ (runtime[n] = Unfinished => Rescued(n))
    BY <1>3 DEF Live
  <2>2. CASE n = i
    <3>1. runtime'[n] # Unfinished
      BY <1>8, <1>9, <2>2 DEF Unfinished
    <3>2. CASE runtime[i] = 1
      <4>1. Waits(n)' = {} /\ Dispatchers(n)' = {a} /\ runtime'[n] = 0
        BY <1>7, <1>8, <1>9, <2>2, <3>2
      <4> QED BY <1>4, <1>8, <2>2, <3>1, <4>1 DEF Stage, StageOk
    <3>3. CASE runtime[i] # 1
      <4>1. Waits(n)' # {} /\ Dispatchers(n)' = {} /\ runtime'[n] = Cardinality(Waits(n)')
        BY <1>7, <1>8, <1>9, <2>2, <3>3
      <4> QED BY <1>8, <2>2, <3>1, <4>1 DEF Stage, StageOk
    <3> QED BY <3>2, <3>3
  <2>3. CASE n # i
    <3>1. runtime'[n] = runtime[n]
      BY <1>9, <2>3, InvIs
    <3>2. Stage(n)'
      <4>1. /\ (n \in act[a].todo \ {i} <=> n \in act[a].todo)
            /\ ((pc \in {"add", "queue"} /\ i = n) <=> Hands(act[a], n))
            /\ ((pc = "clear" /\ i = n) <=> Clears(act[a], n))
        BY <1>1, <2>3 DEF Hands, Clears
      <4> QED BY <1>1, <1>6, <1>7, <2>1, <3>1, <4>1, InvIs, StageKeeps
    <3>3. Rescued(n) => Rescued(n)'
      BY <1>1, <1>4, <1>6, RescuedKeeps
    <3> QED BY <2>1, <3>1, <3>2, <3>3
  <2> QED BY <2>2, <2>3
<1>11. PlaceOk(a, act[a], ran[a], suspends)'
  <2>1. pc \in PcsOf(a)
    BY <1>1, <1>4, <1>7 DEF PlaceOk, PcsOf
  <2>2. Next1(a)' = Next1(a)
    BY <1>1 DEF Next1
  <2>3. act'[a].pc = pc /\ act'[a].todo = act[a].todo \ {i} /\ act'[a].at = i
    BY <1>6 DEF Becomes
  <2> QED BY <1>1, <1>4, <1>7, <1>8, <2>1, <2>2, <2>3 DEF PlaceOk
<1>12. PlaceInv' /\ \A c \in Actors : ~PC(c, "completed")'
  BY <1>1, <1>3, <1>6, <1>7, <1>11, InvIs, OthersPlace
<1>13. pending_count' = Cardinality(Busy)' + Cardinality(Handing)' + failed' /\ pending_count' > 0 /\ pending_count' \in Nat
  <2>1. Counted(a, act[a], ran[a]) /\ Counted(a, act[a], ran[a])'
    BY <1>1, <1>6, <1>7 DEF Counted, Becomes
  <2>2. Cardinality(Busy)' = Cardinality(Busy) /\ Cardinality(Handing)' = Cardinality(Handing)
    BY <1>1, <1>6, <1>7, <2>1, InvIs, MoverCounts
  <2> QED BY <1>1, <1>3, <2>2, Counts DEF Live
<1>14. TypeInv'
  <2>1. act' \in [Actors -> Doing]
    BY <1>6 DEF Becomes
  <2>2. failed' \in Nat /\ suspends' \in 0 .. MaxSuspends
    BY <1>1, InvIs DEF TypeInv, TypeOK
  <2>3. runtime' \in [Ids -> Nat \cup {Unfinished}]
    BY <1>2, <1>8, InvIs
  <2> QED BY <1>1, <1>13, <2>1, <2>2, <2>3, InvIs, TypeKeeps
<1> QED BY <1>1, <1>3, <1>10, <1>12, <1>13, <1>14, Assemble

LEMMA FinishUnlockKeeps == ASSUME Inv, NEW a \in Actors, FinishUnlock(a) PROVE Inv'
<1>1. /\ act[a].pc = "unlock" /\ act[a].todo = {} /\ Go(a, "finalize")
      /\ UNCHANGED <<routines, junctions, edges, round, runtime, pending_count, failed, suspends, ran>>
  BY DEF FinishUnlock, PC, graph
<1>2. Live
  BY <1>1, LiveIs
<1>3. Becomes(a, "finalize", act[a].todo, act[a].at)
  BY <1>1, InvIs, GoIs DEF Pcs
<1>4. PlaceOk(a, act[a], ran[a], suspends) /\ a # Rescuer
  BY <1>1, InvIs, PlaceIs
<1>5. PlaceOk(a, act[a], ran[a], suspends)'
  <2>1. "finalize" \in PcsOf(a)
    BY DEF PcsOf
  <2>2. Next1(a)' = Next1(a)
    BY <1>1 DEF Next1
  <2> QED BY <1>1, <1>3, <1>4, <2>1, <2>2 DEF PlaceOk, Becomes
<1>6. PlaceInv' /\ \A c \in Actors : ~PC(c, "completed")'
  BY <1>1, <1>2, <1>3, <1>5, InvIs, OthersPlace
<1>7. ASSUME NEW n \in routines PROVE Stage(n)' /\ (runtime'[n] = Unfinished => Rescued(n)')
  <2>1. Stage(n) /\ (runtime[n] = Unfinished => Rescued(n))
    BY <1>2 DEF Live
  <2>2. Stage(n)'
    BY <1>1, <1>3, <2>1, InvIs, StageKeeps DEF Hands, Clears
  <2>3. Rescued(n) => Rescued(n)'
    BY <1>1, <1>3, <1>4, RescuedKeeps
  <2> QED BY <1>1, <2>1, <2>2, <2>3
<1>8. pending_count' = Cardinality(Busy)' + Cardinality(Handing)' + failed' /\ pending_count' > 0 /\ pending_count' \in Nat
  <2>1. Counted(a, act[a], ran[a]) /\ Counted(a, act[a], ran[a])'
    BY <1>1, <1>3 DEF Counted, Becomes
  <2>2. Cardinality(Busy)' = Cardinality(Busy) /\ Cardinality(Handing)' = Cardinality(Handing)
    BY <1>1, <1>3, <2>1, InvIs, MoverCounts
  <2> QED BY <1>1, <1>2, <2>2, Counts DEF Live
<1>9. TypeInv'
  <2>1. act' \in [Actors -> Doing]
    BY <1>3 DEF Becomes
  <2>2. failed' \in Nat /\ suspends' \in 0 .. MaxSuspends
    BY <1>1, InvIs DEF TypeInv, TypeOK
  <2> QED BY <1>1, <1>8, <2>1, <2>2, InvIs, TypeKeeps
<1> QED BY <1>1, <1>2, <1>6, <1>7, <1>8, <1>9, Assemble

LEMMA ResumeKeeps == ASSUME Inv, NEW k \in Resumers, resume(k) PROVE Inv'
<1>1. /\ act[k].pc = "hold" /\ Go(k, "unlock")
      /\ UNCHANGED <<routines, junctions, edges, round, runtime, pending_count, failed, suspends, ran>>
  BY DEF resume, PC, graph
<1>2. k \in Actors /\ k \notin Ids /\ k # Main /\ k # Rescuer
  BY Apart
<1>3. Live
  BY <1>1, <1>2, LiveIs
<1>4. Becomes(k, "unlock", act[k].todo, act[k].at)
  BY <1>1, <1>2, InvIs, GoIs DEF Pcs
<1>5. PlaceOk(k, act[k], ran[k], suspends)
  BY <1>2, InvIs, PlaceIs
<1>6. PlaceOk(k, act[k], ran[k], suspends)'
  <2>1. "unlock" \in PcsOf(k)
    BY <1>2 DEF PcsOf
  <2> QED BY <1>1, <1>2, <1>4, <1>5, <2>1 DEF PlaceOk, Becomes
<1>7. PlaceInv' /\ \A c \in Actors : ~PC(c, "completed")'
  BY <1>1, <1>2, <1>3, <1>4, <1>6, InvIs, OthersPlace
<1>8. ASSUME NEW n \in routines PROVE Stage(n)' /\ (runtime'[n] = Unfinished => Rescued(n)')
  <2>1. Stage(n) /\ (runtime[n] = Unfinished => Rescued(n))
    BY <1>3 DEF Live
  <2>2. Stage(n)'
    BY <1>1, <1>2, <1>4, <2>1, InvIs, StageKeeps DEF Hands, Clears
  <2>3. Rescued(n) => Rescued(n)'
    BY <1>1, <1>2, <1>4, RescuedKeeps
  <2> QED BY <1>1, <2>1, <2>2, <2>3
<1>9. pending_count' = Cardinality(Busy)' + Cardinality(Handing)' + failed' /\ pending_count' > 0 /\ pending_count' \in Nat
  <2>1. Counted(k, act[k], ran[k]) /\ Counted(k, act[k], ran[k])'
    BY <1>1, <1>2, <1>4 DEF Counted, Becomes
  <2>2. Cardinality(Busy)' = Cardinality(Busy) /\ Cardinality(Handing)' = Cardinality(Handing)
    BY <1>1, <1>2, <1>4, <2>1, InvIs, MoverCounts
  <2> QED BY <1>1, <1>3, <2>2, Counts DEF Live
<1>10. TypeInv'
  <2>1. act' \in [Actors -> Doing]
    BY <1>4 DEF Becomes
  <2>2. failed' \in Nat /\ suspends' \in 0 .. MaxSuspends
    BY <1>1, InvIs DEF TypeInv, TypeOK
  <2> QED BY <1>1, <1>9, <2>1, <2>2, InvIs, TypeKeeps
<1> QED BY <1>1, <1>3, <1>7, <1>8, <1>9, <1>10, Assemble

LEMMA UnwindKeeps == ASSUME Inv, NEW a \in Actors, Unwind(a) PROVE Inv'
<1>1. /\ act[a].pc = "unfinish" /\ act[a].todo = {} /\ act' = [act EXCEPT ![a] = Quiet] /\ failed' = failed + 1
      /\ UNCHANGED <<routines, junctions, edges, round, runtime, pending_count, suspends, ran>>
  BY DEF Unwind, PC, graph
<1>2. Live
  BY <1>1, LiveIs
<1>3. Becomes(a, "idle", {}, 0)
  <2>1. Quiet = [Quiet EXCEPT !.pc = "idle"] /\ "idle" \in Pcs
    BY DEF Quiet, Pcs
  <2> QED BY <1>1, <2>1, InvIs, QuietIs
<1>4. PlaceOk(a, act[a], ran[a], suspends) /\ a \in Ids
  BY <1>1, InvIs, PlaceIs
<1>5. PlaceOk(a, act[a], ran[a], suspends)'
  <2>1. "idle" \in PcsOf(a)
    BY DEF PcsOf
  <2> QED BY <1>1, <1>3, <1>4, <2>1, Apart DEF PlaceOk, Becomes
<1>6. PlaceInv' /\ \A c \in Actors : ~PC(c, "completed")'
  BY <1>1, <1>2, <1>3, <1>5, InvIs, OthersPlace
<1>7. ASSUME NEW n \in routines PROVE Stage(n)' /\ (runtime'[n] = Unfinished => Rescued(n)')
  <2>1. Stage(n)
    BY <1>2 DEF Live
  <2>2. Stage(n)'
    BY <1>1, <1>3, <2>1, InvIs, StageKeeps DEF Hands, Clears
  <2>3. Rescued(n)'
    BY <1>1, <1>2 DEF Rescued, Live
  <2> QED BY <2>2, <2>3
<1>8. pending_count' = Cardinality(Busy)' + Cardinality(Handing)' + failed' /\ pending_count' > 0 /\ pending_count' \in Nat
  <2>1. Counted(a, act[a], ran[a]) /\ ~Counted(a, act[a], ran[a])'
    BY <1>1, <1>3, <1>4 DEF Counted, Becomes, PlaceOk
  <2>2. Cardinality(Busy)' = Cardinality(Busy) - 1 /\ Cardinality(Handing)' = Cardinality(Handing)
    BY <1>1, <1>3, <2>1, InvIs, MoverCounts
  <2> QED BY <1>1, <1>2, <2>2, Counts DEF Live
<1>9. TypeInv'
  <2>1. act' \in [Actors -> Doing]
    BY <1>3 DEF Becomes
  <2>2. failed' \in Nat /\ suspends' \in 0 .. MaxSuspends
    BY <1>1, InvIs DEF TypeInv, TypeOK
  <2> QED BY <1>1, <1>8, <2>1, <2>2, InvIs, TypeKeeps
<1> QED BY <1>1, <1>2, <1>6, <1>7, <1>8, <1>9, Assemble

LEMMA ThrowKeeps == ASSUME Inv, ~ResumeFails, NEW a \in Actors, Throw(a) PROVE Inv'
<1>1. /\ act[a].pc = "queue" /\ a \in Ids /\ Go(a, "unfinish")
      /\ runtime' = [runtime EXCEPT ![act[a].at] = Unfinished] /\ pending_count' = pending_count - 1
      /\ UNCHANGED <<routines, junctions, edges, round, failed, suspends, ran>>
  BY DEF Throw, PC, graph
<1>2. Live
  BY <1>1, LiveIs
<1>3. Becomes(a, "unfinish", act[a].todo, act[a].at)
  BY <1>1, InvIs, GoIs DEF Pcs
<1>4. PlaceOk(a, act[a], ran[a], suspends) /\ a # Rescuer
  BY <1>1, InvIs, PlaceIs, Apart
<1>5. PICK i : i = act[a].at /\ i \in routines /\ i \in Ids
  BY <1>1, <1>4, InvIs DEF PlaceOk
<1>6. PlaceOk(a, act[a], ran[a], suspends)'
  <2>1. "unfinish" \in PcsOf(a)
    BY <1>1, Apart DEF PcsOf
  <2>2. Next1(a)' = Next1(a)
    BY <1>1 DEF Next1
  <2>3. act'[a].pc = "unfinish" /\ act'[a].todo = act[a].todo /\ act'[a].at = i
    BY <1>3, <1>5 DEF Becomes
  <2> QED BY <1>1, <1>4, <1>5, <2>1, <2>2, <2>3, Apart DEF PlaceOk
<1>7. PlaceInv' /\ \A c \in Actors : ~PC(c, "completed")'
  BY <1>1, <1>2, <1>3, <1>6, InvIs, OthersPlace
<1>8. runtime'[i] = Unfinished /\ \A n \in Ids \ {i} : runtime'[n] = runtime[n]
  BY <1>1, <1>5, InvIs
<1>9. ASSUME NEW n \in routines PROVE Stage(n)' /\ (runtime'[n] = Unfinished => Rescued(n)')
  <2>1. Stage(n)
    BY <1>2 DEF Live
  <2>2. Rescued(n)'
    BY <1>3 DEF Rescued, PC, Becomes
  <2>3. CASE n = i
    <3>1. a \in Dispatchers(n)
      BY <1>1, <1>5, <2>3 DEF Dispatchers, Hands
    <3>2. Waits(n) = {} /\ Clearers(n) = {} /\ Dispatchers(n) = {a} /\ act[n].pc = "idle" /\ ran[n] = 0
      BY <2>1, <3>1 DEF Stage, StageOk
    <3>3. \A b \in Actors \ {a} : Like(b, n)
      <4>1. \A b \in Actors \ {a} : act'[b] = act[b]
        BY <1>3 DEF Becomes
      <4> QED BY <1>1, <4>1, InvIs, OthersLike
    <3>4. ~Owes(a, act[a], ran[a], n)'
      <4>1. ~Owes(a, act[a], ran[a], n)
        BY <3>2 DEF Waits
      <4> QED BY <1>1, <1>3, <4>1 DEF Owes, Becomes
    <3>5. ~Hands(act[a], n)' /\ ~Clears(act[a], n)'
      BY <1>3 DEF Hands, Clears, Becomes
    <3>6. Waits(n)' = {} /\ Dispatchers(n)' = {} /\ Clearers(n)' = {}
      BY <3>2, <3>3, <3>4, <3>5, SetsLike
    <3>7. act'[n].pc = "idle" /\ ran'[n] = 0 /\ runtime'[n] = Unfinished
      <4>1. n \in Actors /\ n # a
        BY <1>1, <1>5, <2>3, <3>2, Apart
      <4> QED BY <1>1, <1>3, <1>8, <2>3, <3>2, <4>1 DEF Becomes
    <3>8. Stage(n)'
      BY <3>6, <3>7 DEF Stage, StageOk
    <3> QED BY <2>2, <3>8
  <2>4. CASE n # i
    <3>1. runtime'[n] = runtime[n]
      BY <1>8, <2>4, InvIs
    <3>2. ~Hands(act[a], n) /\ ~Clears(act[a], n)
      BY <1>1, <1>5, <2>4 DEF Hands, Clears
    <3>3. Stage(n)'
      BY <1>1, <1>3, <2>1, <3>1, <3>2, InvIs, StageKeeps
    <3> QED BY <2>2, <3>3
  <2> QED BY <2>3, <2>4
<1>10. pending_count' = Cardinality(Busy)' + Cardinality(Handing)' + failed' /\ pending_count' > 0 /\ pending_count' \in Nat
  <2>1. Counted(a, act[a], ran[a]) /\ Counted(a, act[a], ran[a])'
    BY <1>1, <1>3 DEF Counted, Becomes
  <2>2. /\ Cardinality(Busy)' = Cardinality(Busy) /\ Cardinality(Handing)' = Cardinality(Handing) - 1
        /\ Cardinality(Handing)' \in Nat
    BY <1>1, <1>3, <2>1, InvIs, MoverCounts
  <2>3. Cardinality(Busy) > 0
    BY <1>1, LiveIs, Counts
  <2> QED BY <1>1, <1>2, <2>2, <2>3, Counts DEF Live
<1>11. TypeInv'
  <2>1. act' \in [Actors -> Doing]
    BY <1>3 DEF Becomes
  <2>2. failed' \in Nat /\ suspends' \in 0 .. MaxSuspends
    BY <1>1, InvIs DEF TypeInv, TypeOK
  <2>3. runtime' \in [Ids -> Nat \cup {Unfinished}]
    BY <1>1, <1>5, InvIs
  <2> QED BY <1>1, <1>10, <2>1, <2>2, <2>3, InvIs, TypeKeeps
<1> QED BY <1>1, <1>2, <1>7, <1>9, <1>10, <1>11, Assemble

LEMMA UnfinishKeeps == ASSUME Inv, NEW a \in Actors, unfinish_complete(a) PROVE Inv'
<1>1. act[a].pc = "unfinish" /\ UNCHANGED <<routines, junctions, edges, round, pending_count, failed, suspends, ran>>
  BY DEF unfinish_complete, PC, graph
<1>2. PICK i \in act[a].todo : /\ runtime' = [runtime EXCEPT ![i] = IF runtime[i] = 1 THEN Unfinished ELSE runtime[i] - 1]
                              /\ act' = [act EXCEPT ![a].todo = act[a].todo \ {i}]
  BY DEF unfinish_complete
<1>3. Live
  BY <1>1, LiveIs
<1>4. act[a].todo \subseteq routines /\ PlaceOk(a, act[a], ran[a], suspends) /\ a # Rescuer /\ a \in Ids
  BY <1>1, InvIs, PlaceIs, Apart
<1>5. Becomes(a, "unfinish", act[a].todo \ {i}, act[a].at)
  <2>1. PICK x, todo : x = act[a] /\ todo = act[a].todo \ {i}
    OBVIOUS
  <2>2. x \in Doing /\ todo \in SUBSET routines /\ x.pc = "unfinish"
    BY <1>1, <1>4, <2>1, InvIs, PlaceIs
  <2>3. [x EXCEPT !.todo = todo] = [pc |-> "unfinish", todo |-> todo, at |-> x.at]
    BY <2>2 DEF Doing
  <2>4. act' = [act EXCEPT ![a] = [x EXCEPT !.todo = todo]]
    BY <1>2, <2>1
  <2>5. "unfinish" \in Pcs /\ x.at \in Int
    BY <2>2 DEF Pcs, Doing
  <2> QED BY <2>1, <2>2, <2>3, <2>4, <2>5, InvIs, MovedIs
<1>6. /\ i \in routines /\ i # a /\ act'[i].pc = "idle" /\ ran'[i] = 0 /\ runtime[i] \in Nat \ {0}
      /\ Clearers(i)' = {} /\ Dispatchers(i)' = IF "unfinish" = "add" /\ act[a].at = i THEN {a} ELSE {}
      /\ runtime[i] = 1 => Waits(i)' = {}
      /\ runtime[i] # 1 => Waits(i)' # {} /\ runtime[i] - 1 = Cardinality(Waits(i)')
  <2>1. Unblock(a, i, "unfinish", act[a].at)
    BY <1>1, <1>5 DEF Unblock
  <2> QED BY <1>3, <2>1, Unblocks
<1>7. /\ i \in Ids /\ runtime'[i] = (IF runtime[i] = 1 THEN Unfinished ELSE runtime[i] - 1)
      /\ \A n \in Ids \ {i} : runtime'[n] = runtime[n]
  BY <1>2, <1>6, InvIs
<1>8. ASSUME NEW n \in routines PROVE Stage(n)' /\ (runtime'[n] = Unfinished => Rescued(n)')
  <2>1. Stage(n)
    BY <1>3 DEF Live
  <2>2. Rescued(n)'
    BY <1>5 DEF Rescued, PC, Becomes
  <2>3. CASE n = i
    <3>1. CASE runtime[i] = 1
      <4>1. Waits(n)' = {} /\ Dispatchers(n)' = {} /\ runtime'[n] = Unfinished
        BY <1>6, <1>7, <2>3, <3>1
      <4> QED BY <1>6, <2>2, <2>3, <4>1 DEF Stage, StageOk
    <3>2. CASE runtime[i] # 1
      <4>1. Waits(n)' # {} /\ Dispatchers(n)' = {} /\ runtime'[n] = Cardinality(Waits(n)')
        BY <1>6, <1>7, <2>3, <3>2
      <4> QED BY <1>6, <2>2, <2>3, <4>1 DEF Stage, StageOk
    <3> QED BY <3>1, <3>2
  <2>4. CASE n # i
    <3>1. runtime'[n] = runtime[n]
      BY <1>7, <2>4, InvIs
    <3>2. Stage(n)'
      <4>1. (n \in act[a].todo \ {i} <=> n \in act[a].todo) /\ ~Hands(act[a], n) /\ ~Clears(act[a], n)
        BY <1>1, <2>4 DEF Hands, Clears
      <4> QED BY <1>1, <1>5, <2>1, <3>1, <4>1, InvIs, StageKeeps
    <3> QED BY <2>2, <3>2
  <2> QED BY <2>3, <2>4
<1>9. PlaceOk(a, act[a], ran[a], suspends)'
  <2>1. Next1(a)' = Next1(a)
    BY <1>1 DEF Next1
  <2>2. act'[a].pc = "unfinish" /\ act'[a].todo = act[a].todo \ {i} /\ act'[a].at = act[a].at
    BY <1>5 DEF Becomes
  <2> QED BY <1>1, <1>4, <2>1, <2>2, Apart DEF PlaceOk
<1>10. PlaceInv' /\ \A c \in Actors : ~PC(c, "completed")'
  BY <1>1, <1>3, <1>5, <1>9, InvIs, OthersPlace
<1>11. pending_count' = Cardinality(Busy)' + Cardinality(Handing)' + failed' /\ pending_count' > 0 /\ pending_count' \in Nat
  <2>1. Counted(a, act[a], ran[a]) /\ Counted(a, act[a], ran[a])'
    BY <1>1, <1>5 DEF Counted, Becomes
  <2>2. Cardinality(Busy)' = Cardinality(Busy) /\ Cardinality(Handing)' = Cardinality(Handing)
    BY <1>1, <1>5, <2>1, InvIs, MoverCounts
  <2> QED BY <1>1, <1>3, <2>2, Counts DEF Live
<1>12. TypeInv'
  <2>1. act' \in [Actors -> Doing]
    BY <1>5 DEF Becomes
  <2>2. failed' \in Nat /\ suspends' \in 0 .. MaxSuspends
    BY <1>1, InvIs DEF TypeInv, TypeOK
  <2>3. runtime' \in [Ids -> Nat \cup {Unfinished}]
    BY <1>2, <1>6, InvIs
  <2> QED BY <1>1, <1>11, <2>1, <2>2, <2>3, InvIs, TypeKeeps
<1> QED BY <1>1, <1>3, <1>8, <1>10, <1>11, <1>12, Assemble

(* The last finalize() finds nobody else at work, and then nobody is blocked: of those who *)
(* were, the graph has one that waits for none of the others.                             *)
LEMMA AllDone ==
  ASSUME Inv, NEW a \in Actors, act[a].pc = "finalize", pending_count = 1
  PROVE  /\ \A b \in Actors \ {a} : PC(b, "idle")
         /\ ~Cyclic => Done
<1>1. Live /\ a \in Busy
  BY LiveIs
<1>2. Cardinality(Busy) = 1 /\ Cardinality(Handing) = 0 /\ failed = 0
  BY <1>1, Counts DEF Live
<1>3. \A b \in Actors \ {a} : ~Counted(b, act[b], ran[b])
  <2>1. IsFiniteSet(Busy)
    BY Counts, Apart, FS_Subset
  <2>2. IsFiniteSet(Busy \ {a}) /\ Cardinality(Busy \ {a}) = 0
    BY <1>1, <1>2, <2>1, FS_RemoveElement
  <2>3. Busy \ {a} = {}
    BY <2>2, FS_EmptySet
  <2> QED BY <2>3 DEF Busy
<1>4. \A b \in Actors \ {a} : PC(b, "idle")
  BY <1>1, <1>3 DEF Counted, Live, PC
<1>5. ASSUME ~Cyclic PROVE Done
  <2>1. \A b \in Actors : act[b].todo = {} /\ act[b].pc \in {"idle", "finalize"}
    <3>1. \A b \in Actors : act[b].pc \in {"idle", "finalize"}
      BY <1>4 DEF PC
    <3> QED BY <3>1, InvIs, PlaceIs DEF PlaceOk
  <2>2. \A n : Dispatchers(n) = {} /\ Clearers(n) = {}
    BY <2>1 DEF Dispatchers, Clearers, Hands, Clears
  <2>3. ASSUME NEW n \in routines PROVE runtime[n] # Unfinished
    <3>1. ~Rescued(n)
      BY <1>2, <2>1, Apart DEF Rescued, PC, Hands, Clears
    <3> QED BY <1>1, <3>1 DEF Live
  <2>4. ASSUME NEW n \in routines, Waits(n) = {} PROVE ran[n] = 1 /\ runtime[n] = 0
    <3>1. Stage(n) /\ act[n].pc # "queued"
      <4>1. n \in Actors
        BY InvIs, Apart
      <4> QED BY <1>1, <2>1, <4>1 DEF Live
    <3> QED BY <2>2, <2>3, <2>4, <3>1 DEF Stage, StageOk
  <2>5. PICK B : B = {n \in routines : Waits(n) # {}}
    OBVIOUS
  <2>6. CASE B # {}
    <3>1. PICK n \in B : \A e \in edges : e[2] = n => e[1] \notin B
      BY <1>5, <2>5, <2>6, InvIs DEF GraphInv, NoCircle
    <3>2. PICK w \in Actors : Owes(w, act[w], ran[w], n)
      BY <2>5, <3>1 DEF Waits
    <3>3. <<w, n>> \in edges /\ (ran[w] = 0 \/ w \in junctions)
      BY <2>1, <3>2 DEF Owes
    <3>4. w \in routines /\ w \notin B
      <4>1. <<w, n>>[1] = w /\ <<w, n>>[2] = n
        OBVIOUS
      <4> QED BY <3>1, <3>3, <4>1, InvIs
    <3>5. ran[w] = 1
      BY <2>4, <2>5, <3>4
    <3>6. w \in junctions
      BY <3>3, <3>5
    <3>7. w # a
      BY <3>6, InvIs, PlaceIs DEF PlaceOk
    <3> QED BY <1>3, <3>5, <3>6, <3>7 DEF Counted
  <2>7. CASE B = {}
    BY <2>4, <2>5, <2>7 DEF Done
  <2> QED BY <2>6, <2>7
<1> QED BY <1>4, <1>5

LEMMA FinalizeKeeps == ASSUME Inv, NEW a \in Actors, finalize(a) PROVE Inv'
<1>1. /\ act[a].pc = "finalize" /\ pending_count' = pending_count - 1
      /\ act' = [act EXCEPT ![a] = [Quiet EXCEPT !.pc = IF pending_count = 1 THEN "completed" ELSE "idle"]]
      /\ UNCHANGED <<routines, junctions, edges, round, runtime, failed, suspends, ran>>
  BY DEF finalize, PC, graph
<1>2. Live
  BY <1>1, LiveIs
<1>3. PICK pc : pc = IF pending_count = 1 THEN "completed" ELSE "idle"
  OBVIOUS
<1>4. Becomes(a, pc, {}, 0)
  <2>1. pc \in Pcs
    BY <1>3 DEF Pcs
  <2> QED BY <1>1, <1>3, <2>1, InvIs, QuietIs
<1>5. PlaceOk(a, act[a], ran[a], suspends) /\ act[a].todo = {}
  BY <1>1, InvIs, PlaceIs DEF PlaceOk
<1>6. PlaceOk(a, act[a], ran[a], suspends)'
  <2>1. pc \in PcsOf(a)
    BY <1>3 DEF PcsOf
  <2>2. act'[a].pc = pc /\ act'[a].todo = {} /\ pc \in {"idle", "completed"}
    BY <1>3, <1>4 DEF Becomes
  <2>3. Next1(a)' = Next1(a)
    BY <1>1 DEF Next1
  <2> QED BY <1>1, <1>5, <2>1, <2>2, <2>3 DEF PlaceOk
<1>7. PlaceInv' /\ (pc # "completed" => \A c \in Actors : ~PC(c, "completed")')
  BY <1>1, <1>2, <1>4, <1>6, InvIs, OthersPlace
<1>8. ASSUME NEW n \in routines PROVE Stage(n)' /\ (runtime'[n] = Unfinished => Rescued(n)')
  <2>1. Stage(n) /\ (runtime[n] = Unfinished => Rescued(n))
    BY <1>2 DEF Live
  <2>2. Stage(n)'
    <3>1. ~Hands(act[a], n) /\ ~Clears(act[a], n) /\ pc \in {"idle", "completed"}
      BY <1>1, <1>3 DEF Hands, Clears
    <3> QED BY <1>1, <1>4, <1>5, <2>1, <3>1, InvIs, StageKeeps
  <2>3. ASSUME Rescued(n) PROVE Rescued(n)'
    <3>1. CASE a = Rescuer
      <4>1. failed > 0 \/ \E c \in Actors : PC(c, "unfinish") /\ c # a
        BY <1>1, <1>5, <2>3, <3>1 DEF Rescued, PC, Hands, Clears
      <4> QED BY <1>1, <1>4, <4>1 DEF Rescued, PC, Becomes
    <3>2. CASE a # Rescuer
      BY <1>1, <1>4, <2>3, <3>2, RescuedKeeps
    <3> QED BY <3>1, <3>2
  <2> QED BY <1>1, <2>1, <2>2, <2>3
<1>9. pending_count' = Cardinality(Busy)' + Cardinality(Handing)' + failed' /\ pending_count' \in Nat
  <2>1. Counted(a, act[a], ran[a]) /\ ~Counted(a, act[a], ran[a])'
    <3>1. a \notin junctions
      BY <1>1, <1>5, InvIs DEF PlaceOk
    <3> QED BY <1>1, <1>3, <1>4, <3>1 DEF Counted, Becomes
  <2>2. Cardinality(Busy)' = Cardinality(Busy) - 1 /\ Cardinality(Handing)' = Cardinality(Handing)
    <3>1. pc = "queue" <=> act[a].pc = "queue"
      BY <1>1, <1>3
    <3> QED BY <1>1, <1>4, <2>1, <3>1, InvIs, MoverCounts
  <2> QED BY <1>1, <1>2, <2>2, Counts DEF Live
<1>10. TypeInv'
  <2>1. act' \in [Actors -> Doing]
    BY <1>4 DEF Becomes
  <2>2. failed' \in Nat /\ suspends' \in 0 .. MaxSuspends
    BY <1>1, InvIs DEF TypeInv, TypeOK
  <2> QED BY <1>1, <1>9, <2>1, <2>2, InvIs, TypeKeeps
<1>11. CASE pending_count # 1
  <2>1. pending_count' > 0 /\ \A c \in Actors : ~PC(c, "completed")'
    BY <1>1, <1>2, <1>3, <1>7, <1>11 DEF Live
  <2> QED BY <1>1, <1>2, <1>7, <1>8, <1>9, <1>10, <2>1, Assemble
<1>12. CASE pending_count = 1
  <2>1. (\A b \in Actors \ {a} : PC(b, "idle")) /\ (~Cyclic => Done)
    BY <1>1, <1>12, AllDone
  <2>2. pending_count' = 0 /\ \A b \in Actors \ {a} : PC(b, "idle")'
    BY <1>1, <1>4, <1>12, <2>1 DEF Becomes, PC
  <2>3. CountInv'
    <3>1. \A c \in Actors : PC(c, "completed")' => c = a
      BY <2>2 DEF PC
    <3> QED BY <1>9, <2>2, <3>1 DEF CountInv
  <2>4. DoneInv'
    <3>1. round' # 0 /\ (~Cyclic => Done')
      BY <1>1, <1>2, <2>1 DEF Live, Done
    <3> QED BY <3>1 DEF DoneInv
  <2>5. GraphInv'
    BY <1>1, InvIs DEF GraphInv, NoCircle
  <2>6. LockInv' /\ MarkInv'
    BY <1>1, <1>8 DEF LockInv, MarkInv
  <2> QED BY <1>7, <1>10, <2>3, <2>4, <2>5, <2>6 DEF Inv
<1> QED BY <1>11, <1>12

LEMMA CompletionKeeps == ASSUME Inv, NEW a \in Actors, completion(a) PROVE Inv'
<1>1. /\ act[a].pc = "completed" /\ act' = [act EXCEPT ![a] = Quiet]
      /\ UNCHANGED <<routines, junctions, edges, round, runtime, pending_count, failed, suspends, ran>>
  BY DEF completion, PC, graph
<1>2. pending_count = 0 /\ \A b \in Actors \ {a} : PC(b, "idle")
  BY <1>1, InvIs DEF CountInv, PC
<1>3. Running
  BY <1>1 DEF Running, PC
<1>4. Becomes(a, "idle", {}, 0)
  <2>1. Quiet = [Quiet EXCEPT !.pc = "idle"] /\ "idle" \in Pcs
    BY DEF Quiet, Pcs
  <2> QED BY <1>1, <2>1, InvIs, QuietIs
<1>5. PlaceOk(a, act[a], ran[a], suspends) /\ act[a].todo = {}
  BY <1>1, InvIs, PlaceIs DEF PlaceOk
<1>6. PlaceOk(a, act[a], ran[a], suspends)'
  <2>1. "idle" \in PcsOf(a)
    BY DEF PcsOf
  <2>2. act'[a].pc = "idle" /\ act'[a].todo = {}
    BY <1>4 DEF Becomes
  <2> QED BY <1>1, <1>5, <2>1, <2>2 DEF PlaceOk
<1>7. PlaceInv'
  BY <1>1, <1>4, <1>6, InvIs, OthersPlace
<1>8. LockInv'
  <2>1. ASSUME NEW n \in routines PROVE Stage(n)'
    <3>1. Stage(n)
      BY <1>3, InvIs DEF LockInv
    <3>2. ~Hands(act[a], n) /\ ~Clears(act[a], n)
      BY <1>1 DEF Hands, Clears
    <3> QED BY <1>1, <1>4, <1>5, <3>1, <3>2, InvIs, StageKeeps
  <2> QED BY <1>1, <2>1 DEF LockInv
<1>9. pending_count' = Cardinality(Busy)' + Cardinality(Handing)' + failed'
  <2>1. Counted(a, act[a], ran[a])' <=> Counted(a, act[a], ran[a])
    BY <1>1, <1>4 DEF Counted, Becomes
  <2>2. Cardinality(Busy)' = Cardinality(Busy) /\ Cardinality(Handing)' = Cardinality(Handing)
    BY <1>1, <1>4, <2>1, InvIs, MoverCounts
  <2> QED BY <1>1, <2>2, InvIs DEF CountInv
<1>10. ~Running'
  <2>1. ASSUME NEW b \in Actors PROVE PC(b, "idle")'
    BY <1>2, <1>4 DEF PC, Becomes
  <2> QED BY <1>1, <1>2, <2>1 DEF Running
<1>11. MarkInv' /\ CountInv'
  <2>1. \A b \in Actors : ~PC(b, "completed")'
    BY <1>10 DEF Running, PC
  <2> QED BY <1>9, <1>10, <2>1 DEF MarkInv, CountInv
<1>12. DoneInv'
  <2>1. round # 0 /\ (~Cyclic => Done)
    BY <1>2, <1>3, InvIs DEF DoneInv
  <2>2. round' # 0 /\ (~Cyclic => Done')
    BY <1>1, <2>1 DEF Done
  <2> QED BY <2>2 DEF DoneInv
<1>13. TypeInv'
  <2>1. act' \in [Actors -> Doing]
    BY <1>4 DEF Becomes
  <2>2. failed' \in Nat /\ suspends' \in 0 .. MaxSuspends /\ pending_count' \in Nat
    BY <1>1, InvIs DEF TypeInv, TypeOK
  <2> QED BY <1>1, <2>1, <2>2, InvIs, TypeKeeps
<1>14. GraphInv'
  BY <1>1, InvIs DEF GraphInv, NoCircle
<1> QED BY <1>7, <1>8, <1>11, <1>12, <1>13, <1>14 DEF Inv

LEMMA ResurrectKeeps == ASSUME Inv, resurrect PROVE Inv'
<1>0. PICK a : a = Rescuer
  OBVIOUS
<1>1. /\ act[a].pc = "idle" /\ failed > 0 /\ failed' = failed - 1
      /\ act' = [act EXCEPT ![a] = [pc |-> "look", todo |-> routines, at |-> 0]]
      /\ UNCHANGED <<routines, junctions, edges, round, runtime, pending_count, suspends, ran>>
  BY <1>0 DEF resurrect, PC, graph
<1>2. Live /\ a \in Actors /\ a \notin Ids
  <2>1. pending_count = Cardinality(Busy) + Cardinality(Handing) + failed /\ failed \in Nat /\ pending_count \in Nat
    BY InvIs DEF CountInv, TypeInv, TypeOK
  <2>2. pending_count > 0
    BY <1>1, <2>1, Counts
  <2>3. Running
    BY <2>2 DEF Running
  <2>4. \A c \in Actors : ~PC(c, "completed")
    BY <2>1, <2>2, InvIs DEF CountInv
  <2>5. round # 0
    BY <2>3, InvIs DEF DoneInv
  <2>6. \A n \in routines : Stage(n) /\ (runtime[n] = Unfinished => Rescued(n))
    BY <2>3, InvIs DEF LockInv, MarkInv
  <2> QED BY <1>0, <2>1, <2>2, <2>3, <2>4, <2>5, <2>6, Apart DEF Live
<1>3. Becomes(a, "look", routines, 0)
  <2>1. routines \in SUBSET routines /\ 0 \in Int /\ "look" \in Pcs
    BY DEF Pcs
  <2> QED BY <1>1, <1>2, <2>1, InvIs, MovedIs
<1>4. PlaceOk(a, act[a], ran[a], suspends)'
  <2>1. "look" \in PcsOf(a)
    BY <1>0, Apart DEF PcsOf
  <2>2. act'[a].pc = "look" /\ a \notin Resumers
    BY <1>0, <1>3, Apart DEF Becomes
  <2> QED BY <1>2, <2>1, <2>2 DEF PlaceOk
<1>5. PlaceInv' /\ \A c \in Actors : ~PC(c, "completed")'
  BY <1>1, <1>2, <1>3, <1>4, InvIs, OthersPlace
<1>6. ASSUME NEW n \in routines PROVE Stage(n)' /\ (runtime'[n] = Unfinished => Rescued(n)')
  <2>1. Stage(n)
    BY <1>2 DEF Live
  <2>2. Stage(n)'
    <3>1. ~Hands(act[a], n) /\ ~Clears(act[a], n)
      BY <1>1 DEF Hands, Clears
    <3> QED BY <1>0, <1>1, <1>2, <1>3, <2>1, <3>1, InvIs, StageKeeps
  <2>3. Rescued(n)'
    BY <1>0, <1>3 DEF Rescued, Becomes
  <2> QED BY <2>2, <2>3
<1>7. pending_count' = Cardinality(Busy)' + Cardinality(Handing)' + failed' /\ pending_count' > 0 /\ pending_count' \in Nat
  <2>1. ~Counted(a, act[a], ran[a]) /\ Counted(a, act[a], ran[a])'
    BY <1>1, <1>2, <1>3, InvIs DEF Counted, Becomes
  <2>2. Cardinality(Busy)' = Cardinality(Busy) + 1 /\ Cardinality(Handing)' = Cardinality(Handing)
    BY <1>1, <1>2, <1>3, <2>1, InvIs, MoverCounts
  <2> QED BY <1>1, <1>2, <2>2, Counts DEF Live
<1>8. TypeInv'
  <2>1. act' \in [Actors -> Doing]
    BY <1>3 DEF Becomes
  <2>2. failed' \in Nat /\ suspends' \in 0 .. MaxSuspends
    BY <1>1, InvIs DEF TypeInv, TypeOK
  <2> QED BY <1>1, <1>7, <2>1, <2>2, InvIs, TypeKeeps
<1> QED BY <1>1, <1>2, <1>5, <1>6, <1>7, <1>8, Assemble

LEMMA LookKeeps == ASSUME Inv, Look PROVE Inv'
<1>0. PICK a : a = Rescuer /\ a \in Actors /\ a \notin Ids /\ a \notin Resumers
  BY Apart
<1>1. /\ act[a].pc = "look" /\ act[a].todo # {}
      /\ UNCHANGED <<routines, junctions, edges, round, runtime, pending_count, failed, suspends, ran>>
  BY <1>0 DEF Look, PC, graph
<1>2. PICK i : i = Min(act[a].todo)
  OBVIOUS
<1>3. PICK pc : pc = IF runtime[i] = Unfinished THEN "add" ELSE "look"
  OBVIOUS
<1>4. act' = [act EXCEPT ![a] = [pc |-> pc, todo |-> act[a].todo \ {i}, at |-> i]]
  BY <1>0, <1>2, <1>3 DEF Look
<1>5. Live
  BY <1>0, <1>1, LiveIs
<1>6. act[a].todo \subseteq routines /\ i \in act[a].todo /\ i \in routines /\ i \in Ids /\ i \in Int
  <2>1. act[a].todo \subseteq routines
    BY <1>0, InvIs, PlaceIs
  <2>2. act[a].todo \subseteq Nat
    BY <2>1, InvIs DEF Ids
  <2> QED BY <1>1, <1>2, <2>1, <2>2, InvIs, MinIs
<1>7. Becomes(a, pc, act[a].todo \ {i}, i)
  <2>1. pc \in Pcs /\ act[a].todo \ {i} \in SUBSET routines
    BY <1>3, <1>6 DEF Pcs
  <2> QED BY <1>0, <1>4, <1>6, <2>1, InvIs, MovedIs
<1>8. PlaceOk(a, act[a], ran[a], suspends)'
  <2>1. pc \in PcsOf(a)
    BY <1>0, <1>3, Apart DEF PcsOf
  <2>2. act'[a].pc = pc /\ act'[a].at = i /\ pc \in {"add", "look"}
    BY <1>3, <1>7 DEF Becomes
  <2> QED BY <1>0, <1>1, <1>6, <2>1, <2>2 DEF PlaceOk
<1>9. PlaceInv' /\ \A c \in Actors : ~PC(c, "completed")'
  BY <1>0, <1>1, <1>3, <1>5, <1>7, <1>8, InvIs, OthersPlace
<1>10. ASSUME NEW n \in routines PROVE Stage(n)' /\ (runtime'[n] = Unfinished => Rescued(n)')
  <2>1. Stage(n) /\ (runtime[n] = Unfinished => Rescued(n))
    BY <1>5 DEF Live
  <2>2. ~Hands(act[a], n) /\ ~Clears(act[a], n)
    BY <1>1 DEF Hands, Clears
  <2>3. CASE n = i /\ pc = "add"
    <3>1. runtime[n] = Unfinished /\ runtime'[n] = Unfinished
      BY <1>1, <1>3, <2>3
    <3>2. Waits(n) = {} /\ Dispatchers(n) = {} /\ Clearers(n) = {} /\ act[n].pc = "idle" /\ ran[n] = 0
      <4>1. Clearers(n) = {}
        <5>1. ASSUME NEW c \in Actors, Clears(act[c], n) PROVE FALSE
          BY <1>0, <2>2, <5>1, InvIs, PlaceIs DEF Clears
        <5> QED BY <5>1 DEF Clearers
      <4>2. Waits(n) = {}
        <5>1. ASSUME NEW w \in Waits(n) PROVE FALSE
          BY <2>1, <3>1, <5>1, Blocked DEF Unfinished
        <5> QED BY <5>1
      <4>3. a \notin Dispatchers(n)
        BY <2>2 DEF Dispatchers
      <4>4. Unfinished # 0
        BY DEF Unfinished
      <4> QED BY <1>0, <2>1, <3>1, <4>1, <4>2, <4>3, <4>4 DEF Stage, StageOk
    <3>3. \A b \in Actors \ {a} : Like(b, n)
      <4>1. \A b \in Actors \ {a} : act'[b] = act[b]
        BY <1>7 DEF Becomes
      <4> QED BY <1>1, <4>1, InvIs, OthersLike
    <3>4. ~Owes(a, act[a], ran[a], n)' /\ ~Clears(act[a], n)' /\ Hands(act[a], n)'
      BY <1>0, <1>7, <2>3 DEF Owes, Clears, Hands, Becomes
    <3>5. Waits(n)' = {} /\ Dispatchers(n)' = {a} /\ Clearers(n)' = {}
      BY <1>0, <3>2, <3>3, <3>4, SetsLike
    <3>6. act'[n].pc = "idle" /\ ran'[n] = 0
      <4>1. n \in Actors /\ n # a
        BY <1>0, <1>6, <2>3, Apart
      <4> QED BY <1>1, <1>7, <3>2, <4>1 DEF Becomes
    <3>7. Stage(n)'
      BY <1>0, <3>1, <3>5, <3>6 DEF Stage, StageOk
    <3>8. Rescued(n)'
      BY <1>0, <3>4 DEF Rescued
    <3> QED BY <3>7, <3>8
  <2>4. CASE ~(n = i /\ pc = "add")
    <3>1. Stage(n)'
      <4>1. pc \in {"add", "look"} /\ ~(pc \in {"add", "queue"} /\ i = n)
        BY <1>3, <2>4
      <4> QED BY <1>0, <1>1, <1>7, <2>1, <2>2, <4>1, InvIs, StageKeeps
    <3>2. ASSUME runtime[n] = Unfinished PROVE Rescued(n)'
      <4>1. n # i
        BY <1>3, <2>4, <3>2
      <4>2. failed > 0 \/ (\E c \in Actors : PC(c, "unfinish") /\ c # a) \/ n \in act[a].todo \ {i}
        BY <1>0, <1>1, <2>1, <2>2, <3>2, <4>1 DEF Rescued, PC
      <4> QED BY <1>0, <1>1, <1>7, <4>2 DEF Rescued, PC, Becomes
    <3> QED BY <1>1, <3>1, <3>2
  <2> QED BY <2>3, <2>4
<1>11. pending_count' = Cardinality(Busy)' + Cardinality(Handing)' + failed' /\ pending_count' > 0 /\ pending_count' \in Nat
  <2>1. Counted(a, act[a], ran[a]) /\ Counted(a, act[a], ran[a])' /\ (pc = "queue" <=> act[a].pc = "queue")
    BY <1>1, <1>3, <1>7 DEF Counted, Becomes
  <2>2. Cardinality(Busy)' = Cardinality(Busy) /\ Cardinality(Handing)' = Cardinality(Handing)
    BY <1>0, <1>1, <1>7, <2>1, InvIs, MoverCounts
  <2> QED BY <1>1, <1>5, <2>2, Counts DEF Live
<1>12. TypeInv'
  <2>1. act' \in [Actors -> Doing]
    BY <1>7 DEF Becomes
  <2>2. failed' \in Nat /\ suspends' \in 0 .. MaxSuspends
    BY <1>1, InvIs DEF TypeInv, TypeOK
  <2> QED BY <1>1, <1>11, <2>1, <2>2, InvIs, TypeKeeps
<1> QED BY <1>1, <1>5, <1>9, <1>10, <1>11, <1>12, Assemble

LEMMA ClearMarkKeeps == ASSUME Inv, ClearMark PROVE Inv'
<1>0. PICK a : a = Rescuer /\ a \in Actors /\ a \notin Ids /\ a \notin Resumers
  BY Apart
<1>1. /\ act[a].pc = "clear" /\ runtime' = [runtime EXCEPT ![act[a].at] = 0] /\ Go(a, "look")
      /\ UNCHANGED <<routines, junctions, edges, round, pending_count, failed, suspends, ran>>
  BY <1>0 DEF ClearMark, PC, graph
<1>2. Live
  BY <1>0, <1>1, LiveIs
<1>3. Becomes(a, "look", act[a].todo, act[a].at)
  BY <1>0, <1>1, InvIs, GoIs DEF Pcs
<1>4. PICK i : i = act[a].at /\ i \in routines /\ i \in Ids
  BY <1>0, <1>1, InvIs, PlaceIs DEF PlaceOk
<1>5. PlaceOk(a, act[a], ran[a], suspends)'
  <2>1. "look" \in PcsOf(a)
    BY <1>0, Apart DEF PcsOf
  <2>2. act'[a].pc = "look"
    BY <1>3 DEF Becomes
  <2> QED BY <1>0, <2>1, <2>2 DEF PlaceOk
<1>6. PlaceInv' /\ \A c \in Actors : ~PC(c, "completed")'
  BY <1>0, <1>1, <1>2, <1>3, <1>5, InvIs, OthersPlace
<1>7. runtime'[i] = 0 /\ \A n \in Ids \ {i} : runtime'[n] = runtime[n]
  BY <1>1, <1>4, InvIs
<1>8. ASSUME NEW n \in routines PROVE Stage(n)' /\ (runtime'[n] = Unfinished => Rescued(n)')
  <2>1. Stage(n) /\ (runtime[n] = Unfinished => Rescued(n))
    BY <1>2 DEF Live
  <2>2. CASE n = i
    <3>1. a \in Clearers(n)
      BY <1>0, <1>1, <1>4, <2>2 DEF Clearers, Clears
    <3>2. Waits(n) = {} /\ Dispatchers(n) = {} /\ ran[n] = IF act[n].pc = "queued" THEN 0 ELSE 1
      BY <2>1, <3>1 DEF Stage, StageOk
    <3>3. Clearers(n) \subseteq {a}
      <4>1. ASSUME NEW c \in Actors, Clears(act[c], n) PROVE c = a
        BY <1>0, <4>1, InvIs, PlaceIs DEF Clears
      <4> QED BY <4>1 DEF Clearers
    <3>4. \A b \in Actors \ {a} : Like(b, n)
      <4>1. \A b \in Actors \ {a} : act'[b] = act[b]
        BY <1>3 DEF Becomes
      <4> QED BY <1>1, <4>1, InvIs, OthersLike
    <3>5. ~Owes(a, act[a], ran[a], n)' /\ ~Clears(act[a], n)' /\ ~Hands(act[a], n)'
      BY <1>0, <1>3 DEF Owes, Clears, Hands, Becomes
    <3>6. Waits(n)' = {} /\ Dispatchers(n)' = {} /\ Clearers(n)' = {}
      <4>1. /\ Waits(n)' = Waits(n) \ {a} /\ Dispatchers(n)' = Dispatchers(n) \ {a}
            /\ Clearers(n)' = Clearers(n) \ {a}
        BY <1>0, <3>4, <3>5, SetsLike
      <4> QED BY <3>2, <3>3, <4>1
    <3>7. act'[n].pc = act[n].pc /\ ran'[n] = ran[n] /\ runtime'[n] = 0
      <4>1. n \in Actors /\ n # a
        BY <1>0, <1>4, <2>2, Apart
      <4> QED BY <1>1, <1>3, <1>7, <2>2, <4>1 DEF Becomes
    <3>8. Stage(n)'
      <4>1. PICK p, r : p = act[n].pc /\ r = ran[n] /\ p = act'[n].pc /\ r = ran'[n]
        BY <3>7
      <4>2. StageOk({}, {}, {}, p, r, 0)
        BY <3>2, <4>1 DEF StageOk
      <4> QED BY <3>6, <3>7, <4>1, <4>2 DEF Stage
    <3>9. runtime'[n] # Unfinished
      BY <3>7 DEF Unfinished
    <3> QED BY <3>8, <3>9
  <2>3. CASE n # i
    <3>1. runtime'[n] = runtime[n]
      BY <1>7, <2>3, InvIs
    <3>2. ~Hands(act[a], n) /\ ~Clears(act[a], n)
      BY <1>1, <1>4, <2>3 DEF Hands, Clears
    <3>3. Stage(n)'
      BY <1>0, <1>1, <1>3, <2>1, <3>1, <3>2, InvIs, StageKeeps
    <3>4. ASSUME Rescued(n) PROVE Rescued(n)'
      <4>1. failed > 0 \/ (\E c \in Actors : PC(c, "unfinish") /\ c # a) \/ n \in act[a].todo
        BY <1>0, <1>1, <3>2, <3>4 DEF Rescued, PC
      <4> QED BY <1>0, <1>1, <1>3, <4>1 DEF Rescued, PC, Becomes
    <3> QED BY <2>1, <3>1, <3>3, <3>4
  <2> QED BY <2>2, <2>3
<1>9. pending_count' = Cardinality(Busy)' + Cardinality(Handing)' + failed' /\ pending_count' > 0 /\ pending_count' \in Nat
  <2>1. Counted(a, act[a], ran[a]) /\ Counted(a, act[a], ran[a])'
    BY <1>1, <1>3 DEF Counted, Becomes
  <2>2. Cardinality(Busy)' = Cardinality(Busy) /\ Cardinality(Handing)' = Cardinality(Handing)
    BY <1>0, <1>1, <1>3, <2>1, InvIs, MoverCounts
  <2> QED BY <1>1, <1>2, <2>2, Counts DEF Live
<1>10. TypeInv'
  <2>1. act' \in [Actors -> Doing]
    BY <1>3 DEF Becomes
  <2>2. failed' \in Nat /\ suspends' \in 0 .. MaxSuspends
    BY <1>1, InvIs DEF TypeInv, TypeOK
  <2>3. runtime' \in [Ids -> Nat \cup {Unfinished}]
    BY <1>1, <1>4, InvIs
  <2> QED BY <1>1, <1>9, <2>1, <2>2, <2>3, InvIs, TypeKeeps
<1> QED BY <1>1, <1>2, <1>6, <1>8, <1>9, <1>10, Assemble

LEMMA FinishLookKeeps == ASSUME Inv, FinishLook PROVE Inv'
<1>0. PICK a : a = Rescuer /\ a \in Actors /\ a \notin Ids /\ a \notin Resumers
  BY Apart
<1>1. /\ act[a].pc = "look" /\ act[a].todo = {} /\ Go(a, "finalize")
      /\ UNCHANGED <<routines, junctions, edges, round, runtime, pending_count, failed, suspends, ran>>
  BY <1>0 DEF FinishLook, PC, graph
<1>2. Live
  BY <1>0, <1>1, LiveIs
<1>3. Becomes(a, "finalize", act[a].todo, act[a].at)
  BY <1>0, <1>1, InvIs, GoIs DEF Pcs
<1>4. PlaceOk(a, act[a], ran[a], suspends)'
  <2>1. "finalize" \in PcsOf(a)
    BY DEF PcsOf
  <2>2. act'[a].pc = "finalize" /\ act'[a].todo = {}
    BY <1>1, <1>3 DEF Becomes
  <2> QED BY <1>0, <2>1, <2>2 DEF PlaceOk
<1>5. PlaceInv' /\ \A c \in Actors : ~PC(c, "completed")'
  BY <1>0, <1>1, <1>2, <1>3, <1>4, InvIs, OthersPlace
<1>6. ASSUME NEW n \in routines PROVE Stage(n)' /\ (runtime'[n] = Unfinished => Rescued(n)')
  <2>1. Stage(n) /\ (runtime[n] = Unfinished => Rescued(n))
    BY <1>2 DEF Live
  <2>2. ~Hands(act[a], n) /\ ~Clears(act[a], n)
    BY <1>1 DEF Hands, Clears
  <2>3. Stage(n)'
    BY <1>0, <1>1, <1>3, <2>1, <2>2, InvIs, StageKeeps
  <2>4. ASSUME Rescued(n) PROVE Rescued(n)'
    <3>1. failed > 0 \/ \E c \in Actors : PC(c, "unfinish") /\ c # a
      BY <1>0, <1>1, <2>2, <2>4 DEF Rescued, PC
    <3> QED BY <1>1, <1>3, <3>1 DEF Rescued, PC, Becomes
  <2> QED BY <1>1, <2>1, <2>3, <2>4
<1>7. pending_count' = Cardinality(Busy)' + Cardinality(Handing)' + failed' /\ pending_count' > 0 /\ pending_count' \in Nat
  <2>1. Counted(a, act[a], ran[a]) /\ Counted(a, act[a], ran[a])'
    BY <1>1, <1>3 DEF Counted, Becomes
  <2>2. Cardinality(Busy)' = Cardinality(Busy) /\ Cardinality(Handing)' = Cardinality(Handing)
    BY <1>0, <1>1, <1>3, <2>1, InvIs, MoverCounts
  <2> QED BY <1>1, <1>2, <2>2, Counts DEF Live
<1>8. TypeInv'
  <2>1. act' \in [Actors -> Doing]
    BY <1>3 DEF Becomes
  <2>2. failed' \in Nat /\ suspends' \in 0 .. MaxSuspends
    BY <1>1, InvIs DEF TypeInv, TypeOK
  <2> QED BY <1>1, <1>7, <2>1, <2>2, InvIs, TypeKeeps
<1> QED BY <1>1, <1>2, <1>5, <1>6, <1>7, <1>8, Assemble

LEMMA Next1Is == ASSUME GraphInv, NEW i, NEW n PROVE (n \in Next1(i) <=> <<i, n>> \in edges) /\ Next1(i) \subseteq routines
<1>1. <<i, n>>[1] = i /\ <<i, n>>[2] = n
  OBVIOUS
<1>2. ASSUME NEW e \in edges, e[1] = i, e[2] = n PROVE e = <<i, n>>
  BY <1>2 DEF GraphInv
<1>3. Next1(i) \subseteq routines
  BY DEF Next1, GraphInv
<1> QED BY <1>1, <1>2, <1>3 DEF Next1

LEMMA CallKeeps == ASSUME Inv, NEW i \in Ids, Call(i) PROVE Inv'
<1>1. /\ act[i].pc = "queued" /\ Go(i, "call") /\ ran' = [ran EXCEPT ![i] = ran[i] + 1]
      /\ UNCHANGED <<routines, junctions, edges, round, runtime, pending_count, failed, suspends>>
  BY DEF Call, PC, graph
<1>2. Live /\ i \in Actors
  BY <1>1, LiveIs, Apart
<1>3. Becomes(i, "call", act[i].todo, act[i].at)
  BY <1>1, <1>2, InvIs, GoIs DEF Pcs
<1>4. PlaceOk(i, act[i], ran[i], suspends) /\ act[i].todo = {} /\ i \in routines
  BY <1>1, <1>2, InvIs, PlaceIs DEF PlaceOk
<1>5. act'[i].pc = "call" /\ act'[i].todo = {}
  BY <1>3, <1>4 DEF Becomes
<1>6. Stage(i) /\ Waits(i) = {} /\ Dispatchers(i) = {} /\ ran[i] = 0 /\ runtime[i] = IF Clearers(i) = {} THEN 0 ELSE Unfinished
  <2>1. Stage(i)
    BY <1>2, <1>4 DEF Live
  <2> QED BY <1>1, <2>1 DEF Stage, StageOk
<1>7. ran'[i] = 1 /\ ran' \in [Ids -> Nat] /\ \A b \in Ids \ {i} : ran'[b] = ran[b]
  BY <1>1, <1>6, InvIs
<1>8. PlaceOk(i, act[i], ran[i], suspends)'
  <2>1. "call" \in PcsOf(i)
    BY Apart DEF PcsOf
  <2> QED BY <1>1, <1>4, <1>5, <2>1, Apart DEF PlaceOk
<1>9. PlaceInv' /\ \A c \in Actors : ~PC(c, "completed")'
  BY <1>1, <1>2, <1>3, <1>7, <1>8, InvIs, OthersPlace
<1>10. ASSUME NEW n PROVE \A b \in Actors : Like(b, n)
  <2>1. ASSUME NEW b \in Actors \ {i} PROVE Like(b, n)
    <3>1. act'[b] = act[b] /\ (b \in Ids => ran'[b] = ran[b])
      BY <1>3, <1>7 DEF Becomes
    <3> QED BY <1>1, <3>1, InvIs, OthersLike
  <2>2. Like(i, n)
    BY <1>1, <1>4, <1>5, <1>6 DEF Like, Owes, Hands, Clears
  <2> QED BY <2>1, <2>2
<1>11. ASSUME NEW n \in routines PROVE Stage(n)' /\ (runtime'[n] = Unfinished => Rescued(n)')
  <2>1. Stage(n) /\ (runtime[n] = Unfinished => Rescued(n))
    BY <1>2 DEF Live
  <2>2. Stage(n)'
    <3>1. CASE n = i
      <4>1. Waits(n)' = Waits(n) /\ Dispatchers(n)' = Dispatchers(n) /\ Clearers(n)' = Clearers(n)
        BY <1>10 DEF Like, Waits, Dispatchers, Clearers
      <4> QED BY <1>1, <1>5, <1>6, <1>7, <3>1, <4>1 DEF Stage, StageOk
    <3>2. CASE n # i
      <4>1. n \in Actors /\ n \in Ids
        BY InvIs, Apart
      <4>2. act'[n].pc = act[n].pc /\ ran'[n] = ran[n] /\ runtime'[n] = runtime[n]
        BY <1>1, <1>3, <1>7, <3>2, <4>1 DEF Becomes
      <4> QED BY <1>10, <2>1, <4>2, StageStays
    <3> QED BY <3>1, <3>2
  <2>3. ASSUME Rescued(n) PROVE Rescued(n)'
    <3>1. i # Rescuer /\ act[i].pc # "unfinish"
      BY <1>1, Apart
    <3> QED BY <1>1, <1>2, <1>3, <2>3, <3>1, RescuedKeeps
  <2> QED BY <1>1, <2>1, <2>2, <2>3
<1>12. pending_count' = Cardinality(Busy)' + Cardinality(Handing)' + failed' /\ pending_count' > 0 /\ pending_count' \in Nat
  <2>1. Counted(i, act[i], ran[i]) /\ Counted(i, act[i], ran[i])'
    BY <1>1, <1>5 DEF Counted
  <2>2. Cardinality(Busy)' = Cardinality(Busy) /\ Cardinality(Handing)' = Cardinality(Handing)
    BY <1>1, <1>2, <1>3, <1>7, <2>1, InvIs, MoverCounts
  <2> QED BY <1>1, <1>2, <2>2, Counts DEF Live
<1>13. TypeInv'
  <2>1. act' \in [Actors -> Doing]
    BY <1>3 DEF Becomes
  <2>2. failed' \in Nat /\ suspends' \in 0 .. MaxSuspends
    BY <1>1, InvIs DEF TypeInv, TypeOK
  <2> QED BY <1>1, <1>7, <1>12, <2>1, <2>2, InvIs, TypeKeeps
<1> QED BY <1>1, <1>2, <1>9, <1>11, <1>12, <1>13, Assemble

LEMMA CompleteKeeps == ASSUME Inv, NEW i \in Ids, complete(i) PROVE Inv'
<1>1. /\ act[i].pc = "call"
      /\ act' = [act EXCEPT ![i] = IF i \in junctions THEN Quiet ELSE [pc |-> "unlock", todo |-> Next1(i), at |-> 0]]
      /\ UNCHANGED <<routines, junctions, edges, round, runtime, pending_count, failed, suspends, ran>>
  BY DEF complete, PC, graph
<1>2. Live /\ i \in Actors
  BY <1>1, LiveIs, Apart
<1>3. PICK pc, todo : /\ pc = IF i \in junctions THEN "idle" ELSE "unlock"
                      /\ todo = IF i \in junctions THEN {} ELSE Next1(i)
  OBVIOUS
<1>4. Becomes(i, pc, todo, 0)
  <2>1. act' = [act EXCEPT ![i] = [pc |-> pc, todo |-> todo, at |-> 0]]
    <3>1. CASE i \in junctions
      BY <1>1, <1>3, <3>1 DEF Quiet
    <3>2. CASE i \notin junctions
      BY <1>1, <1>3, <3>2
    <3> QED BY <3>1, <3>2
  <2>2. pc \in Pcs /\ todo \in SUBSET routines /\ 0 \in Int
    <3>1. \A n : Next1(i) \subseteq routines
      BY InvIs, Next1Is
    <3> QED BY <1>3, <3>1 DEF Pcs
  <2> QED BY <1>2, <2>1, <2>2, InvIs, MovedIs
<1>5. PlaceOk(i, act[i], ran[i], suspends) /\ act[i].todo = {} /\ i \in routines
  BY <1>1, <1>2, InvIs, PlaceIs DEF PlaceOk
<1>6. act'[i].pc = pc /\ act'[i].todo = todo
  BY <1>4 DEF Becomes
<1>7. ran[i] = 1
  <2>1. Stage(i)
    BY <1>2, <1>5 DEF Live
  <2> QED BY <1>1, <2>1 DEF Stage, StageOk
<1>8. PlaceOk(i, act[i], ran[i], suspends)'
  <2>1. pc \in PcsOf(i)
    BY <1>3, Apart DEF PcsOf
  <2>2. Next1(i)' = Next1(i)
    BY <1>1 DEF Next1
  <2> QED BY <1>1, <1>3, <1>5, <1>6, <1>7, <2>1, <2>2, Apart DEF PlaceOk
<1>9. PlaceInv' /\ \A c \in Actors : ~PC(c, "completed")'
  BY <1>1, <1>2, <1>3, <1>4, <1>8, InvIs, OthersPlace
<1>10. ASSUME NEW n PROVE \A b \in Actors : Like(b, n)
  <2>1. ASSUME NEW b \in Actors \ {i} PROVE Like(b, n)
    <3>1. act'[b] = act[b]
      BY <1>4 DEF Becomes
    <3> QED BY <1>1, <3>1, InvIs, OthersLike
  <2>2. Like(i, n)
    <3>1. n \in Next1(i) <=> <<i, n>> \in edges
      BY InvIs, Next1Is
    <3>2. Owes(i, act[i], ran[i], n)' <=> Owes(i, act[i], ran[i], n)
      BY <1>1, <1>3, <1>5, <1>6, <1>7, <3>1 DEF Owes
    <3> QED BY <1>1, <1>3, <1>6, <3>2 DEF Like, Hands, Clears
  <2> QED BY <2>1, <2>2
<1>11. ASSUME NEW n \in routines PROVE Stage(n)' /\ (runtime'[n] = Unfinished => Rescued(n)')
  <2>1. Stage(n) /\ (runtime[n] = Unfinished => Rescued(n))
    BY <1>2 DEF Live
  <2>2. Stage(n)'
    <3>1. act'[n].pc = act[n].pc \/ (act[n].pc \notin {"idle", "queued"} /\ act'[n].pc # "queued")
      <4>1. n \in Actors
        BY InvIs, Apart
      <4> QED BY <1>1, <1>3, <1>4, <4>1 DEF Becomes
    <3> QED BY <1>1, <1>10, <2>1, <3>1, StageStays
  <2>3. ASSUME Rescued(n) PROVE Rescued(n)'
    <3>1. i # Rescuer /\ act[i].pc # "unfinish"
      BY <1>1, Apart
    <3> QED BY <1>1, <1>2, <1>4, <2>3, <3>1, RescuedKeeps
  <2> QED BY <1>1, <2>1, <2>2, <2>3
<1>12. pending_count' = Cardinality(Busy)' + Cardinality(Handing)' + failed' /\ pending_count' > 0 /\ pending_count' \in Nat
  <2>1. Counted(i, act[i], ran[i]) /\ Counted(i, act[i], ran[i])' /\ (pc = "queue" <=> act[i].pc = "queue")
    BY <1>1, <1>3, <1>6, <1>7 DEF Counted
  <2>2. Cardinality(Busy)' = Cardinality(Busy) /\ Cardinality(Handing)' = Cardinality(Handing)
    BY <1>1, <1>2, <1>4, <2>1, InvIs, MoverCounts
  <2> QED BY <1>1, <1>2, <2>2, Counts DEF Live
<1>13. TypeInv'
  <2>1. act' \in [Actors -> Doing]
    BY <1>4 DEF Becomes
  <2>2. failed' \in Nat /\ suspends' \in 0 .. MaxSuspends
    BY <1>1, InvIs DEF TypeInv, TypeOK
  <2> QED BY <1>1, <1>12, <2>1, <2>2, InvIs, TypeKeeps
<1> QED BY <1>1, <1>2, <1>9, <1>11, <1>12, <1>13, Assemble

LEMMA SuspendKeeps == ASSUME Inv, NEW i \in Ids, suspend(i) PROVE Inv'
<1>1. /\ act[i].pc = "call" /\ suspends < MaxSuspends /\ pending_count' = pending_count + 1 /\ suspends' = suspends + 1
      /\ UNCHANGED <<routines, junctions, edges, round, failed, ran>>
  BY DEF suspend, PC, graph
<1>2. PICK j \in Reach({i}) \ {i} :
        /\ runtime' = [runtime EXCEPT ![j] = runtime[j] + 1]
        /\ act' = [act EXCEPT ![-(suspends + 1)] = [pc |-> "hold", todo |-> {j}, at |-> 0]]
  BY DEF suspend
<1>3. Live /\ i \in Actors /\ i # Rescuer
  BY <1>1, LiveIs, Apart
<1>4. PICK k : k = -(suspends + 1) /\ k \in Resumers /\ -k = suspends + 1
  <2>1. suspends + 1 \in 1 .. MaxSuspends
    BY <1>1, InvIs
  <2> QED BY <2>1, InvIs DEF Resumers
<1>5. k \in Actors /\ k \notin Ids /\ k # Main /\ k # Rescuer
  BY <1>4, Apart
<1>6. act[k].pc = "idle" /\ act[k].todo = {}
  <2>1. ~(-k <= suspends)
    BY <1>4, InvIs
  <2>2. PlaceOk(k, act[k], ran[k], suspends)
    BY <1>5, InvIs, PlaceIs
  <2> QED BY <1>4, <2>1, <2>2 DEF PlaceOk
\* What the routine leads to is blocked: by it, or by something that is.
<1>7. j \in routines /\ j # i /\ Waits(j) # {}
  <2>1. i \in routines
    BY <1>1, <1>3, InvIs, PlaceIs DEF PlaceOk
  <2>2. PICK U : U = {n \in routines : Waits(n) # {}} \cup {i}
    OBVIOUS
  <2>3. ASSUME NEW e \in edges, e[1] \in U PROVE e[2] \in U
    <3>1. e = <<e[1], e[2]>> /\ e[1] \in routines /\ e[2] \in routines /\ e[1] \in Actors /\ e[1] # Rescuer
      BY InvIs, Apart
    <3>2. act[e[1]].pc = "call" \/ ran[e[1]] = 0
      <4>1. CASE e[1] = i
        BY <1>1, <4>1
      <4>2. CASE e[1] # i
        <5>1. Waits(e[1]) # {} /\ Stage(e[1])
          BY <1>3, <2>2, <2>3, <3>1, <4>2 DEF Live
        <5> QED BY <5>1, Blocked
      <4> QED BY <4>1, <4>2
    <3>3. e[1] \in Waits(e[2])
      BY <3>1, <3>2 DEF Waits, Owes
    <3> QED BY <2>2, <3>1, <3>3
  <2>4. Reach({i}) \subseteq U
    BY <2>2, <2>3, ReachLeast DEF Closed
  <2> QED BY <1>2, <2>1, <2>2, <2>4
<1>8. Becomes(k, "hold", {j}, 0)
  <2>1. {j} \in SUBSET routines /\ 0 \in Int /\ "hold" \in Pcs
    BY <1>7 DEF Pcs
  <2> QED BY <1>2, <1>4, <1>5, <2>1, InvIs, MovedIs
<1>9. act'[k].pc = "hold" /\ act'[k].todo = {j}
  BY <1>8 DEF Becomes
<1>10. PlaceOk(k, act[k], ran[k], suspends)'
  <2>1. "hold" \in PcsOf(k)
    BY <1>5 DEF PcsOf
  <2> QED BY <1>1, <1>4, <1>5, <1>9, <2>1, InvIs DEF PlaceOk
<1>11. PlaceInv' /\ \A c \in Actors : ~PC(c, "completed")'
  <2>1. suspends' \in Nat /\ suspends <= suspends'
    BY <1>1, InvIs
  <2> QED BY <1>1, <1>3, <1>5, <1>8, <1>10, <2>1, InvIs, OthersPlace
<1>12. ASSUME NEW n, NEW b \in Actors \ {k} PROVE Like(b, n)
  <2>1. act'[b] = act[b]
    BY <1>8 DEF Becomes
  <2> QED BY <1>1, <2>1, InvIs, OthersLike
<1>13. j \in Ids /\ runtime'[j] = runtime[j] + 1 /\ \A n \in Ids \ {j} : runtime'[n] = runtime[n]
  BY <1>2, <1>7, InvIs
<1>14. PICK w : w \in Waits(j)
  BY <1>7
<1>15. /\ runtime[j] = Cardinality(Waits(j)) /\ Dispatchers(j) = {} /\ Clearers(j) = {}
       /\ act[j].pc = "idle" /\ ran[j] = 0
       /\ Cardinality(Waits(j)) \in Nat \ {0} /\ IsFiniteSet(Waits(j))
  <2>1. Stage(j)
    BY <1>3, <1>7 DEF Live
  <2> QED BY <1>14, <2>1, Blocked
<1>16. ~Hands(act[k], j)' /\ ~Clears(act[k], j)' /\ Owes(k, act[k], ran[k], j)' /\ k \notin Waits(j)
  <2>1. <<k, j>> \notin edges
    BY <1>5, InvIs
  <2> QED BY <1>5, <1>6, <1>9, <2>1 DEF Hands, Clears, Owes, Waits
<1>17. Stage(j)'
  <2>1. Waits(j)' = Waits(j) \cup {k} /\ Dispatchers(j)' = Dispatchers(j) \ {k} /\ Clearers(j)' = Clearers(j) \ {k}
    BY <1>5, <1>12, <1>16, SetsLike
  <2>2. act'[j].pc = "idle" /\ ran'[j] = 0
    <3>1. j \in Actors /\ j # k
      BY <1>5, <1>13, Apart
    <3> QED BY <1>1, <1>8, <1>15, <3>1 DEF Becomes
  <2>3. Cardinality(Waits(j) \cup {k}) = Cardinality(Waits(j)) + 1
    BY <1>15, <1>16, FS_AddElement
  <2>4. runtime'[j] = Cardinality(Waits(j)')
    BY <1>13, <1>15, <2>1, <2>3
  <2> QED BY <1>15, <2>1, <2>2, <2>4 DEF Stage, StageOk
<1>18. ASSUME NEW n \in routines PROVE Stage(n)' /\ (runtime'[n] = Unfinished => Rescued(n)')
  <2>1. Stage(n) /\ (runtime[n] = Unfinished => Rescued(n))
    BY <1>3 DEF Live
  <2>2. Rescued(n) => Rescued(n)'
    BY <1>1, <1>5, <1>6, <1>8, RescuedKeeps
  <2>3. CASE n = j
    <3>1. runtime'[n] # Unfinished
      BY <1>13, <1>15, <2>3 DEF Unfinished
    <3> QED BY <1>17, <2>3, <3>1
  <2>4. CASE n # j
    <3>1. runtime'[n] = runtime[n]
      BY <1>13, <2>4, InvIs
    <3>2. ~Hands(act[k], n) /\ ~Clears(act[k], n) /\ (n \in {j} <=> n \in act[k].todo)
      BY <1>6, <2>4 DEF Hands, Clears
    <3>3. Stage(n)'
      BY <1>1, <1>5, <1>6, <1>8, <2>1, <3>1, <3>2, InvIs, StageKeeps
    <3> QED BY <2>1, <2>2, <3>1, <3>3
  <2> QED BY <2>3, <2>4
<1>19. pending_count' = Cardinality(Busy)' + Cardinality(Handing)' + failed' /\ pending_count' > 0 /\ pending_count' \in Nat
  <2>1. ~Counted(k, act[k], ran[k]) /\ Counted(k, act[k], ran[k])'
    BY <1>1, <1>5, <1>6, <1>9, InvIs DEF Counted
  <2>2. Cardinality(Busy)' = Cardinality(Busy) + 1 /\ Cardinality(Handing)' = Cardinality(Handing)
    BY <1>1, <1>5, <1>6, <1>8, <2>1, InvIs, MoverCounts
  <2> QED BY <1>1, <1>3, <2>2, Counts DEF Live
<1>20. TypeInv'
  <2>1. act' \in [Actors -> Doing]
    BY <1>8 DEF Becomes
  <2>2. failed' \in Nat /\ suspends' \in 0 .. MaxSuspends
    BY <1>1, InvIs DEF TypeInv, TypeOK
  <2>3. runtime' \in [Ids -> Nat \cup {Unfinished}]
    BY <1>2, <1>13, <1>15, InvIs
  <2> QED BY <1>1, <1>19, <2>1, <2>2, <2>3, InvIs, TypeKeeps
<1> QED BY <1>1, <1>3, <1>11, <1>18, <1>19, <1>20, Assemble

LEMMA QueueKeeps == ASSUME Inv, NEW a \in Actors, Queue(a) PROVE Inv'
<1>1. /\ act[a].pc = "queue"
      /\ UNCHANGED <<routines, junctions, edges, round, runtime, pending_count, failed, suspends, ran>>
  BY DEF Queue, PC, graph
<1>2. PICK i, pc : i = act[a].at /\ pc = IF a = Rescuer THEN "clear" ELSE "unlock"
  OBVIOUS
<1>3. act' = [act EXCEPT ![a].pc = pc, ![i] = [Quiet EXCEPT !.pc = "queued"]]
  BY <1>2 DEF Queue
<1>4. Live
  BY <1>1, LiveIs
<1>5. PlaceOk(a, act[a], ran[a], suspends) /\ i \in routines /\ i \in Ids /\ i \in Actors /\ act[a].todo \subseteq routines
  BY <1>1, <1>2, InvIs, PlaceIs, Apart DEF PlaceOk
<1>6. /\ Waits(i) = {} /\ Clearers(i) = {} /\ Dispatchers(i) = {a} /\ act[i].pc = "idle" /\ ran[i] = 0
      /\ runtime[i] = IF a = Rescuer THEN Unfinished ELSE 0
  <2>1. a \in Dispatchers(i)
    BY <1>1, <1>2 DEF Dispatchers, Hands
  <2>2. Stage(i)
    BY <1>4, <1>5 DEF Live
  <2> QED BY <2>1, <2>2 DEF Stage, StageOk
<1>7. i # a /\ act[i].todo = {}
  <2>1. PlaceOk(i, act[i], ran[i], suspends)
    BY <1>5, InvIs, PlaceIs
  <2> QED BY <1>1, <1>6, <2>1 DEF PlaceOk
<1>8. /\ act' \in [Actors -> Doing] /\ act'[a].pc = pc /\ act'[a].todo = act[a].todo /\ act'[a].at = i
      /\ act'[i].pc = "queued" /\ act'[i].todo = {} /\ \A b \in Actors \ {a, i} : act'[b] = act[b]
  <2>1. PICK x, y : x = [act[a] EXCEPT !.pc = pc] /\ y = [Quiet EXCEPT !.pc = "queued"]
    OBVIOUS
  <2>2. act \in [Actors -> Doing] /\ act[a] \in Doing
    BY InvIs DEF TypeInv, Doing
  <2>3. x \in Doing /\ x.pc = pc /\ x.todo = act[a].todo /\ x.at = i
    BY <1>2, <2>1, <2>2 DEF Doing, Pcs
  <2>4. y \in Doing /\ y.pc = "queued" /\ y.todo = {}
    BY <2>1 DEF Doing, Pcs, Quiet
  <2>5. act' = [act EXCEPT ![a] = x, ![i] = y]
    BY <1>3, <1>7, <2>1, <2>2
  <2>6. act' \in [Actors -> Doing] /\ act'[a] = x /\ act'[i] = y /\ \A b \in Actors \ {a, i} : act'[b] = act[b]
    BY <1>5, <1>7, <2>2, <2>3, <2>4, <2>5
  <2> QED BY <2>3, <2>4, <2>6
<1>9. pc \in {"clear", "unlock"} /\ (pc = "clear" <=> a = Rescuer)
  BY <1>2
<1>10. PlaceOk(a, act[a], ran[a], suspends)'
  <2>1. pc \in PcsOf(a)
    BY <1>1, <1>2, <1>5, Apart DEF PlaceOk, PcsOf
  <2>2. Next1(a)' = Next1(a)
    BY <1>1 DEF Next1
  <2> QED BY <1>1, <1>5, <1>8, <1>9, <2>1, <2>2 DEF PlaceOk
<1>11. PlaceOk(i, act[i], ran[i], suspends)'
  <2>1. "queued" \in PcsOf(i)
    BY <1>5, Apart DEF PcsOf
  <2> QED BY <1>1, <1>5, <1>8, <2>1, Apart DEF PlaceOk
<1>12. PlaceInv' /\ \A c \in Actors : ~PC(c, "completed")'
  <2>1. ASSUME NEW b \in Actors \ {a, i} PROVE PlaceOk(b, act[b], ran[b], suspends)'
    <3>1. act'[b] = act[b] /\ PlaceOk(b, act[b], ran[b], suspends)
      BY <1>8, InvIs, PlaceIs
    <3> QED BY <1>1, <3>1, InvIs, OthersLike
  <2>2. PlaceInv'
    BY <1>10, <1>11, <2>1 DEF PlaceInv
  <2>3. \A c \in Actors : ~PC(c, "completed")'
    BY <1>4, <1>8, <1>9 DEF Live, PC
  <2> QED BY <2>2, <2>3
<1>13. ASSUME NEW n, NEW b \in Actors \ {a} PROVE Like(b, n)
  <2>1. CASE b = i
    <3>1. ran'[i] = 0
      BY <1>1, <1>6
    <3>2. Owes(i, act[i], ran[i], n)' <=> Owes(i, act[i], ran[i], n)
      BY <1>1, <1>6, <1>7, <1>8, <3>1 DEF Owes
    <3> QED BY <1>6, <1>8, <2>1, <3>2 DEF Like, Hands, Clears
  <2>2. CASE b # i
    <3>1. act'[b] = act[b]
      BY <1>8, <2>2
    <3> QED BY <1>1, <3>1, InvIs, OthersLike
  <2> QED BY <2>1, <2>2
<1>14. ASSUME NEW n PROVE Owes(a, act[a], ran[a], n)' <=> Owes(a, act[a], ran[a], n)
  BY <1>1, <1>8, <1>9 DEF Owes
<1>15. ASSUME NEW n \in routines PROVE Stage(n)' /\ (runtime'[n] = Unfinished => Rescued(n)')
  <2>1. Stage(n) /\ (runtime[n] = Unfinished => Rescued(n))
    BY <1>4 DEF Live
  <2>2. ASSUME n = i PROVE Stage(n)'
    <3>1. ~Owes(a, act[a], ran[a], n)'
      <4>1. ~Owes(a, act[a], ran[a], n)
        BY <1>6, <2>2 DEF Waits
      <4> QED BY <1>14, <4>1
    <3>2. ~Hands(act[a], n)' /\ (Clears(act[a], n)' <=> a = Rescuer)
      BY <1>8, <1>9, <2>2 DEF Hands, Clears
    <3>3. /\ Waits(n)' = Waits(n) \ {a} /\ Dispatchers(n)' = Dispatchers(n) \ {a}
          /\ Clearers(n)' = IF a = Rescuer THEN Clearers(n) \cup {a} ELSE Clearers(n) \ {a}
      BY <1>13, <3>1, <3>2, SetsLike
    <3>4. Waits(n)' = {} /\ Dispatchers(n)' = {} /\ Clearers(n)' = IF a = Rescuer THEN {a} ELSE {}
      BY <1>6, <2>2, <3>3
    <3>5. act'[n].pc = "queued" /\ ran'[n] = 0 /\ runtime'[n] = IF Clearers(n)' = {} THEN 0 ELSE Unfinished
      BY <1>1, <1>6, <1>8, <2>2, <3>4
    <3> QED BY <3>4, <3>5 DEF Stage, StageOk
  <2>3. ASSUME n # i PROVE Stage(n)'
    <3>1. Like(a, n)
      <4>1. ~Hands(act[a], n) /\ ~Hands(act[a], n)' /\ ~Clears(act[a], n) /\ ~Clears(act[a], n)'
        BY <1>1, <1>2, <1>8, <2>3 DEF Hands, Clears
      <4> QED BY <1>14, <4>1 DEF Like
    <3>2. \A b \in Actors : Like(b, n)
      BY <1>13, <3>1
    <3>3. act'[n].pc = act[n].pc \/ (act[n].pc \notin {"idle", "queued"} /\ act'[n].pc # "queued")
      <4>1. n \in Actors
        BY InvIs, Apart
      <4> QED BY <1>1, <1>8, <1>9, <2>3, <4>1
    <3> QED BY <1>1, <2>1, <3>2, <3>3, StageStays
  <2>5. ASSUME Rescued(n) PROVE Rescued(n)'
    <3>1. \A c \in Actors : PC(c, "unfinish") => PC(c, "unfinish")'
      BY <1>1, <1>6, <1>8 DEF PC
    <3>2. CASE a = Rescuer
      BY <1>1, <1>2, <1>8, <1>9, <2>5, <3>1, <3>2 DEF Rescued, Hands, Clears
    <3>3. CASE a # Rescuer
      <4>1. act'[Rescuer] = act[Rescuer]
        BY <1>5, <1>8, <3>3, Apart
      <4> QED BY <1>1, <2>5, <3>1, <4>1 DEF Rescued, Hands, Clears
    <3> QED BY <3>2, <3>3
  <2> QED BY <1>1, <2>1, <2>2, <2>3, <2>5
<1>16. pending_count' = Cardinality(Busy)' + Cardinality(Handing)' + failed' /\ pending_count' > 0 /\ pending_count' \in Nat
  <2>1. ASSUME NEW b \in Actors \ {a, i}
        PROVE  (Counted(b, act[b], ran[b])' <=> Counted(b, act[b], ran[b])) /\ (PC(b, "queue")' <=> PC(b, "queue"))
    <3>1. act'[b] = act[b]
      BY <1>8
    <3> QED BY <1>1, <3>1, InvIs, OthersLike DEF PC
  <2>2. Counted(a, act[a], ran[a]) /\ Counted(a, act[a], ran[a])' /\ ~Counted(i, act[i], ran[i]) /\ Counted(i, act[i], ran[i])'
    BY <1>1, <1>6, <1>8, <1>9 DEF Counted
  <2>3. PC(a, "queue") /\ ~PC(a, "queue")' /\ ~PC(i, "queue") /\ ~PC(i, "queue")'
    BY <1>1, <1>6, <1>8, <1>9 DEF PC
  <2>4. PICK S, T, U, V : S = Busy /\ T = Busy' /\ U = Handing /\ V = Handing'
    OBVIOUS
  <2>5. Differ(S, T, i) /\ i \notin S /\ i \in T
    BY <1>5, <2>1, <2>2, <2>4 DEF Differ, Busy
  <2>6. Differ(U, V, a) /\ a \in U /\ a \notin V
    BY <2>1, <2>3, <2>4 DEF Differ, Handing
  <2>7. Cardinality(T) = Cardinality(S) + 1
    BY <2>5, OneMoves
  <2>8. Cardinality(V) = Cardinality(U) - 1
    BY <2>6, OneMoves
  <2>9. Cardinality(Busy)' = Cardinality(Busy) + 1 /\ Cardinality(Handing)' = Cardinality(Handing) - 1
    BY <2>4, <2>7, <2>8
  <2> QED BY <1>1, <1>4, <2>9, Counts DEF Live
<1>17. TypeInv'
  <2>1. failed' \in Nat /\ suspends' \in 0 .. MaxSuspends
    BY <1>1, InvIs DEF TypeInv, TypeOK
  <2> QED BY <1>1, <1>8, <1>16, <2>1, InvIs, TypeKeeps
<1> QED BY <1>1, <1>4, <1>12, <1>15, <1>16, <1>17, Assemble

LEMMA StopIs ==
  ASSUME Inv, ~Running
  PROVE  /\ pending_count = 0 /\ failed = 0 /\ Busy = {} /\ Handing = {}
         /\ \A b \in Actors : act[b].pc = "idle" /\ act[b].todo = {}
         /\ \A b \in junctions : ran[b] = 0
<1>1. pending_count = 0 /\ \A b \in Actors : act[b].pc = "idle"
  BY DEF Running, PC
<1>2. \A b \in Actors : act[b].todo = {}
  BY <1>1, InvIs, PlaceIs DEF PlaceOk
<1>3. pending_count = Cardinality(Busy) + Cardinality(Handing) + failed /\ failed \in Nat
  BY InvIs DEF CountInv, TypeInv, TypeOK
<1>4. Cardinality(Busy) = 0 /\ Cardinality(Handing) = 0 /\ failed = 0
  BY <1>1, <1>3, Counts
<1>5. IsFiniteSet(Busy) /\ IsFiniteSet(Handing)
  BY Counts, Apart, FS_Subset
<1>6. Busy = {} /\ Handing = {}
  BY <1>4, <1>5, FS_EmptySet
<1>7. \A b \in junctions : ran[b] = 0
  <2>1. \A b \in junctions : b \in Actors
    BY InvIs, Apart
  <2> QED BY <1>6, <2>1 DEF Busy, Counted
<1> QED BY <1>1, <1>2, <1>4, <1>6, <1>7

(* Everybody who waits for a routine's predecessors, and flush() itself, hold it back.    *)
LEMMA LocksIs ==
  ASSUME GraphInv, NEW n \in routines
  PROVE  LET P == {a \in Actors : <<a, n>> \in edges}
         IN  /\ IsFiniteSet(P \cup {Main}) /\ Cardinality(P \cup {Main}) = Locks(n) + 1
             /\ Locks(n) \in Nat /\ Locks(n) + 1 \in Nat
<1>1. PICK P : P = {a \in Actors : <<a, n>> \in edges}
  OBVIOUS
<1>2. P \subseteq Actors /\ Main \notin P
  BY <1>1, Apart DEF GraphInv
<1>3. IsFiniteSet(P)
  BY <1>2, Apart, FS_Subset
<1>4. PICK E : E = {e \in edges : e[2] = n}
  OBVIOUS
<1>5. PICK f : f = [a \in P |-> <<a, n>>]
  OBVIOUS
<1>6. f \in Bijection(P, E)
  <2>1. ASSUME NEW a \in P PROVE f[a] = <<a, n>> /\ f[a] \in E /\ f[a][1] = a
    BY <1>1, <1>4, <1>5
  <2>2. f \in [P -> E]
    BY <1>5, <2>1
  <2>3. \A a, b \in P : f[a] = f[b] => a = b
    BY <2>1
  <2>4. ASSUME NEW e \in E PROVE \E a \in P : f[a] = e
    <3>1. e = <<e[1], n>> /\ e[1] \in routines /\ e \in edges
      BY <1>4 DEF GraphInv
    <3>2. e[1] \in Actors
      BY <3>1, Apart DEF GraphInv
    <3>3. e[1] \in P
      BY <1>1, <3>1, <3>2
    <3> QED BY <2>1, <3>1, <3>3
  <2> QED BY <2>2, <2>3, <2>4 DEF Bijection, Injection, Surjection, IsInjective
<1>7. Cardinality(E) = Cardinality(P)
  BY <1>3, <1>6, FS_Bijection DEF ExistsBijection
<1>8. Locks(n) = Cardinality(P) /\ Cardinality(P) \in Nat
  BY <1>3, <1>4, <1>7, FS_CardinalityType DEF Locks
<1>9. IsFiniteSet(P \cup {Main}) /\ Cardinality(P \cup {Main}) = Cardinality(P) + 1
  BY <1>2, <1>3, FS_AddElement
<1>10. Locks(n) + 1 \in Nat
  BY <1>8
<1> QED BY <1>1, <1>8, <1>9, <1>10

LEMMA FlushKeeps == ASSUME Inv, flush PROVE Inv'
<1>1. /\ ~Running /\ round < MaxRounds /\ round' = round + 1 /\ ran' = [i \in Ids |-> 0] /\ suspends' = 0
      /\ runtime' = [i \in Ids |-> IF i \in routines THEN Locks(i) + 1 ELSE 0]
      /\ pending_count' = pending_count + 1
      /\ act' = [act EXCEPT ![Main] = [pc |-> "unlock", todo |-> routines, at |-> 0]]
      /\ UNCHANGED <<routines, junctions, edges, failed>>
  BY DEF flush, graph
<1>2. Main \in Actors /\ Main \notin Ids /\ Main # Rescuer /\ Main \notin Resumers
  BY Apart
<1>3. /\ pending_count = 0 /\ failed = 0 /\ Busy = {} /\ Handing = {}
      /\ \A b \in Actors : act[b].pc = "idle" /\ act[b].todo = {}
  BY <1>1, StopIs
<1>4. Becomes(Main, "unlock", routines, 0)
  <2>1. routines \in SUBSET routines /\ 0 \in Int /\ "unlock" \in Pcs
    BY DEF Pcs
  <2> QED BY <1>1, <1>2, <2>1, InvIs, MovedIs
<1>5. act'[Main].pc = "unlock" /\ act'[Main].todo = routines /\ \A b \in Actors \ {Main} : act'[b].pc = "idle" /\ act'[b].todo = {}
  BY <1>3, <1>4 DEF Becomes
<1>6. PlaceInv'
  <2>1. ASSUME NEW b \in Actors PROVE PlaceOk(b, act[b], ran[b], suspends)'
    <3>1. CASE b = Main
      <4>1. "unlock" \in PcsOf(b)
        BY <3>1 DEF PcsOf
      <4> QED BY <1>2, <1>5, <3>1, <4>1 DEF PlaceOk
    <3>2. CASE b # Main
      <4>1. "idle" \in PcsOf(b)
        BY DEF PcsOf
      <4> QED BY <1>5, <3>2, <4>1 DEF PlaceOk
    <3> QED BY <3>1, <3>2
  <2> QED BY <2>1 DEF PlaceInv
<1>7. ASSUME NEW n \in routines PROVE Stage(n)' /\ runtime'[n] # Unfinished
  <2>1. PICK W : W = {a \in Actors : <<a, n>> \in edges} \cup {Main}
    OBVIOUS
  <2>2. Cardinality(W) = Locks(n) + 1 /\ Locks(n) \in Nat /\ Main \in W
    BY <2>1, InvIs, LocksIs
  <2>3. Waits(n)' = W
    <3>1. ASSUME NEW b \in Actors \ {Main} PROVE Owes(b, act[b], ran[b], n)' <=> <<b, n>> \in edges
      <4>1. CASE b \in Ids
        BY <1>1, <1>5, <4>1, Apart DEF Owes
      <4>2. CASE b \notin Ids
        BY <1>1, <1>5, <4>2, InvIs DEF Owes
      <4> QED BY <4>1, <4>2
    <3>2. Owes(Main, act[Main], ran[Main], n)'
      BY <1>2, <1>5 DEF Owes
    <3> QED BY <1>2, <2>1, <3>1, <3>2 DEF Waits
  <2>4. Dispatchers(n)' = {} /\ Clearers(n)' = {}
    BY <1>5 DEF Dispatchers, Clearers, Hands, Clears
  <2>5. act'[n].pc = "idle" /\ ran'[n] = 0 /\ runtime'[n] = Locks(n) + 1 /\ n \in Ids
    BY <1>1, <1>2, <1>5, InvIs, Apart
  <2>6. Stage(n)'
    BY <2>2, <2>3, <2>4, <2>5 DEF Stage, StageOk
  <2> QED BY <2>2, <2>5, <2>6 DEF Unfinished
<1>8. LockInv' /\ MarkInv'
  BY <1>1, <1>7 DEF LockInv, MarkInv
<1>9. CountInv'
  <2>1. ASSUME NEW b \in Actors \ {Main} PROVE ~Counted(b, act[b], ran[b])' /\ ~PC(b, "queue")'
    <3>1. b \in junctions' => ran'[b] = 0
      BY <1>1, InvIs
    <3> QED BY <1>5, <3>1 DEF Counted, PC
  <2>2. Counted(Main, act[Main], ran[Main])' /\ ~PC(Main, "queue")'
    BY <1>5 DEF Counted, PC
  <2>3. Busy' = {Main} /\ Handing' = {}
    BY <1>2, <2>1, <2>2 DEF Busy, Handing
  <2>4. Cardinality({Main}) = 1
    BY FS_Singleton
  <2>5. Cardinality({}) = 0
    BY FS_EmptySet
  <2>6. \A c \in Actors : ~PC(c, "completed")'
    BY <1>5 DEF PC
  <2>7. pending_count' = 1 /\ failed' = 0
    BY <1>1, <1>3
  <2> QED BY <2>3, <2>4, <2>5, <2>6, <2>7 DEF CountInv
<1>10. round' \in 0 .. MaxRounds /\ round' # 0
  BY <1>1, InvIs, DispatcherAssumption DEF TypeInv, TypeOK
<1>11. DoneInv'
  <2>1. pending_count' # 0
    BY <1>1, <1>3
  <2> QED BY <1>10, <2>1 DEF DoneInv
<1>12. TypeInv'
  <2>1. runtime' \in [Ids -> Nat \cup {Unfinished}]
    <3>1. ASSUME NEW i \in routines PROVE Locks(i) + 1 \in Nat
      BY InvIs, LocksIs
    <3> QED BY <1>1, <3>1
  <2>2. act' \in [Actors -> [pc : Pcs, todo : SUBSET routines, at : Int]]
    BY <1>4 DEF Becomes, Doing
  <2>3. /\ failed' \in Nat /\ suspends' \in 0 .. MaxSuspends /\ pending_count' \in Nat /\ ran' \in [Ids -> Nat]
        /\ routines' = routines /\ junctions' = junctions /\ edges' = edges
        /\ routines \subseteq Ids /\ junctions \subseteq routines /\ edges \subseteq routines \X routines
    BY <1>1, <1>3, InvIs DEF TypeInv, TypeOK
  <2> QED BY <1>10, <2>1, <2>2, <2>3 DEF TypeInv, TypeOK
<1>13. GraphInv'
  BY <1>1, InvIs DEF GraphInv, NoCircle
<1> QED BY <1>6, <1>8, <1>9, <1>11, <1>12, <1>13 DEF Inv

(* The graph only grows between two rounds.                                               *)
LEMMA BuildingKeeps ==
  ASSUME Inv, Building
  PROVE  Inv'
<1>1. GraphInv'
  <2>1. Next /\ GraphInv
    BY NextIs DEF Inv
  <2> QED BY <2>1, GraphKeeps
<1>2. /\ ~Running /\ UNCHANGED <<runtime, pending_count, act, failed, suspends, round, ran>>
      /\ routines \subseteq routines'
      /\ junctions' = junctions \/ (round = 0 /\ junctions' \subseteq Ids)
  <2>1. ASSUME NEW j \in {FALSE} \cup {Junctions}, queue_routine(j)
        PROVE  /\ ~Running /\ UNCHANGED <<runtime, pending_count, act, failed, suspends, round, ran>>
               /\ routines \subseteq routines' /\ round = 0
    BY <2>1 DEF queue_routine
  <2>2. ASSUME NEW f \in Ids, NEW t \in Ids, order(f, t)
        PROVE  /\ ~Running /\ UNCHANGED <<runtime, pending_count, act, failed, suspends, round, ran>>
               /\ routines' = routines /\ junctions' = junctions
    BY <2>2 DEF order
  <2>3. junctions' \subseteq Ids
    BY <1>1 DEF GraphInv
  <2> QED BY <2>1, <2>2, <2>3 DEF Building
<1>3. /\ pending_count = 0 /\ failed = 0 /\ Busy = {} /\ Handing = {}
      /\ \A b \in Actors : act[b].pc = "idle" /\ act[b].todo = {}
      /\ \A b \in junctions : ran[b] = 0
  BY <1>2, StopIs
<1>4. \A b \in junctions' : ran[b] = 0
  BY <1>2, <1>3, InvIs DEF DoneInv
<1>5. ~Running'
  BY <1>2 DEF Running, PC
<1>6. LockInv' /\ MarkInv'
  BY <1>5 DEF LockInv, MarkInv
<1>7. PlaceInv'
  <2>1. ASSUME NEW b \in Actors PROVE PlaceOk(b, act[b], ran[b], suspends)'
    <3>1. "idle" \in PcsOf(b) /\ act'[b].pc = "idle" /\ act'[b].todo = {}
      BY <1>2, <1>3 DEF PcsOf
    <3> QED BY <3>1 DEF PlaceOk
  <2> QED BY <2>1 DEF PlaceInv
<1>8. CountInv'
  <2>1. Busy' = {} /\ Handing' = {}
    BY <1>2, <1>3, <1>4 DEF Busy, Handing, Counted, PC
  <2>2. Cardinality({}) = 0
    BY FS_EmptySet
  <2>3. \A c \in Actors : ~PC(c, "completed")'
    BY <1>2, <1>3 DEF PC
  <2> QED BY <1>2, <1>3, <2>1, <2>2, <2>3 DEF CountInv
<1>9. DoneInv'
  <2>1. CASE round = 0
    BY <1>2, <1>5, <2>1, InvIs DEF DoneInv
  <2>2. CASE round # 0
    <3>1. routines' = routines
      <4>1. ASSUME NEW j \in {FALSE} \cup {Junctions}, queue_routine(j) PROVE round = 0
        BY <4>1 DEF queue_routine
      <4>2. ASSUME NEW f \in Ids, NEW t \in Ids, order(f, t) PROVE routines' = routines
        BY <4>2 DEF order
      <4> QED BY <2>2, <4>1, <4>2 DEF Building
    <3>2. ~Cyclic /\ pending_count = 0 => Done
      BY <2>2, InvIs DEF DoneInv
    <3> QED BY <1>2, <2>2, <3>1, <3>2 DEF DoneInv, Done
  <2> QED BY <2>1, <2>2
<1>10. TypeInv'
  <2>1. act' \in [Actors -> [pc : Pcs, todo : SUBSET routines', at : Int]]
    <3>1. act \in [Actors -> Doing]
      BY InvIs DEF TypeInv, Doing
    <3>2. ASSUME NEW x \in Doing PROVE x \in [pc : Pcs, todo : SUBSET routines', at : Int]
      BY <1>2 DEF Doing
    <3> QED BY <1>2, <3>1, <3>2
  <2> QED BY <1>1, <1>2, <2>1, InvIs DEF TypeInv, TypeOK, GraphInv
<1> QED BY <1>1, <1>6, <1>7, <1>8, <1>9, <1>10 DEF Inv

LEMMA InvAtFirst == ASSUME Init PROVE Inv
<1>1. /\ routines = {} /\ junctions = {} /\ edges = {} /\ pending_count = 0 /\ failed = 0 /\ suspends = 0 /\ round = 0
      /\ runtime = [i \in Ids |-> 0] /\ ran = [i \in Ids |-> 0] /\ act = [a \in Actors |-> Quiet]
  BY DEF Init
<1>2. \A a \in Actors : act[a].pc = "idle" /\ act[a].todo = {}
  BY <1>1 DEF Quiet
<1>3. ~Running
  BY <1>1, <1>2 DEF Running, PC
<1>4. TypeInv
  <2>1. Quiet \in [pc : Pcs, todo : SUBSET routines, at : Int]
    BY DEF Quiet, Pcs
  <2>2. 0 \in 0 .. MaxRounds /\ 0 \in 0 .. MaxSuspends
    BY DispatcherAssumption
  <2> QED BY <1>1, <2>1, <2>2 DEF TypeInv, TypeOK
<1>5. PlaceInv
  BY <1>2 DEF PlaceInv, PlaceOk, PcsOf
<1>6. LockInv /\ MarkInv
  BY <1>1 DEF LockInv, MarkInv
<1>7. CountInv
  <2>1. Busy = {} /\ Handing = {}
    BY <1>1, <1>2 DEF Busy, Handing, Counted, PC
  <2>2. Cardinality({}) = 0
    BY FS_EmptySet
  <2> QED BY <1>1, <1>2, <2>1, <2>2 DEF CountInv, PC
<1>8. DoneInv
  BY <1>1, <1>3 DEF DoneInv
<1> QED BY <1>4, <1>5, <1>6, <1>7, <1>8, GraphAtFirst DEF Inv

LEMMA InvStutters == ASSUME Inv, UNCHANGED vars PROVE Inv'
<1>1. UNCHANGED <<routines, junctions, edges, runtime, pending_count, act, failed, suspends, failures, round, ran>>
  BY DEF vars, graph
<1>2. GraphInv' /\ TypeInv'
  BY <1>1, InvIs DEF GraphInv, NoCircle, TypeInv, TypeOK
<1>3. PlaceInv'
  <2>1. ASSUME NEW b \in Actors PROVE PlaceOk(b, act[b], ran[b], suspends)'
    BY <1>1, InvIs, PlaceIs, OthersLike
  <2> QED BY <2>1 DEF PlaceInv
<1>4. Running' <=> Running
  BY <1>1 DEF Running, PC
<1>5. LockInv'
  <2>1. ASSUME Running, NEW n \in routines PROVE Stage(n)'
    <3>1. \A b \in Actors : Like(b, n)
      BY <1>1, InvIs, OthersLike
    <3>2. Stage(n)
      BY <2>1, InvIs DEF LockInv
    <3> QED BY <1>1, <3>1, <3>2, StageStays
  <2> QED BY <1>1, <1>4, <2>1 DEF LockInv
<1>6. MarkInv'
  BY <1>1, <1>4, InvIs DEF MarkInv, Rescued, PC, Hands, Clears
<1>7. CountInv'
  BY <1>1, InvIs DEF CountInv, Busy, Handing, Counted, PC
<1>8. DoneInv'
  BY <1>1, <1>4, InvIs DEF DoneInv, Done
<1> QED BY <1>2, <1>3, <1>5, <1>6, <1>7, <1>8 DEF Inv

LEMMA InvKeeps == ASSUME ~ResumeFails, Inv, [Next]_vars PROVE Inv'
<1>1. CASE Building
  BY <1>1, BuildingKeeps
<1>2. CASE Working
  <2>1. CASE flush
    BY <2>1, FlushKeeps
  <2>2. CASE Rescue
    BY <2>2, ResurrectKeeps, LookKeeps, ClearMarkKeeps, FinishLookKeeps DEF Rescue
  <2>3. ASSUME NEW a \in Actors, Actor(a) PROVE Inv'
    BY <2>3, UnlockKeeps, AddKeeps, QueueKeeps, FinishUnlockKeeps, FinalizeKeeps, CompletionKeeps,
       UnfinishKeeps, UnwindKeeps DEF Actor
  <2>4. ASSUME NEW a \in Actors, Throw(a) PROVE Inv'
    BY <2>4, ThrowKeeps
  <2>5. ASSUME NEW i \in Ids, Routine(i) PROVE Inv'
    BY <2>5, CallKeeps, CompleteKeeps DEF Routine
  <2>6. ASSUME NEW i \in Ids, suspend(i) PROVE Inv'
    BY <2>6, SuspendKeeps
  <2>7. ASSUME NEW k \in Resumers, resume(k) PROVE Inv'
    BY <2>7, ResumeKeeps
  <2> QED BY <1>2, <2>1, <2>2, <2>3, <2>4, <2>5, <2>6, <2>7 DEF Working
<1>3. CASE UNCHANGED vars
  BY <1>3, InvStutters
<1> QED BY <1>1, <1>2, <1>3, NextIs

LEMMA IInvIs == ASSUME ~ResumeFails PROVE IInv <=> Inv
BY DEF IInv, Inv

(* The strengthening that the runs check on small graphs.                                 *)
THEOREM Inductive == Spec => []IInv
<1>1. Init => IInv
  BY GraphAtFirst, InvAtFirst DEF IInv, Inv
<1>2. IInv /\ [Next]_vars => IInv'
  <2>1. SUFFICES ASSUME IInv, [Next]_vars PROVE IInv'
    OBVIOUS
  <2>2. GraphInv'
    BY <2>1, GraphKeeps DEF IInv
  <2>3. ASSUME ~ResumeFails PROVE Inv'
    BY <2>1, <2>3, IInvIs, InvKeeps
  <2> QED BY <2>2, <2>3 DEF IInv, Inv
<1> QED BY <1>1, <1>2, PTL DEF Spec

-----------------------------------------------------------------------------
(* What follows for the routines.                                                         *)

LEMMA OrderIs == ASSUME Inv, Running PROVE OrderRespected
<1>1. SUFFICES ASSUME NEW i \in routines, ran[i] > 0
               PROVE  /\ \A e \in edges : e[2] = i => ran[e[1]] = 1 /\ ~PC(e[1], "queued") /\ ~PC(e[1], "call")
                      /\ \A k \in Resumers : PC(k, "hold") => act[k].todo # {i}
  BY DEF OrderRespected
<1>2. Waits(i) = {}
  <2>1. Stage(i)
    BY InvIs DEF LockInv
  <2> QED BY <1>1, <2>1 DEF Stage, StageOk
<1>3. ASSUME NEW e \in edges, e[2] = i PROVE ran[e[1]] = 1 /\ ~PC(e[1], "queued") /\ ~PC(e[1], "call")
  <2>1. PICK p : p = e[1] /\ <<p, i>> \in edges /\ p \in routines /\ p \in Actors /\ p # Rescuer
    BY <1>3, InvIs, Apart
  <2>2. ran[p] # 0 /\ act[p].pc # "call"
    BY <1>2, <2>1 DEF Waits, Owes
  <2>3. Stage(p)
    BY <2>1, InvIs DEF LockInv
  <2>4. ran[p] = 1 /\ act[p].pc # "queued"
    BY <2>2, <2>3 DEF Stage, StageOk
  <2> QED BY <2>1, <2>2, <2>4 DEF PC
<1>4. ASSUME NEW k \in Resumers, PC(k, "hold"), act[k].todo = {i} PROVE FALSE
  BY <1>2, <1>4, Apart DEF Waits, Owes
<1> QED BY <1>3, <1>4

LEMMA OrderAtRest == ASSUME Inv, ~Cyclic, ~Running PROVE OrderRespected
<1>1. SUFFICES ASSUME NEW i \in routines, ran[i] > 0
               PROVE  /\ \A e \in edges : e[2] = i => ran[e[1]] = 1 /\ ~PC(e[1], "queued") /\ ~PC(e[1], "call")
                      /\ \A k \in Resumers : PC(k, "hold") => act[k].todo # {i}
  BY DEF OrderRespected
<1>2. pending_count = 0 /\ \A b \in Actors : act[b].pc = "idle"
  BY StopIs
<1>3. round # 0
  BY <1>1, InvIs DEF DoneInv
<1>4. Done
  BY <1>2, <1>3, InvIs DEF DoneInv
<1>5. ASSUME NEW e \in edges PROVE ran[e[1]] = 1 /\ e[1] \in Actors
  BY <1>4, InvIs, Apart DEF Done
<1> QED BY <1>2, <1>5, Apart DEF PC

LEMMA CompletionIs == ASSUME Inv, ~Cyclic PROVE CompletionMeansAll
<1>1. SUFFICES ASSUME NEW a \in Actors, PC(a, "completed")
               PROVE  /\ \A i \in routines : ran[i] = 1 /\ runtime[i] = 0
                      /\ \A b \in Actors \ {a} : PC(b, "idle")
  BY DEF CompletionMeansAll
<1>2. pending_count = 0 /\ \A b \in Actors \ {a} : PC(b, "idle")
  BY <1>1, InvIs DEF CountInv
<1>3. Running
  BY <1>1 DEF Running, PC
<1>4. Done
  BY <1>2, <1>3, InvIs DEF DoneInv
<1> QED BY <1>2, <1>4 DEF Done

(* While a round is on, a routine starts only when all those ordered before it have        *)
(* returned from their callbacks and every suspend() of it was resumed, whatever graph the *)
(* caller has built and whatever throws in complete().                                    *)
THEOREM OrderWhileRunning == ASSUME ~ResumeFails PROVE Spec => [](Running => OrderRespected)
<1>1. IInv => (Running => OrderRespected)
  BY IInvIs, OrderIs
<1> QED BY <1>1, Inductive, PTL

(* If no routines are ordered in a circle, this holds between the rounds as well.         *)
THEOREM OrderIsRespected == ASSUME ~ResumeFails, ~Cyclic PROVE Spec => []OrderRespected
<1>1. IInv => OrderRespected
  BY IInvIs, OrderIs, OrderAtRest
<1> QED BY <1>1, Inductive, PTL

(* The completion callback is called when every routine has run once and nothing is left   *)
(* on its way.                                                                            *)
THEOREM CompletionIsLast == ASSUME ~ResumeFails, ~Cyclic PROVE Spec => []CompletionMeansAll
<1>1. IInv => CompletionMeansAll
  BY IInvIs, CompletionIs
<1> QED BY <1>1, Inductive, PTL
=============================================================================
