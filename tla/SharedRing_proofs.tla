-------------------------- MODULE SharedRing_proofs --------------------------
(***************************************************************************)
(* For any number of writers, any length of the ring, any number of values *)
(* of an index that is a multiple of it, and any number of deaths: the     *)
(* host reads in order, nothing twice, passes over nothing before it is    *)
(* lapped, and what it reads is whole unless its slot was raced for.  It   *)
(* is assumed that something was posted before (FirstTicket > 0): the host *)
(* takes a fresh page for a record.                                        *)
(***************************************************************************)
EXTENDS SharedRing, TLAPS

-----------------------------------------------------------------------------
(* Remainders *)

LEMMA DivMod ==
  ASSUME NEW n \in Nat \ {0}, NEW a \in Int
  PROVE  a \div n \in Int /\ a % n \in 0 .. n - 1 /\ a = n * (a \div n) + (a % n)
<1>1. a = n * (a \div n) + (a % n)
  BY SMTT(30)
<1>2. a % n \in 0 .. n - 1 /\ a \div n \in Int
  OBVIOUS
<1> QED BY <1>1, <1>2

LEMMA ModIs ==
  ASSUME NEW n \in Nat \ {0}, NEW q \in Int, NEW r \in 0 .. n - 1
  PROVE  (n * q + r) % n = r
<1> DEFINE a == n * q + r
<1>1. a \in Int /\ a = n * q + r
  OBVIOUS
<1> HIDE DEF a
<1>2. a \div n \in Int /\ a % n \in 0 .. n - 1 /\ n * q + r = n * (a \div n) + (a % n)
  BY <1>1, DivMod
<1>3. ASSUME NEW p \in Int, NEW s \in 0 .. n - 1, n * q + r = n * p + s PROVE r = s
  BY <1>3
<1>4. a % n = r
  BY <1>2, <1>3
<1> QED BY <1>4 DEF a

(* Numbers with the same remainder are equal or at least n apart. *)
LEMMA SameResidue ==
  ASSUME NEW n \in Nat \ {0}, NEW a \in Int, NEW b \in Int,
         a % n = b % n, a - b < n, b - a < n
  PROVE  a = b
<1> DEFINE p == a \div n  q == b \div n
<1>1. p \in Int /\ q \in Int /\ a = n * p + (a % n) /\ b = n * q + (b % n)
  BY DivMod
<1> HIDE DEF p, q
<1>2. a - b = n * (p - q)
  BY <1>1
<1>3. p = q
  BY <1>1, <1>2
<1> QED BY <1>1, <1>3

LEMMA ModOfMod ==
  ASSUME NEW n \in Nat \ {0}, NEW m \in Nat \ {0}, NEW a \in Int, m % n = 0
  PROVE  (a % m) % n = a % n
<1> DEFINE k == m \div n  q == a \div m  p == (a % m) \div n  r == (a % m) % n
<1>1. k \in Int /\ m = n * k
  BY DivMod
<1>2. q \in Int /\ a % m \in Int /\ a = m * q + (a % m)
  BY DivMod
<1>3. p \in Int /\ r \in 0 .. n - 1 /\ a % m = n * p + r
  BY DivMod, <1>2
<1> HIDE DEF k, q, p, r
<1>4. k * q \in Int /\ m * q = n * (k * q)
  BY <1>1, <1>2
<1>5. a = n * (k * q + p) + r
  <2> DEFINE kq == k * q
  <2>1. kq \in Int /\ a = n * kq + (n * p + r)
    BY <1>2, <1>3, <1>4
  <2> HIDE DEF kq
  <2>2. a = n * (kq + p) + r
    BY <1>3, <2>1
  <2> QED BY <2>2 DEF kq
<1>6. k * q + p \in Int
  BY <1>3, <1>4
<1>7. a % n = r
  BY <1>3, <1>5, <1>6, ModIs
<1> QED BY <1>7 DEF r

LEMMA ModShift ==
  ASSUME NEW n \in Nat \ {0}, NEW a \in Int, NEW c \in Int
  PROVE  ((a % n) + c) % n = (a + c) % n
<1> DEFINE q == a \div n  d == (a % n) + c  p == d \div n  r == d % n
<1>1. q \in Int /\ d \in Int /\ a + c = n * q + d
  BY DivMod
<1>2. p \in Int /\ r \in 0 .. n - 1 /\ d = n * p + r
  BY <1>1, DivMod
<1> HIDE DEF q, d, p, r
<1>3. q + p \in Int /\ a + c = n * (q + p) + r
  BY <1>1, <1>2
<1>4. (a + c) % n = r
  BY <1>2, <1>3, ModIs
<1> QED BY <1>4 DEF r, d

LEMMA ModDifference ==
  ASSUME NEW n \in Nat \ {0}, NEW a \in Int, NEW b \in Int, a - b \in 0 .. n - 1
  PROVE  ((a % n) - (b % n)) % n = a - b
<1> DEFINE p == a \div n  q == b \div n  x == a % n  y == b % n  c == q - p  d == a - b
<1>1. p \in Int /\ q \in Int /\ x \in Int /\ y \in Int /\ a = n * p + x /\ b = n * q + y
  BY DivMod
<1>2. c \in Int /\ c = q - p /\ d \in 0 .. n - 1 /\ d = a - b
  BY <1>1
<1> HIDE DEF p, q, x, y, c, d
<1>3. n * c = n * q - n * p
  BY <1>1, <1>2
<1>4. x - y = n * c + d
  BY <1>1, <1>2, <1>3
<1>5. (n * c + d) % n = d
  BY <1>2, ModIs
<1>6. (x - y) % n = d
  BY <1>4, <1>5
<1> QED BY <1>6 DEF x, y, d

-----------------------------------------------------------------------------
(* Tickets, slots and indices *)

LEMMA SlotOfIndex == ASSUME NEW t \in Int PROVE SlotOf(IndexOf(t)) = SlotOf(t) /\ SlotOf(t) \in Slots
<1>1. SlotOf(IndexOf(t)) = SlotOf(t)
  BY RingAssumption, ModOfMod DEF SlotOf, IndexOf
<1>2. SlotOf(t) \in Slots
  BY RingAssumption, DivMod DEF SlotOf, Slots
<1> QED BY <1>1, <1>2

LEMMA IndexOfType == ASSUME NEW t \in Int PROVE IndexOf(t) \in Index
  BY RingAssumption, DivMod DEF IndexOf, Index

LEMMA IndexNext == ASSUME NEW t \in Int PROVE IndexOf(t + 1) = (IndexOf(t) + 1) % IndexRange
<1>1. \A c \in Int : ((t % IndexRange) + c) % IndexRange = (t + c) % IndexRange
  BY RingAssumption, ModShift
<1> QED BY <1>1 DEF IndexOf

LEMMA IndexBack ==
  ASSUME NEW t \in Int, NEW n \in Int
  PROVE  IndexOf(t - n) = (IndexOf(t) - n) % IndexRange
<1> DEFINE m == -n
<1>1. m \in Int
  OBVIOUS
<1>2. ((t % IndexRange) + m) % IndexRange = (t + m) % IndexRange
  BY <1>1, RingAssumption, ModShift
<1>3. t + m = t - n /\ (t % IndexRange) + m = (t % IndexRange) - n
  BY RingAssumption, DivMod
<1> QED BY <1>2, <1>3 DEF IndexOf

LEMMA SameIndex ==
  ASSUME NEW t \in Int, NEW u \in Int, IndexOf(t) = IndexOf(u), t - u < IndexRange, u - t < IndexRange
  PROVE  t = u
  BY RingAssumption, SameResidue DEF IndexOf

LEMMA BehindType == ASSUME NEW r \in Int, NEW w \in Int PROVE Behind(r, w) \in 0 .. IndexRange - 1
<1> DEFINE d == w - r
<1>1. d \in Int
  OBVIOUS
<1> HIDE DEF d
<1>2. d % IndexRange \in 0 .. IndexRange - 1
  BY <1>1, RingAssumption, DivMod
<1> QED BY <1>2 DEF d, Behind

(* The unsigned difference of two indices is the number of tickets between them, *)
(* as long as these are fewer than there are indices.                            *)
LEMMA BehindIs ==
  ASSUME NEW t \in Int, NEW u \in Int, u - t \in 0 .. IndexRange - 1
  PROVE  Behind(IndexOf(t), IndexOf(u)) = u - t
  BY RingAssumption, ModDifference DEF Behind, IndexOf

(* What the pages hold at first: the last of the earlier records with the slot. *)
LEMMA LastInIs ==
  ASSUME NEW s \in Slots
  PROVE  \/ LastIn(s) = Zeroed /\ (FirstTicket > 0 => s # 0)
         \/ /\ LastIn(s) \in 0 .. FirstTicket - 1 /\ LastIn(s) >= FirstTicket - RingLength
            /\ SlotOf(LastIn(s)) = s
<1> DEFINE in == {n \in 0 .. FirstTicket - 1 : SlotOf(n) = s}
           m  == FirstTicket - 1 - ((FirstTicket - 1 - s) % RingLength)
<1> USE RingAssumption
<1>1. s \in Int /\ FirstTicket - 1 - s \in Int
  BY DEF Slots
<1>2. (FirstTicket - 1 - s) % RingLength \in 0 .. RingLength - 1
  BY <1>1, DivMod
<1>3. m \in Int /\ m <= FirstTicket - 1 /\ m >= FirstTicket - RingLength
  BY <1>2
<1>4. SlotOf(m) = s
  <2> DEFINE a == FirstTicket - 1 - s  q == a \div RingLength
  <2>1. q \in Int /\ a = RingLength * q + (a % RingLength)
    BY <1>1, DivMod
  <2>2. m = RingLength * q + s
    BY <1>1, <1>2, <2>1
  <2> HIDE DEF q, m
  <2>3. (RingLength * q + s) % RingLength = s
    BY <2>1, ModIs DEF Slots
  <2> QED BY <2>2, <2>3 DEF SlotOf
<1> HIDE DEF m
<1>5. \A n \in in : n <= m
  <2> SUFFICES ASSUME NEW n \in in, n > m PROVE FALSE
    BY <1>3
  <2>1. n \in 0 .. FirstTicket - 1 /\ n % RingLength = m % RingLength
    BY <1>4 DEF SlotOf
  <2>2. n \in Int /\ n - m < RingLength /\ m - n < RingLength
    BY <1>3, <2>1
  <2>3. n = m
    BY <1>3, <2>1, <2>2, SameResidue
  <2> QED BY <1>3, <2>3
<1>6. CASE m >= 0
  <2>1. m \in in
    BY <1>3, <1>4, <1>6
  <2>2. \A n \in in : (\A k \in in : k <= n) => n = m
    BY <1>3, <1>5, <2>1
  <2>3. (CHOOSE n \in in : \A k \in in : k <= n) = m
    BY <1>5, <2>1, <2>2
  <2>4. LastIn(s) = m
    BY <2>1, <2>3 DEF LastIn
  <2> QED BY <1>3, <1>4, <1>6, <2>4
<1>7. CASE m < 0
  <2>1. in = {}
    BY <1>3, <1>5, <1>7
  <2>2. LastIn(s) = Zeroed
    BY <2>1 DEF LastIn
  <2>3. ASSUME FirstTicket > 0, s = 0 PROVE FALSE
    <3>1. SlotOf(0) = 0
      BY ModIs DEF SlotOf
    <3> QED BY <2>1, <2>3, <3>1
  <2> QED BY <2>2, <2>3
<1> QED BY <1>3, <1>6, <1>7

-----------------------------------------------------------------------------
(* The invariant, for a ring something was posted to before *)

LEMMA Sizes ==
  /\ RingLength \in Nat \ {0} /\ IndexRange \in Nat \ {0} /\ IndexRange > 2 * RingLength
  /\ FirstTicket \in Nat /\ MaxTicket \in Nat /\ FirstTicket <= MaxTicket
  /\ MaxTicket - FirstTicket < IndexRange - RingLength
  BY RingAssumption

LEMMA HalfRing == RingLength \div 2 \in Nat /\ RingLength \div 2 <= RingLength
<1>1. /\ RingLength \div 2 \in Int /\ RingLength % 2 \in 0 .. 1
      /\ RingLength = 2 * (RingLength \div 2) + (RingLength % 2)
  BY Sizes, DivMod
<1> QED BY <1>1, Sizes

LEMMA InitHolds ==
  ASSUME FirstTicket > 0, Init, NEW s \in Slots
  PROVE  \/ payload[s] = Zeroed /\ Fresh(s)
         \/ payload[s] \in 0 .. FirstTicket - 1 /\ Holds(s, payload[s])
<1> USE Sizes, RingAssumption DEF Init
<1>1. CASE LastIn(s) = Zeroed /\ s # 0
  BY <1>1 DEF Fresh
<1>2. CASE /\ LastIn(s) \in 0 .. FirstTicket - 1 /\ LastIn(s) >= FirstTicket - RingLength
           /\ SlotOf(LastIn(s)) = s
  <2>1. payload[s] = LastIn(s) /\ recordIndex[s] = IndexOf(LastIn(s))
    BY <1>2 DEF Zeroed
  <2> QED BY <1>2, <2>1 DEF Holds, Recent
<1> QED BY <1>1, <1>2, LastInIs

LEMMA InitIInv == ASSUME FirstTicket > 0 PROVE Init => IInv
<1> SUFFICES ASSUME Init PROVE IInv
  OBVIOUS
<1> USE Sizes, RingAssumption DEF Init
<1>1. \A s \in Slots :
        \/ payload[s] = Zeroed /\ Fresh(s)
        \/ payload[s] \in 0 .. FirstTicket - 1 /\ Holds(s, payload[s])
  BY InitHolds
<1>2. TypeOK
  <2>1. payload \in [Slots -> Tickets \cup {Zeroed}]
    BY <1>1 DEF Tickets
  <2>2. recordIndex \in [Slots -> Index]
    <3>1. ASSUME NEW s \in Slots PROVE (IF LastIn(s) = Zeroed THEN 0 ELSE IndexOf(LastIn(s))) \in Index
      <4>1. LastIn(s) \in Int
        BY LastInIs DEF Zeroed
      <4>2. 0 \in Index /\ IndexOf(LastIn(s)) \in Index
        BY <4>1, IndexOfType DEF Index
      <4> QED BY <4>2
    <3> QED BY <3>1
  <2>3. 0 \in Tickets /\ 0 \in Index
    BY DEF Tickets, Index
  <2> QED BY <2>1, <2>2, <2>3 DEF TypeOK, Zeroed
<1>3. RangeInv
  BY DEF RangeInv
<1>4. SlotInv
  BY <1>1 DEF SlotInv, Holds
<1>5. ~started /\ delivered = <<>> /\ reader.pc # "copyHigh"
  BY DEF started
<1> QED BY <1>2, <1>3, <1>4, <1>5
        DEF IInv, ReadInv, DeliveryInv,
          InOrderOnce, PassedOverOnlyWhenLapped

(* The ticket of an index, seen from a write index. *)
LEMMA TicketIs ==
  ASSUME NEW p \in Int, NEW t \in Int, NEW r, r = IndexOf(t), p - t \in 0 .. IndexRange - 1
  PROVE  p - Behind(r, IndexOf(p)) = t
<1>1. Behind(IndexOf(t), IndexOf(p)) = p - t
  BY BehindIs
<1> QED BY <1>1

(* The part of the invariant that is about the host. *)
ReadSide == ReadInv /\ DeliveryInv /\ InOrderOnce /\ PassedOverOnlyWhenLapped

(* Having been lapped does not pass. *)
IsLapped(t, p, passed) ==
  /\ p - t > RingLength \div 2
  /\ \E u \in passed : u <= t /\ p - u > RingLength
LEMMA LappedForGood ==
  ASSUME NEW passed, passed \subseteq Int, NEW p \in Int, NEW q \in Int, p <= q,
         NEW t \in passed, IsLapped(t, p, passed)
  PROVE  IsLapped(t, q, passed)
<1>1. RingLength \div 2 \in Int /\ RingLength \in Int /\ t \in Int
  BY HalfRing, Sizes
<1>2. PICK u \in passed : u <= t /\ p - u > RingLength
  BY DEF IsLapped
<1>3. u \in Int /\ q - u > RingLength
  BY <1>1, <1>2
<1>4. q - t > RingLength \div 2
  BY <1>1 DEF IsLapped
<1> QED BY <1>2, <1>3, <1>4 DEF IsLapped

(* What the writers do leaves the host's part alone: a new ticket moves the write *)
(* index on, not the ticket the host waits for.                                   *)
LEMMA WritersKeepReadSide ==
  ASSUME IInv, UNCHANGED <<reader, delivered, startTicket, wideCopy>>,
         posted' = posted \/ (posted < MaxTicket /\ posted' = posted + 1)
  PROVE  ReadSide'
<1> USE Sizes
<1>1. /\ posted \in Nat /\ posted' \in Nat /\ startTicket \in Nat
      /\ FirstTicket <= startTicket /\ posted <= posted' /\ posted' <= MaxTicket
  BY DEF IInv, TypeOK, RangeInv
<1>2. CASE ~started
  BY <1>2 DEF IInv, ReadSide, ReadInv, DeliveryInv, InOrderOnce,
              PassedOverOnlyWhenLapped, started
<1>3. CASE started
  <2>1. readTicket \in startTicket .. posted /\ reader.readIndex = IndexOf(readTicket)
    BY <1>3 DEF IInv, ReadInv
  <2>2. readTicket' = readTicket
    <3> DEFINE t == readTicket  p == posted'
    <3>1. t \in Int /\ reader.readIndex = IndexOf(t)
      BY <1>1, <2>1
    <3>2. p \in Int /\ t \in FirstTicket .. p /\ p <= MaxTicket
      BY <1>1, <2>1
    <3> HIDE DEF t, p
    <3>3. p - t \in 0 .. IndexRange - 1
      BY <3>1, <3>2
    <3>4. p - Behind(reader.readIndex, IndexOf(p)) = t
      BY <3>1, <3>2, <3>3, TicketIs
    <3> QED BY <3>4 DEF t, p, readTicket, writeIndex
  <2>3. ReadInv'
    BY <1>1, <1>3, <2>1, <2>2 DEF IInv, ReadInv, started
  <2>4. DeliveryInv' /\ InOrderOnce'
    BY <2>2 DEF IInv, DeliveryInv, InOrderOnce, started
  <2>5. PassedOver' = PassedOver
    BY <2>2 DEF PassedOver, Delivered
  <2>6. PassedOverOnlyWhenLapped'
    <3>1. PassedOver \subseteq Int
      BY <1>1, <2>1 DEF PassedOver
    <3>2. \A t \in PassedOver : IsLapped(t, posted, PassedOver) => IsLapped(t, posted', PassedOver)
      <4> DEFINE passed == PassedOver  p == posted  q == posted'
      <4>1. passed \subseteq Int /\ p \in Int /\ q \in Int /\ p <= q
        BY <1>1, <3>1
      <4> HIDE DEF passed, p, q
      <4>2. \A t \in passed : IsLapped(t, p, passed) => IsLapped(t, q, passed)
        BY <4>1, LappedForGood
      <4> QED BY <4>2 DEF passed, p, q
    <3>3. PassedOverOnlyWhenLapped
      BY DEF IInv
    <3> QED BY <2>5, <3>2, <3>3 DEF PassedOverOnlyWhenLapped, IsLapped, started
  <2> QED BY <2>3, <2>4, <2>6 DEF ReadSide
<1> QED BY <1>2, <1>3

(* A slot takes the record a writer stores, which is one of the recent ones. *)
LEMMA StoreKeepsSlots ==
  ASSUME IInv, NEW t \in Recent, UNCHANGED <<posted, wideCopy>>,
         WriteIndex(t), wideCopy => WritePayload(t)
  PROVE  SlotInv'
<1> USE Sizes
<1>1. t \in Int /\ SlotOf(t) \in Slots
  BY SlotOfIndex DEF Recent, IInv, TypeOK
<1>2. Recent' = Recent
  BY DEF Recent
<1> SUFFICES ASSUME NEW s \in Slots
             PROVE  /\ Fresh(s)' \/ \E u \in Recent : Holds(s, u)'
                    /\ wideCopy => (payload[s] = Zeroed /\ Fresh(s))' \/ Holds(s, payload[s])'
  BY <1>2 DEF SlotInv
<1>3. CASE s = SlotOf(t)
  <2>1. recordIndex'[s] = IndexOf(t)
    BY <1>1, <1>3 DEF WriteIndex, IInv, TypeOK
  <2>2. wideCopy => payload'[s] = t
    BY <1>1, <1>3 DEF WritePayload, IInv, TypeOK
  <2>3. Holds(s, t)'
    BY <1>2, <1>3, <2>1 DEF Holds
  <2> QED BY <2>2, <2>3
<1>4. CASE s # SlotOf(t)
  <2>1. recordIndex'[s] = recordIndex[s]
    BY <1>4 DEF WriteIndex, IInv, TypeOK
  <2>2. wideCopy => payload'[s] = payload[s]
    BY <1>4 DEF WritePayload, IInv, TypeOK
  <2>3. Fresh(s)' = Fresh(s) /\ \A u : Holds(s, u)' = Holds(s, u)
    BY <1>2, <2>1 DEF Fresh, Holds
  <2> QED BY <2>2, <2>3 DEF IInv, SlotInv
<1> QED BY <1>3, <1>4

(* What the host waits for and then finds in its slot is the next record, in full *)
(* when it is copied in one access.                                               *)
LEMMA FoundIsNext ==
  ASSUME IInv, started, recordIndex[SlotOf(reader.readIndex)] = reader.readIndex
  PROVE  /\ readTicket \in startTicket .. posted - 1
         /\ wideCopy => payload[SlotOf(reader.readIndex)] = readTicket
         /\ ~Fresh(SlotOf(reader.readIndex))
         /\ \A u \in Recent : Holds(SlotOf(reader.readIndex), u) => u = readTicket
<1> DEFINE r == reader.readIndex  s == SlotOf(r)  t == readTicket
<1>1. t \in startTicket .. posted /\ IndexOf(t) = r
  BY DEF IInv, ReadInv
<1>2. posted \in 0 .. MaxTicket /\ startTicket \in Nat /\ FirstTicket <= startTicket /\ r \in Index
  BY DEF IInv, TypeOK, RangeInv
<1>3. t \in Int /\ SlotOf(t) = s /\ s \in Slots
  BY <1>1, <1>2, SlotOfIndex
<1>4. ~Fresh(s)
  <2>1. SUFFICES ASSUME r = 0 PROVE s = 0
    BY DEF Fresh
  <2>2. 0 % RingLength = 0
    BY Sizes
  <2> QED BY <2>1, <2>2 DEF SlotOf
<1>5. ASSUME NEW u \in Recent, Holds(s, u) PROVE u = t
  <2>1. u \in 0 .. posted - 1 /\ u >= FirstTicket - RingLength
    BY DEF Recent
  <2>2. u \in Int /\ u - t < IndexRange /\ t - u < IndexRange
    BY <1>1, <1>2, <1>3, <2>1, Sizes
  <2>3. IndexOf(u) = IndexOf(t)
    BY <1>1, <1>5 DEF Holds
  <2> QED BY <1>3, <2>2, <2>3, SameIndex
<1>6. PICK u \in Recent : Holds(s, u)
  BY <1>3, <1>4 DEF IInv, SlotInv
<1>7. t \in startTicket .. posted - 1
  <2>1. u = t /\ u \in 0 .. posted - 1
    BY <1>5, <1>6 DEF Recent
  <2> QED BY <1>1, <1>2, <2>1
<1>8. wideCopy => payload[s] = t
  BY <1>3, <1>4, <1>5 DEF IInv, SlotInv, Holds
<1> QED BY <1>4, <1>5, <1>7, <1>8

(* The writers' part of the invariant. *)
WriteSide == RangeInv /\ SlotInv

(* What the host does, once started, leaves it alone. *)
LEMMA HostKeepsWriteSide ==
  ASSUME IInv, started, started',
         UNCHANGED <<posted, payload, recordIndex, writer, startTicket, wideCopy>>
  PROVE  WriteSide'
  BY DEF IInv, WriteSide, RangeInv, SlotInv, Recent, Holds, Fresh

HostTypeOK ==
  /\ reader \in [pc : {"stopped", "observe", "copy", "copyHigh"}, readIndex : Index,
                 payload : Tickets \cup {Zeroed}]
  /\ delivered \in Seq([ticket : Tickets \cup {Zeroed}, index : Index])

(* The test of a copied record leaves the host's part true, whichever way it goes. *)
LEMMA FinishKeepsReadSide ==
  ASSUME IInv, started, UNCHANGED <<posted, startTicket, wideCopy>>,
         NEW copied \in Tickets \cup {Zeroed},
         wideCopy => copied = payload[SlotOf(reader.readIndex)],
         Finish(copied, recordIndex[SlotOf(reader.readIndex)])
  PROVE  ReadSide' /\ started' /\ HostTypeOK'
<1> DEFINE r == reader.readIndex  s == SlotOf(r)  t == readTicket
<1>1. /\ t \in startTicket .. posted /\ IndexOf(t) = r /\ posted \in 0 .. MaxTicket
      /\ startTicket \in Nat /\ FirstTicket <= startTicket /\ r \in Index
  BY DEF IInv, ReadInv, TypeOK, RangeInv
<1>2. /\ reader' = [pc |-> "observe", readIndex |-> reader'.readIndex, payload |-> Zeroed]
      /\ reader'.pc = "observe" /\ started'
  BY DEF Finish, IInv, TypeOK, started
<1>3. CASE recordIndex[s] # r
  <2>1. reader'.readIndex = r /\ delivered' = delivered
    BY <1>3 DEF Finish, IInv, TypeOK
  <2>2. readTicket' = readTicket
    BY <2>1 DEF readTicket, writeIndex
  <2>3. HostTypeOK'
    BY <1>1, <1>2, <2>1 DEF IInv, TypeOK, HostTypeOK
  <2>4. ReadInv' /\ DeliveryInv' /\ InOrderOnce'
    BY <1>2, <2>1, <2>2 DEF IInv, ReadInv, DeliveryInv, InOrderOnce, started
  <2>5. PassedOverOnlyWhenLapped'
    BY <2>1, <2>2 DEF IInv, PassedOverOnlyWhenLapped, PassedOver, Delivered, started
  <2> QED BY <1>2, <2>3, <2>4, <2>5 DEF ReadSide
<1>4. CASE recordIndex[s] = r
  <2> DEFINE d == [ticket |-> copied, index |-> r]
  <2>1. /\ reader'.readIndex = (r + 1) % IndexRange /\ delivered' = Append(delivered, d)
    BY <1>4 DEF Finish, IInv, TypeOK
  <2>2. t \in startTicket .. posted - 1 /\ (wideCopy => copied = t)
    BY <1>4, FoundIsNext
  <2>3. readTicket' = t + 1 /\ IndexOf(t + 1) = reader'.readIndex /\ reader'.readIndex \in Index
    <3>1. t \in Int /\ t + 1 \in Int /\ posted - (t + 1) \in 0 .. IndexRange - 1 /\ posted \in Int
      BY <1>1, <2>2, Sizes
    <3>2. IndexOf(t + 1) = (r + 1) % IndexRange
      BY <1>1, <3>1, IndexNext
    <3>3. posted - Behind((r + 1) % IndexRange, IndexOf(posted)) = t + 1
      <4> DEFINE u == t + 1  v == (r + 1) % IndexRange
      <4>1. u \in Int /\ v = IndexOf(u) /\ posted - u \in 0 .. IndexRange - 1 /\ posted \in Int
        BY <3>1, <3>2
      <4> HIDE DEF u, v
      <4>2. posted - Behind(v, IndexOf(posted)) = u
        BY <4>1, TicketIs
      <4> QED BY <4>2 DEF u, v
    <3>4. IndexOf(t + 1) \in Index
      BY <3>1, IndexOfType
    <3> QED BY <2>1, <3>2, <3>3, <3>4 DEF readTicket, writeIndex
  <2> HIDE DEF t
  <2>4. d \in [ticket : Tickets \cup {Zeroed}, index : Index]
    BY <1>1
  <2>5. HostTypeOK'
    <3>1. delivered' \in Seq([ticket : Tickets \cup {Zeroed}, index : Index])
      BY <2>1, <2>4 DEF IInv, TypeOK
    <3> QED BY <1>2, <2>3, <3>1 DEF HostTypeOK
  <2> HIDE DEF d
  <2>6. /\ DOMAIN delivered' = DOMAIN delivered \cup {Len(delivered) + 1}
        /\ \A i \in DOMAIN delivered : delivered'[i] = delivered[i] /\ i \in 1 .. Len(delivered)
        /\ delivered'[Len(delivered) + 1] = d /\ Len(delivered) \in Nat
    BY <2>1, <2>4 DEF IInv, TypeOK
  <2>7. d.ticket = copied /\ d.index = r
    BY DEF d
  <2>8. ReadInv'
    BY <1>1, <1>2, <2>2, <2>3 DEF IInv, ReadInv, started
  <2>9. CASE ~wideCopy
    BY <1>2, <2>5, <2>8, <2>9
    DEF ReadSide, DeliveryInv, InOrderOnce, PassedOverOnlyWhenLapped
  <2>10. CASE wideCopy
    <3>1. \A i \in DOMAIN delivered : delivered[i].ticket \in startTicket .. t - 1
      BY <2>10 DEF IInv, DeliveryInv, t
    <3>2. DeliveryInv'
      BY <1>1, <2>2, <2>3, <2>6, <2>7, <2>10, <3>1 DEF DeliveryInv
    <3>4. InOrderOnce'
      <4> SUFFICES ASSUME NEW i \in DOMAIN delivered', NEW j \in DOMAIN delivered', i < j
                   PROVE  delivered'[i].ticket < delivered'[j].ticket
        BY DEF InOrderOnce
      <4>1. i \in DOMAIN delivered
        BY <2>6
      <4>2. CASE j \in DOMAIN delivered
        BY <2>6, <2>10, <4>1, <4>2 DEF IInv, InOrderOnce
      <4>3. CASE j = Len(delivered) + 1
        BY <1>1, <2>2, <2>6, <2>7, <2>10, <3>1, <4>1, <4>3
      <4> QED BY <2>6, <4>2, <4>3
    <3>5. PassedOver' = PassedOver
      <4>1. Delivered' = Delivered \cup {t}
        BY <2>2, <2>6, <2>7, <2>10 DEF Delivered
      <4>2. PassedOver' = {u \in startTicket .. t : u \notin Delivered \cup {t}}
        BY <1>1, <2>2, <2>3, <4>1 DEF PassedOver
      <4>3. PassedOver = {u \in startTicket .. t - 1 : u \notin Delivered}
        BY DEF PassedOver, t
      <4> QED BY <1>1, <2>2, <4>2, <4>3
    <3>6. PassedOverOnlyWhenLapped'
      BY <3>5, <2>10 DEF IInv, PassedOverOnlyWhenLapped
    <3> QED BY <1>2, <2>5, <2>8, <3>2, <3>4, <3>6 DEF ReadSide
  <2> QED BY <2>9, <2>10
<1> QED BY <1>3, <1>4

-----------------------------------------------------------------------------
(* Every step leaves the invariant true. *)

LEMMA NextIInv == IInv /\ [Next]_vars => IInv'
<1> SUFFICES ASSUME IInv, [Next]_vars PROVE IInv'
  OBVIOUS
<1> USE Sizes
<1>1. /\ posted \in Nat /\ FirstTicket <= posted /\ posted <= MaxTicket
      /\ \A t \in Recent : t \in Tickets /\ t \in Int
      /\ \A w \in Writers : writer[w].pc # "idle" => writer[w].ticket \in Recent
  BY DEF IInv, TypeOK, RangeInv, Recent, Tickets
<1>2. ReadSide /\ WriteSide
  BY DEF IInv, ReadSide, WriteSide
<1>3. ASSUME TypeOK', WriteSide', ReadSide' PROVE IInv'
  BY <1>3 DEF IInv, ReadSide, WriteSide
<1>4. ASSUME NEW w \in Writers, Claim(w) PROVE IInv'
  <2> USE <1>4 DEF Claim
  <2>1. posted \in Tickets
    BY <1>1 DEF Tickets
  <2>2. TypeOK'
    BY <1>1, <2>1 DEF IInv, TypeOK
  <2>3. RangeInv'
    BY <1>1 DEF IInv, TypeOK, RangeInv
  <2>4. SlotInv'
    <3>1. Recent \subseteq Recent'
      BY <1>1 DEF Recent
    <3>2. \A s, t : (t \in Recent /\ Holds(s, t) => Holds(s, t)') /\ (Fresh(s)' = Fresh(s))
      BY <3>1 DEF Holds, Fresh
    <3>3. \A s \in Slots : Holds(s, payload[s]) => payload[s] \in Recent
      BY DEF Holds
    <3> QED BY <3>1, <3>2, <3>3 DEF IInv, SlotInv
  <2>5. ReadSide'
    BY WritersKeepReadSide
  <2> QED BY <1>3, <2>2, <2>3, <2>4, <2>5 DEF WriteSide
<1>5. ASSUME NEW w \in Writers, StoreRecord(w) PROVE IInv'
  <2> DEFINE t == writer[w].ticket
  <2> USE <1>5 DEF StoreRecord
  <2>1. t \in Recent /\ t \in Tickets /\ IndexOf(t) \in Index
    BY <1>1, IndexOfType
  <2>2. lapped' \in SUBSET Tickets
    BY <1>1, <2>1 DEF WriteIndex, Overwrite, IInv, TypeOK, Tickets
  <2>3. TypeOK'
    BY <2>1, <2>2 DEF IInv, TypeOK, WriteIndex, WritePayload
  <2>4. RangeInv'
    BY DEF IInv, TypeOK, RangeInv
  <2>5. SlotInv'
    BY <2>1, StoreKeepsSlots
  <2>6. ReadSide'
    BY <1>1, WritersKeepReadSide DEF WriteIndex
  <2> QED BY <1>3, <2>3, <2>4, <2>5, <2>6 DEF WriteSide
<1>6. ASSUME NEW w \in Writers, StoreLow(w) PROVE IInv'
  <2> USE <1>6 DEF StoreLow, StoreHalf, IndexAtEnd
  <2>1. writer[w].ticket \in Tickets /\ lapped' \in SUBSET Tickets
    BY <1>1 DEF Overwrite, IInv, TypeOK, Tickets
  <2>2. TypeOK'
    BY <2>1 DEF IInv, TypeOK, WritePayload
  <2>3. RangeInv'
    BY DEF IInv, TypeOK, RangeInv
  <2>4. SlotInv'
    BY DEF IInv, SlotInv, Holds, Fresh, Recent
  <2>5. ReadSide'
    BY <1>1, WritersKeepReadSide
  <2> QED BY <1>3, <2>2, <2>3, <2>4, <2>5 DEF WriteSide
<1>7. ASSUME NEW w \in Writers, StoreHigh(w) PROVE IInv'
  <2> DEFINE t == writer[w].ticket
  <2> USE <1>7 DEF StoreHigh, StoreHalf, IndexAtEnd
  <2>1. t \in Recent /\ t \in Tickets /\ IndexOf(t) \in Index
    BY <1>1, IndexOfType
  <2>2. lapped' \in SUBSET Tickets
    BY <1>1, <2>1 DEF WriteIndex, Overwrite, IInv, TypeOK, Tickets
  <2>3. TypeOK'
    BY <2>1, <2>2 DEF IInv, TypeOK, WriteIndex
  <2>4. RangeInv'
    BY DEF IInv, TypeOK, RangeInv
  <2>5. ~wideCopy
    BY DEF IInv, RangeInv
  <2>6. SlotInv'
    BY <2>1, <2>5, StoreKeepsSlots
  <2>7. ReadSide'
    BY <1>1, WritersKeepReadSide DEF WriteIndex
  <2> QED BY <1>3, <2>3, <2>4, <2>6, <2>7 DEF WriteSide
<1>8. ASSUME NEW w \in Writers, Die(w) PROVE IInv'
  <2> USE <1>8 DEF Die
  <2>1. TypeOK'
    BY <1>1 DEF IInv, TypeOK
  <2>2. RangeInv'
    BY DEF IInv, TypeOK, RangeInv
  <2>3. SlotInv'
    BY DEF IInv, SlotInv, Holds, Fresh, Recent
  <2>4. ReadSide'
    BY <1>1, WritersKeepReadSide
  <2> QED BY <1>3, <2>1, <2>2, <2>3, <2>4 DEF WriteSide
<1>9. ASSUME StartHost PROVE IInv'
  <2> USE <1>9 DEF StartHost
  <2>1. writeIndex \in Index
    BY <1>1, IndexOfType DEF writeIndex
  <2>2. TypeOK'
    BY <1>1, <2>1 DEF IInv, TypeOK
  <2>3. RangeInv' /\ SlotInv'
    BY <1>1 DEF IInv, TypeOK, RangeInv, SlotInv, Holds, Fresh, Recent
  <2>4. started' /\ delivered' = <<>> /\ reader'.pc = "observe" /\ reader'.readIndex = IndexOf(posted)
    BY DEF IInv, ReadInv, started, TypeOK, writeIndex
  <2>5. readTicket' = posted
    <3>1. posted - Behind(IndexOf(posted), IndexOf(posted)) = posted
      BY <1>1, TicketIs
    <3> QED BY <2>4, <3>1 DEF readTicket, writeIndex
  <2>6. PassedOver' = {}
    BY <1>1, <2>5 DEF PassedOver
  <2>7. ReadSide'
    BY <1>1, <2>4, <2>5, <2>6
    DEF ReadSide, ReadInv, DeliveryInv, InOrderOnce, PassedOverOnlyWhenLapped
  <2> QED BY <1>3, <2>2, <2>3, <2>7 DEF WriteSide
<1>10. ASSUME Observe PROVE IInv'
  <2> USE <1>10 DEF Observe
  <2>1. TypeOK'
    BY DEF IInv, TypeOK
  <2>2. started /\ started' /\ reader'.readIndex = reader.readIndex /\ reader'.pc = "copy"
    BY DEF IInv, TypeOK, started
  <2>3. readTicket' = readTicket
    BY <2>2 DEF readTicket, writeIndex
  <2>4. ReadSide'
    BY <1>2, <2>2, <2>3 DEF ReadSide, ReadInv, DeliveryInv, InOrderOnce,
       PassedOverOnlyWhenLapped, PassedOver, Delivered, started
  <2> QED BY <1>3, <2>1, <2>2, <2>4, HostKeepsWriteSide
<1>11. ASSUME CatchUp PROVE IInv'
  <2> DEFINE r == reader.readIndex  t == readTicket  u == posted - RingLength \div 2
  <2> USE <1>11 DEF CatchUp
  <2>1. /\ started /\ started' /\ reader'.pc = "observe"
        /\ reader'.readIndex = (IndexOf(posted) - RingLength \div 2) % IndexRange
    BY DEF started, IInv, TypeOK, writeIndex
  <2>2. /\ t \in startTicket .. posted /\ t = posted - Behind(r, writeIndex) /\ startTicket \in Nat
        /\ Behind(r, writeIndex) > RingLength /\ Behind(r, writeIndex) \in Int
    <3>1. r \in Int /\ writeIndex \in Int
      BY <1>1, IndexOfType DEF writeIndex, Index, IInv, TypeOK
    <3>2. Behind(r, writeIndex) \in Int
      BY <3>1, BehindType
    <3> QED BY <2>1, <3>2 DEF Overrun, IInv, ReadInv, TypeOK, readTicket
  <2>3. /\ posted - t > RingLength /\ t \in Int /\ u \in Int /\ t < u /\ u <= posted
        /\ posted - u \in 0 .. IndexRange - 1
    BY <1>1, <2>2, HalfRing
  <2>4. reader'.readIndex = IndexOf(u) /\ IndexOf(u) \in Index
    BY <1>1, <2>1, <2>3, HalfRing, IndexBack, IndexOfType
  <2> HIDE DEF u
  <2>5. readTicket' = u
    <3>1. posted - Behind(IndexOf(u), IndexOf(posted)) = u
      BY <1>1, <2>3, TicketIs
    <3> QED BY <2>4, <3>1 DEF readTicket, writeIndex
  <2>6. TypeOK'
    BY <2>4 DEF IInv, TypeOK, u
  <2>7. ReadInv'
    BY <1>1, <2>1, <2>2, <2>3, <2>4, <2>5 DEF ReadInv
  <2> HIDE DEF t
  <2>8. DeliveryInv' /\ InOrderOnce'
    <3>1. t = readTicket
      BY DEF t
    <3> QED BY <2>1, <2>2, <2>3, <2>5, <3>1 DEF IInv, DeliveryInv, InOrderOnce
  <2>9. PassedOverOnlyWhenLapped'
    <3> SUFFICES ASSUME wideCopy, NEW v \in PassedOver' PROVE IsLapped(v, posted, PassedOver')
      BY DEF PassedOverOnlyWhenLapped, IsLapped
    <3>1. v \in startTicket .. u - 1 /\ v \notin Delivered /\ v \in Int
      BY <2>2, <2>3, <2>5 DEF PassedOver, Delivered
    <3>2. posted - v > RingLength \div 2
      BY <1>1, <2>3, <3>1, HalfRing DEF u
    <3>3. PassedOver = {x \in startTicket .. t - 1 : x \notin Delivered}
      BY DEF PassedOver, t
    <3>4. PassedOver' = {x \in startTicket .. u - 1 : x \notin Delivered}
      BY <2>5 DEF PassedOver, Delivered
    <3>5. CASE v < t
      <4>1. v \in PassedOver
        BY <2>2, <2>3, <3>1, <3>3, <3>5
      <4>2. PICK x \in PassedOver : x <= v /\ posted - x > RingLength
        BY <2>1, <4>1 DEF IInv, PassedOverOnlyWhenLapped
      <4>3. x \in PassedOver'
        BY <2>2, <2>3, <3>3, <3>4
      <4> QED BY <3>2, <4>2, <4>3 DEF IsLapped
    <3>6. CASE v >= t
      <4>1. t \notin Delivered
        BY <2>1, <2>2, <2>3 DEF IInv, DeliveryInv, Delivered, t
      <4>2. t \in PassedOver' /\ t <= v
        BY <2>2, <2>3, <3>4, <3>6, <4>1
      <4> QED BY <2>3, <3>2, <4>2 DEF IsLapped
    <3> QED BY <2>3, <3>1, <3>5, <3>6
  <2> QED BY <1>3, <2>1, <2>6, <2>7, <2>8, <2>9, HostKeepsWriteSide DEF ReadSide
<1>12. ASSUME CopyRecord PROVE IInv'
  <2> DEFINE s == SlotOf(reader.readIndex)
  <2> USE <1>12 DEF CopyRecord
  <2>1. started /\ reader.readIndex \in Int /\ s \in Slots
    BY SlotOfIndex DEF started, IInv, TypeOK, Index
  <2>2. payload[s] \in Tickets \cup {Zeroed}
    BY <2>1 DEF IInv, TypeOK
  <2>3. ReadSide' /\ started' /\ HostTypeOK'
    BY <2>1, <2>2, FinishKeepsReadSide
  <2>4. TypeOK'
    BY <2>3 DEF IInv, TypeOK, HostTypeOK
  <2> QED BY <1>3, <2>1, <2>3, <2>4, HostKeepsWriteSide
<1>13. ASSUME CopyLow PROVE IInv'
  <2> DEFINE s == SlotOf(reader.readIndex)
  <2> USE <1>13 DEF CopyLow
  <2>1. started /\ reader.readIndex \in Int /\ s \in Slots
    BY SlotOfIndex DEF started, IInv, TypeOK, Index
  <2>2. TypeOK'
    BY <2>1 DEF IInv, TypeOK
  <2>3. started' /\ reader'.readIndex = reader.readIndex
    BY DEF IInv, TypeOK, started
  <2>4. readTicket' = readTicket
    BY <2>3 DEF readTicket, writeIndex
  <2>5. ReadSide'
    BY <1>2, <2>1, <2>3, <2>4 DEF ReadSide, ReadInv, DeliveryInv, InOrderOnce,
       PassedOverOnlyWhenLapped
  <2> QED BY <1>3, <2>1, <2>2, <2>3, <2>5, HostKeepsWriteSide
<1>14. ASSUME CopyHigh PROVE IInv'
  <2> USE <1>14 DEF CopyHigh
  <2>1. started /\ ~wideCopy /\ reader.payload \in Tickets \cup {Zeroed}
    BY DEF started, IInv, TypeOK, ReadInv
  <2>2. ReadSide' /\ started' /\ HostTypeOK'
    BY <2>1, FinishKeepsReadSide
  <2>3. TypeOK'
    BY <2>2 DEF IInv, TypeOK, HostTypeOK
  <2> QED BY <1>3, <2>1, <2>2, <2>3, HostKeepsWriteSide
<1>15. CASE UNCHANGED vars
  <2> USE <1>15 DEF vars
  <2>1. TypeOK' /\ RangeInv' /\ SlotInv'
    BY DEF IInv, TypeOK, RangeInv, SlotInv, Holds, Fresh, Recent
  <2>2. ReadSide'
    BY <1>1, WritersKeepReadSide
  <2> QED BY <1>3, <2>1, <2>2 DEF WriteSide
<1> QED
  BY <1>4, <1>5, <1>6, <1>7, <1>8, <1>9, <1>10, <1>11, <1>12, <1>13, <1>14, <1>15
  DEF Next, WriterStep, ReaderStep

-----------------------------------------------------------------------------
(* What the host finds is whole unless its slot was raced for.  With 8-byte access the *)
(* halves of a slot may be of two records; HalvesInv says what must have happened.     *)

\* A ticket in flight stays there as long as its writer does.
LEMMA StaysInFlight ==
  ASSUME NEW w \in Writers, NEW u, InFlight(u), u # writer[w].ticket \/ writer[w].pc = "idle",
         \A v \in Writers \ {w} : writer'[v] = writer[v]
  PROVE  InFlight(u)'
<1>1. PICK v \in Writers : writer[v].pc \in {"claimed", "half"} /\ writer[v].ticket = u
  BY DEF InFlight, Held
<1>2. v # w
  BY <1>1
<1> QED BY <1>1, <1>2 DEF InFlight, Held

\* Of a writer's step w takes with its ticket t, to another place or to its end.
LEMMA WriterMoves ==
  ASSUME WholeInv, NEW w \in Writers, writer[w].pc # "idle",
         NEW pc, pc \in {"half", "idle"}, writer' = [writer EXCEPT ![w].pc = pc], UNCHANGED posted
  PROVE  /\ \A v \in Writers : writer'[v].ticket = writer[v].ticket
         /\ \A v \in Writers \ {w} : writer'[v] = writer[v]
         /\ writer'[w].pc = pc
         /\ \A v, x \in Writers : writer'[v].pc # "idle" /\ writer'[x].pc # "idle"
                                  /\ writer'[v].ticket = writer'[x].ticket => v = x
         /\ Recent' = Recent /\ writer[w].ticket \in Recent
<1>1. writer \in [Writers -> [pc : {"idle", "claimed", "half"}, ticket : Tickets]]
  BY DEF WholeInv, IInv, TypeOK
<1>2. \A v \in Writers \ {w} : writer'[v] = writer[v]
  BY <1>1
<1>3. writer'[w].ticket = writer[w].ticket /\ writer'[w].pc = pc
  BY <1>1
<1>4. \A v \in Writers : writer'[v].pc # "idle" => writer[v].pc # "idle"
  BY <1>2
<1>5. writer[w].ticket \in Recent
  BY Sizes DEF WholeInv, IInv, RangeInv, TypeOK, Recent
<1> QED BY <1>2, <1>3, <1>4, <1>5 DEF WholeInv, HalvesInv, Recent

LEMMA RecentAre == ASSUME IInv PROVE Recent \subseteq Int /\ \A t \in Recent : SlotOf(t) \in Slots
<1>1. posted \in Nat
  BY Sizes DEF IInv, TypeOK
<1> QED BY <1>1, SlotOfIndex DEF Recent

(* A first half: the slot has it now, and its record is in flight. *)
LEMMA LowKeeps == ASSUME WholeInv, NEW w \in Writers, StoreLow(w) PROVE HalvesInv'
<1> DEFINE t == writer[w].ticket
<1> USE DEF StoreLow, StoreHalf, IndexAtEnd
<1>1. /\ \A v \in Writers : writer'[v].ticket = writer[v].ticket
      /\ \A v \in Writers \ {w} : writer'[v] = writer[v]
      /\ writer'[w].pc = "half"
      /\ \A v, x \in Writers : writer'[v].pc # "idle" /\ writer'[x].pc # "idle"
                               /\ writer'[v].ticket = writer'[x].ticket => v = x
      /\ Recent' = Recent /\ t \in Recent
  BY WriterMoves
<1>2. t \in Int /\ SlotOf(t) \in Slots /\ Recent \subseteq Int
  BY <1>1, RecentAre DEF WholeInv
<1>3. \A s \in Slots : payload'[s] = IF s = SlotOf(t) THEN t ELSE payload[s]
  BY <1>2 DEF WritePayload, WholeInv, IInv, TypeOK
<1>4. lapped \subseteq lapped' /\ dead \subseteq dead'
  BY DEF Overwrite
<1>5. InFlight(t)' /\ \A u : InFlight(u) => InFlight(u)'
  <2>1. InFlight(t)'
    BY <1>1 DEF InFlight, Held
  <2> QED BY <1>1, <2>1, StaysInFlight
<1>6. \A s \in Slots : payload'[s] = Zeroed \/ (payload'[s] \in Recent' /\ SlotOf(payload'[s]) = s)
  BY <1>1, <1>3 DEF WholeInv, HalvesInv
<1>7. \A s \in Slots : Fresh(s)' \/ \E x \in Recent' : Holds(s, x)' /\ Paired(payload[s], x)'
  <2> SUFFICES ASSUME NEW s \in Slots, ~Fresh(s)
               PROVE  \E x \in Recent' : Holds(s, x)' /\ Paired(payload[s], x)'
    BY DEF Fresh
  <2>1. PICK x \in Recent : Holds(s, x) /\ Paired(payload[s], x)
    BY DEF WholeInv, HalvesInv
  <2>2. Holds(s, x)' /\ x \in Recent'
    BY <1>1, <2>1 DEF Holds
  <2>3. CASE s = SlotOf(t)
    <3>1. payload'[s] = t
      BY <1>3, <2>3
    <3> QED BY <1>5, <2>2, <3>1 DEF Paired
  <2>4. CASE s # SlotOf(t)
    <3>1. payload'[s] = payload[s]
      BY <1>3, <2>4
    <3> QED BY <1>4, <1>5, <2>1, <2>2, <3>1 DEF Paired
  <2> QED BY <2>3, <2>4
<1>8. ASSUME NEW v \in Writers, writer'[v].pc = "half"
      PROVE  writer[v].ticket \in lapped' \/ payload'[SlotOf(writer[v].ticket)] >= writer[v].ticket
  <2> DEFINE x == writer[v].ticket
  <2>1. CASE v = w
    BY <1>2, <1>3, <2>1
  <2>2. CASE v # w
    <3>1. writer[v].pc = "half" /\ x \in Recent /\ x \in Int
      BY <1>1, <1>2, <1>8, <2>2, Sizes DEF WholeInv, IInv, RangeInv, TypeOK, Recent
    <3>2. x \in lapped \/ payload[SlotOf(x)] >= x
      BY <3>1 DEF WholeInv, HalvesInv
    <3>3. CASE SlotOf(x) # SlotOf(t)
      BY <1>3, <1>4, <3>1, <3>2, <3>3, RecentAre DEF WholeInv
    <3>4. CASE SlotOf(x) = SlotOf(t) /\ x <= t
      BY <1>2, <1>3, <3>4
    <3>5. CASE SlotOf(x) = SlotOf(t) /\ x > t
      <4>1. ~Held(x, {"claimed"})
        <5>1. ASSUME NEW y \in Writers, writer[y].pc = "claimed", writer[y].ticket = x PROVE FALSE
          BY <3>1, <5>1 DEF WholeInv, HalvesInv
        <5> QED BY <5>1 DEF Held
      <4>2. x \in t + 1 .. posted - 1
        BY <1>2, <3>1, <3>5 DEF Recent
      <4> QED BY <3>5, <4>1, <4>2 DEF Overwrite
    <3> QED BY <1>2, <3>1, <3>3, <3>4, <3>5
  <2> QED BY <2>1, <2>2
<1> QED BY <1>1, <1>6, <1>7, <1>8 DEF HalvesInv

(* An index: the slot has that of the record stored now, with its own first half, or one of a *)
(* record still in flight, or one that is taken for lapped.                                    *)
LEMMA IndexKeeps ==
  ASSUME WholeInv, NEW w \in Writers, writer[w].pc # "idle", WriteIndex(writer[w].ticket),
         writer' = [writer EXCEPT ![w].pc = "idle"], UNCHANGED <<posted, dead>>,
         \/ writer[w].pc = "half" /\ UNCHANGED payload
         \/ wideCopy /\ WritePayload(writer[w].ticket)
  PROVE  HalvesInv'
<1> DEFINE t == writer[w].ticket
<1>1. /\ \A v \in Writers : writer'[v].ticket = writer[v].ticket
      /\ \A v \in Writers \ {w} : writer'[v] = writer[v]
      /\ writer'[w].pc = "idle"
      /\ \A v, x \in Writers : writer'[v].pc # "idle" /\ writer'[x].pc # "idle"
                               /\ writer'[v].ticket = writer'[x].ticket => v = x
      /\ Recent' = Recent /\ t \in Recent
  BY WriterMoves
<1>2. t \in Int /\ SlotOf(t) \in Slots /\ Recent \subseteq Int
  BY <1>1, RecentAre DEF WholeInv
<1>3. \A s \in Slots : s # SlotOf(t) => payload'[s] = payload[s] /\ recordIndex'[s] = recordIndex[s]
  BY DEF WritePayload, WriteIndex, WholeInv, IInv, TypeOK
<1>4. lapped \subseteq lapped' /\ dead \subseteq dead'
  BY DEF WriteIndex, Overwrite
<1>5. \A u : u # t /\ InFlight(u) => InFlight(u)'
  BY <1>1, StaysInFlight
<1>6. payload'[SlotOf(t)] = t \/ payload' = payload
  BY <1>2 DEF WritePayload, WholeInv, IInv, TypeOK
<1>7. \A s \in Slots : payload'[s] = Zeroed \/ (payload'[s] \in Recent' /\ SlotOf(payload'[s]) = s)
  BY <1>1, <1>3, <1>6 DEF WholeInv, HalvesInv
<1>8. \A s \in Slots : Fresh(s)' \/ \E x \in Recent' : Holds(s, x)' /\ Paired(payload[s], x)'
  <2> SUFFICES ASSUME NEW s \in Slots
               PROVE  Fresh(s)' \/ \E x \in Recent' : Holds(s, x)' /\ Paired(payload[s], x)'
    OBVIOUS
  <2>1. CASE s # SlotOf(t)
    <3>1. payload'[s] = payload[s] /\ recordIndex'[s] = recordIndex[s] /\ payload[s] # t
      <4>1. t # Zeroed
        BY <1>1, <1>2, Sizes DEF WholeInv, IInv, RangeInv, Zeroed
      <4> QED BY <1>3, <2>1, <4>1 DEF WholeInv, HalvesInv
    <3>2. ASSUME NEW x \in Recent, Holds(s, x), Paired(payload[s], x)
          PROVE  x \in Recent' /\ Holds(s, x)' /\ Paired(payload[s], x)'
      BY <1>1, <1>4, <1>5, <3>1, <3>2 DEF Holds, Paired
    <3> QED BY <3>1, <3>2 DEF WholeInv, HalvesInv, Fresh
  <2>2. CASE s = SlotOf(t)
    <3>1. Holds(s, t)' /\ t \in Recent'
      BY <1>1, <1>2, <2>2 DEF Holds, WriteIndex, WholeInv, IInv, TypeOK
    <3>2. CASE payload'[s] = t
      BY <3>1, <3>2 DEF Paired
    <3>3. CASE payload'[s] # t
      <4> DEFINE u == payload[s]
      <4>1. writer[w].pc = "half" /\ payload' = payload
        BY <1>2, <2>2, <3>3 DEF WritePayload, WholeInv, IInv, TypeOK
      <4>2. t \in lapped \/ u >= t
        BY <2>2, <4>1 DEF WholeInv, HalvesInv
      <4>3. CASE t \in lapped
        BY <1>4, <3>1, <4>3 DEF Paired
      <4>4. CASE u >= t
        <5>1. u # t /\ u # Zeroed
          <6>1. t >= 0
            BY <1>1, Sizes DEF Recent, WholeInv, IInv, RangeInv
          <6> QED BY <1>2, <3>3, <4>1, <4>4, <6>1 DEF Zeroed
        <5>2. u \in Recent /\ SlotOf(u) = s
          BY <5>1 DEF WholeInv, HalvesInv
        <5>3. u \in t + 1 .. posted - 1
          BY <1>2, <4>4, <5>1, <5>2 DEF Recent
        <5>4. CASE InFlight(u)
          BY <1>5, <3>1, <4>1, <5>1, <5>4 DEF Paired
        <5>5. CASE ~InFlight(u)
          <6>1. u \in lapped'
            BY <2>2, <5>2, <5>3, <5>5 DEF WriteIndex, Overwrite, InFlight
          <6> QED BY <3>1, <4>1, <6>1 DEF Paired
        <5> QED BY <5>4, <5>5
      <4> QED BY <4>2, <4>3, <4>4
    <3> QED BY <3>2, <3>3
  <2> QED BY <2>1, <2>2
<1>9. ASSUME NEW v \in Writers, writer'[v].pc = "half"
      PROVE  writer[v].ticket \in lapped' \/ payload'[SlotOf(writer[v].ticket)] >= writer[v].ticket
  <2>1. v # w /\ writer[v].pc = "half"
    BY <1>1, <1>9
  <2>2. ~wideCopy
    BY <2>1 DEF WholeInv, IInv, RangeInv
  <2> QED BY <1>4, <2>1, <2>2 DEF WholeInv, HalvesInv
<1> QED BY <1>1, <1>7, <1>8, <1>9 DEF HalvesInv

(* A new ticket is nobody else's, and no slot has it yet. *)
LEMMA ClaimKeeps == ASSUME WholeInv, NEW w \in Writers, Claim(w) PROVE HalvesInv'
<1> USE DEF Claim
<1>1. /\ posted \in Nat /\ Recent \subseteq Recent'
      /\ \A v \in Writers : writer[v].pc # "idle" => writer[v].ticket \in FirstTicket .. posted - 1
  BY Sizes DEF WholeInv, IInv, TypeOK, RangeInv, Recent
<1>2. /\ \A v \in Writers \ {w} : writer'[v] = writer[v]
      /\ writer'[w] = [pc |-> "claimed", ticket |-> posted]
  BY DEF WholeInv, IInv, TypeOK
<1>3. \A v, x \in Writers : writer'[v].pc # "idle" /\ writer'[x].pc # "idle"
                             /\ writer'[v].ticket = writer'[x].ticket => v = x
  BY <1>1, <1>2, Sizes DEF WholeInv, HalvesInv
<1>4. \A u : InFlight(u) => InFlight(u)'
  BY <1>2, StaysInFlight
<1>5. \A s \in Slots : payload'[s] = Zeroed \/ (payload'[s] \in Recent' /\ SlotOf(payload'[s]) = s)
  BY <1>1 DEF WholeInv, HalvesInv
<1>6. \A s, t : t \in Recent /\ Holds(s, t) /\ Paired(payload[s], t)
                => t \in Recent' /\ Holds(s, t)' /\ Paired(payload[s], t)'
  BY <1>1, <1>4 DEF Holds, Paired
<1>7. \A s \in Slots : Fresh(s)' \/ \E t \in Recent' : Holds(s, t)' /\ Paired(payload[s], t)'
  BY <1>6 DEF WholeInv, HalvesInv, Fresh
<1>8. ASSUME NEW v \in Writers, writer'[v].pc = "half"
      PROVE  writer'[v].ticket \in lapped' \/ payload'[SlotOf(writer'[v].ticket)] >= writer'[v].ticket
  BY <1>2, <1>8 DEF WholeInv, HalvesInv
<1> QED BY <1>3, <1>5, <1>7, <1>8 DEF HalvesInv

(* The ticket of a writer that dies goes on file as that of a dead one. *)
LEMMA DieKeeps == ASSUME WholeInv, NEW w \in Writers, Die(w) PROVE HalvesInv'
<1> USE DEF Die
<1>1. /\ \A v \in Writers : writer'[v].ticket = writer[v].ticket
      /\ \A v \in Writers \ {w} : writer'[v] = writer[v]
      /\ writer'[w].pc = "idle"
      /\ \A v, x \in Writers : writer'[v].pc # "idle" /\ writer'[x].pc # "idle"
                               /\ writer'[v].ticket = writer'[x].ticket => v = x
      /\ Recent' = Recent
  BY WriterMoves
<1>2. \A u : InFlight(u) => InFlight(u)' \/ u \in dead'
  BY <1>1, StaysInFlight
<1>3. \A s, t : Holds(s, t) /\ Paired(payload[s], t) => Holds(s, t)' /\ Paired(payload[s], t)'
  BY <1>1, <1>2 DEF Holds, Paired
<1>4. \A v \in Writers : writer'[v].pc = "half" => writer[v].pc = "half"
  BY <1>1
<1> QED BY <1>1, <1>3, <1>4 DEF WholeInv, HalvesInv, Fresh

LEMMA NextWhole == WholeInv /\ [Next]_vars => WholeInv'
<1> SUFFICES ASSUME WholeInv, [Next]_vars PROVE HalvesInv'
  BY NextIInv DEF WholeInv
<1>1. ASSUME NEW w \in Writers, StoreRecord(w) PROVE HalvesInv'
  BY <1>1, IndexKeeps DEF StoreRecord
<1>2. ASSUME NEW w \in Writers, StoreHigh(w) PROVE HalvesInv'
  BY <1>2, IndexKeeps DEF StoreHigh, StoreHalf, IndexAtEnd
<1>3. CASE UNCHANGED <<posted, payload, recordIndex, writer, lapped, dead>>
  BY <1>3 DEF WholeInv, HalvesInv, Fresh, Recent, Holds, Paired, InFlight, Held
<1> QED
  BY <1>1, <1>2, <1>3, ClaimKeeps, DieKeeps, LowKeeps
  DEF Next, WriterStep, ReaderStep, StartHost, Observe, CatchUp, CopyRecord, CopyLow, CopyHigh, vars

LEMMA InitWhole == ASSUME FirstTicket > 0 PROVE Init => WholeInv
<1> SUFFICES ASSUME Init PROVE HalvesInv
  BY InitIInv DEF WholeInv
<1>1. \A s \in Slots : \/ payload[s] = Zeroed /\ Fresh(s)
                       \/ payload[s] \in Recent /\ SlotOf(payload[s]) = s /\ Holds(s, payload[s])
  BY InitHolds DEF Holds
<1>2. \A w \in Writers : writer[w].pc = "idle"
  BY DEF Init
<1>3. \A t : Paired(t, t)
  BY DEF Paired
<1> QED BY <1>1, <1>2, <1>3 DEF HalvesInv

(* What a step delivers is the record that is waited for, or has been raced for. *)
LEMMA FinishDelivers ==
  ASSUME WholeInv, started, NEW copied \in Tickets \cup {Zeroed},
         Finish(copied, recordIndex[SlotOf(reader.readIndex)]),
         NEW i \in DOMAIN delivered' \ DOMAIN delivered
  PROVE  delivered'[i].ticket # readTicket => Raced(delivered'[i].ticket, readTicket)
<1> DEFINE r == reader.readIndex  s == SlotOf(r)  t == readTicket  d == [ticket |-> copied, index |-> r]
<1>1. recordIndex[s] = r /\ delivered' = Append(delivered, d)
  BY DEF Finish
<1>2. r \in Index /\ delivered \in Seq([ticket : Tickets \cup {Zeroed}, index : Index])
  BY DEF WholeInv, IInv, TypeOK
<1>3. d \in [ticket : Tickets \cup {Zeroed}, index : Index] /\ d.ticket = copied
  BY <1>2
<1> HIDE DEF d
<1>4. delivered'[i] = d
  BY <1>1, <1>2, <1>3
<1>5. /\ IndexOf(t) = r /\ t \in Int /\ ~Fresh(s)
      /\ \A u \in Recent : Holds(s, u) => u = t
  BY <1>1, FoundIsNext, Sizes DEF WholeInv, IInv, TypeOK, ReadInv
<1>6. SlotOf(t) = s /\ s \in Slots
  BY <1>5, SlotOfIndex
<1>7. Paired(payload[s], t)
  BY <1>5, <1>6 DEF WholeInv, HalvesInv
<1>8. copied # t => Raced(copied, t)
  BY <1>6, <1>7 DEF Raced, Paired
<1> QED BY <1>3, <1>4, <1>8

LEMMA StepIsWhole ==
  ASSUME WholeInv, [Next]_vars, NEW i \in DOMAIN delivered' \ DOMAIN delivered
  PROVE  delivered'[i].ticket # readTicket => Raced(delivered'[i].ticket, readTicket)
<1>1. delivered' # delivered
  OBVIOUS
<1>2. CASE CopyRecord
  <2>1. reader.readIndex \in Int /\ started
    BY <1>2 DEF WholeInv, IInv, TypeOK, Index, CopyRecord, started
  <2>2. payload[SlotOf(reader.readIndex)] \in Tickets \cup {Zeroed}
    BY <2>1, SlotOfIndex DEF WholeInv, IInv, TypeOK
  <2> QED BY <1>2, <2>1, <2>2, FinishDelivers DEF CopyRecord
<1>3. CASE CopyHigh
  <2>1. started /\ reader.payload \in Tickets \cup {Zeroed}
    BY <1>3 DEF WholeInv, IInv, TypeOK, CopyHigh, started
  <2> QED BY <1>3, <2>1, FinishDelivers DEF CopyHigh
<1> QED
  BY <1>1, <1>2, <1>3
  DEF Next, WriterStep, ReaderStep, Claim, StoreRecord, StoreLow, StoreHigh, Die, StartHost,
      Observe, CatchUp, CopyLow, vars

-----------------------------------------------------------------------------
(* The results *)

(* All variables of the ring keep their types. *)
THEOREM TypeCorrect == FirstTicket > 0 => (Spec => []TypeOK)
<1> SUFFICES ASSUME FirstTicket > 0 PROVE Spec => []TypeOK
  OBVIOUS
<1>1. IInv => TypeOK
  BY DEF IInv
<1>2. Init => IInv
  BY InitIInv
<1> QED BY NextIInv, <1>1, <1>2, PTL DEF Spec

(* The host processes records in the order of the fetch_adds and none of them twice. *)
THEOREM RecordsInOrderOnce == FirstTicket > 0 => (Spec => []InOrderOnce)
<1> SUFFICES ASSUME FirstTicket > 0 PROVE Spec => []InOrderOnce
  OBVIOUS
<1>1. IInv => InOrderOnce
  BY DEF IInv
<1>2. Init => IInv
  BY InitIInv
<1> QED BY NextIInv, <1>1, <1>2, PTL DEF Spec

(* The host passes over records only when it was lapped: the oldest of them was more *)
(* than a ring behind the writers, each more than half a ring.                       *)
THEOREM NothingSkippedUnlapped == FirstTicket > 0 => (Spec => []PassedOverOnlyWhenLapped)
<1> SUFFICES ASSUME FirstTicket > 0 PROVE Spec => []PassedOverOnlyWhenLapped
  OBVIOUS
<1>1. IInv => PassedOverOnlyWhenLapped
  BY DEF IInv
<1>2. Init => IInv
  BY InitIInv
<1> QED BY NextIInv, <1>1, <1>2, PTL DEF Spec

(* With and without 16-byte accesses, the read index never runs past the write index, *)
(* where the unsigned difference would take an empty ring for an overrun one.         *)
THEOREM ReaderNeverAhead == FirstTicket > 0 => (Spec => []NeverAhead)
<1> SUFFICES ASSUME FirstTicket > 0 PROVE Spec => []NeverAhead
  OBVIOUS
<1>1. IInv => NeverAhead
  <2> SUFFICES ASSUME IInv, started PROVE Behind(reader.readIndex, writeIndex) <= posted - startTicket
    BY DEF NeverAhead
  <2> DEFINE b == Behind(reader.readIndex, writeIndex)
  <2>1. reader.readIndex \in Int /\ posted \in Int /\ startTicket \in Int /\ writeIndex \in Int
    BY Sizes, IndexOfType DEF IInv, TypeOK, Index, writeIndex
  <2>2. b \in Int
    <3>1. b \in 0 .. IndexRange - 1
      BY <2>1, BehindType
    <3> HIDE DEF b
    <3> QED BY <3>1, Sizes
  <2>3. posted - b \in startTicket .. posted
    BY DEF IInv, ReadInv, readTicket
  <2> QED BY <2>1, <2>2, <2>3
<1>2. Init => IInv
  BY InitIInv
<1> QED BY NextIInv, <1>1, <1>2, PTL DEF Spec

(* However the program was compiled, the record the host takes for completed is the one *)
(* posted under that index, all of it, unless the slot was raced for: a store between   *)
(* the reader's two copies, a record still in flight, one stored over, or a writer that *)
(* died.                                                                                *)
THEOREM RecordsWholeUnlessRaced == FirstTicket > 0 => (Spec => WholeUnlessRaced)
<1> SUFFICES ASSUME FirstTicket > 0 PROVE Spec => WholeUnlessRaced
  OBVIOUS
<1>1. Init => WholeInv
  BY InitWhole
<1>2. WholeInv /\ [Next]_vars =>
        [\A d \in {delivered'[i] : i \in DOMAIN delivered' \ DOMAIN delivered} :
           d.ticket # readTicket => Raced(d.ticket, readTicket)]_vars
  BY StepIsWhole
<1> QED BY <1>1, <1>2, NextWhole, PTL DEF Spec, WholeUnlessRaced
=============================================================================
