-------------------------- MODULE HostState_proofs --------------------------
(***************************************************************************)
(* For any set of threads, any length of the ring and any number of lives  *)
(* and calls: the host knows who calls and who is attached, unless it      *)
(* missed a creation or deletion, and a signal is recorded for everybody   *)
(* who waits for its object.                                               *)
(***************************************************************************)
EXTENDS HostState, TLAPS

LEMMA HalfRing == RingLength \div 2 \in Nat /\ RingLength \div 2 <= RingLength
<1> DEFINE h == RingLength \div 2
<1>1. h \in Int /\ RingLength % 2 \in 0 .. 1
  BY HostAssumption
<1>2. RingLength = 2 * h + (RingLength % 2)
  BY HostAssumption, SMTT(30)
<1> HIDE DEF h
<1>3. h \in Nat /\ h <= RingLength
  BY <1>1, <1>2, HostAssumption
<1> QED BY <1>3 DEF h

-----------------------------------------------------------------------------
(* The records of a call *)

\* Records of calls a thread makes, before (pre) or after.
CallsOf(t, rs) ==
  rs \in Seq(Records) /\ \A k \in DOMAIN rs : rs[k].threadId = t /\ rs[k].action \notin ThreadActions
PreCalls(t, rs)  == CallsOf(t, rs) /\ \A k \in DOMAIN rs : rs[k].preCall
PostCalls(t, rs) == CallsOf(t, rs) /\ \A k \in DOMAIN rs : ~rs[k].preCall

LEMMA ReturnedIs ==
  ASSUME NEW r \in Records
  PROVE  LET x == [r EXCEPT !.preCall = FALSE] IN
         /\ x \in Records /\ x.threadId = r.threadId /\ x.action = r.action /\ x.object = r.object
         /\ ~x.preCall
<1>1. [r EXCEPT !.preCall = FALSE] \in Records
  BY DEF Records
<1>2. ASSUME NEW x, x = [r EXCEPT !.preCall = FALSE]
      PROVE  x.threadId = r.threadId /\ x.action = r.action /\ x.object = r.object
  BY <1>2 DEF Records
<1>3. ASSUME NEW x, x = [r EXCEPT !.preCall = FALSE] PROVE ~x.preCall
  BY <1>3 DEF Records
<1> QED BY <1>1, <1>2, <1>3

LEMMA AroundIs ==
  ASSUME NEW t \in Threads, NEW rs, CallsOf(t, rs)
  PROVE  /\ Around(rs).pre = rs /\ PostCalls(t, Around(rs).post)
         /\ DOMAIN Around(rs).post = DOMAIN rs
         /\ \A k \in DOMAIN rs : /\ Around(rs).post[k].action = rs[k].action
                                 /\ Around(rs).post[k].object = rs[k].object
<1> DEFINE returned(k) == [rs[k] EXCEPT !.preCall = FALSE]
<1>1. Len(rs) \in Nat /\ DOMAIN rs = 1 .. Len(rs) /\ \A k \in 1 .. Len(rs) : rs[k] \in Records
  BY DEF CallsOf
<1>2. ASSUME NEW k \in 1 .. Len(rs)
      PROVE  /\ returned(k) \in Records /\ returned(k).threadId = t
             /\ returned(k).action = rs[k].action /\ returned(k).action \notin ThreadActions
             /\ returned(k).object = rs[k].object /\ ~returned(k).preCall
  <2>1. rs[k] \in Records /\ rs[k].threadId = t /\ rs[k].action \notin ThreadActions
    BY <1>1 DEF CallsOf
  <2> QED BY <2>1, ReturnedIs
<1>3. Around(rs).post = [k \in 1 .. Len(rs) |-> returned(k)] /\ Around(rs).pre = rs
  BY <1>1 DEF Around
<1> HIDE DEF returned
<1>4. Around(rs).post \in Seq(Records)
  BY <1>1, <1>2, <1>3
<1>5. PostCalls(t, Around(rs).post)
  BY <1>1, <1>2, <1>3, <1>4 DEF CallsOf, PostCalls
<1> QED BY <1>1, <1>2, <1>3, <1>5

LEMMA CallRecords ==
  ASSUME NEW t \in Threads, NEW c \in Calls(t)
  PROVE  /\ PreCalls(t, c.pre) /\ PostCalls(t, c.post)
         /\ \A k \in DOMAIN c.post : c.post[k].action = "Wait" =>
              \E j \in DOMAIN c.pre : c.pre[j] = Wait(t, c.post[k].object)
<1> DEFINE Sound(r) == r.action = "Wait" => r = Wait(t, r.object)
           Ok(rs)   == \A k \in DOMAIN rs : Sound(rs[k])
<1>1. ASSUME NEW rs, PreCalls(t, rs), c = Around(rs), Ok(rs)
      PROVE  /\ PreCalls(t, c.pre) /\ PostCalls(t, c.post)
             /\ \A k \in DOMAIN c.post : c.post[k].action = "Wait" =>
                  \E j \in DOMAIN c.pre : c.pre[j] = Wait(t, c.post[k].object)
  <2>1. /\ c.pre = rs /\ PostCalls(t, c.post) /\ DOMAIN c.post = DOMAIN rs
        /\ \A k \in DOMAIN rs : c.post[k].action = rs[k].action /\ c.post[k].object = rs[k].object
    BY <1>1, AroundIs DEF PreCalls
  <2> QED BY <1>1, <2>1
<1>2. ASSUME NEW a \in {"Wait", "WaitForAlert", "Signal", "Alert"},
             NEW h \in IF a = "Alert" THEN Threads ELSE Handles \cup {Finish},
             NEW r, r = Record(t, a, TRUE, h)
      PROVE  r \in Records /\ r.threadId = t /\ r.action \notin ThreadActions /\ r.preCall /\ Sound(r)
  <2>1. r \in Records
    BY <1>2 DEF Records, Record, ThreadActions
  <2>2. r.threadId = t /\ r.action = a /\ r.object = h /\ a \notin ThreadActions
    BY <1>2 DEF Record, ThreadActions
  <2>3. r.preCall
    BY <1>2 DEF Record
  <2>4. Sound(r)
    BY <1>2, <2>2 DEF Wait
  <2> QED BY <2>1, <2>2, <2>3, <2>4
<1>3. ASSUME NEW h \in Handles \cup {Finish}, NEW r, r = Wait(t, h)
      PROVE  r \in Records /\ r.threadId = t /\ r.action \notin ThreadActions /\ r.preCall /\ Sound(r)
  <2>1. r = Record(t, "Wait", TRUE, h)
    BY <1>3 DEF Wait
  <2> QED BY <1>2, <2>1
<1>4. ASSUME NEW h \in Handles, NEW r, r = Signal(t, h)
      PROVE  /\ r \in Records /\ r.threadId = t /\ r.action \notin ThreadActions /\ r.preCall /\ Sound(r)
             /\ r.action = "Signal"
  <2>1. r = Record(t, "Signal", TRUE, h)
    BY <1>4 DEF Signal
  <2>2. r.action = "Signal"
    BY <2>1 DEF Record
  <2> HIDE DEF Sound
  <2> QED BY <1>2, <2>1, <2>2
<1>5. CASE c \in WaitOne(t)
  <2>1. PICK h \in Handles : c = Around(<<Wait(t, h)>>)
    BY <1>5 DEF WaitOne
  <2> DEFINE r == Wait(t, h)
  <2>2. r \in Records /\ r.threadId = t /\ r.action \notin ThreadActions /\ r.preCall
        /\ Sound(r)
    BY <1>3
  <2> HIDE DEF r
  <2>3. PreCalls(t, <<r>>) /\ Ok(<<r>>)
    BY <2>2 DEF PreCalls, CallsOf
  <2> QED BY <1>1, <2>1, <2>3 DEF r
<1>6. CASE c \in WaitMany(t)
  <2>1. PICK h \in Handles, g \in Handles : c = Around(<<Wait(t, h), Wait(t, g), Wait(t, Finish)>>)
    BY <1>6 DEF WaitMany
  <2> DEFINE r1 == Wait(t, h)  r2 == Wait(t, g)  r3 == Wait(t, Finish)
  <2>2. \A r \in {r1, r2, r3} :
          /\ r \in Records /\ r.threadId = t /\ r.action \notin ThreadActions /\ r.preCall
          /\ Sound(r)
    BY <1>3
  <2> HIDE DEF r1, r2, r3
  <2>3. PreCalls(t, <<r1, r2, r3>>) /\ Ok(<<r1, r2, r3>>)
    BY <2>2 DEF PreCalls, CallsOf
  <2> QED BY <1>1, <2>1, <2>3 DEF r1, r2, r3
<1>7. CASE c \in WaitAddress(t)
  <2> DEFINE r == Record(t, "WaitForAlert", TRUE, Finish)
  <2>1. /\ r \in Records /\ r.threadId = t /\ r.action \notin ThreadActions /\ r.preCall
        /\ Sound(r)
    BY <1>2
  <2> HIDE DEF r
  <2>2. PreCalls(t, <<r>>) /\ Ok(<<r>>)
    BY <2>1 DEF PreCalls, CallsOf
  <2> QED BY <1>1, <1>7, <2>2 DEF r, WaitAddress
<1>8. CASE c \in SignalOne(t)
  <2>1. PICK h \in Handles : c = Around(<<Signal(t, h)>>)
    BY <1>8 DEF SignalOne
  <2> DEFINE r == Signal(t, h)
  <2>2. r \in Records /\ r.threadId = t /\ r.action \notin ThreadActions /\ r.preCall
        /\ Sound(r)
    BY <1>4
  <2> HIDE DEF r
  <2>3. PreCalls(t, <<r>>) /\ Ok(<<r>>)
    BY <2>2 DEF PreCalls, CallsOf
  <2> QED BY <1>1, <2>1, <2>3 DEF r
<1>9. CASE c \in SignalAndWait(t)
  <2>1. PICK h \in Handles, g \in Handles :
          c = [pre |-> <<Signal(t, h), Wait(t, g)>>, post |-> Around(<<Wait(t, g), Signal(t, h)>>).post]
    BY <1>9 DEF SignalAndWait
  <2> DEFINE r == Signal(t, h)  w == Wait(t, g)
  <2>2. /\ r \in Records /\ r.threadId = t /\ r.action \notin ThreadActions /\ r.preCall
        /\ r.action = "Signal"
        /\ w \in Records /\ w.threadId = t /\ w.action \notin ThreadActions /\ w.preCall
        /\ Sound(w)
    BY <1>3, <1>4
  <2> HIDE DEF r, w
  <2>3. PreCalls(t, <<r, w>>) /\ PreCalls(t, <<w, r>>)
    BY <2>2 DEF PreCalls, CallsOf
  <2>4. /\ PostCalls(t, c.post) /\ c.pre = <<r, w>> /\ DOMAIN c.post = DOMAIN <<w, r>>
        /\ \A k \in DOMAIN <<w, r>> : /\ c.post[k].action = <<w, r>>[k].action
                                      /\ c.post[k].object = <<w, r>>[k].object
    BY <2>1, <2>3, AroundIs DEF r, w, PreCalls
  <2>5. /\ DOMAIN c.post = {1, 2} /\ c.post[1].action = w.action /\ c.post[1].object = w.object
        /\ c.post[2].action = r.action
    BY <2>4
  <2>6. DOMAIN c.pre = {1, 2} /\ c.pre[2] = w
    BY <2>4
  <2> QED BY <2>2, <2>3, <2>4, <2>5, <2>6
<1>10. CASE c \in Alert(t)
  <2>1. PICK u \in Threads : c = Around(<<Record(t, "Alert", TRUE, u)>>)
    BY <1>10 DEF Alert
  <2> DEFINE r == Record(t, "Alert", TRUE, u)
  <2>2. r \in Records /\ r.threadId = t /\ r.action \notin ThreadActions /\ r.preCall
        /\ Sound(r)
    BY <1>2
  <2> HIDE DEF r
  <2>3. PreCalls(t, <<r>>) /\ Ok(<<r>>)
    BY <2>2 DEF PreCalls, CallsOf
  <2> QED BY <1>1, <2>1, <2>3 DEF r
<1> QED BY <1>5, <1>6, <1>7, <1>8, <1>9, <1>10 DEF Calls

-----------------------------------------------------------------------------
(* What the host finds, when records leave the ring at its head *)

\* The first d records leave the ring.
Moved(d) ==
  /\ ring' \in Seq(Records) /\ Len(ring') >= Len(ring) - d
  /\ \A k \in 1 .. Len(ring) - d : ring'[k] = ring[k + d]

LEMMA FindsShift ==
  ASSUME ring \in Seq(Records), NEW d \in Nat, d <= Len(ring), Moved(d), NEW t \in Threads, NEW b,
         NEW n \in Nat \ {0}, n <= Len(ring) - d + 1, Finds(t, n + d, b),
         Before(t, n)' = {} => t \in missed' \/ IsKnown(t)' = b
  PROVE  Finds(t, n, b)'
<1>1. ASSUME NEW k \in 1 .. n - 1 PROVE k \in Before(t, n)' <=> k + d \in Before(t, n + d)
  <2>1. k \in 1 .. Len(ring) - d /\ k < n /\ k + d < n + d /\ k + d \in 1 .. Len(ring)
    OBVIOUS
  <2>2. k \in DOMAIN ring' /\ k + d \in DOMAIN ring /\ ring'[k] = ring[k + d]
    BY <2>1 DEF Moved
  <2> QED BY <2>1, <2>2 DEF Before, Unread
<1>2. \A k \in Before(t, n)' : k \in 1 .. n - 1
  BY DEF Before, Unread, Moved
<1>3. \A k \in Before(t, n + d) : k \in 1 .. d \/ (k - d \in 1 .. n - 1 /\ (k - d) + d = k)
  BY DEF Before, Unread
<1>4. CASE Before(t, n)' = {}
  BY <1>4 DEF Finds
<1>5. CASE Before(t, n)' # {}
  <2> SUFFICES ASSUME NEW k \in Before(t, n)', \A j \in Before(t, n)' : j <= k
               PROVE  (ring'[k].action = "ThreadCreation") = b
    BY <1>5 DEF Finds
  <2>1. k \in 1 .. n - 1 /\ k + d \in Before(t, n + d)
    BY <1>1, <1>2
  <2>2. ASSUME NEW j \in Before(t, n + d) PROVE j <= k + d
    <3>1. CASE j \in 1 .. d
      BY <2>1, <3>1
    <3>2. CASE j - d \in 1 .. n - 1 /\ (j - d) + d = j
      <4>1. j - d \in Before(t, n)'
        BY <1>1, <3>2
      <4>2. j - d <= k
        BY <4>1
      <4> QED BY <2>1, <3>2, <4>2
    <3> QED BY <1>3, <3>1, <3>2
  <2>3. Before(t, n + d) # {}
    BY <2>1
  <2>4. (ring[k + d].action = "ThreadCreation") = b
    BY <2>1, <2>2, <2>3 DEF Finds
  <2>5. ring'[k] = ring[k + d]
    BY <2>1 DEF Moved
  <2> QED BY <2>4, <2>5
<1> QED BY <1>4, <1>5

\* No creation or deletion of the thread u leaves unnoticed.
Kept(u, d) ==
  /\ threadInfoMap'[u] = threadInfoMap[u] /\ (u \in missed => u \in missed')
  /\ (\E k \in 1 .. d : k \in Unread(u)) => u \in missed'
\* What is found of u before a record that stays is found there still.
Carries(u, d) ==
  /\ Unread(u) = {} /\ u \in missed => u \in missed'
  /\ \A b \in BOOLEAN, n \in Nat \ {0} :
       n <= Len(ring) - d + 1 /\ Finds(u, n + d, b) => Finds(u, n, b)'

LEMMA FindsKept ==
  ASSUME ring \in Seq(Records), NEW d \in Nat, d <= Len(ring), Moved(d), NEW t \in Threads, Kept(t, d)
  PROVE  Carries(t, d)
<1> SUFFICES ASSUME NEW b \in BOOLEAN, NEW n \in Nat \ {0}, n <= Len(ring) - d + 1, Finds(t, n + d, b)
             PROVE  Finds(t, n, b)'
  BY DEF Carries, Kept
<1>1. ASSUME NEW k \in Before(t, n + d), k > d PROVE k - d \in Before(t, n)'
  <2>1. k \in DOMAIN ring /\ k \in Unread(t) /\ k < n + d
    BY DEF Before, Unread
  <2>2. k - d \in 1 .. Len(ring) - d /\ (k - d) + d = k /\ k - d < n /\ k - d \in DOMAIN ring'
    BY <1>1, <2>1 DEF Moved
  <2>3. ring'[k - d] = ring[k]
    BY <2>2 DEF Moved
  <2> QED BY <2>1, <2>2, <2>3 DEF Before, Unread
<1>2. ASSUME Before(t, n)' = {} PROVE t \in missed' \/ IsKnown(t)' = b
  <2>1. CASE Before(t, n + d) = {}
    BY <2>1 DEF Finds, IsKnown, Kept
  <2>2. CASE Before(t, n + d) # {}
    <3>1. PICK k \in Before(t, n + d) : k \in 1 .. Len(ring)
      BY <2>2 DEF Before, Unread
    <3>2. k \in 1 .. d
      BY <1>1, <1>2, <3>1
    <3> QED BY <3>2 DEF Before, Kept
  <2> QED BY <2>1, <2>2
<1> QED BY <1>2, FindsShift

(* When the host reads a creation or deletion, it knows the thread, or not, as it found *)
(* before.                                                                              *)
LEMMA FindsProcessed ==
  ASSUME ring \in Seq(Records), 1 <= Len(ring), Moved(1), NEW t \in Threads, 1 \in Unread(t),
         IsKnown(t)' = (ring[1].action = "ThreadCreation")
  PROVE  Carries(t, 1)
<1> SUFFICES ASSUME NEW b \in BOOLEAN, NEW n \in Nat \ {0}, n <= Len(ring) - 1 + 1, Finds(t, n + 1, b)
             PROVE  Finds(t, n, b)'
  BY DEF Carries
<1>1. ASSUME NEW k \in Before(t, n + 1), k > 1 PROVE k - 1 \in Before(t, n)'
  <2>1. k \in DOMAIN ring /\ k \in Unread(t) /\ k < n + 1
    BY DEF Before, Unread
  <2>2. k - 1 \in 1 .. Len(ring) - 1 /\ (k - 1) + 1 = k /\ k - 1 < n /\ k - 1 \in DOMAIN ring'
    BY <1>1, <2>1 DEF Moved
  <2>3. ring'[k - 1] = ring[k]
    BY <2>2 DEF Moved
  <2> QED BY <2>1, <2>2, <2>3 DEF Before, Unread
<1>2. ASSUME Before(t, n)' = {} PROVE t \in missed' \/ IsKnown(t)' = b
  <2>1. 1 \in Before(t, n + 1)
    BY DEF Before
  <2>2. \A j \in Before(t, n + 1) : j \in Nat /\ j <= 1
    BY <1>1, <1>2 DEF Before, Unread
  <2>3. (ring[1].action = "ThreadCreation") = b
    BY <2>1, <2>2 DEF Finds
  <2> QED BY <2>3
<1> QED BY <1>2, FindsShift

(* A record that is not about the thread changes nothing. *)
LEMMA FindsPast ==
  ASSUME ring' \in Seq(Records), NEW t \in Threads, NEW b, NEW n \in DOMAIN ring',
         n \notin Unread(t)', Finds(t, n, b)'
  PROVE  Finds(t, n + 1, b)'
<1>1. Before(t, n + 1)' = Before(t, n)'
  BY DEF Before, Unread
<1> QED BY <1>1 DEF Finds

(* A creation or deletion is what counts at the end of the ring. *)
LEMMA FindsLast ==
  ASSUME ring' \in Seq(Records), NEW t \in Threads, Len(ring') \in Unread(t)',
         NEW b, (ring'[Len(ring')].action = "ThreadCreation") = b
  PROVE  Finds(t, Len(ring) + 1, b)'
<1>1. Len(ring') \in Before(t, Len(ring) + 1)' /\ Len(ring') \in Nat
  BY DEF Before, Unread
<1>2. \A k \in Before(t, Len(ring) + 1)' : k \in Nat /\ k <= Len(ring')
  BY DEF Before, Unread
<1>3. \A k \in Before(t, Len(ring) + 1)' :
        (\A j \in Before(t, Len(ring) + 1)' : j <= k) => k = Len(ring')
  BY <1>1, <1>2
<1> QED BY <1>1, <1>3 DEF Finds

-----------------------------------------------------------------------------
(* The steps that change the ring *)

\* What the host is not to see of the first d records counts as missed.
Lost(d) ==
  /\ missed' \in SUBSET Threads /\ missed \subseteq missed'
  /\ unheard' \in SUBSET Threads /\ unheard \subseteq unheard'
  /\ \A k \in 1 .. d :
       /\ ring[k].action \in ThreadActions => ring[k].threadId \in missed'
       /\ ring[k].action = "Wait" => ring[k].threadId \in unheard'

LEMMA LoseIs ==
  ASSUME TypeOK, NEW d \in 0 .. Len(ring), NEW rs \in Seq(Records), Len(rs) = d,
         \A k \in 1 .. d : rs[k] = ring[k], Lose(rs)
  PROVE  Lost(d)
<1>1. /\ missed \subseteq missed' /\ unheard \subseteq unheard'
      /\ missed' = missed \cup {r.threadId : r \in {x \in ToSet(rs) : x.action \in ThreadActions}}
      /\ unheard' = unheard \cup {r.threadId : r \in {x \in ToSet(rs) : x.action \in {"Wait"}}}
  BY DEF Lose
<1>2. \A x \in ToSet(rs) : x.threadId \in Threads
  BY DEF ToSet, Records
<1>3. missed' \in SUBSET Threads /\ unheard' \in SUBSET Threads
  BY <1>1, <1>2 DEF TypeOK
<1>4. \A k \in 1 .. d : ring[k] \in ToSet(rs)
  BY DEF ToSet
<1> QED BY <1>1, <1>3, <1>4 DEF Lost

(* A record goes to the end, and the oldest leaves when there are too many. *)
LEMMA WriteIs ==
  ASSUME IInv, NEW r \in Records, Write(r)
  PROVE  \E d \in {0, 1} :
           /\ d <= Len(ring) /\ Moved(d) /\ Lost(d)
           /\ Len(ring') = Len(ring) - d + 1 /\ ring'[Len(ring')] = r
           /\ Len(ring') <= RingLength /\ overrun' \in BOOLEAN
           /\ overrun' => Len(ring') = RingLength
<1> USE HostAssumption DEF IInv, TypeOK, BufferInv
<1>1. CASE Len(ring) < RingLength
  <2>1. ring' = Append(ring, r) /\ UNCHANGED <<overrun, missed, unheard>>
    BY <1>1 DEF Write
  <2>2. Moved(0) /\ Len(ring') = Len(ring) + 1 /\ ring'[Len(ring')] = r
    BY <2>1 DEF Moved
  <2>3. Lost(0)
    BY <2>1 DEF Lost
  <2> QED BY <1>1, <2>1, <2>2, <2>3
<1>2. CASE Len(ring) >= RingLength
  <2>1. ring' = Append(Tail(ring), r) /\ overrun' = TRUE /\ Lose(<<Head(ring)>>)
    BY <1>2 DEF Write
  <2>2. Len(ring) = RingLength /\ ring # <<>>
    BY <1>2
  <2>3. Moved(1) /\ Len(ring') = Len(ring) /\ ring'[Len(ring')] = r
    BY <2>1, <2>2 DEF Moved
  <2>4. Lost(1)
    <3> DEFINE rs == <<Head(ring)>>
    <3>1. rs \in Seq(Records) /\ Len(rs) = 1 /\ \A k \in 1 .. 1 : rs[k] = ring[k]
      BY <2>2
    <3>2. 1 \in 0 .. Len(ring) /\ Lose(rs)
      BY <2>1, <2>2
    <3> HIDE DEF rs
    <3> QED BY <3>1, <3>2, LoseIs DEF IInv
  <2> QED BY <2>1, <2>2, <2>3, <2>4
<1> QED BY <1>1, <1>2

LEMMA SuffixIs ==
  ASSUME NEW S, NEW s \in Seq(S), NEW d \in 0 .. Len(s)
  PROVE  LET u == SubSeq(s, d + 1, Len(s)) IN
         u \in Seq(S) /\ Len(u) = Len(s) - d /\ \A k \in 1 .. Len(s) - d : u[k] = s[k + d]
<1> DEFINE m == Len(s)
           u == SubSeq(s, d + 1, m)
<1>1. m \in Nat /\ DOMAIN s = 1 .. m /\ d \in 0 .. m
  OBVIOUS
<1> HIDE DEF m
<1>2. u \in Seq(S) /\ Len(u) = m - d
  BY <1>1
<1>3. \A k \in 1 .. m - d : u[k] = s[k + d]
  BY <1>1
<1> QED BY <1>2, <1>3 DEF m

LEMMA CatchupIs ==
  ASSUME IInv, Catchup
  PROVE  \E d \in 0 .. Len(ring) : Moved(d) /\ Lost(d) /\ Len(ring') = Len(ring) - d
<1> DEFINE d == Len(ring) - RingLength \div 2
<1>1. Len(ring) = RingLength /\ d \in 0 .. Len(ring) /\ ring \in Seq(Records)
  <2>1. Len(ring) = RingLength /\ ring \in Seq(Records)
    BY DEF IInv, TypeOK, BufferInv, Catchup
  <2>2. ASSUME NEW h \in Nat, h <= RingLength PROVE Len(ring) - h \in 0 .. Len(ring)
    BY <2>1, <2>2
  <2> QED BY <2>1, <2>2, HalfRing
<1>2. Lose(SubSeq(ring, 1, d)) /\ ring' = SubSeq(ring, d + 1, Len(ring))
  BY DEF Catchup
<1> HIDE DEF d
<1>3. /\ SubSeq(ring, 1, d) \in Seq(Records) /\ Len(SubSeq(ring, 1, d)) = d
      /\ \A k \in 1 .. d : SubSeq(ring, 1, d)[k] = ring[k]
  BY <1>1
<1>4. Lost(d)
  BY <1>1, <1>2, <1>3, LoseIs DEF IInv
<1>5. Moved(d) /\ Len(ring') = Len(ring) - d
  <2>1. /\ ring' \in Seq(Records) /\ Len(ring') = Len(ring) - d
        /\ \A k \in 1 .. Len(ring) - d : ring'[k] = ring[k + d]
    BY <1>1, <1>2, SuffixIs
  <2>2. Len(ring) - d \in Nat
    BY <1>1
  <2> QED BY <2>1, <2>2 DEF Moved
<1> QED BY <1>1, <1>4, <1>5

LEMMA Within ==
  ASSUME NEW d \in Nat, NEW m \in Nat, NEW n \in Nat, n >= m - d, NEW k \in 1 .. m, k > d
  PROVE  k - d \in 1 .. m - d /\ k - d \in 1 .. n /\ (k - d) + d = k
OBVIOUS

\* No record of a wait of the thread u leaves without having been read or counted as missed.
Heard(u, d) ==
  /\ u \in unheard => u \in unheard'
  /\ \A h \in Handles \cup {Finish} :
       /\ u \in waitingObjectsThreadMap[h] => u \in waitingObjectsThreadMap'[h]
       /\ \A k \in 1 .. d : ring[k] = Wait(u, h) => u \in unheard' \/ u \in waitingObjectsThreadMap'[h]

LEMMA LostIs ==
  ASSUME IInv, NEW d \in Nat, d <= Len(ring), Moved(d), Lost(d),
         UNCHANGED <<threadInfoMap, waitingObjectsThreadMap>>, NEW u \in Threads
  PROVE  Carries(u, d) /\ Heard(u, d)
<1>1. Kept(u, d)
  BY DEF Lost, Kept, Unread
<1>2. \A h, k : ring[k] = Wait(u, h) => ring[k].action = "Wait" /\ ring[k].threadId = u
  BY DEF Wait, Record
<1>3. Heard(u, d)
  BY <1>2 DEF Lost, Heard
<1> QED BY <1>1, <1>3, FindsKept DEF IInv, TypeOK

(* The ring does not change. *)
LEMMA StillIs ==
  ASSUME IInv, UNCHANGED <<ring, missed, threadInfoMap, waitingObjectsThreadMap>>, NEW u \in Threads
  PROVE  /\ Moved(0) /\ Carries(u, 0)
         /\ (u \in unheard => u \in unheard') => Heard(u, 0)
<1>1. Moved(0) /\ Kept(u, 0) /\ ring \in Seq(Records) /\ 0 <= Len(ring)
  BY DEF IInv, TypeOK, Moved, Kept
<1>2. (u \in unheard => u \in unheard') => Heard(u, 0)
  BY DEF Heard
<1> QED BY <1>1, <1>2, FindsKept

-----------------------------------------------------------------------------
(* The invariant, thread by thread *)

LEMMA ByThread ==
  /\ IInv => \A t \in Threads : Posting(t) /\ Attached(t) /\ Waits(t)
  /\ (\A t \in Threads : Posting(t)' /\ Attached(t)' /\ Waits(t)') =>
       PostingInv' /\ AttachedIsKnown' /\ WaitInv'
<1>1. IInv => \A t \in Threads : Posting(t) /\ Attached(t) /\ Waits(t)
  BY DEF IInv, PostingInv, AttachedIsKnown, WaitInv
<1>2. (\A t \in Threads : Posting(t)') => PostingInv'
  BY DEF PostingInv
<1>3. (\A t \in Threads : Attached(t)') => AttachedIsKnown'
  BY DEF AttachedIsKnown
<1>4. (\A t \in Threads : Waits(t)') => WaitInv'
  BY DEF WaitInv
<1> QED BY <1>1, <1>2, <1>3, <1>4

\* The step is not one of thread u.
Same(u) ==
  /\ life'[u] = life[u] /\ active'[u] = active[u] /\ todo'[u] = todo[u] /\ after'[u] = after[u]
  /\ u \in vanished' <=> u \in vanished
\* Of the records that entered the ring, none is of thread u.
NoneOf(u, d) ==
  \/ Len(ring') = Len(ring) - d
  \/ Len(ring') = Len(ring) - d + 1 /\ ring'[Len(ring')].threadId # u

LEMMA StillThere ==
  ASSUME IInv, NEW d \in Nat, d <= Len(ring), Moved(d), NEW u \in Threads, Heard(u, d),
         NEW h \in Handles \cup {Finish}, NEW k \in DOMAIN ring, ring[k] = Wait(u, h)
  PROVE  u \in unheard' \/ u \in waitingObjectsThreadMap'[h] \/ \E j \in DOMAIN ring' : ring'[j] = Wait(u, h)
<1>1. /\ Len(ring) \in Nat /\ Len(ring') \in Nat /\ Len(ring') >= Len(ring) - d
      /\ k \in 1 .. Len(ring) /\ DOMAIN ring' = 1 .. Len(ring')
  BY DEF IInv, TypeOK, Moved
<1>2. CASE k <= d
  BY <1>1, <1>2 DEF Heard
<1>3. CASE k > d
  <2>1. k - d \in 1 .. Len(ring) - d /\ k - d \in DOMAIN ring' /\ (k - d) + d = k
    BY <1>1, <1>3, Within
  <2>2. ring'[k - d] = ring[k]
    BY <2>1 DEF Moved
  <2> QED BY <2>1, <2>2
<1> QED BY <1>1, <1>2, <1>3

LEMMA AtEnd ==
  ASSUME NEW d \in Nat, NEW m \in Nat, NEW n \in Nat, d <= m, n = m - d \/ n = m - d + 1
  PROVE  /\ \A k \in 1 .. n : k # n \/ n = m - d => k \in 1 .. m - d /\ k + d \in 1 .. m
         /\ \A k : k = m - d + 1 => (n + 1 = k \/ n = k) /\ k \in 1 .. n + 1
OBVIOUS

LEMMA NoneEnters ==
  ASSUME IInv, NEW d \in Nat, d <= Len(ring), Moved(d), NEW u \in Threads, Unread(u) = {},
         \/ Len(ring') = Len(ring) - d
         \/ Len(ring') = Len(ring) - d + 1 /\ Len(ring') \notin Unread(u)'
  PROVE  Unread(u)' = {}
<1> SUFFICES ASSUME NEW k \in DOMAIN ring', k \in Unread(u)' PROVE FALSE
  BY DEF Unread
<1>1. /\ Len(ring) \in Nat /\ Len(ring') \in Nat /\ k \in 1 .. Len(ring')
      /\ DOMAIN ring = 1 .. Len(ring)
  BY DEF IInv, TypeOK, Moved
<1>2. k # Len(ring') \/ Len(ring') = Len(ring) - d
  OBVIOUS
<1>3. Len(ring') = Len(ring) - d \/ Len(ring') = Len(ring) - d + 1
  OBVIOUS
<1>4. k \in 1 .. Len(ring) - d /\ k + d \in 1 .. Len(ring)
  BY <1>1, <1>2, <1>3, AtEnd
<1>5. ring'[k] = ring[k + d] /\ k + d \in DOMAIN ring
  BY <1>1, <1>4 DEF Moved
<1> QED BY <1>5 DEF Unread

LEMMA OtherThread ==
  ASSUME IInv, UNCHANGED hostOn, NEW d \in Nat, d <= Len(ring), Moved(d),
         NEW u \in Threads, Same(u), NoneOf(u, d), Carries(u, d), Heard(u, d)
  PROVE  Posting(u)' /\ Attached(u)' /\ Waits(u)'
<1>1. Posting(u) /\ Attached(u) /\ Waits(u)
  BY ByThread
<1>2. /\ ring \in Seq(Records) /\ ring' \in Seq(Records) /\ Len(ring) \in Nat /\ Len(ring') \in Nat
      /\ DOMAIN ring = 1 .. Len(ring) /\ DOMAIN ring' = 1 .. Len(ring')
  BY DEF IInv, TypeOK, Moved
<1>3. IsPosting(u)' = IsPosting(u)
  BY DEF IsPosting, Same
<1>4. Posting(u)'
  BY <1>1 DEF Posting, Same, Idle
<1>5. Attached(u)'
  <2>1. ASSUME NEW b \in BOOLEAN, Finds(u, Len(ring) + 1, b) PROVE Finds(u, Len(ring) + 1, b)'
    <3> PICK n : n = Len(ring) - d + 1
      OBVIOUS
    <3>1. n \in Nat \ {0} /\ n + d = Len(ring) + 1 /\ n <= Len(ring) - d + 1
      BY <1>2
    <3>2. (Len(ring') + 1 = n \/ Len(ring') = n) /\ n \in 1 .. Len(ring') + 1
      <4>1. Len(ring') = Len(ring) - d \/ Len(ring') = Len(ring) - d + 1
        BY DEF NoneOf
      <4>2. n = Len(ring) - d + 1
        OBVIOUS
      <4>3. \A k : k = Len(ring) - d + 1 => (Len(ring') + 1 = k \/ Len(ring') = k) /\ k \in 1 .. Len(ring') + 1
        BY <1>2, <4>1, AtEnd
      <4> QED BY <4>2, <4>3
    <3>3. Len(ring') = n => n \notin Unread(u)'
      BY DEF NoneOf, Unread
    <3>4. Finds(u, n, b)'
      <4>1. Finds(u, n + d, b)
        BY <2>1, <3>1
      <4> QED BY <3>1, <4>1 DEF Carries
    <3>5. CASE Len(ring') = n
      <4>1. n \in DOMAIN ring' /\ n \notin Unread(u)'
        BY <1>2, <3>1, <3>3, <3>5
      <4>2. Finds(u, n + 1, b)'
        BY <1>2, <3>4, <4>1, FindsPast
      <4> QED BY <3>5, <4>2
    <3>6. CASE Len(ring') + 1 = n
      BY <3>4, <3>6
    <3> QED BY <3>2, <3>5, <3>6
  <2>2. active[u] \in BOOLEAN /\ active'[u] = active[u] /\ (u \in vanished' <=> u \in vanished)
    BY DEF IInv, TypeOK, Same
  <2> QED BY <1>1, <1>3, <2>1, <2>2 DEF Attached
<1>6. Waits(u)'
  <2> SUFFICES ASSUME NEW h \in Handles \cup {Finish},
                      \E k \in DOMAIN after[u] : after[u][k].action = "Wait" /\ after[u][k].object = h
               PROVE  \/ u \in unheard' \/ u \in waitingObjectsThreadMap'[h]
                      \/ \E k \in DOMAIN todo'[u] : todo'[u][k] = Wait(u, h)
                      \/ \E k \in DOMAIN ring' : ring'[k] = Wait(u, h)
                      \/ (hostOn' => u \in missed') /\ Unread(u)' = {} /\ ~IsPosting(u)'
    BY DEF Waits, Same
  <2>1. CASE u \in unheard \/ u \in waitingObjectsThreadMap[h]
    BY <2>1 DEF Heard
  <2>2. CASE \E k \in DOMAIN todo[u] : todo[u][k] = Wait(u, h)
    BY <2>2 DEF Same
  <2>3. CASE \E k \in DOMAIN ring : ring[k] = Wait(u, h)
    BY <2>3, StillThere
  <2>4. CASE (hostOn => u \in missed) /\ Unread(u) = {} /\ ~IsPosting(u)
    <3>1. hostOn' => u \in missed'
      BY <2>4 DEF Carries
    <3>2. Unread(u)' = {}
      <4>1. \/ Len(ring') = Len(ring) - d
            \/ Len(ring') = Len(ring) - d + 1 /\ Len(ring') \notin Unread(u)'
        BY DEF NoneOf, Unread
      <4> QED BY <2>4, <4>1, NoneEnters
    <3> QED BY <1>3, <2>4, <3>1, <3>2
  <2> QED BY <1>1, <2>1, <2>2, <2>3, <2>4 DEF Waits
<1> QED BY <1>4, <1>5, <1>6

\* What stays of the records before calls is found as before.
LEMMA CallersStay ==
  ASSUME IInv, NEW d \in Nat, d <= Len(ring), Moved(d), \A u \in Threads : Carries(u, d)
  PROVE  \A k \in 1 .. Len(ring) - d :
           /\ ring'[k].preCall => Finds(ring[k].threadId, k, TRUE)'
           /\ ring'[k].preCall => ring'[k].action \notin ThreadActions
<1> SUFFICES ASSUME NEW k \in 1 .. Len(ring) - d, ring'[k].preCall
             PROVE  Finds(ring[k].threadId, k, TRUE)' /\ ring'[k].action \notin ThreadActions
  OBVIOUS
<1>1. ring \in Seq(Records) /\ k \in Nat \ {0} /\ k <= Len(ring) - d + 1 /\ k + d \in 1 .. Len(ring)
  BY DEF IInv, TypeOK
<1>2. ring'[k] = ring[k + d] /\ k + d \in DOMAIN ring /\ ring[k + d] \in Records
  BY <1>1 DEF Moved
<1>3. Finds(ring[k + d].threadId, k + d, TRUE)
  BY <1>2 DEF CallerInv, IInv
<1>4. ring[k + d].threadId \in Threads
  BY <1>2 DEF Records
<1>5. ring'[k].action \notin ThreadActions
  BY <1>2 DEF IInv, BufferInv
<1> QED BY <1>1, <1>2, <1>3, <1>4, <1>5 DEF Carries

-----------------------------------------------------------------------------
(* Steps of the traced threads *)

LEMMA QuietStep ==
  ASSUME IInv, UNCHANGED <<hostOn, buffer, known, missed>>, NEW t \in Threads,
         \A u \in Threads \ {t} : Same(u) /\ (u \in unheard => u \in unheard'),
         TypeOK', Posting(t)', Attached(t)', Waits(t)'
  PROVE  IInv'
<1>1. UNCHANGED <<hostOn, ring, overrun, missed, threadInfoMap, waitingObjectsThreadMap>>
  BY DEF buffer, known
<1>2. BufferInv'
  BY <1>1 DEF IInv, BufferInv, IsKnown
<1>3. CallerInv'
  BY <1>1 DEF IInv, CallerInv, Finds, Before, Unread, IsKnown
<1>4. ASSUME NEW u \in Threads \ {t} PROVE Posting(u)' /\ Attached(u)' /\ Waits(u)'
  <2>1. Moved(0) /\ Carries(u, 0) /\ Heard(u, 0)
    BY <1>1, StillIs
  <2>2. 0 <= Len(ring) /\ NoneOf(u, 0)
    BY <1>1 DEF IInv, TypeOK, NoneOf
  <2> QED BY <1>1, <2>1, <2>2, OtherThread
<1> QED BY <1>2, <1>3, <1>4, ByThread DEF IInv

\* What a thread has to post: the records of a call, after its creation if it is new.
LEMMA AttachIs ==
  ASSUME IInv, NEW t \in Threads, NEW rs, PreCalls(t, rs), AttachThread(t, rs), MayAttach(t)
  PROVE  /\ active' \in [Threads -> BOOLEAN] /\ lives' \in 0 .. MaxLives /\ vanished' \in SUBSET Threads
         /\ todo' \in [Threads -> Seq(Records)]
         /\ active'[t] /\ t \notin vanished'
         /\ \A u \in Threads \ {t} : /\ active'[u] = active[u] /\ todo'[u] = todo[u]
                                     /\ u \in vanished' <=> u \in vanished
         /\ active[t] => todo'[t] = rs
         /\ ~active[t] => IsPosting(t)'
         /\ \A k \in DOMAIN todo'[t] :
              /\ todo'[t][k].threadId = t /\ todo'[t][k].action # "ThreadDeletion"
              /\ todo'[t][k].action \in ThreadActions => k = 1 /\ ~todo'[t][k].preCall
         /\ \A k \in DOMAIN rs : \E j \in DOMAIN todo'[t] : todo'[t][j] = rs[k]
<1>1. /\ active' = [active EXCEPT ![t] = TRUE] /\ vanished' = vanished \ {t}
      /\ lives' = lives + (IF active[t] THEN 0 ELSE 1)
      /\ todo' = [todo EXCEPT ![t] = (IF active[t] THEN <<>> ELSE <<Creation(t)>>) \o rs]
  BY DEF AttachThread
<1>2. TypeOK /\ rs \in Seq(Records)
  BY DEF IInv, PreCalls, CallsOf
<1>3. /\ active' \in [Threads -> BOOLEAN] /\ vanished' \in SUBSET Threads /\ active'[t] /\ t \notin vanished'
      /\ \A u \in Threads \ {t} : active'[u] = active[u] /\ (u \in vanished' <=> u \in vanished)
  BY <1>1, <1>2 DEF TypeOK
<1>4. lives' \in 0 .. MaxLives
  BY <1>1, <1>2, HostAssumption DEF TypeOK, MayAttach
<1> DEFINE c == Creation(t)
<1>5. c \in Records /\ c.threadId = t /\ c.action = "ThreadCreation"
  BY DEF Creation, Record, Records, ThreadActions
<1>6. ~c.preCall
  BY DEF Creation, Record
<1>7. \A k \in DOMAIN rs : rs[k].threadId = t /\ rs[k].action \notin ThreadActions
  BY DEF PreCalls, CallsOf
<1>8. DOMAIN rs = 1 .. Len(rs) /\ Len(rs) \in Nat
  BY <1>2
<1> HIDE DEF c
<1>9. CASE active[t]
  <2>1. todo' = [todo EXCEPT ![t] = rs]
    BY <1>1, <1>2, <1>9
  <2>2. /\ todo' \in [Threads -> Seq(Records)] /\ todo'[t] = rs
        /\ \A u \in Threads \ {t} : todo'[u] = todo[u]
    BY <1>2, <2>1 DEF TypeOK
  <2> QED BY <1>3, <1>4, <1>7, <1>9, <2>2 DEF ThreadActions
<1>10. CASE ~active[t]
  <2> DEFINE s == <<c>> \o rs
  <2>1. todo' = [todo EXCEPT ![t] = s]
    BY <1>1, <1>10 DEF c
  <2>2. /\ s \in Seq(Records) /\ Len(s) = Len(rs) + 1 /\ s[1] = c
        /\ \A k \in 1 .. Len(rs) : s[k + 1] = rs[k]
    BY <1>2, <1>5
  <2> HIDE DEF s
  <2>3. /\ todo' \in [Threads -> Seq(Records)] /\ todo'[t] = s
        /\ \A u \in Threads \ {t} : todo'[u] = todo[u]
    BY <1>2, <2>1, <2>2 DEF TypeOK
  <2>4. \A k \in DOMAIN s : k = 1 \/ (k - 1 \in DOMAIN rs /\ s[k] = rs[k - 1])
    BY <1>8, <2>2
  <2>5. \A k \in DOMAIN rs : k + 1 \in DOMAIN s /\ s[k + 1] = rs[k]
    BY <1>8, <2>2
  <2>6. 1 \in DOMAIN s
    BY <1>8, <2>2
  <2>7. IsPosting(t)'
    BY <1>5, <2>2, <2>3, <2>6 DEF IsPosting, ThreadActions
  <2>8. \A k \in DOMAIN s :
          /\ s[k].threadId = t /\ s[k].action # "ThreadDeletion"
          /\ s[k].action \in ThreadActions => k = 1 /\ ~s[k].preCall
    BY <1>5, <1>6, <1>7, <2>2, <2>4 DEF ThreadActions
  <2> QED BY <1>3, <1>4, <1>10, <2>3, <2>5, <2>7, <2>8
<1> QED BY <1>9, <1>10

LEMMA ThreadStartStep ==
  ASSUME IInv, NEW t \in Threads, ThreadStart(t)
  PROVE  IInv'
<1>1. TypeOK /\ Posting(t)
  BY ByThread DEF IInv
<1>2. /\ life[t] = "none" /\ life' = [life EXCEPT ![t] = "running"] /\ AttachThread(t, <<>>) /\ MayAttach(t)
      /\ UNCHANGED <<after, calls, unheard>> /\ UNCHANGED <<hostOn, buffer, known, missed>>
  BY DEF ThreadStart
<1>3. PreCalls(t, <<>>)
  BY DEF PreCalls, CallsOf
<1>4. after[t] = <<>> /\ ~active[t]
  BY <1>1, <1>2 DEF Posting, Idle
<1>5. /\ active' \in [Threads -> BOOLEAN] /\ lives' \in 0 .. MaxLives /\ vanished' \in SUBSET Threads
      /\ todo' \in [Threads -> Seq(Records)]
      /\ active'[t] /\ t \notin vanished' /\ IsPosting(t)'
      /\ \A u \in Threads \ {t} : /\ active'[u] = active[u] /\ todo'[u] = todo[u]
                                  /\ u \in vanished' <=> u \in vanished
      /\ \A k \in DOMAIN todo'[t] :
           /\ todo'[t][k].threadId = t /\ todo'[t][k].action # "ThreadDeletion"
           /\ todo'[t][k].action \in ThreadActions => k = 1 /\ ~todo'[t][k].preCall
  BY <1>2, <1>3, <1>4, AttachIs
<1>6. /\ life' \in [Threads -> {"none", "running", "leaving"}] /\ life'[t] = "running"
      /\ \A u \in Threads \ {t} : life'[u] = life[u]
  BY <1>1, <1>2 DEF TypeOK
<1>7. TypeOK'
  BY <1>1, <1>2, <1>5, <1>6 DEF TypeOK, buffer, known
<1>8. Posting(t)'
  <2>1. life'[t] # "none" /\ after'[t] = <<>>
    BY <1>2, <1>4, <1>6
  <2> QED BY <1>5, <2>1 DEF Posting
<1>9. Attached(t)' /\ Waits(t)'
  <2>1. after'[t] = <<>>
    BY <1>2, <1>4
  <2>2. Attached(t)'
    BY <1>5 DEF Attached
  <2>3. Waits(t)'
    BY <2>1 DEF Waits
  <2> QED BY <2>2, <2>3
<1>10. ASSUME NEW u \in Threads \ {t} PROVE Same(u) /\ (u \in unheard => u \in unheard')
  <2>1. after' = after /\ unheard' = unheard
    BY <1>2
  <2> QED BY <1>5, <1>6, <2>1 DEF Same
<1> QED BY <1>2, <1>7, <1>8, <1>9, <1>10, QuietStep

LEMMA CallStep ==
  ASSUME IInv, NEW t \in Threads, Call(t)
  PROVE  IInv'
<1>1. TypeOK /\ Posting(t) /\ Attached(t)
  BY ByThread DEF IInv
<1>2. PICK c \in Calls(t) : AttachThread(t, c.pre) /\ after' = [after EXCEPT ![t] = c.post]
  BY DEF Call
<1>3. /\ life[t] # "none" /\ todo[t] = <<>> /\ MayAttach(t) /\ life' = life
      /\ calls < MaxCalls /\ calls' = calls + 1 /\ unheard' = unheard \ {t}
      /\ UNCHANGED <<hostOn, buffer, known, missed>>
  BY DEF Call, Idle
<1>4. /\ PreCalls(t, c.pre) /\ PostCalls(t, c.post)
      /\ \A k \in DOMAIN c.post : c.post[k].action = "Wait" =>
           \E j \in DOMAIN c.pre : c.pre[j] = Wait(t, c.post[k].object)
  BY CallRecords
<1>5. /\ active' \in [Threads -> BOOLEAN] /\ lives' \in 0 .. MaxLives /\ vanished' \in SUBSET Threads
      /\ todo' \in [Threads -> Seq(Records)]
      /\ active'[t] /\ t \notin vanished'
      /\ \A u \in Threads \ {t} : /\ active'[u] = active[u] /\ todo'[u] = todo[u]
                                  /\ u \in vanished' <=> u \in vanished
      /\ active[t] => todo'[t] = c.pre
      /\ ~active[t] => IsPosting(t)'
      /\ \A k \in DOMAIN todo'[t] :
           /\ todo'[t][k].threadId = t /\ todo'[t][k].action # "ThreadDeletion"
           /\ todo'[t][k].action \in ThreadActions => k = 1 /\ ~todo'[t][k].preCall
      /\ \A k \in DOMAIN c.pre : \E j \in DOMAIN todo'[t] : todo'[t][j] = c.pre[k]
  BY <1>2, <1>3, <1>4, AttachIs
<1>6. /\ after' \in [Threads -> Seq(Records)] /\ after'[t] = c.post
      /\ \A u \in Threads \ {t} : after'[u] = after[u]
  BY <1>1, <1>2, <1>4 DEF TypeOK, PostCalls, CallsOf
<1>7. TypeOK'
  <2>1. calls' \in 0 .. MaxCalls /\ unheard' \in SUBSET Threads
    BY <1>1, <1>3, HostAssumption DEF TypeOK
  <2> QED BY <1>1, <1>3, <1>5, <1>6, <2>1 DEF TypeOK, buffer, known
<1>8. Posting(t)'
  <2>1. life'[t] # "none"
    BY <1>3
  <2>2. \A k \in DOMAIN after'[t] :
          after'[t][k].threadId = t /\ after'[t][k].action \notin ThreadActions /\ ~after'[t][k].preCall
    BY <1>4, <1>6 DEF PostCalls, CallsOf
  <2> QED BY <1>5, <2>1, <2>2 DEF Posting
<1>9. Attached(t)'
  <2>1. CASE ~active[t]
    BY <1>5, <2>1 DEF Attached
  <2>2. CASE active[t]
    <3>1. ~IsPosting(t) /\ t \notin vanished
      BY <1>1, <1>3, <2>2 DEF IsPosting, Posting
    <3>2. hostOn => Finds(t, Len(ring) + 1, TRUE)
      BY <1>1, <2>2, <3>1 DEF Attached, TypeOK
    <3>3. UNCHANGED <<hostOn, ring, threadInfoMap, missed>>
      BY <1>3 DEF buffer, known
    <3>4. hostOn => Finds(t, Len(ring) + 1, TRUE)'
      BY <3>2, <3>3 DEF Finds, Before, Unread, IsKnown
    <3> QED BY <1>5, <3>3, <3>4 DEF Attached, TypeOK
  <2> QED BY <2>1, <2>2
<1>10. Waits(t)'
  <2> SUFFICES ASSUME NEW h \in Handles \cup {Finish}, NEW k \in DOMAIN c.post,
                      c.post[k].action = "Wait", c.post[k].object = h
               PROVE  \E j \in DOMAIN todo'[t] : todo'[t][j] = Wait(t, h)
    BY <1>6 DEF Waits
  <2> QED BY <1>4, <1>5
<1>11. ASSUME NEW u \in Threads \ {t} PROVE Same(u) /\ (u \in unheard => u \in unheard')
  BY <1>3, <1>5, <1>6 DEF Same
<1> QED BY <1>3, <1>7, <1>8, <1>9, <1>10, <1>11, QuietStep

\* Of thread t, nothing is posted and nothing changes that is compared with what the host knows.
LEMMA StaysAttached ==
  ASSUME IInv, NEW t \in Threads, UNCHANGED <<hostOn, buffer, known, missed>>, ~IsPosting(t),
         t \in vanished => t \in vanished', t \notin vanished' => active'[t] = active[t]
  PROVE  Attached(t)'
<1>1. Attached(t) /\ active[t] \in BOOLEAN
  BY ByThread DEF IInv, TypeOK
<1>2. UNCHANGED <<hostOn, ring, threadInfoMap, missed>>
  BY DEF buffer, known
<1>3. ASSUME NEW b \in BOOLEAN, Finds(t, Len(ring) + 1, b) PROVE Finds(t, Len(ring) + 1, b)'
  BY <1>2, <1>3 DEF Finds, Before, Unread, IsKnown
<1> QED BY <1>1, <1>2, <1>3 DEF Attached

LEMMA ReturnStep ==
  ASSUME IInv, NEW t \in Threads, Return(t)
  PROVE  IInv'
<1>1. TypeOK /\ Posting(t)
  BY ByThread DEF IInv
<1>2. /\ todo[t] = <<>> /\ after[t] # <<>>
      /\ todo' = [todo EXCEPT ![t] = after[t]] /\ after' = [after EXCEPT ![t] = <<>>]
      /\ life' = life /\ active' = active /\ vanished' = vanished /\ lives' = lives /\ calls' = calls
      /\ unheard' = unheard /\ UNCHANGED <<hostOn, buffer, known, missed>>
  BY DEF Return
<1>3. /\ todo' \in [Threads -> Seq(Records)] /\ after' \in [Threads -> Seq(Records)]
      /\ todo'[t] = after[t] /\ after'[t] = <<>>
      /\ \A u \in Threads \ {t} : todo'[u] = todo[u] /\ after'[u] = after[u]
  BY <1>1, <1>2 DEF TypeOK
<1>4. TypeOK'
  BY <1>1, <1>2, <1>3 DEF TypeOK, buffer, known
<1>5. Posting(t)'
  <2>1. life[t] # "none" /\ active[t] /\ t \notin vanished
    BY <1>1, <1>2 DEF Posting, Idle
  <2>2. \A k \in DOMAIN todo'[t] : /\ todo'[t][k].threadId = t /\ todo'[t][k].action \notin ThreadActions
                                   /\ ~todo'[t][k].preCall
    BY <1>1, <1>3 DEF Posting
  <2>3. life'[t] # "none" /\ active'[t] /\ t \notin vanished' /\ after'[t] = <<>>
    BY <1>2, <1>3, <2>1
  <2> QED BY <2>2, <2>3 DEF Posting, ThreadActions
<1>6. Attached(t)'
  BY <1>2, StaysAttached DEF IsPosting
<1>7. Waits(t)'
  BY <1>3 DEF Waits
<1>8. ASSUME NEW u \in Threads \ {t} PROVE Same(u) /\ (u \in unheard => u \in unheard')
  BY <1>2, <1>3 DEF Same
<1> QED BY <1>2, <1>4, <1>5, <1>6, <1>7, <1>8, QuietStep

LEMMA DetachThreadStep ==
  ASSUME IInv, NEW t \in Threads, DetachThread(t)
  PROVE  IInv'
<1> DEFINE r == Deletion(t)
           rs == IF active[t] THEN <<r>> ELSE <<>>
<1>1. TypeOK /\ Posting(t)
  BY ByThread DEF IInv
<1>2. /\ life' = [life EXCEPT ![t] = "leaving"] /\ active' = [active EXCEPT ![t] = FALSE]
      /\ todo' = [todo EXCEPT ![t] = rs] /\ todo[t] = <<>> /\ after[t] = <<>> /\ after' = after
      /\ vanished' = vanished /\ lives' = lives /\ calls' = calls
      /\ unheard' = unheard /\ UNCHANGED <<hostOn, buffer, known, missed>>
  BY DEF DetachThread, Idle
<1>3. r \in Records /\ r.threadId = t /\ r.action = "ThreadDeletion"
  BY DEF Deletion, Record, Records, ThreadActions
<1>4. ~r.preCall
  BY DEF Deletion, Record
<1> HIDE DEF r
<1>5. rs \in Seq(Records) /\ \A k \in DOMAIN rs : k = 1 /\ rs[k] = r
  BY <1>3
<1>6. (active[t] => DOMAIN rs = {1} /\ rs[1] = r) /\ (~active[t] => rs = <<>>)
  OBVIOUS
<1> HIDE DEF rs
<1>7. /\ life' \in [Threads -> {"none", "running", "leaving"}] /\ active' \in [Threads -> BOOLEAN]
      /\ todo' \in [Threads -> Seq(Records)]
      /\ life'[t] = "leaving" /\ ~active'[t] /\ todo'[t] = rs
      /\ \A u \in Threads \ {t} : life'[u] = life[u] /\ active'[u] = active[u] /\ todo'[u] = todo[u]
  BY <1>1, <1>2, <1>5 DEF TypeOK
<1>8. TypeOK'
  BY <1>1, <1>2, <1>7 DEF TypeOK, buffer, known
<1>9. Posting(t)'
  <2>1. life'[t] # "none" /\ ~active'[t] /\ after'[t] = <<>>
    BY <1>2, <1>7
  <2>2. \A k \in DOMAIN todo'[t] :
          k = 1 /\ todo'[t][k].threadId = t /\ todo'[t][k].action = "ThreadDeletion" /\ ~todo'[t][k].preCall
    BY <1>3, <1>4, <1>5, <1>7
  <2> QED BY <2>1, <2>2 DEF Posting
<1>10. Attached(t)'
  <2>1. CASE active[t]
    BY <1>3, <1>6, <1>7, <2>1 DEF Attached, IsPosting, ThreadActions
  <2>2. CASE ~active[t]
    <3>1. active'[t] = active[t]
      BY <1>1, <1>7, <2>2 DEF TypeOK
    <3>2. ~IsPosting(t) /\ (t \in vanished => t \in vanished')
      BY <1>2 DEF IsPosting
    <3> QED BY <1>2, <3>1, <3>2, StaysAttached
  <2> QED BY <2>1, <2>2
<1>11. Waits(t)'
  BY <1>2 DEF Waits
<1>12. ASSUME NEW u \in Threads \ {t} PROVE Same(u) /\ (u \in unheard => u \in unheard')
  BY <1>2, <1>7 DEF Same
<1> QED BY <1>2, <1>8, <1>9, <1>10, <1>11, <1>12, QuietStep

LEMMA VanishStep ==
  ASSUME IInv, NEW t \in Threads, Vanish(t)
  PROVE  IInv'
<1>1. TypeOK /\ Posting(t)
  BY ByThread DEF IInv
<1>2. /\ life' = [life EXCEPT ![t] = "none"] /\ active' = [active EXCEPT ![t] = FALSE]
      /\ todo' = [todo EXCEPT ![t] = <<>>] /\ after' = [after EXCEPT ![t] = <<>>]
      /\ vanished' = IF active[t] \/ todo[t] # <<>> THEN vanished \cup {t} ELSE vanished
      /\ lives' = lives /\ calls' = calls
      /\ unheard' = unheard /\ UNCHANGED <<hostOn, buffer, known, missed>>
  BY DEF Vanish
<1>3. /\ life' \in [Threads -> {"none", "running", "leaving"}] /\ active' \in [Threads -> BOOLEAN]
      /\ todo' \in [Threads -> Seq(Records)] /\ after' \in [Threads -> Seq(Records)]
      /\ vanished' \in SUBSET Threads
      /\ life'[t] = "none" /\ ~active'[t] /\ todo'[t] = <<>> /\ after'[t] = <<>>
      /\ \A u \in Threads \ {t} : /\ life'[u] = life[u] /\ active'[u] = active[u] /\ todo'[u] = todo[u]
                                  /\ after'[u] = after[u] /\ (u \in vanished' <=> u \in vanished)
  BY <1>1, <1>2 DEF TypeOK
<1>4. TypeOK'
  BY <1>1, <1>2, <1>3 DEF TypeOK, buffer, known
<1>5. Posting(t)'
  BY <1>3 DEF Posting, Idle
<1>6. Attached(t)'
  <2>1. CASE active[t] \/ todo[t] # <<>>
    BY <1>2, <2>1 DEF Attached
  <2>2. CASE ~active[t] /\ todo[t] = <<>>
    <3>1. active'[t] = active[t]
      BY <1>1, <1>3, <2>2 DEF TypeOK
    <3>2. ~IsPosting(t) /\ (t \in vanished => t \in vanished')
      BY <1>2, <2>2 DEF IsPosting
    <3> QED BY <1>2, <3>1, <3>2, StaysAttached
  <2> QED BY <2>1, <2>2
<1>7. Waits(t)'
  BY <1>3 DEF Waits
<1>8. ASSUME NEW u \in Threads \ {t} PROVE Same(u) /\ (u \in unheard => u \in unheard')
  BY <1>2, <1>3 DEF Same
<1> QED BY <1>2, <1>4, <1>5, <1>6, <1>7, <1>8, QuietStep

LEMMA PostIs ==
  ASSUME IInv, NEW t \in Threads, todo[t] # <<>>, todo' = [todo EXCEPT ![t] = Tail(@)]
  PROVE  LET r == Head(todo[t]) IN
         /\ todo' \in [Threads -> Seq(Records)] /\ \A u \in Threads \ {t} : todo'[u] = todo[u]
         /\ r \in Records /\ r.threadId = t /\ (r.preCall => active[t])
         /\ r.action \in ThreadActions => ~r.preCall /\ (r.action = "ThreadCreation" <=> active[t])
         /\ IsPosting(t) => r.action \in ThreadActions
         /\ r.action \in ThreadActions => IsPosting(t)
         /\ \A k \in DOMAIN todo[t] : todo[t][k] = r \/ \E j \in DOMAIN todo'[t] : todo'[t][j] = todo[t][k]
         /\ \A k \in DOMAIN todo'[t] :
              /\ todo'[t][k].threadId = t /\ todo'[t][k].action \notin ThreadActions
              /\ todo'[t][k].preCall => active[t]
<1> DEFINE r == Head(todo[t])
<1>1. TypeOK /\ Posting(t)
  BY ByThread DEF IInv
<1>2. /\ todo[t] \in Seq(Records) /\ Len(todo[t]) \in Nat \ {0} /\ DOMAIN todo[t] = 1 .. Len(todo[t])
      /\ r = todo[t][1] /\ r \in Records
  BY <1>1 DEF TypeOK
<1> HIDE DEF r
<1>3. /\ todo' \in [Threads -> Seq(Records)] /\ todo'[t] = Tail(todo[t])
      /\ \A u \in Threads \ {t} : todo'[u] = todo[u]
  BY <1>1, <1>2 DEF TypeOK
<1>4. /\ \A k \in DOMAIN todo'[t] : k + 1 \in DOMAIN todo[t] /\ k + 1 # 1 /\ todo'[t][k] = todo[t][k + 1]
      /\ \A k \in DOMAIN todo[t] : k = 1 \/ (k - 1 \in DOMAIN todo'[t] /\ todo'[t][k - 1] = todo[t][k])
  BY <1>2, <1>3
<1>5. /\ r.threadId = t /\ (r.preCall => active[t])
      /\ r.action \in ThreadActions => ~r.preCall
      /\ r.action = "ThreadCreation" => active[t]
      /\ r.action = "ThreadDeletion" => ~active[t]
  BY <1>1, <1>2 DEF Posting
<1>6. \A k \in DOMAIN todo[t] :
        /\ todo[t][k].threadId = t /\ (todo[t][k].preCall => active[t])
        /\ todo[t][k].action \in ThreadActions => k = 1
  BY <1>1 DEF Posting
<1>7. r.action \in ThreadActions => IsPosting(t)
  BY <1>2 DEF IsPosting
<1>8. IsPosting(t) => r.action \in ThreadActions
  BY <1>2, <1>6 DEF IsPosting
<1>9. r.action \in ThreadActions => (r.action = "ThreadCreation" <=> active[t])
  BY <1>5 DEF ThreadActions
<1>10. ASSUME NEW k \in DOMAIN todo'[t]
       PROVE  /\ todo'[t][k].threadId = t /\ todo'[t][k].action \notin ThreadActions
              /\ todo'[t][k].preCall => active[t]
  <2>1. PICK j : j = k + 1 /\ j \in DOMAIN todo[t] /\ j # 1 /\ todo'[t][k] = todo[t][j]
    BY <1>4
  <2>2. todo'[t][k].threadId = t /\ todo'[t][k].action \notin ThreadActions
    BY <1>6, <2>1
  <2>3. todo[t][j].preCall => active[t]
    BY <1>6, <2>1
  <2> QED BY <2>1, <2>2, <2>3
<1>11. \A k \in DOMAIN todo[t] : todo[t][k] = r \/ \E j \in DOMAIN todo'[t] : todo'[t][j] = todo[t][k]
  BY <1>2, <1>4
<1> QED BY <1>2, <1>3, <1>5, <1>7, <1>8, <1>9, <1>10, <1>11 DEF r

LEMMA PostingAfterPost ==
  ASSUME IInv, NEW t \in Threads, PostRecord(t)
  PROVE  Posting(t)' /\ ~IsPosting(t)' /\ \A u \in Threads \ {t} : Same(u)
<1>1. TypeOK /\ Posting(t)
  BY ByThread DEF IInv
<1>2. /\ todo[t] # <<>> /\ todo' = [todo EXCEPT ![t] = Tail(@)]
      /\ life' = life /\ active' = active /\ after' = after /\ vanished' = vanished
  BY DEF PostRecord
<1>3. /\ \A u \in Threads \ {t} : todo'[u] = todo[u]
      /\ \A k \in DOMAIN todo'[t] :
           /\ todo'[t][k].threadId = t /\ todo'[t][k].action \notin ThreadActions
           /\ todo'[t][k].preCall => active[t]
  BY <1>2, PostIs
<1>4. life[t] # "none" /\ (active[t] => t \notin vanished) /\ (after[t] # <<>> => active[t])
  BY <1>1, <1>2 DEF Posting, Idle
<1>5. life'[t] # "none" /\ (active'[t] => t \notin vanished') /\ (after'[t] # <<>> => active'[t])
  BY <1>2, <1>4
<1>6. \A k \in DOMAIN after'[t] :
        after'[t][k].threadId = t /\ after'[t][k].action \notin ThreadActions /\ ~after'[t][k].preCall
  BY <1>1, <1>2 DEF Posting
<1>7. \A k \in DOMAIN todo'[t] :
        /\ todo'[t][k].threadId = t /\ todo'[t][k].action \notin ThreadActions
        /\ todo'[t][k].preCall => active'[t]
  BY <1>2, <1>3
<1>8. Posting(t)'
  BY <1>5, <1>6, <1>7 DEF Posting, ThreadActions
<1>9. ~IsPosting(t)'
  BY <1>7 DEF IsPosting
<1>10. \A u \in Threads \ {t} : Same(u)
  BY <1>2, <1>3 DEF Same
<1> QED BY <1>8, <1>9, <1>10

(* Before the host reads, records are not kept. *)
LEMMA PostUnheardStep ==
  ASSUME IInv, NEW t \in Threads, PostRecord(t), ~hostOn
  PROVE  IInv'
<1>1. TypeOK /\ Waits(t) /\ BufferInv
  BY ByThread DEF IInv
<1>2. /\ todo[t] # <<>> /\ todo' = [todo EXCEPT ![t] = Tail(@)]
      /\ life' = life /\ active' = active /\ after' = after /\ vanished' = vanished
      /\ lives' = lives /\ calls' = calls /\ unheard' = unheard
      /\ UNCHANGED <<hostOn, buffer, known, missed>>
  BY DEF PostRecord
<1>4. todo' \in [Threads -> Seq(Records)]
  BY <1>2, PostIs
<1>5. TypeOK'
  BY <1>1, <1>2, <1>4 DEF TypeOK, buffer, known
<1>6. Posting(t)' /\ ~IsPosting(t)' /\ \A u \in Threads \ {t} : Same(u)
  BY PostingAfterPost
<1>7. Attached(t)'
  BY <1>2 DEF Attached
<1>8. ~hostOn' /\ Unread(t)' = {}
  BY <1>1, <1>2 DEF BufferInv, Unread, buffer
<1>9. Waits(t)'
  BY <1>6, <1>8 DEF Waits
<1>10. \A u \in Threads \ {t} : u \in unheard => u \in unheard'
  BY <1>2
<1> QED BY <1>2, <1>5, <1>6, <1>7, <1>9, <1>10, QuietStep

LEMMA PostHeardStep ==
  ASSUME IInv, NEW t \in Threads, PostRecord(t), hostOn
  PROVE  IInv'
<1>1. TypeOK /\ BufferInv /\ Posting(t) /\ Attached(t) /\ Waits(t)
  BY ByThread DEF IInv
<1> DEFINE r == Head(todo[t])
<1>2. todo[t] # <<>> /\ todo' = [todo EXCEPT ![t] = Tail(@)]
  BY DEF PostRecord
<1>3. /\ Write(r)
      /\ life' = life /\ active' = active /\ after' = after /\ vanished' = vanished
      /\ lives' = lives /\ calls' = calls /\ hostOn' = hostOn /\ UNCHANGED known
  BY DEF PostRecord
<1>4. /\ todo' \in [Threads -> Seq(Records)]
      /\ r \in Records /\ r.threadId = t /\ (r.preCall => active[t])
      /\ r.action \in ThreadActions => ~r.preCall /\ (r.action = "ThreadCreation" <=> active[t])
      /\ IsPosting(t) => r.action \in ThreadActions
      /\ r.action \in ThreadActions => IsPosting(t)
      /\ \A k \in DOMAIN todo[t] : todo[t][k] = r \/ \E j \in DOMAIN todo'[t] : todo'[t][j] = todo[t][k]
  <2>1. todo' \in [Threads -> Seq(Records)]
    BY <1>2, PostIs
  <2>2. r \in Records /\ r.threadId = t
    BY <1>2, PostIs
  <2>3. r.preCall => active[t]
    BY <1>2, PostIs
  <2>4. r.action \in ThreadActions => ~r.preCall /\ (r.action = "ThreadCreation" <=> active[t])
    BY <1>2, PostIs
  <2>5. (IsPosting(t) => r.action \in ThreadActions) /\ (r.action \in ThreadActions => IsPosting(t))
    BY <1>2, PostIs
  <2>6. \A k \in DOMAIN todo[t] : todo[t][k] = r \/ \E j \in DOMAIN todo'[t] : todo'[t][j] = todo[t][k]
    BY <1>2, PostIs
  <2> QED BY <2>1, <2>2, <2>3, <2>4, <2>5, <2>6
<1> HIDE DEF r
<1>5. PICK d \in {0, 1} :
        /\ d <= Len(ring) /\ Moved(d) /\ Lost(d)
        /\ Len(ring') = Len(ring) - d + 1 /\ ring'[Len(ring')] = r
        /\ Len(ring') <= RingLength /\ overrun' \in BOOLEAN
        /\ overrun' => Len(ring') = RingLength
  BY <1>3, <1>4, WriteIs
<1>6. /\ Len(ring) \in Nat /\ Len(ring') \in Nat /\ ring' \in Seq(Records)
      /\ DOMAIN ring = 1 .. Len(ring) /\ DOMAIN ring' = 1 .. Len(ring')
  BY <1>1, <1>5 DEF Moved, TypeOK
<1>7. d \in Nat /\ Len(ring') \in Nat \ {0}
  BY <1>5, <1>6
<1>8. UNCHANGED <<hostOn, threadInfoMap, waitingObjectsThreadMap, created, sent>>
  BY <1>3 DEF known
<1>9. \A u \in Threads : Carries(u, d) /\ Heard(u, d)
  BY <1>5, <1>7, <1>8, LostIs
<1>10. missed' \in SUBSET Threads /\ unheard' \in SUBSET Threads
  BY <1>5 DEF Lost
<1>11. TypeOK'
  BY <1>1, <1>3, <1>4, <1>5, <1>6, <1>8, <1>10 DEF TypeOK
<1>12. Posting(t)' /\ ~IsPosting(t)' /\ \A u \in Threads \ {t} : Same(u)
  BY PostingAfterPost
<1>13. ASSUME NEW u \in Threads \ {t} PROVE Posting(u)' /\ Attached(u)' /\ Waits(u)'
  <2>1. NoneOf(u, d)
    BY <1>4, <1>5 DEF NoneOf
  <2> QED BY <1>5, <1>7, <1>8, <1>9, <1>12, <2>1, OtherThread
<1>14. PICK n : n = Len(ring')
  OBVIOUS
<1>15. n \in Nat \ {0} /\ n + d = Len(ring) + 1 /\ n <= Len(ring) - d + 1 /\ n \in DOMAIN ring' /\ ring'[n] = r
  BY <1>5, <1>6, <1>7, <1>14
\* What the host finds at the end of the ring, when the record is about a call.
<1>16. ASSUME NEW b \in BOOLEAN, Finds(t, Len(ring) + 1, b) PROVE Finds(t, n, b)'
  <2>1. Finds(t, n + d, b)
    BY <1>15, <1>16
  <2> QED BY <1>9, <1>15, <2>1 DEF Carries
<1>17. hostOn => t \in vanished \/ IsPosting(t) \/ Finds(t, n, active[t])'
  <2>1. PICK b \in BOOLEAN : b = active[t] /\ b = active'[t]
    BY <1>1, <1>3 DEF TypeOK
  <2>2. Finds(t, Len(ring) + 1, b) => Finds(t, n, b)'
    BY <1>16
  <2> QED BY <1>1, <2>1, <2>2 DEF Attached
<1>18. r.action \in ThreadActions => n \in Unread(t)'
  BY <1>4, <1>15 DEF Unread
<1>19. r.action \notin ThreadActions => n \notin Unread(t)'
  BY <1>15 DEF Unread
<1>20. Attached(t)'
  <2>1. PICK b \in BOOLEAN : b = active[t] /\ b = active'[t]
    BY <1>1, <1>3 DEF TypeOK
  <2>2. CASE r.action \in ThreadActions
    <3>1. (ring'[n].action = "ThreadCreation") = b
      BY <1>4, <1>15, <2>1, <2>2
    <3>2. Finds(t, Len(ring) + 1, b)'
      BY <1>6, <1>14, <1>18, <2>2, <3>1, FindsLast
    <3> QED BY <2>1, <3>2 DEF Attached
  <2>3. CASE r.action \notin ThreadActions
    <3>1. t \in vanished' \/ Finds(t, n, b)'
      BY <1>3, <1>4, <1>17, <2>1, <2>3
    <3>2. Finds(t, n, b)' => Finds(t, n + 1, b)'
      BY <1>6, <1>15, <1>19, <2>3, FindsPast
    <3> QED BY <1>14, <2>1, <3>1, <3>2 DEF Attached
  <2> QED BY <2>2, <2>3
<1>21. Waits(t)'
  <2> SUFFICES ASSUME NEW h \in Handles \cup {Finish},
                      \E k \in DOMAIN after[t] : after[t][k].action = "Wait" /\ after[t][k].object = h
               PROVE  \/ t \in unheard' \/ t \in waitingObjectsThreadMap'[h]
                      \/ \E k \in DOMAIN todo'[t] : todo'[t][k] = Wait(t, h)
                      \/ \E k \in DOMAIN ring' : ring'[k] = Wait(t, h)
                      \/ (hostOn' => t \in missed') /\ Unread(t)' = {} /\ ~IsPosting(t)'
    BY <1>3 DEF Waits
  <2>1. CASE t \in unheard \/ t \in waitingObjectsThreadMap[h]
    BY <1>9, <2>1 DEF Heard
  <2>2. CASE \E k \in DOMAIN todo[t] : todo[t][k] = Wait(t, h)
    BY <1>4, <1>15, <2>2
  <2>3. CASE \E k \in DOMAIN ring : ring[k] = Wait(t, h)
    BY <1>5, <1>7, <1>9, <2>3, StillThere
  <2>4. CASE (hostOn => t \in missed) /\ Unread(t) = {} /\ ~IsPosting(t)
    <3>1. hostOn' => t \in missed'
      BY <1>8, <1>9, <2>4 DEF Carries
    <3>2. Len(ring') \notin Unread(t)'
      BY <1>4, <1>14, <1>19, <2>4
    <3>3. Unread(t)' = {}
      BY <1>5, <1>7, <2>4, <3>2, NoneEnters
    <3> QED BY <1>12, <3>1, <3>3
  <2> QED BY <1>1, <2>1, <2>2, <2>3, <2>4 DEF Waits
<1>22. /\ \A k \in DOMAIN ring' : k \in 1 .. Len(ring) - d \/ k = n
       /\ \A k \in 1 .. Len(ring) - d :
           /\ ring'[k].preCall => Finds(ring[k].threadId, k, TRUE)'
           /\ ring'[k].preCall => ring'[k].action \notin ThreadActions
  <2>1. \A k \in DOMAIN ring' : k \in 1 .. Len(ring) - d \/ k = n
    BY <1>5, <1>6, <1>7, <1>14
  <2> QED BY <1>5, <1>7, <1>9, <2>1, CallersStay
<1>23. r.preCall => r.action \notin ThreadActions
  BY <1>4
<1>24. r.preCall => Finds(t, n, TRUE)'
  <2> SUFFICES ASSUME r.preCall PROVE Finds(t, n, TRUE)'
    OBVIOUS
  <2>1. active[t] /\ ~IsPosting(t) /\ t \notin vanished
    BY <1>1, <1>4 DEF Posting
  <2>2. Finds(t, Len(ring) + 1, active[t]) /\ active[t] = TRUE
    BY <1>1, <2>1 DEF Attached, TypeOK
  <2> QED BY <1>16, <2>2
<1>25. BufferInv'
  BY <1>3, <1>5, <1>15, <1>22, <1>23 DEF BufferInv
<1>26. CallerInv'
  <2> SUFFICES ASSUME NEW k \in DOMAIN ring', ring'[k].preCall
               PROVE  Finds(ring[k].threadId, k, TRUE)'
    BY DEF CallerInv
  <2>1. CASE k \in 1 .. Len(ring) - d
    BY <1>22, <2>1
  <2>2. CASE k = n
    BY <1>4, <1>15, <1>24, <2>2
  <2> QED BY <1>22, <2>1, <2>2
<1> QED BY <1>11, <1>12, <1>13, <1>20, <1>21, <1>25, <1>26, ByThread DEF IInv

-----------------------------------------------------------------------------
(* Steps of the host *)

LEMMA StartHostStep ==
  ASSUME IInv, StartHost
  PROVE  IInv'
<1>1. TypeOK /\ BufferInv /\ ring = <<>> /\ ~overrun /\ \A t \in Threads : ~IsKnown(t)
  BY DEF IInv, BufferInv, StartHost
<1>2. /\ hostOn' /\ ring' = ring /\ overrun' = overrun /\ threadInfoMap' = threadInfoMap
      /\ hostOn' \in BOOLEAN /\ missed' = {t \in Threads : active[t]}
      /\ waitingObjectsThreadMap' = waitingObjectsThreadMap /\ created' = created /\ sent' = sent
      /\ life' = life /\ active' = active /\ todo' = todo /\ after' = after /\ vanished' = vanished
      /\ lives' = lives /\ calls' = calls /\ unheard' = unheard
  BY DEF StartHost, buffer, known, traced
<1>3. TypeOK'
  BY <1>1, <1>2 DEF TypeOK
<1>4. BufferInv' /\ CallerInv'
  BY <1>1, <1>2 DEF BufferInv, CallerInv
<1>5. ASSUME NEW t \in Threads PROVE Posting(t)' /\ Attached(t)' /\ Waits(t)'
  <2>1. Posting(t) /\ Waits(t)
    BY ByThread
  <2>2. Posting(t)' /\ IsPosting(t)' = IsPosting(t)
    BY <1>2, <2>1 DEF Posting, Idle, IsPosting
  <2>3. Unread(t)' = {} /\ Before(t, Len(ring) + 1)' = {} /\ ~IsKnown(t)'
    BY <1>1, <1>2 DEF Unread, Before, IsKnown
  <2>4. active[t] => t \in missed'
    BY <1>2
  <2>5. t \in missed' \/ IsKnown(t)' = active'[t]
    <3>1. active[t] \in BOOLEAN /\ active'[t] = active[t]
      BY <1>1, <1>2 DEF TypeOK
    <3>2. CASE active[t]
      BY <2>4, <3>2
    <3>3. CASE ~active[t]
      <4>1. active'[t] = FALSE
        BY <3>1, <3>3
      <4> QED BY <2>3, <4>1 DEF IsKnown
    <3> QED BY <3>2, <3>3
  <2>6. Attached(t)'
    BY <2>3, <2>5 DEF Attached, Finds
  <2>7. Waits(t)'
    BY <1>1, <1>2, <2>1, <2>2, <2>3, <2>4 DEF Waits, Posting
  <2> QED BY <2>2, <2>6, <2>7
<1> QED BY <1>3, <1>4, <1>5, ByThread DEF IInv

\* A step of the host that takes records from the ring keeps the invariant when what they
\* are about is known afterwards.
LEMMA HostStep ==
  ASSUME IInv, UNCHANGED <<traced, hostOn>>, hostOn, TypeOK', overrun' = FALSE,
         NEW d \in Nat, d <= Len(ring), Moved(d), Len(ring') = Len(ring) - d,
         \A u \in Threads : Carries(u, d) /\ Heard(u, d)
  PROVE  IInv'
<1>1. ASSUME NEW u \in Threads PROVE Posting(u)' /\ Attached(u)' /\ Waits(u)'
  <2>1. Same(u) /\ NoneOf(u, d)
    BY DEF Same, NoneOf, traced
  <2> QED BY <2>1, OtherThread
<1>2. /\ Len(ring) \in Nat /\ DOMAIN ring' = 1 .. Len(ring) - d
      /\ \A k \in 1 .. Len(ring) - d :
           /\ ring'[k].preCall => Finds(ring[k].threadId, k, TRUE)'
           /\ ring'[k].preCall => ring'[k].action \notin ThreadActions
  <2>1. Len(ring) \in Nat /\ DOMAIN ring' = 1 .. Len(ring) - d
    BY DEF IInv, TypeOK
  <2> QED BY <2>1, CallersStay
<1>3. BufferInv'
  BY <1>2 DEF BufferInv
<1>4. CallerInv'
  BY <1>2 DEF CallerInv
<1> QED BY <1>1, <1>3, <1>4, ByThread DEF IInv

LEMMA PostTaskIs ==
  ASSUME TypeOK, NEW ts \in SUBSET Threads, NEW what \in {"Record", "Cleanup"}, PostTask(ts, what)
  PROVE  sent' \in [what : {"nothing", "Record", "Cleanup"}, to : SUBSET Instances]
BY DEF TypeOK, PostTask, IsKnown, Instances, NoInfo

LEMMA CatchupStep ==
  ASSUME IInv, Catchup
  PROVE  IInv'
<1>1. PICK d \in 0 .. Len(ring) : Moved(d) /\ Lost(d) /\ Len(ring') = Len(ring) - d
  BY CatchupIs
<1>2. TypeOK /\ Len(ring) \in Nat /\ d \in Nat /\ d <= Len(ring)
  BY DEF IInv, TypeOK
<1>3. /\ hostOn /\ overrun' = FALSE /\ UNCHANGED <<traced, hostOn>> /\ PostTask(Threads, "Cleanup")
      /\ UNCHANGED <<threadInfoMap, waitingObjectsThreadMap, created>>
  BY DEF Catchup
<1>4. \A u \in Threads : Carries(u, d) /\ Heard(u, d)
  BY <1>1, <1>2, <1>3, LostIs
<1>5. TypeOK'
  <2>1. ring' \in Seq(Records) /\ Len(ring') <= RingLength
    BY <1>1, <1>2, HostAssumption DEF Moved, TypeOK
  <2>2. missed' \in SUBSET Threads /\ unheard' \in SUBSET Threads
    BY <1>1 DEF Lost
  <2>3. sent' \in [what : {"nothing", "Record", "Cleanup"}, to : SUBSET Instances]
    BY <1>2, <1>3, PostTaskIs
  <2> QED BY <1>2, <1>3, <2>1, <2>2, <2>3 DEF TypeOK, traced
<1> QED BY <1>1, <1>2, <1>3, <1>4, <1>5, HostStep

-----------------------------------------------------------------------------
(* The host reads one record *)

LEMMA ConsumeIs ==
  ASSUME IInv, NEW r, Consume(r)
  PROVE  /\ r \in Records /\ r.threadId \in Threads /\ ring # <<>> /\ 1 <= Len(ring) /\ ring[1] = r
         /\ Moved(1) /\ Len(ring') = Len(ring) - 1 /\ Len(ring') <= RingLength /\ hostOn /\ ~overrun
BY HostAssumption DEF IInv, TypeOK, Consume, Moved, Records

LEMMA CreationStep ==
  ASSUME IInv, NEW r, Consume(r), ThreadCreation(r), UNCHANGED <<traced, hostOn, overrun>>
  PROVE  IInv'
<1>1. /\ TypeOK /\ r \in Records /\ r.threadId \in Threads /\ 1 <= Len(ring) /\ ring[1] = r
      /\ Moved(1) /\ Len(ring') = Len(ring) - 1 /\ Len(ring') <= RingLength /\ hostOn /\ ~overrun
  BY ConsumeIs DEF IInv
<1>2. /\ r.action = "ThreadCreation" /\ created' = created + 1
      /\ threadInfoMap' = [threadInfoMap EXCEPT ![r.threadId] = created + 1]
      /\ missed' = missed \ {r.threadId}
      /\ UNCHANGED <<waitingObjectsThreadMap, sent, unheard>>
  BY DEF ThreadCreation
<1>3. /\ threadInfoMap' \in [Threads -> Instances \cup {NoInfo}] /\ created' \in Nat
      /\ threadInfoMap'[r.threadId] # NoInfo
      /\ \A u \in Threads \ {r.threadId} : threadInfoMap'[u] = threadInfoMap[u]
  BY <1>1, <1>2 DEF TypeOK, Instances, NoInfo
<1>4. TypeOK'
  <2>1. ring' \in Seq(Records) /\ missed' \in SUBSET Threads
    BY <1>1, <1>2 DEF Moved, TypeOK
  <2> QED BY <1>1, <1>2, <1>3, <2>1 DEF TypeOK, traced
<1>5. ASSUME NEW u \in Threads PROVE Heard(u, 1)
  <2>1. \A h : ring[1] # Wait(u, h)
    BY <1>1, <1>2 DEF Wait, Record
  <2> QED BY <1>2, <2>1 DEF Heard
<1>6. ASSUME NEW u \in Threads PROVE Carries(u, 1)
  <2>1. CASE u = r.threadId
    <3>1. 1 \in Unread(u)
      BY <1>1, <1>2, <2>1 DEF Unread, ThreadActions, TypeOK
    <3>2. IsKnown(u)' = (ring[1].action = "ThreadCreation")
      BY <1>1, <1>2, <1>3, <2>1 DEF IsKnown
    <3> QED BY <1>1, <3>1, <3>2, FindsProcessed DEF TypeOK
  <2>2. CASE u # r.threadId
    <3>1. Kept(u, 1)
      BY <1>1, <1>2, <1>3, <2>2 DEF Kept, Unread
    <3> QED BY <1>1, <3>1, FindsKept DEF TypeOK
  <2> QED BY <2>1, <2>2
<1>7. overrun' = FALSE
  BY <1>1 DEF TypeOK
<1> QED BY <1>1, <1>4, <1>5, <1>6, <1>7, HostStep

LEMMA DeletionStep ==
  ASSUME IInv, NEW r, Consume(r), ThreadDeletion(r), UNCHANGED <<traced, hostOn, overrun>>
  PROVE  IInv'
<1>1. /\ TypeOK /\ r \in Records /\ r.threadId \in Threads /\ 1 <= Len(ring) /\ ring[1] = r
      /\ Moved(1) /\ Len(ring') = Len(ring) - 1 /\ Len(ring') <= RingLength /\ hostOn /\ ~overrun
  BY ConsumeIs DEF IInv
<1>2. /\ r.action = "ThreadDeletion"
      /\ threadInfoMap' = [threadInfoMap EXCEPT ![r.threadId] = NoInfo]
      /\ missed' = IF IsKnown(r.threadId) THEN missed \ {r.threadId} ELSE missed
      /\ UNCHANGED <<created, waitingObjectsThreadMap, sent, unheard>>
  BY DEF ThreadDeletion
<1>3. /\ threadInfoMap' \in [Threads -> Instances \cup {NoInfo}]
      /\ threadInfoMap'[r.threadId] = NoInfo
      /\ \A u \in Threads \ {r.threadId} : threadInfoMap'[u] = threadInfoMap[u]
  BY <1>1, <1>2 DEF TypeOK
<1>4. TypeOK'
  <2>1. ring' \in Seq(Records) /\ missed' \in SUBSET Threads
    BY <1>1, <1>2 DEF Moved, TypeOK
  <2> QED BY <1>1, <1>2, <1>3, <2>1 DEF TypeOK, traced
<1>5. ASSUME NEW u \in Threads PROVE Heard(u, 1)
  <2>1. \A h : ring[1] # Wait(u, h)
    BY <1>1, <1>2 DEF Wait, Record
  <2> QED BY <1>2, <2>1 DEF Heard
<1>6. ASSUME NEW u \in Threads PROVE Carries(u, 1)
  <2>1. CASE u = r.threadId
    <3>1. 1 \in Unread(u)
      BY <1>1, <1>2, <2>1 DEF Unread, ThreadActions, TypeOK
    <3>2. IsKnown(u)' = (ring[1].action = "ThreadCreation")
      BY <1>1, <1>2, <1>3, <2>1 DEF IsKnown
    <3> QED BY <1>1, <3>1, <3>2, FindsProcessed DEF TypeOK
  <2>2. CASE u # r.threadId
    <3>1. Kept(u, 1)
      BY <1>1, <1>2, <1>3, <2>2 DEF Kept, Unread
    <3> QED BY <1>1, <3>1, FindsKept DEF TypeOK
  <2> QED BY <2>1, <2>2
<1>7. overrun' = FALSE
  BY <1>1 DEF TypeOK
<1> QED BY <1>1, <1>4, <1>5, <1>6, <1>7, HostStep

LEMMA PreCallStep ==
  ASSUME IInv, NEW r, Consume(r), PreCall(r), UNCHANGED <<traced, hostOn, overrun>>
  PROVE  IInv'
<1>1. /\ TypeOK /\ r \in Records /\ r.threadId \in Threads /\ 1 <= Len(ring) /\ ring[1] = r
      /\ Moved(1) /\ Len(ring') = Len(ring) - 1 /\ Len(ring') <= RingLength /\ hostOn /\ ~overrun
  BY ConsumeIs DEF IInv
<1>2. /\ r.action \notin ThreadActions /\ r.preCall /\ UpdateWaitingObjectsThreadMap(r)
      /\ PostTask({r.threadId}, "Record")
      /\ UNCHANGED <<threadInfoMap, created, missed, unheard>>
  BY DEF PreCall
<1>3. /\ waitingObjectsThreadMap' \in [Handles \cup {Finish} -> SUBSET Threads]
      /\ \A h \in Handles \cup {Finish} : waitingObjectsThreadMap[h] \subseteq waitingObjectsThreadMap'[h]
      /\ r.action = "Wait" => r.threadId \in waitingObjectsThreadMap'[r.object]
  <2>1. CASE r.action # "Wait"
    BY <1>1, <1>2, <2>1 DEF TypeOK, UpdateWaitingObjectsThreadMap
  <2>2. CASE r.action = "Wait"
    <3>1. r.object \in Handles \cup {Finish}
      BY <1>1, <2>2 DEF Records
    <3>2. waitingObjectsThreadMap' = [waitingObjectsThreadMap EXCEPT ![r.object] = @ \cup {r.threadId}]
      BY <1>2, <2>2 DEF UpdateWaitingObjectsThreadMap
    <3> QED BY <1>1, <3>1, <3>2 DEF TypeOK
  <2> QED BY <2>1, <2>2
<1>4. TypeOK'
  <2>1. ring' \in Seq(Records) /\ sent' \in [what : {"nothing", "Record", "Cleanup"}, to : SUBSET Instances]
    BY <1>1, <1>2, PostTaskIs DEF Moved
  <2> QED BY <1>1, <1>2, <1>3, <2>1 DEF TypeOK, traced
<1>5. ASSUME NEW u \in Threads PROVE Heard(u, 1)
  <2>1. ASSUME NEW h, ring[1] = Wait(u, h) PROVE r.action = "Wait" /\ r.threadId = u /\ r.object = h
    BY <1>1, <2>1 DEF Wait, Record
  <2> QED BY <1>2, <1>3, <2>1 DEF Heard
<1>6. ASSUME NEW u \in Threads PROVE Carries(u, 1)
  <2>1. Kept(u, 1)
    BY <1>1, <1>2 DEF Kept, Unread
  <2> QED BY <1>1, <2>1, FindsKept DEF TypeOK
<1>7. overrun' = FALSE
  BY <1>1 DEF TypeOK
<1> QED BY <1>1, <1>4, <1>5, <1>6, <1>7, HostStep

LEMMA PostCallStep ==
  ASSUME IInv, NEW r, Consume(r), PostCall(r), UNCHANGED <<traced, hostOn, overrun>>
  PROVE  IInv'
<1>1. /\ TypeOK /\ r \in Records /\ r.threadId \in Threads /\ 1 <= Len(ring) /\ ring[1] = r
      /\ Moved(1) /\ Len(ring') = Len(ring) - 1 /\ Len(ring') <= RingLength /\ hostOn /\ ~overrun
  BY ConsumeIs DEF IInv
<1>2. /\ r.action \notin ThreadActions /\ ~r.preCall
      /\ PostTask(GetThreadsByWaitingObject(r), "Record")
      /\ UNCHANGED <<threadInfoMap, waitingObjectsThreadMap, created, missed, unheard>>
  BY DEF PostCall
<1>3. GetThreadsByWaitingObject(r) \in SUBSET Threads
  BY <1>1 DEF TypeOK, Records, GetThreadsByWaitingObject
<1>4. TypeOK'
  <2>1. ring' \in Seq(Records) /\ sent' \in [what : {"nothing", "Record", "Cleanup"}, to : SUBSET Instances]
    BY <1>1, <1>2, <1>3, PostTaskIs DEF Moved
  <2> QED BY <1>1, <1>2, <2>1 DEF TypeOK, traced
<1>5. ASSUME NEW u \in Threads PROVE Heard(u, 1)
  <2>1. ASSUME NEW h PROVE ring[1] # Wait(u, h)
    BY <1>1, <1>2 DEF Wait, Record
  <2> QED BY <1>2, <2>1 DEF Heard
<1>6. ASSUME NEW u \in Threads PROVE Carries(u, 1)
  <2>1. Kept(u, 1)
    BY <1>1, <1>2 DEF Kept, Unread
  <2> QED BY <1>1, <2>1, FindsKept DEF TypeOK
<1>7. overrun' = FALSE
  BY <1>1 DEF TypeOK
<1> QED BY <1>1, <1>4, <1>5, <1>6, <1>7, HostStep

-----------------------------------------------------------------------------
(* The theorems *)

LEMMA InitIInv == Init => IInv
<1> SUFFICES ASSUME Init PROVE IInv
  OBVIOUS
<1>1. TypeOK
  <2>1. /\ life \in [Threads -> {"none", "running", "leaving"}] /\ active \in [Threads -> BOOLEAN]
        /\ todo \in [Threads -> Seq(Records)] /\ after \in [Threads -> Seq(Records)]
    <3>1. life \in [Threads -> {"none", "running", "leaving"}] /\ active \in [Threads -> BOOLEAN]
      BY DEF Init
    <3>2. <<>> \in Seq(Records)
      OBVIOUS
    <3>3. todo \in [Threads -> Seq(Records)] /\ after \in [Threads -> Seq(Records)]
      BY <3>2 DEF Init
    <3> QED BY <3>1, <3>3
  <2>2. hostOn \in BOOLEAN /\ overrun \in BOOLEAN /\ ring \in Seq(Records) /\ Len(ring) <= RingLength
    <3>1. hostOn \in BOOLEAN /\ overrun \in BOOLEAN
      BY DEF Init
    <3>2. ring \in Seq(Records) /\ Len(ring) = 0
      BY DEF Init
    <3> QED BY <3>1, <3>2, HostAssumption
  <2>3. /\ threadInfoMap \in [Threads -> Instances \cup {NoInfo}] /\ created \in Nat
        /\ waitingObjectsThreadMap \in [Handles \cup {Finish} -> SUBSET Threads]
        /\ sent \in [what : {"nothing", "Record", "Cleanup"}, to : SUBSET Instances]
    BY DEF Init, Nothing
  <2>4. /\ missed \in SUBSET Threads /\ vanished \in SUBSET Threads /\ unheard \in SUBSET Threads
        /\ lives \in 0 .. MaxLives /\ calls \in 0 .. MaxCalls
    BY HostAssumption DEF Init
  <2> QED BY <2>1, <2>2, <2>3, <2>4 DEF TypeOK
<1>2. BufferInv /\ CallerInv
  BY DEF Init, BufferInv, CallerInv, IsKnown
<1>3. PostingInv
  BY DEF Init, PostingInv, Posting, Idle
<1>4. AttachedIsKnown
  BY DEF Init, AttachedIsKnown, Attached
<1>5. WaitInv
  <2>1. \A t \in Threads : after[t] = <<>>
    BY DEF Init
  <2> QED BY <2>1 DEF WaitInv, Waits
<1> QED BY <1>1, <1>2, <1>3, <1>4, <1>5 DEF IInv

LEMMA NextIInv == IInv /\ [Next]_vars => IInv'
<1> SUFFICES ASSUME IInv, [Next]_vars PROVE IInv'
  OBVIOUS
<1>1. ASSUME NEW t \in Threads, Thread(t) PROVE IInv'
  BY <1>1, ThreadStartStep, CallStep, ReturnStep, PostUnheardStep, PostHeardStep, DetachThreadStep,
     VanishStep DEF Thread
<1>2. CASE StartHost
  BY <1>2, StartHostStep
<1>3. CASE Process
  <2>1. PICK r \in ToSet(ring) :
          /\ Consume(r) /\ (ThreadCreation(r) \/ ThreadDeletion(r) \/ PreCall(r) \/ PostCall(r))
          /\ UNCHANGED <<traced, hostOn, overrun>>
    BY <1>3 DEF Process
  <2> QED BY <2>1, CreationStep, DeletionStep, PreCallStep, PostCallStep
<1>4. CASE Catchup
  BY <1>4, CatchupStep
<1>5. CASE UNCHANGED vars
  <2> USE <1>5 DEF vars, traced, known, buffer
  <2>1. TypeOK' /\ BufferInv' /\ PostingInv'
    BY DEF IInv, TypeOK, BufferInv, PostingInv, Posting, IsKnown, Idle
  <2>2. AttachedIsKnown' /\ CallerInv'
    BY DEF IInv, AttachedIsKnown, Attached, CallerInv, Finds, Before, Unread, IsKnown, IsPosting
  <2>3. WaitInv'
    BY DEF IInv, WaitInv, Waits, Unread, IsPosting
  <2> QED BY <2>1, <2>2, <2>3 DEF IInv
<1> QED BY <1>1, <1>2, <1>3, <1>4, <1>5 DEF Next

THEOREM Inductive == Spec => []IInv
BY InitIInv, NextIInv, PTL DEF Spec

(* The host never counts more unread records than the ring has (Write and Catchup), files   *)
(* waits under handles only, and posts to warps of ThreadInfo objects only.                  *)
THEOREM TypeCorrect == Spec => []TypeOK
<1>1. IInv => TypeOK
  BY DEF IInv
<1> QED BY <1>1, Inductive, PTL

(* assert(it != threadInfoMap.end()) when the record of a call is read: the caller is known, *)
(* unless the host missed its creation because it started later or was lapped.               *)
THEOREM CallersAreKnown == Spec => []CallerKnown
<1>1. IInv => CallerKnown
  <2> SUFFICES ASSUME IInv, ring # <<>>, Head(ring).preCall
               PROVE  IsKnown(Head(ring).threadId) \/ Head(ring).threadId \in missed
    BY DEF CallerKnown
  <2>1. 1 \in DOMAIN ring /\ Head(ring) = ring[1] /\ ring \in Seq(Records)
    BY DEF IInv, TypeOK
  <2>2. Finds(ring[1].threadId, 1, TRUE)
    BY <2>1 DEF IInv, CallerInv
  <2>3. Before(ring[1].threadId, 1) = {}
    BY <2>1 DEF Before, Unread
  <2> QED BY <2>1, <2>2, <2>3 DEF Finds
<1> QED BY <1>1, Inductive, PTL

(* AttachThread and DetachThread mark a thread in TLS exactly when the host has it, or will  *)
(* have it after the creations and deletions that it has yet to read.                        *)
THEOREM MarksAreKnown == Spec => []AttachedIsKnown
<1>1. IInv => AttachedIsKnown
  BY DEF IInv
<1> QED BY <1>1, Inductive, PTL

(* GetThreadsByWaitingObject finds every thread that is blocked in a wait for the object, so *)
(* that the signal is recorded for it.                                                       *)
THEOREM SignalsAreRecorded == Spec => SignalReachesWaiters
<1> DEFINE Step(r) == Reads(r) /\ r.action = "Signal" /\ ~r.preCall =>
             \A t \in Threads : BlockedOn(t, r.object) =>
               sent'.what = "Record" /\ threadInfoMap[t] \in sent'.to \ {NoInfo}
           Steps == \A r \in ToSet(ring) : Step(r)
<1>1. ASSUME IInv, [Next]_vars PROVE [Steps]_vars
  <2> SUFFICES ASSUME NEW r \in ToSet(ring), Reads(r), r.action = "Signal", ~r.preCall,
                      NEW t \in Threads, BlockedOn(t, r.object)
               PROVE  sent'.what = "Record" /\ threadInfoMap[t] \in sent'.to \ {NoInfo}
    OBVIOUS
  <2>1. TypeOK /\ Posting(t) /\ Attached(t) /\ Waits(t)
    BY <1>1, ByThread DEF IInv
  <2>2. ring # <<>> /\ ring' = Tail(ring) /\ ~overrun /\ UNCHANGED traced /\ r = Head(ring)
    BY DEF Reads
  <2>3. hostOn /\ ring' # ring /\ r \in Records
    BY <1>1, <2>1, <2>2 DEF IInv, BufferInv, TypeOK
  <2>4. Consume(r) /\ PostCall(r)
    <3>1. ASSUME NEW u \in Threads, Thread(u) PROVE FALSE
      <4>1. PostRecord(u)
        BY <2>3, <3>1 DEF Thread, ThreadStart, Call, Return, DetachThread, Vanish, buffer
      <4>2. todo[u] # <<>> /\ todo'[u] = Tail(todo[u]) /\ todo' = todo
        BY <2>1, <2>2, <4>1 DEF PostRecord, TypeOK, traced
      <4> QED BY <2>1, <4>2 DEF TypeOK
    <3>2. Process
      BY <1>1, <2>2, <2>3, <3>1 DEF Next, vars, StartHost, Catchup, buffer
    <3>3. PICK q \in ToSet(ring) :
            Consume(q) /\ (ThreadCreation(q) \/ ThreadDeletion(q) \/ PreCall(q) \/ PostCall(q))
      BY <3>2 DEF Process
    <3>4. q = r
      BY <2>2, <3>3 DEF Consume
    <3> QED BY <3>3, <3>4 DEF ThreadCreation, ThreadDeletion, PreCall
  <2>5. r.object \in Handles \cup {Finish}
    BY <2>3 DEF Records
  <2>6. /\ todo[t] = <<>> /\ \A k \in DOMAIN ring : ring[k].threadId # t
        /\ t \notin missed /\ t \notin unheard
        /\ \E k \in DOMAIN after[t] : after[t][k].action = "Wait" /\ after[t][k].object = r.object
    BY DEF BlockedOn
  <2>7. t \in waitingObjectsThreadMap[r.object]
    <3>1. \A k \in DOMAIN ring : ring[k] # Wait(t, r.object)
      BY <2>6 DEF Wait, Record
    <3>2. ~\E k \in DOMAIN todo[t] : todo[t][k] = Wait(t, r.object)
      BY <2>6
    <3> QED BY <2>1, <2>3, <2>5, <2>6, <3>1, <3>2 DEF Waits
  <2>8. IsKnown(t)
    <3>1. active[t] /\ t \notin vanished /\ ~IsPosting(t)
      BY <2>1, <2>6 DEF Posting, IsPosting
    <3>2. Finds(t, Len(ring) + 1, active[t]) /\ active[t] = TRUE
      BY <2>1, <2>3, <3>1 DEF Attached, TypeOK
    <3>3. Before(t, Len(ring) + 1) = {}
      BY <2>6 DEF Before, Unread
    <3> QED BY <2>6, <3>2, <3>3 DEF Finds
  <2>9. sent' = [what |-> "Record",
                 to |-> {threadInfoMap[u] : u \in {v \in waitingObjectsThreadMap[r.object] : IsKnown(v)}}]
    BY <2>4 DEF PostCall, PostTask, GetThreadsByWaitingObject
  <2> QED BY <2>7, <2>8, <2>9 DEF IsKnown
<1>2. SignalReachesWaiters <=> [][Steps]_vars
  BY DEF SignalReachesWaiters
<1> QED BY <1>1, <1>2, Inductive, PTL DEF Spec

=============================================================================
