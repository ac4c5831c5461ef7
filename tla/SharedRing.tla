------------------------------ MODULE SharedRing ------------------------------
(***************************************************************************)
(* The ring of records every traced process writes and the host reads:     *)
(* TraceSystem::PostRecord on the writing side, the loop of                *)
(* TraceSystem::MasterWorkerThread on the reading side.                    *)
(*                                                                         *)
(* A writer takes a ticket with one atomic fetch_add and then copies its   *)
(* record into the ticket's slot with plain stores; recordIndex is the     *)
(* last field of the record, and the reader takes a slot for complete when *)
(* the recordIndex it copied equals the index it waits for.  Nothing stops *)
(* a writer from overtaking the reader, so the reader must notice that it  *)
(* was lapped and skip forward.                                            *)
(*                                                                         *)
(* A record is named by its ticket, the number of records posted before    *)
(* it: tickets are never reused, while the index the program stores is the *)
(* ticket modulo IndexRange (2^32 in the program).                         *)
(***************************************************************************)
EXTENDS Integers, Sequences, FiniteSets

CONSTANTS
  Writers,     \* threads of the traced processes
  RingLength,  \* SHARED_RECORD_INFO_BUFFER_LENGTH
  IndexRange,  \* number of values of a DWORD index
  FirstTicket, \* records posted and completed before the behaviour starts
  MaxTicket,   \* bound: tickets handed out in a behaviour are below this one
  MaxDeaths,   \* bound: writers that die between the ticket and the copy
  Builds       \* how the program was compiled: TRUE in it, a record may be moved by
               \* one 16-byte access; FALSE in it, by two of 8 bytes in address
               \* order, recordIndex in the second

ASSUME RingAssumption ==
  /\ RingLength \in Nat \ {0} /\ IndexRange \in Nat \ {0}
  /\ IndexRange % RingLength = 0 /\ IndexRange > 2 * RingLength
  /\ FirstTicket \in Nat /\ MaxTicket \in Nat /\ FirstTicket <= MaxTicket
  /\ MaxTicket - FirstTicket < IndexRange - RingLength
  /\ MaxDeaths \in Nat /\ Builds \in SUBSET BOOLEAN

Slots   == 0 .. RingLength - 1
Index   == 0 .. IndexRange - 1
Tickets == 0 .. MaxTicket - 1
Zeroed  == -1                      \* the payload of a page nobody wrote to

VARIABLES
  posted,       \* tickets handed out; SharedRecordWriteIndex is posted modulo IndexRange
  payload,      \* first 8 bytes of each slot, named by the ticket of their record
  recordIndex,  \* recordIndex field of each slot
  writer,       \* a writer's program counter and the ticket it holds
  reader,       \* the host's program counter, locals and currentRecordInfoReadIndex
  startTicket,  \* tickets handed out before the host began to read
  delivered,    \* history: what the host processed, in order
  lapped,       \* history: tickets of which the record was overwritten by an older one
  dead,         \* history: tickets whose writer died before the copy
  wideCopy      \* the build that runs; it never changes
vars == <<posted, payload, recordIndex, writer, reader, startTicket, delivered, lapped, dead,
          wideCopy>>

SlotOf(i)        == i % RingLength
IndexOf(ticket)  == ticket % IndexRange
writeIndex       == IndexOf(posted)
Behind(from, to) == (to - from) % IndexRange   \* to - from in unsigned arithmetic
Held(ticket, pcs) == \E w \in Writers : writer[w].pc \in pcs /\ writer[w].ticket = ticket
InFlight(ticket) == Held(ticket, {"claimed", "half"})

(* CreateFileMapping gives zeroed pages; FirstTicket earlier posts went through. *)
LastIn(s) == LET in == {n \in 0 .. FirstTicket - 1 : SlotOf(n) = s}
             IN  IF in = {} THEN Zeroed ELSE CHOOSE n \in in : \A m \in in : m <= n
Init ==
  /\ posted = FirstTicket
  /\ payload = [s \in Slots |-> LastIn(s)]
  /\ recordIndex = [s \in Slots |-> IF LastIn(s) = Zeroed THEN 0 ELSE IndexOf(LastIn(s))]
  /\ writer = [w \in Writers |-> [pc |-> "idle", ticket |-> 0]]
  /\ reader = [pc |-> "stopped", readIndex |-> 0, payload |-> Zeroed]
  /\ startTicket = MaxTicket
  /\ delivered = <<>>
  /\ lapped = {}
  /\ dead = {}
  /\ wideCopy \in Builds

-----------------------------------------------------------------------------
(* PostRecord *)

Claim(w) ==       \* SharedRecordWriteIndex.fetch_add(1)
  /\ writer[w].pc = "idle" /\ posted < MaxTicket
  /\ writer' = [writer EXCEPT ![w] = [pc |-> "claimed", ticket |-> posted]]
  /\ posted' = posted + 1
  /\ UNCHANGED <<payload, recordIndex, reader, startTicket, delivered, lapped,
                 dead, wideCopy>>

\* The slot's contents after the store, and whether a newer record, or its first half, was there:
\* one that no writer at pcs holds.
Overwrite(t, pcs) ==
  lapped' = lapped \cup {u \in t + 1 .. posted - 1 : SlotOf(u) = SlotOf(t) /\ ~Held(u, pcs)}
WritePayload(t) == payload' = [payload EXCEPT ![SlotOf(t)] = t]
WriteIndex(t) ==
  /\ recordIndex' = [recordIndex EXCEPT ![SlotOf(t)] = IndexOf(t)]
  /\ Overwrite(t, {"claimed", "half"})

StoreRecord(w) ==  \* the whole record in one access
  /\ wideCopy /\ writer[w].pc = "claimed"
  /\ WritePayload(writer[w].ticket) /\ WriteIndex(writer[w].ticket)
  /\ writer' = [writer EXCEPT ![w].pc = "idle"]
  /\ UNCHANGED <<posted, reader, startTicket, delivered, dead, wideCopy>>

\* Definitions with the word Wrong are mutations: the mistake in the definition they
\* precede that the property named with them would reveal.

\* WholeUnlessRaced: the index is stored before the rest of the record.
WrongIndexAtEnd == FALSE
\* "recordIndex must be placed at end of RecordInfo"
IndexAtEnd == TRUE

StoreHalf(t, index) ==
  IF index THEN WriteIndex(t) /\ UNCHANGED payload
           ELSE WritePayload(t) /\ Overwrite(t, {"claimed"}) /\ UNCHANGED recordIndex

StoreLow(w) ==     \* the first 8 bytes
  /\ ~wideCopy /\ writer[w].pc = "claimed" /\ StoreHalf(writer[w].ticket, ~IndexAtEnd)
  /\ writer' = [writer EXCEPT ![w].pc = "half"]
  /\ UNCHANGED <<posted, reader, startTicket, delivered, dead, wideCopy>>

StoreHigh(w) ==    \* the last 8 bytes, recordIndex among them
  /\ writer[w].pc = "half" /\ StoreHalf(writer[w].ticket, IndexAtEnd)
  /\ writer' = [writer EXCEPT ![w].pc = "idle"]
  /\ UNCHANGED <<posted, reader, startTicket, delivered, dead, wideCopy>>

Die(w) ==          \* the process is terminated while the thread holds a ticket
  /\ writer[w].pc \in {"claimed", "half"} /\ Cardinality(dead) < MaxDeaths
  /\ dead' = dead \cup {writer[w].ticket}
  /\ writer' = [writer EXCEPT ![w].pc = "idle"]
  /\ UNCHANGED <<posted, payload, recordIndex, reader, startTicket, delivered, lapped, wideCopy>>

-----------------------------------------------------------------------------
(* The host *)

StartHost ==       \* Initialize: read from the present write index on
  /\ reader.pc = "stopped"
  /\ reader' = [reader EXCEPT !.pc = "observe", !.readIndex = writeIndex]
  /\ startTicket' = posted
  /\ UNCHANGED <<posted, payload, recordIndex, writer, delivered, lapped, dead, wideCopy>>

\* PassedOverOnlyWhenLapped: read before the slot is overwritten; RecoversFromHole: too late.
WrongOverrunEarly == Behind(reader.readIndex, writeIndex) >= RingLength
WrongOverrunLate  == Behind(reader.readIndex, writeIndex) > RingLength + 1
Overrun == Behind(reader.readIndex, writeIndex) > RingLength

Observe ==         \* load the write index; within the ring, go on to the slot
  /\ reader.pc = "observe" /\ ~Overrun
  /\ reader' = [reader EXCEPT !.pc = "copy"]
  /\ UNCHANGED <<posted, payload, recordIndex, writer, startTicket, delivered, lapped,
                 dead, wideCopy>>

CatchUp ==         \* lapped: resume half a ring behind the write index just loaded
  /\ reader.pc = "observe" /\ Overrun
  /\ reader' = [reader EXCEPT !.readIndex = (writeIndex - RingLength \div 2) % IndexRange]
  /\ UNCHANGED <<posted, payload, recordIndex, writer, startTicket, delivered, lapped,
                 dead, wideCopy>>

\* InOrderOnce: a newer record is good enough.
WrongFinishNewer(copied, index) ==
  /\ reader' = [reader EXCEPT !.pc = "observe", !.payload = Zeroed,
                              !.readIndex = IF index >= @ THEN (@ + 1) % IndexRange ELSE @]
  /\ delivered' = IF index < reader.readIndex THEN delivered
                  ELSE Append(delivered, [ticket |-> copied, index |-> reader.readIndex])

\* The test of recordIndex: deliver and advance, or poll the worker and retry.
Finish(copied, index) ==
  IF index = reader.readIndex
  THEN /\ delivered' = Append(delivered, [ticket |-> copied, index |-> index])
       /\ reader' = [reader EXCEPT !.pc = "observe", !.payload = Zeroed,
                                   !.readIndex = (@ + 1) % IndexRange]
  ELSE /\ reader' = [reader EXCEPT !.pc = "observe", !.payload = Zeroed]
       /\ UNCHANGED delivered

CopyRecord ==
  /\ wideCopy /\ reader.pc = "copy"
  /\ LET s == SlotOf(reader.readIndex) IN Finish(payload[s], recordIndex[s])
  /\ UNCHANGED <<posted, payload, recordIndex, writer, startTicket, lapped, dead, wideCopy>>

CopyLow ==
  /\ ~wideCopy /\ reader.pc = "copy"
  /\ reader' = [reader EXCEPT !.pc = "copyHigh", !.payload = payload[SlotOf(reader.readIndex)]]
  /\ UNCHANGED <<posted, payload, recordIndex, writer, startTicket, delivered, lapped,
                 dead, wideCopy>>

CopyHigh ==
  /\ reader.pc = "copyHigh"
  /\ Finish(reader.payload, recordIndex[SlotOf(reader.readIndex)])
  /\ UNCHANGED <<posted, payload, recordIndex, writer, startTicket, lapped, dead, wideCopy>>

-----------------------------------------------------------------------------
WriterStep(w) == StoreRecord(w) \/ StoreLow(w) \/ StoreHigh(w)
ReaderStep    == Observe \/ CatchUp \/ CopyRecord \/ CopyLow \/ CopyHigh
Next == \/ \E w \in Writers : Claim(w) \/ WriterStep(w) \/ Die(w)
        \/ StartHost \/ ReaderStep

Spec     == Init /\ [][Next]_vars
FairSpec == Spec /\ WF_vars(ReaderStep) /\ \A w \in Writers : WF_vars(WriterStep(w))

-----------------------------------------------------------------------------
(* What the ring promises *)

started     == reader.pc # "stopped"
\* The ticket the reader waits for, provided it is not ahead of the writers.
readTicket  == posted - Behind(reader.readIndex, writeIndex)
Delivered   == {delivered[i].ticket : i \in DOMAIN delivered}
PassedOver  == {t \in startTicket .. readTicket - 1 : t \notin Delivered}

TypeOK ==
  /\ posted \in 0 .. MaxTicket
  /\ payload \in [Slots -> Tickets \cup {Zeroed}]
  /\ recordIndex \in [Slots -> Index]
  /\ writer \in [Writers -> [pc : {"idle", "claimed", "half"}, ticket : Tickets]]
  /\ reader \in [pc : {"stopped", "observe", "copy", "copyHigh"}, readIndex : Index,
                 payload : Tickets \cup {Zeroed}]
  /\ startTicket \in 0 .. MaxTicket
  /\ delivered \in Seq([ticket : Tickets \cup {Zeroed}, index : Index])
  /\ lapped \in SUBSET Tickets
  /\ dead \in SUBSET Tickets
  /\ wideCopy \in Builds

(* A record that the reader takes for "completed" is the one that PostRecord stored *)
(* under that index, all of it, also if both copy it in halves.  Four things make    *)
(* it another: the reader copies the first half before a writer stores its own; it   *)
(* copies the first half of a newer record, of which the second is to come; a writer *)
(* stores over a newer record, a lap too late; or it dies half-way.                  *)
Raced(copied, t) ==
  \/ payload[SlotOf(t)] # copied
  \/ InFlight(copied)
  \/ {copied, t} \cap (lapped \cup dead) # {}
WholeUnlessRaced ==
  [][\A d \in {delivered'[i] : i \in DOMAIN delivered' \ DOMAIN delivered} :
       d.ticket # readTicket => Raced(d.ticket, readTicket)]_vars

(* Records reach the host in the order of the fetch_adds, none of them twice,  *)
(* across the wrap of the index and across every Catchup.                      *)
InOrderOnce ==
  wideCopy => \A i, j \in DOMAIN delivered : i < j => delivered[i].ticket < delivered[j].ticket

(* currentRecordInfoReadIndex never runs past SharedRecordWriteIndex, where the *)
(* unsigned difference would take an empty ring for an overrun one.            *)
NeverAhead ==
  started => Behind(reader.readIndex, writeIndex) <= posted - startTicket

(* The host gives up records only when it was lapped: the oldest record it     *)
(* passed over was more than a ring behind, and everything it passed over more *)
(* than half a ring behind the writers.                                        *)
PassedOverOnlyWhenLapped ==
  started /\ wideCopy => \A t \in PassedOver :
    /\ posted - t > RingLength \div 2
    /\ \E u \in PassedOver : u <= t /\ posted - u > RingLength

(* A record posted less than a ring ago is in its slot once its writer is done *)
(* with it: only a writer that stalled for a whole lap (or died) can lose it.  *)
RecentIsFindable ==
  wideCopy => \A t \in FirstTicket .. posted - 1 :
    (posted - t <= RingLength /\ ~InFlight(t) /\ t \notin lapped \cup dead)
      => payload[SlotOf(t)] = t /\ recordIndex[SlotOf(t)] = IndexOf(t)

(* Every record posted after the host started is processed, or passed over by  *)
(* Catchup, as long as no writer died and none lost a newer record.            *)
EventuallyRead ==
  \A t \in Tickets :
    (t \in startTicket .. posted - 1)
      ~> (t \in Delivered \/ readTicket > t \/ dead # {} \/ lapped # {})

(* A hole (a dead or lapped writer's ticket) holds the reader up only until    *)
(* the writers are more than a ring past it.                                   *)
RecoversFromHole ==
  \A t \in Tickets :
    (t >= startTicket /\ posted > t + RingLength) ~> readTicket > t
-----------------------------------------------------------------------------
(* The strengthening of these promises that every step preserves once there was a *)
(* first record (FirstTicket > 0).  All tickets in use are near each other, so    *)
(* that neither the slot nor the index of one can stand for another's.            *)

Recent   == {t \in 0 .. posted - 1 : t >= FirstTicket - RingLength}
RangeInv == /\ FirstTicket <= posted /\ FirstTicket <= startTicket
            /\ \A w \in Writers :
                 /\ writer[w].pc # "idle" => writer[w].ticket \in FirstTicket .. posted - 1
                 /\ wideCopy => writer[w].pc # "half"

\* What a slot holds: a page's zeroes, in all slots but the one where a zero would be an
\* index, or a record's index and, with 16-byte access, the rest of that record.
Holds(s, t) == t \in Recent /\ SlotOf(t) = s /\ recordIndex[s] = IndexOf(t)
Fresh(s)    == s # 0 /\ recordIndex[s] = 0
SlotInv ==
  \A s \in Slots :
    /\ Fresh(s) \/ \E t \in Recent : Holds(s, t)
    /\ wideCopy => (payload[s] = Zeroed /\ Fresh(s)) \/ Holds(s, payload[s])

ReadInv ==
  /\ ~started => delivered = <<>>
  /\ started => readTicket \in startTicket .. posted /\ IndexOf(readTicket) = reader.readIndex
  /\ wideCopy => reader.pc # "copyHigh"

DeliveryInv ==
  started /\ wideCopy => \A i \in DOMAIN delivered :
    delivered[i].ticket \in startTicket .. readTicket - 1

IInv == /\ TypeOK /\ RangeInv /\ SlotInv /\ ReadInv /\ DeliveryInv
        /\ InOrderOnce /\ PassedOverOnlyWhenLapped

\* The halves of a slot, of records u and t: what has kept them from being of the same one.
Paired(u, t) == u = t \/ InFlight(u) \/ {u, t} \cap (lapped \cup dead) # {}
HalvesInv ==
  /\ \A s \in Slots : payload[s] = Zeroed \/ (payload[s] \in Recent /\ SlotOf(payload[s]) = s)
  /\ \A s \in Slots : Fresh(s) \/ \E t \in Recent : Holds(s, t) /\ Paired(payload[s], t)
  /\ \A w, v \in Writers : writer[w].pc # "idle" /\ writer[v].pc # "idle"
                             /\ writer[w].ticket = writer[v].ticket => w = v
  \* Between the halves of a store the slot has the first one, unless another went over it.
  /\ \A w \in Writers : LET t == writer[w].ticket
                         IN  writer[w].pc = "half" => t \in lapped \/ payload[SlotOf(t)] >= t
WholeInv == IInv /\ HalvesInv
=============================================================================
