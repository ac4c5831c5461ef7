------------------------ MODULE SharedSection_proofs ------------------------
(***************************************************************************)
(* For every set of processes, every number of loads, with and without     *)
(* crashes: one process at a time chooses the GUID, the GUID is stable     *)
(* while anybody may read it, and all mapped processes share one ring.     *)
(***************************************************************************)
EXTENDS SharedSection, TLAPS

LEMMA InitIInv == Init => IInv
  BY SectionAssumption
  DEF Init, IInv, TypeOK, LockInv, GuidInv, HookInv, CreateExclusive, Critical, Creating, Past, Whole,
      NoRing, NoGuid, IDLE, LOCKING, COMPLETE

(* Every step of a process leaves the invariant true. *)
LEMMA NextIInv == IInv /\ [Next]_vars => IInv'
<1> SUFFICES ASSUME IInv, [Next]_vars PROVE IInv'
  OBVIOUS
<1> USE SectionAssumption
        DEF IInv, TypeOK, LockInv, GuidInv, HookInv, CreateExclusive, Critical, Creating, Past, Whole,
            NoRing, NoGuid, IDLE, LOCKING, COMPLETE, Move
<1>1. ASSUME NEW p \in Processes, Load(p) PROVE IInv'
  BY <1>1 DEF Load
<1>2. ASSUME NEW p \in Processes, CheckLock(p) PROVE IInv'
  BY <1>2 DEF CheckLock
<1>3. ASSUME NEW p \in Processes, Acquire(p) PROVE IInv'
  BY <1>3 DEF Acquire
<1>4. ASSUME NEW p \in Processes, CreateGuid(p) PROVE IInv'
  BY <1>4 DEF CreateGuid
<1>5. ASSUME NEW p \in Processes, CreateGuidHigh(p) PROVE IInv'
  BY <1>5 DEF CreateGuidHigh
<1>6. ASSUME NEW p \in Processes, Publish(p) PROVE IInv'
  BY <1>6 DEF Publish
<1>7. ASSUME NEW p \in Processes, MapRing(p) PROVE IInv'
  BY <1>7 DEF MapRing
<1>8. ASSUME NEW p \in Processes, MapFails(p) PROVE IInv'
  BY <1>8 DEF MapFails
<1>9. ASSUME NEW p \in Processes, InstallHooks(p) \/ InstallFails(p) PROVE IInv'
  <2>1. CASE InstallHooks(p)
    BY <2>1 DEF InstallHooks
  <2>2. CASE InstallFails(p)
    BY <2>2 DEF InstallFails
  <2> QED BY <1>9, <2>1, <2>2
<1>10. ASSUME NEW p \in Processes, Unload(p) PROVE IInv'
  <2>1. CASE Move(p, "traced", "unhook")
    BY <1>10, <2>1 DEF Unload
  <2>2. CASE Move(p, "untraced", "leave")
    BY <1>10, <2>2 DEF Unload
  <2> QED BY <1>10, <2>1, <2>2 DEF Unload
<1>11. ASSUME NEW p \in Processes, UninstallHooks(p) \/ UninstallFails(p) PROVE IInv'
  <2>1. CASE UninstallHooks(p)
    BY <2>1 DEF UninstallHooks
  <2>2. CASE UninstallFails(p)
    BY <2>2 DEF UninstallFails
  <2> QED BY <1>11, <2>1, <2>2
<1>12. ASSUME NEW p \in Processes, Leave(p) \/ Crash(p) PROVE IInv'
  <2>1. /\ pc' = [pc EXCEPT ![p] = "out"] /\ ring' = [ring EXCEPT ![p] = NoRing]
        /\ generated' = generated /\ loads' = loads
    BY <1>12 DEF Leave, Crash, Release
  <2>2. /\ hooked' \in [Processes -> BOOLEAN]
        /\ \A q \in Processes \ {p} : hooked'[q] = hooked[q]
    BY <1>12 DEF Leave, Crash
  <2>3. CASE \A q \in Processes \ {p} : pc[q] = "out"
    <3>1. lock' = IDLE /\ guidLow' = NoGuid /\ guidHigh' = NoGuid
      BY <1>12, <2>3 DEF Leave, Crash, Release
    <3>2. \A q \in Processes : pc'[q] = "out" /\ ring'[q] = NoRing
      BY <2>1, <2>3
    <3>3. TypeOK'
      BY <2>1, <2>2, <3>1
    <3>4. LockInv' /\ GuidInv'
      BY <3>1, <3>2
    <3>5. HookInv'
      BY <3>2
    <3> QED BY <3>3, <3>4, <3>5
  <2>4. CASE ~ \A q \in Processes \ {p} : pc[q] = "out"
    <3>1. lock' = lock /\ guidLow' = guidLow /\ guidHigh' = guidHigh
      BY <1>12, <2>4 DEF Leave, Crash, Release
    <3>2. /\ pc'[p] = "out" /\ ring'[p] = NoRing
          /\ \A q \in Processes \ {p} : pc'[q] = pc[q] /\ ring'[q] = ring[q]
      BY <2>1
    <3>3. TypeOK'
      BY <2>1, <2>2, <3>1
    <3>4. LockInv'
      BY <3>1, <3>2
    <3>5. GuidInv'
      BY <2>1, <3>1, <3>2
    <3>6. HookInv'
      BY <2>2, <3>2
    <3> QED BY <3>3, <3>4, <3>5, <3>6
  <2> QED BY <2>3, <2>4
<1>13. CASE UNCHANGED vars
  BY <1>13 DEF vars
<1> QED
  BY <1>1, <1>2, <1>3, <1>4, <1>5, <1>6, <1>7, <1>8, <1>9, <1>10, <1>11, <1>12, <1>13
  DEF Next, Initialize, Uninitialize

(* All variables keep their types. *)
THEOREM TypeCorrect == Spec => []TypeOK
<1>1. IInv => TypeOK
  BY DEF IInv
<1> QED BY InitIInv, NextIInv, <1>1, PTL DEF Spec

(* The lock of Initialize is a lock: two processes never generate or publish *)
(* a GUID at the same time.                                                  *)
THEOREM GuidCreationExclusive == Spec => []CreateExclusive
<1>1. IInv => CreateExclusive
  BY DEF IInv, LockInv
<1> QED BY InitIInv, NextIInv, <1>1, PTL DEF Spec

(* Any two processes that have mapped a ring have mapped the same one, and a process *)
(* with hooks in place has mapped it until it comes to Uninitialize.                 *)
THEOREM AllShareOneRing == Spec => []SameRing
<1>1. IInv => SameRing
  BY DEF IInv, GuidInv, HookInv, SameRing, Past, Whole, NoRing, NoGuid
<1> QED BY InitIInv, NextIInv, <1>1, PTL DEF Spec

(* Nobody who may read the GUID sees it change. *)
THEOREM GuidNeverChangesUnderReaders == Spec => GuidStable
<1> DEFINE Step ==
      \A p \in Processes :
        pc[p] \in Past \ {"publish"} /\ pc'[p] # "out"
          => guidLow' = guidLow /\ guidHigh' = guidHigh
<1>1. IInv /\ [Next]_vars => [Step]_vars
  <2> SUFFICES ASSUME IInv, Next, NEW r \in Processes,
                      pc[r] \in Past \ {"publish"}, pc'[r] # "out"
               PROVE  guidLow' = guidLow /\ guidHigh' = guidHigh
    OBVIOUS
  <2> PICK p \in Processes : Load(p) \/ Initialize(p) \/ Uninitialize(p) \/ Crash(p)
    BY DEF Next
  <2>1. CASE Load(p)
    BY <2>1 DEF Load
  <2>2. CASE CreateGuid(p) \/ CreateGuidHigh(p)
    BY <2>2 DEF CreateGuid, CreateGuidHigh, Move, IInv, GuidInv, Creating, Past
  <2>3. CASE CheckLock(p) \/ Acquire(p) \/ Publish(p)
    BY <2>3 DEF CheckLock, Acquire, Publish
  <2>4. CASE MapRing(p) \/ MapFails(p) \/ InstallHooks(p) \/ InstallFails(p)
    BY <2>4 DEF MapRing, MapFails, InstallHooks, InstallFails
  <2>5. CASE Unload(p) \/ UninstallHooks(p) \/ UninstallFails(p)
    BY <2>5 DEF Unload, UninstallHooks, UninstallFails
  <2>6. CASE Leave(p) \/ Crash(p)
    BY <2>6 DEF Leave, Crash, Release, IInv, TypeOK, Past
  <2> QED BY <2>1, <2>2, <2>3, <2>4, <2>5, <2>6 DEF Initialize, Uninitialize
<1> QED BY InitIInv, NextIInv, <1>1, PTL DEF Spec, GuidStable
=============================================================================
