---------------------------- MODULE SharedSection ----------------------------
(***************************************************************************)
(* How a process comes to be traced and ceases to be: Initialize, which    *)
(* chooses the GUID of the ring under SharedRecordMemoryLock, maps the     *)
(* section of that name and installs the hooks, and Uninitialize.          *)
(*                                                                         *)
(* Lock and GUID live in the DLL's shared data segment.  Windows creates   *)
(* the segment with its initial values when the first process loads the    *)
(* DLL and discards it with the last one.  A process may be terminated at  *)
(* any point; nobody then finishes its part of the protocol.               *)
(*                                                                         *)
(* The hooks of a process are in place or not: the other threads are       *)
(* suspended while they are put in and taken out, and each of them is      *)
(* written at once.                                                        *)
(***************************************************************************)
EXTENDS Naturals

CONSTANTS
  Processes,  \* processes the DLL is injected into
  MaxLoads    \* bound: times the DLL is loaded, over all processes

ASSUME SectionAssumption == MaxLoads \in Nat

IDLE     == 0   \* SPINLOCK_IDLE
LOCKING  == 1   \* SPINLOCK_LOCKING
COMPLETE == 2   \* SPINLOCK_COMPLETE

NoGuid == 0     \* the zeroed GUID; generated ones are numbered from 1

VARIABLES
  lock,      \* SharedRecordMemoryLock
  guidLow,   \* SharedRecordMemoryGuid, which is filled in
  guidHigh,  \*   piece by piece
  pc,        \* where each process is in Initialize
  ring,      \* the name of the section a process has mapped
  hooked,    \* the hooks of a process are in place
  generated, \* GUIDs generated so far
  loads      \* loads so far
vars == <<lock, guidLow, guidHigh, pc, ring, hooked, generated, loads>>

NoRing == <<NoGuid, NoGuid>>

Init ==
  /\ lock = IDLE /\ guidLow = NoGuid /\ guidHigh = NoGuid
  /\ pc = [p \in Processes |-> "out"]
  /\ ring = [p \in Processes |-> NoRing] /\ hooked = [p \in Processes |-> FALSE]
  /\ generated = 0 /\ loads = 0

Move(p, from, to) == pc[p] = from /\ pc' = [pc EXCEPT ![p] = to]

\* InjectToProcess starts LoadLibrary in the process; DLL_PROCESS_ATTACH.  A process
\* with hooks that outlived the DLL does not live to see it.
Load(p) ==
  /\ loads < MaxLoads /\ ~hooked[p] /\ Move(p, "out", "check")
  /\ loads' = loads + 1
  /\ UNCHANGED <<lock, guidLow, guidHigh, ring, hooked, generated>>

\* Definitions with the word Wrong are mutations: the mistake in the definition they
\* precede that the property named with them would reveal.

\* SameRing: take a held lock for a published one.
WrongCheckLock(p) ==
  /\ Move(p, "check", IF lock # IDLE THEN "map" ELSE "acquire")
  /\ UNCHANGED <<lock, guidLow, guidHigh, ring, hooked, generated, loads>>

CheckLock(p) ==     \* the load before the loop
  /\ Move(p, "check", IF lock = COMPLETE THEN "map" ELSE "acquire")
  /\ UNCHANGED <<lock, guidLow, guidHigh, ring, hooked, generated, loads>>

\* CreateExclusive: no retry when it was LOCKING; GuidStable: a new GUID although there is
\* a published one; EventuallyInitialized: a compare_exchange with IDLE.
WrongAcquireBarge(p) ==
  /\ lock' = LOCKING
  /\ Move(p, "acquire", IF lock = IDLE THEN "create" ELSE "publish")
  /\ UNCHANGED <<guidLow, guidHigh, ring, hooked, generated, loads>>
WrongAcquireRecreate(p) ==
  /\ lock # LOCKING /\ lock' = LOCKING
  /\ Move(p, "acquire", "create")
  /\ UNCHANGED <<guidLow, guidHigh, ring, hooked, generated, loads>>
WrongAcquireIdle(p) ==
  /\ lock = IDLE /\ lock' = LOCKING
  /\ Move(p, "acquire", "create")
  /\ UNCHANGED <<guidLow, guidHigh, ring, hooked, generated, loads>>

Acquire(p) ==       \* exchange(LOCKING); sleep and retry when it was LOCKING
  /\ lock # LOCKING
  /\ Move(p, "acquire", IF lock = IDLE THEN "create" ELSE "publish")
  /\ lock' = LOCKING
  /\ UNCHANGED <<guidLow, guidHigh, ring, hooked, generated, loads>>

CreateGuid(p) ==    \* UuidCreateSequential, up to the middle of the GUID
  /\ Move(p, "create", "createHigh")
  /\ generated' = generated + 1
  /\ guidLow' = generated + 1
  /\ UNCHANGED <<lock, guidHigh, ring, hooked, loads>>

CreateGuidHigh(p) ==
  /\ Move(p, "createHigh", "publish")
  /\ guidHigh' = generated
  /\ UNCHANGED <<lock, guidLow, ring, hooked, generated, loads>>

Publish(p) ==       \* store(COMPLETE)
  /\ Move(p, "publish", "map")
  /\ lock' = COMPLETE
  /\ UNCHANGED <<guidLow, guidHigh, ring, hooked, generated, loads>>

MapRing(p) ==       \* CreateFileMapping and MapViewOfFile under the GUID's name
  /\ Move(p, "map", "mapped")
  /\ ring' = [ring EXCEPT ![p] = <<guidLow, guidHigh>>]
  /\ UNCHANGED <<lock, guidLow, guidHigh, hooked, generated, loads>>

\* Initialize returns false, with or without a mapped ring.  DllMain returns TRUE all
\* the same and the DLL stays.
MapFails(p) ==
  /\ Move(p, "map", "untraced")
  /\ UNCHANGED <<lock, guidLow, guidHigh, ring, hooked, generated, loads>>
InstallFails(p) ==  \* no memory for the proxies, or the threads cannot be suspended
  /\ Move(p, "mapped", "untraced")
  /\ UNCHANGED <<lock, guidLow, guidHigh, ring, hooked, generated, loads>>

InstallHooks(p) ==
  /\ Move(p, "mapped", "traced")
  /\ hooked' = [hooked EXCEPT ![p] = TRUE]
  /\ UNCHANGED <<lock, guidLow, guidHigh, ring, generated, loads>>

\* Uninitialize, in DLL_PROCESS_DETACH: unmap the ring; then, if they were installed,
\* remove the hooks, for which the threads must be suspended again.
Unload(p) ==
  /\ \/ Move(p, "traced", "unhook")
     \/ Move(p, "untraced", "leave")
  /\ ring' = [ring EXCEPT ![p] = NoRing]
  /\ UNCHANGED <<lock, guidLow, guidHigh, hooked, generated, loads>>

UninstallHooks(p) ==
  /\ Move(p, "unhook", "leave")
  /\ hooked' = [hooked EXCEPT ![p] = FALSE]
  /\ UNCHANGED <<lock, guidLow, guidHigh, ring, generated, loads>>
UninstallFails(p) ==
  /\ Move(p, "unhook", "leave")
  /\ UNCHANGED <<lock, guidLow, guidHigh, ring, hooked, generated, loads>>

\* The process gives up its mapping of the shared data segment; the last one
\* takes the segment with it.
Release(p) ==
  /\ pc' = [pc EXCEPT ![p] = "out"]
  /\ ring' = [ring EXCEPT ![p] = NoRing]
  /\ IF \A q \in Processes \ {p} : pc[q] = "out"
     THEN lock' = IDLE /\ guidLow' = NoGuid /\ guidHigh' = NoGuid
     ELSE UNCHANGED <<lock, guidLow, guidHigh>>
  /\ UNCHANGED <<generated, loads>>

Leave(p) == pc[p] = "leave" /\ Release(p) /\ UNCHANGED hooked
Crash(p) == pc[p] # "out" /\ Release(p) /\ hooked' = [hooked EXCEPT ![p] = FALSE]  \* TerminateProcess

Initialize(p) == \/ CheckLock(p) \/ Acquire(p) \/ CreateGuid(p) \/ CreateGuidHigh(p)
                 \/ Publish(p) \/ MapRing(p) \/ MapFails(p) \/ InstallHooks(p) \/ InstallFails(p)
Uninitialize(p) == Unload(p) \/ UninstallHooks(p) \/ UninstallFails(p) \/ Leave(p)
Next == \E p \in Processes : Load(p) \/ Initialize(p) \/ Uninitialize(p) \/ Crash(p)

Spec     == Init /\ [][Next]_vars
FairSpec == Spec /\ \A p \in Processes : WF_vars(Initialize(p))

-----------------------------------------------------------------------------
Critical == {"create", "createHigh", "publish"}

TypeOK ==
  /\ lock \in {IDLE, LOCKING, COMPLETE}
  /\ guidLow \in Nat /\ guidHigh \in Nat
  /\ pc \in [Processes -> {"out", "check", "acquire", "create", "createHigh", "publish", "map",
                           "mapped", "traced", "untraced", "unhook", "leave"}]
  /\ ring \in [Processes -> Nat \X Nat] /\ hooked \in [Processes -> BOOLEAN]
  /\ generated \in Nat /\ loads \in Nat

(* One process at a time is between the exchange that returned IDLE or        *)
(* COMPLETE and its store of COMPLETE, although that exchange also turns an   *)
(* already published lock back to LOCKING.                                    *)
CreateExclusive ==
  \A p, q \in Processes : pc[p] \in Critical /\ pc[q] \in Critical => p = q

(* All processes that have mapped a ring have mapped the same one, under a    *)
(* whole GUID, and a process whose hooks are in place has mapped it to post   *)
(* to it, whatever the order in which they load, fail, unload and crash.      *)
(* Only in Uninitialize, and after it should the hooks stay, the ring goes    *)
(* first.                                                                     *)
SameRing ==
  /\ \A p, q \in Processes :
       ring[p] # NoRing /\ ring[q] # NoRing => ring[p] = ring[q] /\ ring[p][1] = ring[p][2]
  /\ \A p \in Processes :
       hooked[p] /\ pc[p] \notin {"unhook", "leave", "out"} => ring[p] # NoRing

\* What makes SameRing and CreateExclusive inductive: who may be where for each
\* value of the lock, and when the GUID is whole.
Creating == {"create", "createHigh"}
Past     == {"publish", "map", "mapped", "traced", "untraced", "unhook", "leave"}
Whole    == guidLow = guidHigh /\ guidLow # NoGuid

LockInv ==
  /\ \A p \in Processes : pc[p] \in Critical => lock = LOCKING
  /\ lock = IDLE => \A p \in Processes : pc[p] \notin Creating \cup Past
  /\ lock = COMPLETE => Whole
  /\ CreateExclusive
GuidInv ==
  /\ \A p, q \in Processes : pc[p] \in Creating => pc[q] \notin Past
  /\ \A p \in Processes : pc[p] = "createHigh" => guidLow = generated /\ generated # NoGuid
  /\ \A p \in Processes : pc[p] \in Past => Whole
  /\ \A p \in Processes :
       ring[p] # NoRing => ring[p] = <<guidLow, guidHigh>> /\ pc[p] \in {"mapped", "traced", "untraced"}
HookInv ==
  /\ \A p \in Processes : pc[p] \in {"mapped", "traced"} => ring[p] # NoRing
  /\ \A p \in Processes : hooked[p] => pc[p] \in {"traced", "unhook", "leave", "out"}
IInv == TypeOK /\ LockInv /\ GuidInv /\ HookInv

(* Once a process may read the GUID it stays as it is for as long as that     *)
(* process keeps the DLL loaded.                                              *)
GuidStable ==
  [][\A p \in Processes :
       pc[p] \in Past \ {"publish"} /\ pc'[p] # "out"
         => guidLow' = guidLow /\ guidHigh' = guidHigh]_vars

(* Whoever loads the DLL gets through Initialize, unless a process died while *)
(* it held the lock: nothing else leaves the lock LOCKING.                    *)
Orphaned == lock = LOCKING /\ \A p \in Processes : pc[p] \notin Critical
EventuallyInitialized ==
  \A p \in Processes :
    pc[p] = "check" ~> (pc[p] \in {"traced", "untraced", "out"} \/ Orphaned)
=============================================================================
