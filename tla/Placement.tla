----------------------------- MODULE Placement -----------------------------
(***************************************************************************)
(* Which core a component's thread runs on: affinity.c, the part of        *)
(* component_create that calls it, and setCore_proc.                       *)
(*                                                                         *)
(* With HEAPS a creator holds thread_lock from before pthread_create until *)
(* it has placed the new thread; without HEAPS it holds nothing, and two   *)
(* creators can be in receiveCoreIdForThread at once.  Each access to      *)
(* lastUsedCore is a step: ++ is a read and a write, and its value is read *)
(* again.  The rest of a component's life is in Lifecycle.                 *)
(***************************************************************************)
EXTENDS Integers, Sequences

CONSTANTS
  Components,
  Creator,      (* the main thread                                         *)
  Nobody,
  Cores         (* receiveNumberCores()                                    *)

ASSUME PlacementAssumption ==
  /\ Creator \notin Components
  /\ Nobody \notin Components \cup {Creator}
  /\ Cores \in Nat \ {0}

Creators == Components \cup {Creator}

VARIABLES
  small_heaps,  (* HEAPS                                                   *)
  AFFINITY_ALGO,
  thread_lock,  (* its owner                                               *)
  where,        (* where each thread is                                    *)
  child,        (* the component a thread is creating                      *)
  core,         (* the parameter core, then the local newCore              *)
  lastUsedCore,
  affinity,     (* the cores each thread may run on                        *)
  placed        (* history: the cores receiveCoreIdForThread returned      *)

placementVars == <<small_heaps, AFFINITY_ALGO, thread_lock, where, child, core,
                   lastUsedCore, affinity, placed>>
build == <<small_heaps, AFFINITY_ALGO>>

AllCores == 0 .. Cores - 1

(* setAffinityToCore *)
Pinned(c, k) ==
  affinity' = IF k >= Cores THEN affinity ELSE [affinity EXCEPT ![c] = {k}]

-----------------------------------------------------------------------------
(* component_create, with the core asked for or -1. *)
CreateOn(t, c, k) ==
  /\ where[t] = "run"
  /\ where[c] = "none"
  /\ child' = [child EXCEPT ![t] = c]
  /\ core' = [core EXCEPT ![t] = k]
  /\ where' = [where EXCEPT ![t] = "create", ![c] = "made"]
  /\ UNCHANGED <<build, thread_lock, lastUsedCore, affinity, placed>>

(* Mutant: the creator does not wait for the lock. *)
NoLock(t) == thread_lock' = t

TakeLock(t) ==
  IF small_heaps THEN thread_lock = Nobody /\ thread_lock' = t
  ELSE UNCHANGED thread_lock

(* pthread_create: a thread starts with the affinity of its creator.        *)
SpawnThread(t) ==
  /\ where[t] = "create"
  /\ TakeLock(t)
  /\ affinity' = [affinity EXCEPT ![child[t]] = affinity[t]]
  /\ where' = [where EXCEPT ![t] = "place", ![child[t]] = "gate"]
  /\ UNCHANGED <<build, child, core, lastUsedCore, placed>>

(* The new thread locks and unlocks thread_lock. *)
EnterThread(c) ==
  /\ where[c] = "gate"
  /\ thread_lock = Nobody
  /\ where' = [where EXCEPT ![c] = "run"]
  /\ UNCHANGED <<build, thread_lock, child, core, lastUsedCore, affinity, placed>>

(* The thread is placed: the creator gives up the lock. *)
Created(t) ==
  /\ where' = [where EXCEPT ![t] = "run"]
  /\ thread_lock' = IF thread_lock = t THEN Nobody ELSE thread_lock
  /\ UNCHANGED <<build, child>>

(* Affinity is left to the operating system, and core is not looked at.     *)
LeaveToSystem(t) ==
  /\ where[t] = "place"
  /\ AFFINITY_ALGO = 0
  /\ Created(t)
  /\ UNCHANGED <<core, lastUsedCore, affinity, placed>>

(* The core the caller passed, or the one of AFFINITY_ALGO 2. *)
PlaceOnCore(t) ==
  /\ where[t] = "place"
  /\ AFFINITY_ALGO # 0
  /\ core[t] # -1 \/ AFFINITY_ALGO = 2
  /\ Pinned(child[t], IF core[t] # -1 THEN core[t] ELSE 0)
  /\ Created(t)
  /\ UNCHANGED <<core, lastUsedCore, placed>>

-----------------------------------------------------------------------------
(* setAffinity with AFFINITY_ALGO 1: receiveCoreIdForThread *)

ReadLast(t) ==
  /\ where[t] = "place"
  /\ AFFINITY_ALGO = 1
  /\ core[t] = -1
  /\ core' = [core EXCEPT ![t] = lastUsedCore + 1]
  /\ where' = [where EXCEPT ![t] = "increment"]
  /\ UNCHANGED <<build, thread_lock, child, lastUsedCore, affinity, placed>>

WriteLast(t) ==
  /\ where[t] = "increment"
  /\ lastUsedCore' = core[t]
  /\ where' = [where EXCEPT ![t] = "newCore"]
  /\ UNCHANGED <<build, thread_lock, child, core, affinity, placed>>

ReadNew(t) ==
  /\ where[t] = "newCore"
  /\ core' = [core EXCEPT ![t] = lastUsedCore]
  /\ where' = [where EXCEPT ![t] = "wrap"]
  /\ UNCHANGED <<build, thread_lock, child, lastUsedCore, affinity, placed>>

LastAfter(k) == IF k >= Cores THEN 0 ELSE lastUsedCore

PlaceRoundRobin(t) ==
  /\ where[t] = "wrap"
  /\ LET k == IF core[t] >= Cores THEN 0 ELSE core[t]
     IN /\ placed' = Append(placed, k)
        /\ Pinned(child[t], k)
  /\ lastUsedCore' = LastAfter(core[t])
  /\ Created(t)
  /\ UNCHANGED core

(* setCore_proc, by the thread itself. *)
setCore(t, k) ==
  /\ where[t] = "run"
  /\ Pinned(t, k)
  /\ UNCHANGED <<build, thread_lock, where, child, core, lastUsedCore, placed>>

-----------------------------------------------------------------------------
PlacementInit ==
  /\ small_heaps \in BOOLEAN
  /\ AFFINITY_ALGO \in 0 .. 2
  /\ thread_lock = Nobody
  /\ where = [t \in Creators |-> IF t = Creator THEN "run" ELSE "none"]
  /\ child = [t \in Creators |-> Nobody]
  /\ core = [t \in Creators |-> -1]
  /\ lastUsedCore = -1
  /\ affinity = [t \in Creators |-> AllCores]
  /\ placed = <<>>

(* The last core, and the first that does not exist: the two sides of the   *)
(* comparison with the number of cores.                                     *)
CoresAsked == {Cores - 1, Cores}

PlaceStep(t) ==
  \/ SpawnThread(t) \/ LeaveToSystem(t) \/ PlaceOnCore(t)
  \/ ReadLast(t) \/ WriteLast(t) \/ ReadNew(t) \/ PlaceRoundRobin(t)

PlacementNext ==
  \/ \E t \in Creators :
       \/ PlaceStep(t)
       \/ \E c \in Components, k \in CoresAsked \cup {-1} : CreateOn(t, c, k)
       \/ \E k \in CoresAsked : setCore(t, k)
  \/ \E c \in Components : EnterThread(c)

PlacementSpec == PlacementInit /\ [][PlacementNext]_placementVars

-----------------------------------------------------------------------------
(* Properties *)

After(k) == IF k + 1 < Cores THEN k + 1 ELSE 0

(* Components for which no core is asked are dealt to the cores in turn,    *)
(* whoever creates them and whatever cores others ask for: with small heaps *)
(* no core is left out or taken twice.  Without them the creators race on   *)
(* lastUsedCore, and only this is left: the core exists, so that            *)
(* setAffinityToCore does not refuse it.                                    *)
RoundRobin ==
  /\ \A i \in DOMAIN placed : placed[i] \in AllCores
  /\ small_heaps =>
       \A i \in DOMAIN placed :
         placed[i] = IF i = 1 THEN 0 ELSE After(placed[i - 1])
=============================================================================
