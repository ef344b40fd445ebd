-------------------------- MODULE PlacementProofs --------------------------
(***************************************************************************)
(* Round robin placement for any number of components and cores.           *)
(*                                                                         *)
(* RoundRobin is about the sequence of the cores that were given; it is    *)
(* preserved because of what lastUsedCore is meanwhile: between placements *)
(* the last core given, and in the middle of one its successor, before it  *)
(* is compared with the number of cores.  With small heaps only the owner  *)
(* of thread_lock is in the middle of a placement.  Without them           *)
(* lastUsedCore can be anything from 0 on once it has been written, and    *)
(* only the comparison keeps the result on an existing core.               *)
(***************************************************************************)
EXTENDS Placement, TLAPS

Placing == {"place", "increment", "newCore", "wrap"}

(* The core given last. *)
LastPlaced == IF placed = <<>> THEN -1 ELSE placed[Len(placed)]

Types ==
  /\ small_heaps \in BOOLEAN
  /\ AFFINITY_ALGO \in 0 .. 2
  /\ thread_lock \in Creators \cup {Nobody}
  /\ where \in [Creators -> {"none", "made", "create", "gate", "run"} \cup Placing]
  /\ child \in [Creators -> Components \cup {Nobody}]
  /\ core \in [Creators -> Int]
  /\ lastUsedCore \in Int
  /\ placed \in Seq(AllCores)

(* A component that has no thread yet is being created by one thread.       *)
Parents ==
  \A t \in Creators : where[t] = "create" =>
    /\ child[t] \in Components
    /\ where[child[t]] = "made"
    /\ \A u \in Creators : where[u] = "create" /\ child[u] = child[t] => u = t

(* What holds in any build. *)
Counted ==
  /\ lastUsedCore >= -1
  /\ \A t \in Creators :
       /\ where[t] = "newCore" => lastUsedCore >= 0
       /\ where[t] \in {"increment", "wrap"} => core[t] >= 0

(* What holds if creators take the lock. *)
Locked ==
  \A t \in Creators : where[t] \in Placing => thread_lock = t

Tracked ==
  /\ (\A t \in Creators : where[t] \notin {"newCore", "wrap"}) =>
       lastUsedCore = LastPlaced
  /\ \A t \in Creators :
       /\ where[t] = "increment" => core[t] = LastPlaced + 1
       /\ where[t] \in {"newCore", "wrap"} => lastUsedCore = LastPlaced + 1
       /\ where[t] = "wrap" => core[t] = lastUsedCore

Dealt ==
  \A i \in DOMAIN placed : placed[i] = IF i = 1 THEN 0 ELSE After(placed[i - 1])

PlacementInv ==
  /\ Types
  /\ Parents
  /\ Counted
  /\ small_heaps => Locked /\ Tracked /\ Dealt

-----------------------------------------------------------------------------
(* The initial states satisfy the invariant. *)
LEMMA PlacementStarts == PlacementInit => PlacementInv
<1> SUFFICES ASSUME PlacementInit PROVE PlacementInv
  OBVIOUS
<1> USE PlacementAssumption DEF PlacementInit, Placing, Creators
<1>1. Types
  BY DEF Types
<1>2. Parents
  BY DEF Parents
<1>a. /\ lastUsedCore = -1
      /\ placed = <<>>
      /\ \A t \in Creators : where[t] \in {"run", "none"}
  OBVIOUS
<1> HIDE DEF PlacementInit
<1>3. Counted
  BY <1>a DEF Counted
<1>4. Locked /\ Tracked /\ Dealt
  <2>1. Locked
    BY <1>a DEF Locked
  <2>2. LastPlaced = -1
    BY <1>a DEF LastPlaced
  <2>3. Tracked
    BY <1>a, <2>2 DEF Tracked
  <2>4. Dealt
    BY <1>a DEF Dealt
  <2>5. QED
    BY <2>1, <2>3, <2>4
<1>5. QED
  BY <1>1, <1>2, <1>3, <1>4 DEF PlacementInv

(* A step that leaves lastUsedCore, the cores given and every core in use   *)
(* alone, and brings nobody past "place", preserves what is said of them.   *)
LEMMA PlacementElsewhere ==
  ASSUME PlacementInv,
         UNCHANGED <<small_heaps, lastUsedCore, placed>>,
         \A t \in Creators :
           \/ where'[t] = where[t] /\ core'[t] = core[t]
           \/ /\ where'[t] \notin {"increment", "newCore", "wrap"}
              /\ where[t] \notin {"increment", "newCore", "wrap"}
  PROVE  Counted' /\ (small_heaps => Tracked' /\ Dealt')
<1>1. Counted'
  BY DEF PlacementInv, Counted
<1>2. LastPlaced' = LastPlaced
  BY DEF LastPlaced
<1>3. ASSUME small_heaps PROVE Dealt'
  BY <1>3 DEF PlacementInv, Dealt, After
<1>4. ASSUME small_heaps PROVE Tracked'
  <2>1. Tracked
    BY <1>4 DEF PlacementInv
  <2>2. (\A t \in Creators : where'[t] \notin {"newCore", "wrap"})
          => (\A t \in Creators : where[t] \notin {"newCore", "wrap"})
    OBVIOUS
  <2>3. QED
    BY <1>2, <2>1, <2>2 DEF Tracked
<1>5. QED
  BY <1>1, <1>3, <1>4

(* While a thread is in the middle of a placement under the lock, no other  *)
(* thread is.                                                               *)
LEMMA OnePlaces ==
  ASSUME Locked, NEW t \in Creators, where[t] \in Placing,
         NEW u \in Creators, where[u] \in Placing
  PROVE  u = t
  BY DEF Locked

(* Every step preserves the invariant. *)
LEMMA PlacementPreserved ==
  PlacementInv /\ [PlacementNext]_placementVars => PlacementInv'
<1> SUFFICES ASSUME PlacementInv, [PlacementNext]_placementVars
             PROVE  PlacementInv'
  OBVIOUS
<1> USE PlacementAssumption DEF Creators, build
<1>a. Types /\ Parents /\ Counted
  BY DEF PlacementInv
<1>b. ASSUME small_heaps PROVE Locked /\ Tracked /\ Dealt
  BY <1>b DEF PlacementInv
<1>1. ASSUME NEW t \in Creators, NEW c \in Components,
             NEW k \in CoresAsked \cup {-1}, CreateOn(t, c, k)
      PROVE  PlacementInv'
  <2>1. Types'
    BY <1>1, <1>a DEF Types, CreateOn, CoresAsked
  <2>2. Parents'
    BY ZenonT(30), <1>1, <1>a DEF Types, Parents, CreateOn
  <2>3. Counted' /\ (small_heaps => Tracked' /\ Dealt')
    BY <1>1, <1>a, PlacementElsewhere DEF Types, CreateOn
  <2>4. ASSUME small_heaps PROVE Locked'
    BY <1>1, <1>a, <1>b, <2>4 DEF Types, CreateOn, Locked, Placing
  <2>5. QED
    BY <1>1, <2>1, <2>2, <2>3, <2>4 DEF PlacementInv, CreateOn
<1>2. ASSUME NEW t \in Creators, SpawnThread(t)
      PROVE  PlacementInv'
  <2>0. /\ child[t] \in Components
        /\ where[child[t]] = "made"
        /\ child[t] # t
    BY <1>2, <1>a DEF Parents, SpawnThread
  <2>1. Types'
    BY <1>2, <1>a, <2>0 DEF Types, SpawnThread, TakeLock, Placing
  <2>2. Parents'
    BY <1>2, <1>a, <2>0 DEF Types, Parents, SpawnThread
  <2>3. Counted' /\ (small_heaps => Tracked' /\ Dealt')
    BY <1>2, <1>a, <2>0, PlacementElsewhere DEF Types, SpawnThread
  <2>4. ASSUME small_heaps PROVE Locked'
    BY <1>2, <1>a, <1>b, <2>0, <2>4 DEF Types, SpawnThread, TakeLock, Locked, Placing
  <2>5. QED
    BY <1>2, <2>1, <2>2, <2>3, <2>4 DEF PlacementInv, SpawnThread
<1>3. ASSUME NEW c \in Components, EnterThread(c)
      PROVE  PlacementInv'
  <2>1. Types'
    BY <1>3, <1>a DEF Types, EnterThread
  <2>2. Parents'
    BY <1>3, <1>a DEF Types, Parents, EnterThread
  <2>3. Counted' /\ (small_heaps => Tracked' /\ Dealt')
    BY <1>3, <1>a, PlacementElsewhere DEF Types, EnterThread
  <2>4. ASSUME small_heaps PROVE Locked'
    BY <1>3, <1>a, <1>b, <2>4 DEF Types, EnterThread, Locked, Placing
  <2>5. QED
    BY <1>3, <2>1, <2>2, <2>3, <2>4 DEF PlacementInv, EnterThread
<1>4. ASSUME NEW t \in Creators, LeaveToSystem(t) \/ PlaceOnCore(t)
      PROVE  PlacementInv'
  <2>0. where[t] = "place" /\ where' = [where EXCEPT ![t] = "run"] /\ child' = child
    BY <1>4 DEF LeaveToSystem, PlaceOnCore, Created
  <2> USE DEF LeaveToSystem, PlaceOnCore, Created
  <2>1. Types'
    BY <1>4, <1>a DEF Types
  <2>2. Parents'
    <3> HIDE DEF LeaveToSystem, PlaceOnCore, Created
    <3>1. QED
      BY <1>a, <2>0 DEF Types, Parents
  <2>3. Counted' /\ (small_heaps => Tracked' /\ Dealt')
    BY <1>4, <1>a, <2>0, PlacementElsewhere DEF Types
  <2>4. ASSUME small_heaps PROVE Locked'
    BY <1>4, <1>a, <1>b, <2>0, <2>4 DEF Types, Locked, Placing
  <2>5. QED
    BY <1>4, <2>1, <2>2, <2>3, <2>4 DEF PlacementInv
<1>5. ASSUME NEW t \in Creators, ReadLast(t)
      PROVE  PlacementInv'
  <2> USE DEF ReadLast
  <2>1. Types'
    BY <1>5, <1>a DEF Types, Placing
  <2>2. Parents'
    BY <1>5, <1>a DEF Types, Parents
  <2>3. Counted'
    BY <1>5, <1>a DEF Types, Counted
  <2>4. ASSUME small_heaps PROVE Locked' /\ Tracked' /\ Dealt'
    <3>1. Locked'
      BY <1>5, <1>a, <1>b, <2>4 DEF Types, Locked, Placing
    <3>2. \A u \in Creators : where[u] \notin {"newCore", "wrap"}
      BY <1>5, <1>a, <1>b, <2>4, OnePlaces DEF Placing
    <3>3. LastPlaced' = LastPlaced
      BY <1>5 DEF LastPlaced
    <3>4. Tracked'
      BY <1>5, <1>a, <1>b, <2>4, <3>2, <3>3 DEF Types, Tracked
    <3>5. QED
      BY <1>5, <1>b, <2>4, <3>1, <3>4 DEF Dealt, After
  <2>5. QED
    BY <1>5, <2>1, <2>2, <2>3, <2>4 DEF PlacementInv
<1>6. ASSUME NEW t \in Creators, WriteLast(t)
      PROVE  PlacementInv'
  <2> USE DEF WriteLast
  <2>1. Types'
    BY <1>6, <1>a DEF Types, Placing
  <2>2. Parents'
    BY <1>6, <1>a DEF Types, Parents
  <2>3. Counted'
    BY <1>6, <1>a DEF Types, Counted
  <2>4. ASSUME small_heaps PROVE Locked' /\ Tracked' /\ Dealt'
    <3>1. Locked'
      BY <1>6, <1>a, <1>b, <2>4 DEF Types, Locked, Placing
    <3>2. \A u \in Creators \ {t} : where[u] \notin Placing
      BY <1>6, <1>a, <1>b, <2>4, OnePlaces DEF Placing
    <3>3. LastPlaced' = LastPlaced
      BY <1>6 DEF LastPlaced
    <3>4. Tracked'
      BY <1>6, <1>a, <1>b, <2>4, <3>2, <3>3 DEF Types, Tracked, Placing
    <3>5. QED
      BY <1>6, <1>b, <2>4, <3>1, <3>4 DEF Dealt, After
  <2>5. QED
    BY <1>6, <2>1, <2>2, <2>3, <2>4 DEF PlacementInv
<1>7. ASSUME NEW t \in Creators, ReadNew(t)
      PROVE  PlacementInv'
  <2> USE DEF ReadNew
  <2>1. Types'
    BY <1>7, <1>a DEF Types, Placing
  <2>2. Parents'
    BY <1>7, <1>a DEF Types, Parents
  <2>3. Counted'
    BY <1>7, <1>a DEF Types, Counted
  <2>4. ASSUME small_heaps PROVE Locked' /\ Tracked' /\ Dealt'
    <3>1. Locked'
      BY <1>7, <1>a, <1>b, <2>4 DEF Types, Locked, Placing
    <3>3. LastPlaced' = LastPlaced
      BY <1>7 DEF LastPlaced
    <3>4. Tracked'
      BY <1>7, <1>a, <1>b, <2>4, <3>3 DEF Types, Tracked
    <3>5. QED
      BY <1>7, <1>b, <2>4, <3>1, <3>4 DEF Dealt, After
  <2>5. QED
    BY <1>7, <2>1, <2>2, <2>3, <2>4 DEF PlacementInv
<1>8. ASSUME NEW t \in Creators, PlaceRoundRobin(t)
      PROVE  PlacementInv'
  <2> DEFINE k == IF core[t] >= Cores THEN 0 ELSE core[t]
  <2> USE DEF PlaceRoundRobin, Created, LastAfter
  <2>0. k \in AllCores /\ placed' = Append(placed, k)
    BY <1>8, <1>a DEF Types, Counted, AllCores
  <2>1. Types'
    BY <1>8, <1>a, <2>0 DEF Types
  <2>2. Parents'
    BY <1>8, <1>a DEF Types, Parents
  <2>3. Counted'
    BY <1>8, <1>a DEF Types, Counted
  <2>4. ASSUME small_heaps PROVE Locked' /\ Tracked' /\ Dealt'
    <3>1. Locked'
      BY <1>8, <1>a, <1>b, <2>4 DEF Types, Locked, Placing
    <3>2. \A u \in Creators \ {t} : where[u] \notin Placing
      BY <1>8, <1>a, <1>b, <2>4, OnePlaces DEF Placing
    <3>3. core[t] = lastUsedCore /\ lastUsedCore = LastPlaced + 1
      BY <1>8, <1>b, <2>4 DEF Tracked
    <3>4. lastUsedCore' = k /\ LastPlaced' = k
      BY <1>8, <1>a, <2>0, <3>3 DEF Types, LastPlaced
    <3>5. Tracked'
      BY <1>8, <1>a, <3>2, <3>4 DEF Types, Tracked, Placing
    <3>6. k = IF placed = <<>> THEN 0 ELSE After(placed[Len(placed)])
      BY <1>a, <3>3 DEF LastPlaced, After, Types, AllCores
    <3>7. Dealt'
      BY <1>a, <1>b, <2>0, <2>4, <3>6 DEF Dealt, Types, After
    <3>8. QED
      BY <3>1, <3>5, <3>7
  <2>5. QED
    BY <1>8, <2>1, <2>2, <2>3, <2>4 DEF PlacementInv
<1>9. ASSUME NEW t \in Creators, NEW k \in CoresAsked, setCore(t, k)
      PROVE  PlacementInv'
  BY <1>9, <1>a, <1>b, PlacementElsewhere
  DEF setCore, PlacementInv, Types, Parents, Locked
<1>10. CASE UNCHANGED placementVars
  BY <1>10, <1>a, <1>b, PlacementElsewhere
  DEF placementVars, PlacementInv, Types, Parents, Locked
<1>11. QED
  BY <1>1, <1>2, <1>3, <1>4, <1>5, <1>6, <1>7, <1>8, <1>9, <1>10
  DEF PlacementNext, PlaceStep

(* In every state. *)
THEOREM PlacementInvariance == PlacementSpec => []PlacementInv
  BY PlacementStarts, PlacementPreserved, PTL DEF PlacementSpec

(* RoundRobin, for any number of components, creators and cores.            *)
THEOREM CoresInTurn == PlacementSpec => []RoundRobin
<1>1. ASSUME PlacementInv PROVE RoundRobin
  <2>1. \A i \in DOMAIN placed : placed[i] \in AllCores
    BY <1>1 DEF PlacementInv, Types
  <2>2. small_heaps => Dealt
    BY <1>1 DEF PlacementInv
  <2>3. QED
    BY <2>1, <2>2 DEF Dealt, RoundRobin
<1>2. QED
  BY <1>1, PlacementInvariance, PTL
=============================================================================
