--------------------------- MODULE LifecycleProofs ---------------------------
(***************************************************************************)
(* Proofs about Lifecycle, for any number of components created by any     *)
(* thread in any order.                                                    *)
(*                                                                         *)
(* main may read the end of threadList while components are still being    *)
(* created.  A component that is alive and not on the list is being        *)
(* created by a thread that is alive: by a component, then, that is itself *)
(* not on the list or not joined.  The creators cannot go round in a       *)
(* circle (Ranked), so when all on the list are joined nobody is left.     *)
(***************************************************************************)
EXTENDS Lifecycle, TLAPS, WellFoundedInduction, SequenceTheorems

(* The component is created and not yet on threadList. *)
Starting == {"lock", "spawn", "register", "unlock", "enlist"}

Gone == {"none", "joined"}

Listed == {threadList[k] : k \in DOMAIN threadList}

(* A thread in component_create has its own child, which starts when        *)
(* pthread_create is called and cannot be joined before it is listed.       *)
Creators ==
  /\ \A t \in Threads :
       pc[t] \in Starting \cup {"await"} => child[t] \in Components
  /\ \A t \in Threads : pc[t] \in {"lock", "spawn"} => pc[child[t]] = "made"
  /\ \A t \in Threads :
       pc[t] \in {"register", "unlock", "enlist"} =>
         pc[child[t]] \notin {"none", "made", "joined"}
  /\ \A t \in Threads : pc[t] \in Starting => child[t] \notin Listed
  /\ \A s, t \in Threads :
       pc[s] \in Starting /\ pc[t] \in Starting /\ child[s] = child[t] => s = t

(* Whoever is not on the list has a creator about to put it there.          *)
Created ==
  \A c \in Components :
    /\ c \in Listed => pc[c] \notin {"none", "made"}
    /\ pc[c] \notin Gone /\ c \notin Listed =>
         \E t \in Threads : pc[t] \in Starting /\ child[t] = c

(* What main has passed is joined. *)
Passed ==
  /\ pc[Main] = "join" => \A k \in 1..(cursor - 1) : pc[threadList[k]] = "joined"
  /\ pc[Main] = "next" => \A k \in 1..cursor : pc[threadList[k]] = "joined"

(* Nobody is created by those it created. *)
Ranked ==
  \E rank \in [Components -> Nat] :
    \A t \in Components : pc[t] \in Starting => rank[t] < rank[child[t]]

Inv == TypeOK /\ Creators /\ Created /\ Passed /\ Ranked /\ AllJoined

-----------------------------------------------------------------------------
(* A set of numbers has a least one.                                        *)
LEMMA Least ==
  ASSUME NEW S \in SUBSET Nat, S # {}
  PROVE  \E m \in S : \A n \in S : m <= n
<1>1. PICK m \in S : \A n \in S : ~(<<n, m>> \in OpToRel(<, Nat))
  BY NatLessThanWellFounded, WFMin
<1>2. \A n \in S : ~(n < m)
  BY <1>1 DEF OpToRel
<1>. QED  BY <1>2

(* When all that are on the list are joined, and main creates no component, *)
(* all components are joined.                                               *)
LEMMA NobodyLeft ==
  ASSUME Inv, pc[Main] \notin Starting,
         \A c \in Listed : pc[c] = "joined"
  PROVE  \A c \in Components : pc[c] \in Gone
<1>. SUFFICES ASSUME NEW c0 \in Components, pc[c0] \notin Gone
              PROVE  FALSE
  OBVIOUS
<1>1. PICK rank \in [Components -> Nat] :
        \A t \in Components : pc[t] \in Starting => rank[t] < rank[child[t]]
  BY DEF Inv, Ranked
<1>. DEFINE Left == {c \in Components : pc[c] \notin Gone}
            S == {rank[c] : c \in Left}
<1>2. S \in SUBSET Nat /\ S # {}
  BY <1>1
<1>3. PICK c \in Left : \A d \in Left : rank[c] <= rank[d]
  <2>. HIDE DEF S
  <2>1. PICK m \in S : \A n \in S : m <= n
    BY <1>2, Least
  <2>. QED  BY <2>1 DEF S
<1>4. PICK t \in Threads : pc[t] \in Starting /\ child[t] = c
  <2>1. c \notin Listed
    BY DEF Gone
  <2>. QED  BY <2>1 DEF Inv, Created
<1>5. t \in Components /\ t \in Left
  BY <1>4 DEF Threads, Starting, Gone
<1>. QED  BY <1>1, <1>3, <1>4, <1>5

-----------------------------------------------------------------------------
(* Steps *)

(* The states of a thread, and those of main while it joins. *)
Labels ==
  {"none", "made", "gate", "gated", "primordial", "run", "lock", "spawn",
   "register", "unlock", "enlist", "await", "ended", "joined", "join", "next",
   "destroy", "returned"}

(* What main has passed stays joined while main does not move.              *)
LEMMA PassedKept ==
  ASSUME TypeOK, Passed, cursor' = cursor,
         pc'[Main] \in {"join", "next"} => pc'[Main] = pc[Main],
         \A k \in DOMAIN threadList : threadList'[k] = threadList[k],
         \A u \in Components : pc[u] = "joined" => pc'[u] = "joined"
  PROVE  Passed'
<1>1. pc'[Main] \in {"join", "next"} => cursor \in 1..Len(threadList)
  BY DEF TypeOK
<1>2. \A k \in 1..Len(threadList) : threadList[k] \in Components
  BY DEF TypeOK
<1>3. Len(threadList) \in Nat /\ cursor \in Nat /\ DOMAIN threadList = 1..Len(threadList)
  BY DEF TypeOK
<1>4. pc'[Main] \in {"join", "next"} =>
        \A k \in 1..cursor : k \in 1..Len(threadList) /\ threadList'[k] = threadList[k]
  BY <1>1, <1>3
<1>. QED  BY <1>1, <1>2, <1>3, <1>4 DEF Passed

(* Allocating a component's struct keeps the invariant: the new component   *)
(* comes after its creator in the rank.                                     *)
LEMMA CreateStepInv ==
  ASSUME Inv, Alive, NEW t \in Threads, NEW c \in Components, Create(t, c)
  PROVE  Inv'
<1>1. /\ pc \in [Threads -> Labels] /\ child \in [Threads -> Components \cup {None}]
      /\ t \in Threads /\ c \in Threads /\ pc[t] \in {"primordial", "run"}
      /\ pc[c] = "none" /\ c # t
  BY DEF Inv, TypeOK, Labels, Create, Program, Threads
<1>2. PICK s \in {"lock", "spawn"} : pc' = [pc EXCEPT ![c] = "made", ![t] = s]
  BY DEF Create
<1>3. /\ child' = [child EXCEPT ![t] = c]
      /\ UNCHANGED <<heaps, id, create_sem, stopped, thread_lock, threadList, SHList, cursor>>
  BY DEF Create, perComponent, lists
<1>4. /\ pc'[t] = s /\ pc'[c] = "made" /\ child'[t] = c
      /\ \A u \in Threads \ {t, c} : pc'[u] = pc[u]
      /\ \A u \in Threads \ {t} : child'[u] = child[u]
  BY <1>1, <1>2, <1>3
<1>5. Listed' = Listed /\ c \notin Listed
  BY <1>1, <1>3 DEF Listed, Inv, Created
<1>6. \A u \in Threads : pc[u] \in Starting \cup {"await"} =>
        child[u] \in Components /\ (pc[u] \in Starting => child[u] # c)
  BY <1>1 DEF Inv, Creators, Starting
<1>7. TypeOK'
  <2>1. pc' \in [Threads -> Labels]
    BY <1>1, <1>2 DEF Labels
  <2>2. pc'[Main] \in {"join", "next"} => pc[Main] = pc'[Main]
    BY <1>2, <1>4, LifecycleAssumption DEF Threads
  <2>. QED  BY <1>1, <1>3, <2>1, <2>2 DEF Inv, TypeOK, Labels
<1>8. Creators'
  <2>1. \A u \in Threads : pc'[u] \in Starting \cup {"await"} => child'[u] \in Components
    BY <1>3, <1>4, <1>6 DEF Starting
  <2>2. \A u \in Threads : pc'[u] \in {"lock", "spawn"} => pc'[child'[u]] = "made"
    BY <1>1, <1>4, <1>6 DEF Inv, Creators, Starting, Threads
  <2>3. \A u \in Threads : pc'[u] \in {"register", "unlock", "enlist"} =>
          pc'[child'[u]] \notin {"none", "made", "joined"}
    BY <1>1, <1>2, <1>4, <1>6 DEF Inv, Creators, Starting, Threads
  <2>4. \A u \in Threads : pc'[u] \in Starting => child'[u] \notin Listed'
    BY <1>4, <1>5 DEF Inv, Creators, Starting
  <2>5. \A u, v \in Threads :
          pc'[u] \in Starting /\ pc'[v] \in Starting /\ child'[u] = child'[v] => u = v
    BY <1>4, <1>6 DEF Inv, Creators, Starting
  <2>. QED  BY <2>1, <2>2, <2>3, <2>4, <2>5 DEF Creators
<1>9. Created'
  <2>. SUFFICES ASSUME NEW d \in Components
                PROVE  /\ d \in Listed => pc'[d] \notin {"none", "made"}
                       /\ pc'[d] \notin Gone /\ d \notin Listed =>
                            \E u \in Threads : pc'[u] \in Starting /\ child'[u] = d
    BY <1>5 DEF Created
  <2>1. d \in Listed => pc'[d] \notin {"none", "made"}
    BY <1>2, <1>4, <1>5 DEF Inv, Created, Threads
  <2>2. ASSUME pc'[d] \notin Gone, d \notin Listed, d # c
        PROVE  \E u \in Threads : pc'[u] \in Starting /\ child'[u] = d
    <3>1. pc[d] \notin Gone
      BY <1>1, <1>4, <2>2 DEF Gone, Threads
    <3>2. PICK u \in Threads : pc[u] \in Starting /\ child[u] = d
      BY <2>2, <3>1 DEF Inv, Created
    <3>3. u # t /\ u # c
      BY <1>1, <3>2 DEF Starting
    <3>. QED  BY <1>4, <3>2, <3>3
  <2>. QED  BY <1>4, <2>1, <2>2 DEF Starting
<1>10. Passed'
  <2>1. \A u \in Components : pc[u] = "joined" => pc'[u] = "joined"
    BY <1>1, <1>4 DEF Threads
  <2>2. pc'[Main] \in {"join", "next"} => pc'[Main] = pc[Main]
    BY <1>2, <1>4, LifecycleAssumption DEF Threads
  <2>. QED  BY <1>3, <2>1, <2>2, PassedKept DEF Inv
<1>11. Ranked'
  <2>1. PICK rank \in [Components -> Nat] :
          \A u \in Components : pc[u] \in Starting => rank[u] < rank[child[u]]
    BY DEF Inv, Ranked
  <2>. DEFINE new == [rank EXCEPT ![c] = IF t \in Components THEN rank[t] + 1 ELSE 0]
  <2>2. new \in [Components -> Nat]
    BY <2>1
  <2>3. ASSUME NEW u \in Components, pc'[u] \in Starting
        PROVE  new[u] < new[child'[u]]
    <3>1. CASE u = t
      BY <1>1, <1>4, <2>1, <3>1
    <3>2. CASE u # t
      <4>1. u # c
        BY <1>4, <2>3 DEF Starting
      <4>2. pc[u] \in Starting /\ child'[u] = child[u] /\ child[u] # c
            /\ child[u] \in Components
        BY <1>4, <1>6, <2>3, <3>2, <4>1 DEF Threads
      <4>. QED  BY <2>1, <4>1, <4>2
    <3>. QED  BY <3>1, <3>2
  <2>. HIDE DEF new
  <2>. QED  BY <2>2, <2>3 DEF Ranked
<1>12. AllJoined'
  BY <1>1, <1>2, <1>4, LifecycleAssumption DEF Inv, AllJoined, Threads
<1>. QED  BY <1>7, <1>8, <1>9, <1>10, <1>11, <1>12 DEF Inv

(* Steps that move no thread and leave threadList alone keep the invariant. *)
LEMMA StillInv ==
  ASSUME Inv, TypeOK', UNCHANGED <<pc, child, threadList, cursor>>
  PROVE  Inv'
<1>1. Listed' = Listed
  BY DEF Listed
<1>. QED  BY <1>1 DEF Inv, Creators, Created, Passed, Ranked, AllJoined

(* So does a thread that moves on inside component_create, startRoutine or  *)
(* its behaviour.                                                           *)
LEMMA MoveInv ==
  ASSUME Inv, TypeOK', UNCHANGED <<child, threadList, cursor>>,
         NEW u \in Threads, NEW b, pc' = [pc EXCEPT ![u] = b],
         \/ pc[u] = "lock" /\ b = "spawn"
         \/ pc[u] \in {"register", "unlock"} /\ b \in {"unlock", "enlist"}
         \/ pc[u] \in {"gate", "gated", "run"} /\ b \in {"gated", "run", "ended"}
  PROVE  Inv'
<1>1. /\ pc \in [Threads -> Labels]
      /\ pc[u] \notin {"none", "made", "joined", "join", "next", "destroy", "returned"}
      /\ b \notin {"none", "made", "joined", "join", "next", "destroy", "returned"}
      /\ pc[u] \in {"lock", "spawn"} <=> b \in {"lock", "spawn"}
      /\ pc[u] \in {"register", "unlock", "enlist"} <=> b \in {"register", "unlock", "enlist"}
      /\ b # "await"
      /\ pc[u] \in Starting <=> b \in Starting
  BY DEF Inv, TypeOK, Labels, Starting
<1>2. pc'[u] = b /\ \A v \in Threads \ {u} : pc'[v] = pc[v]
  BY <1>1
<1>3. Listed' = Listed
  BY DEF Listed
<1>4. \A v \in Threads : /\ pc'[v] \in Starting <=> pc[v] \in Starting
                         /\ pc'[v] \in {"lock", "spawn"} <=> pc[v] \in {"lock", "spawn"}
                         /\ pc'[v] \in {"register", "unlock", "enlist"}
                              <=> pc[v] \in {"register", "unlock", "enlist"}
                         /\ pc'[v] = "await" => pc[v] = "await"
                         /\ pc'[v] \in Gone <=> pc[v] \in Gone
                         /\ pc'[v] = "made" <=> pc[v] = "made"
                         /\ pc'[v] = "none" <=> pc[v] = "none"
                         /\ pc'[v] = "joined" <=> pc[v] = "joined"
  BY <1>1, <1>2 DEF Gone
<1>5. \A v \in Threads : pc[v] \in Starting => child[v] \in Components /\ child[v] \in Threads
  BY DEF Inv, Creators, Threads
<1>6. Creators'
  <2>1. \A v \in Threads : pc'[v] \in Starting \cup {"await"} => child'[v] \in Components
    BY <1>4 DEF Inv, Creators
  <2>2. \A v \in Threads : pc'[v] \in {"lock", "spawn"} => pc'[child'[v]] = "made"
    BY <1>4, <1>5 DEF Inv, Creators, Starting
  <2>3. \A v \in Threads : pc'[v] \in {"register", "unlock", "enlist"} =>
          pc'[child'[v]] \notin {"none", "made", "joined"}
    BY <1>4, <1>5 DEF Inv, Creators, Starting
  <2>4. \A v \in Threads : pc'[v] \in Starting => child'[v] \notin Listed'
    BY <1>3, <1>4 DEF Inv, Creators
  <2>5. \A v, w \in Threads :
          pc'[v] \in Starting /\ pc'[w] \in Starting /\ child'[v] = child'[w] => v = w
    BY <1>4 DEF Inv, Creators
  <2>. QED  BY <2>1, <2>2, <2>3, <2>4, <2>5 DEF Creators
<1>7. Created'
  BY <1>3, <1>4 DEF Inv, Created, Threads
<1>8. pc'[Main] \in {"join", "next", "destroy", "returned"} => pc'[Main] = pc[Main]
  BY <1>1, <1>2 DEF Threads
<1>9. Passed'
  BY <1>4, <1>8, PassedKept DEF Inv, Threads
<1>10. Ranked'
  BY <1>4 DEF Inv, Ranked, Threads
<1>11. AllJoined'
  BY <1>4, <1>8 DEF Inv, AllJoined, Threads
<1>. QED  BY <1>6, <1>7, <1>9, <1>10, <1>11 DEF Inv

(* pthread_create starts the child: it is still its creator's.              *)
LEMMA SpawnInv ==
  ASSUME Inv, TypeOK', NEW t \in Threads, Spawn(t)
  PROVE  Inv'
<1>. DEFINE c == child[t]
<1>1. /\ pc \in [Threads -> Labels] /\ pc[t] = "spawn"
      /\ c \in Components /\ c \in Threads /\ pc[c] = "made" /\ c # t
  BY DEF Inv, TypeOK, Labels, Creators, Spawn, Threads, Starting
<1>2. PICK s \in {"register", "enlist"} : pc' = [pc EXCEPT ![c] = "gate", ![t] = s]
  BY DEF Spawn
<1>3. UNCHANGED <<child, threadList, cursor>>
  BY DEF Spawn, lists
<1>4. pc'[t] = s /\ pc'[c] = "gate" /\ \A u \in Threads \ {t, c} : pc'[u] = pc[u]
  BY <1>1, <1>2
<1>5. Listed' = Listed
  BY <1>3 DEF Listed
<1>6. \A u \in Threads :
        /\ pc'[u] \in Starting <=> pc[u] \in Starting
        /\ pc'[u] = "await" => pc[u] = "await"
        /\ pc'[u] \in Gone <=> pc[u] \in Gone
        /\ pc'[u] \in {"none", "made"} => pc[u] \in {"none", "made"}
        /\ pc'[u] = "joined" <=> pc[u] = "joined"
  BY <1>1, <1>2, <1>4 DEF Starting, Gone
<1>7. \A u \in Threads \ {t} : pc[u] \in Starting =>
        child[u] \in Components /\ child[u] \in Threads /\ child[u] # c
  BY <1>1 DEF Inv, Creators, Threads, Starting
<1>. HIDE DEF c
<1>8. Creators'
  <2>1. \A u \in Threads : pc'[u] \in Starting \cup {"await"} => child'[u] \in Components
    BY <1>3, <1>6 DEF Inv, Creators
  <2>2. \A u \in Threads : pc'[u] \in {"lock", "spawn"} => pc'[child'[u]] = "made"
    <3>. SUFFICES ASSUME NEW u \in Threads, pc'[u] \in {"lock", "spawn"}
                  PROVE  pc'[child[u]] = "made"
      BY <1>3
    <3>1. u # t /\ u # c /\ pc[u] \in {"lock", "spawn"}
      BY <1>2, <1>4
    <3>2. pc[child[u]] = "made" /\ child[u] # c /\ child[u] \in Threads
      BY <1>7, <3>1 DEF Inv, Creators, Starting
    <3>. QED  BY <1>1, <1>4, <3>2
  <2>3. \A u \in Threads : pc'[u] \in {"register", "unlock", "enlist"} =>
          pc'[child'[u]] \notin {"none", "made", "joined"}
    <3>. SUFFICES ASSUME NEW u \in Threads, pc'[u] \in {"register", "unlock", "enlist"}
                  PROVE  pc'[child[u]] \notin {"none", "made", "joined"}
      BY <1>3
    <3>1. CASE u = t
      BY <1>4, <3>1 DEF c
    <3>2. CASE u # t
      <4>1. u # c /\ pc[u] \in {"register", "unlock", "enlist"}
        BY <1>4, <3>2
      <4>2. /\ pc[child[u]] \notin {"none", "made", "joined"}
            /\ child[u] # c /\ child[u] \in Threads
        BY <1>7, <3>2, <4>1 DEF Inv, Creators, Starting
      <4>. QED  BY <1>2, <1>4, <4>2
    <3>. QED  BY <3>1, <3>2
  <2>4. \A u \in Threads : pc'[u] \in Starting => child'[u] \notin Listed'
    BY <1>3, <1>5, <1>6 DEF Inv, Creators
  <2>5. \A u, v \in Threads :
          pc'[u] \in Starting /\ pc'[v] \in Starting /\ child'[u] = child'[v] => u = v
    BY <1>3, <1>6 DEF Inv, Creators
  <2>. QED  BY <2>1, <2>2, <2>3, <2>4, <2>5 DEF Creators
<1>9. Created'
  BY <1>3, <1>5, <1>6 DEF Inv, Created, Threads
<1>10. pc'[Main] \in {"join", "next", "destroy", "returned"} => pc'[Main] = pc[Main]
  BY <1>1, <1>2, <1>4 DEF Threads
<1>11. Passed'
  BY <1>3, <1>6, <1>10, PassedKept DEF Inv, Threads
<1>12. Ranked'
  BY <1>3, <1>6 DEF Inv, Ranked, Threads
<1>13. AllJoined'
  BY <1>6, <1>10 DEF Inv, AllJoined, Threads, Gone
<1>. QED  BY <1>8, <1>9, <1>11, <1>12, <1>13 DEF Inv

(* Putting the child on the list keeps the invariant.                       *)
LEMMA EnlistInv ==
  ASSUME Inv, NEW t \in Threads, Enlist(t)
  PROVE  Inv'
<1>. DEFINE c == child[t]
<1>1. /\ pc \in [Threads -> Labels] /\ pc[t] = "enlist"
      /\ c \in Components /\ c \notin Listed
      /\ pc[c] \notin {"none", "made", "joined"}
      /\ threadList \in Seq(Components)
  BY DEF Inv, TypeOK, Labels, Creators, Enlist, Starting
<1>2. /\ pc' = [pc EXCEPT ![t] = "await"]
      /\ threadList' = Append(threadList, c)
      /\ UNCHANGED <<heaps, child, id, create_sem, stopped, thread_lock, SHList, cursor>>
  BY DEF Enlist, Goto, Enlisted, perComponent
<1>3. pc'[t] = "await" /\ \A u \in Threads \ {t} : pc'[u] = pc[u]
  BY <1>1, <1>2
<1>. HIDE DEF c
<1>4. /\ threadList' \in Seq(Components) /\ Len(threadList') = Len(threadList) + 1
      /\ \A k \in 1..Len(threadList) : threadList'[k] = threadList[k]
      /\ threadList'[Len(threadList) + 1] = c
  BY <1>1, <1>2, AppendProperties
<1>5. DOMAIN threadList = 1..Len(threadList) /\ DOMAIN threadList' = 1..(Len(threadList) + 1)
      /\ Len(threadList) \in Nat
  BY <1>1, <1>4, LenProperties
<1>6. Listed' = Listed \cup {c}
  BY <1>4, <1>5 DEF Listed
<1>7. \A u \in Threads : /\ u # t => (pc'[u] \in Starting <=> pc[u] \in Starting)
                         /\ pc'[u] \in Starting => u # t
                         /\ pc'[u] = "await" => pc[u] \in Starting \cup {"await"}
                         /\ pc'[u] \in Gone <=> pc[u] \in Gone
                         /\ pc'[u] \in {"none", "made"} <=> pc[u] \in {"none", "made"}
                         /\ pc'[u] = "made" <=> pc[u] = "made"
                         /\ pc'[u] = "joined" <=> pc[u] = "joined"
  BY <1>1, <1>3 DEF Starting, Gone
<1>8. pc'[Main] \in {"join", "next", "destroy", "returned"} => pc'[Main] = pc[Main]
  BY <1>1, <1>3 DEF Threads
<1>9. \A u \in Threads \ {t} : pc[u] \in Starting =>
        child[u] # c /\ child[u] \in Threads /\ child[u] \in Components
  BY <1>1 DEF Inv, Creators, Starting, c, Threads
<1>10. TypeOK'
  <2>1. pc' \in [Threads -> Labels]
    BY <1>1, <1>2 DEF Labels
  <2>2. pc'[Main] \in {"join", "next"} => cursor \in DOMAIN threadList'
    BY <1>5, <1>8 DEF Inv, TypeOK
  <2>. QED  BY <1>2, <1>4, <2>1, <2>2 DEF Inv, TypeOK, Labels
<1>11. Creators'
  <2>1. \A u \in Threads : pc'[u] \in Starting \cup {"await"} => child'[u] \in Components
    BY <1>2, <1>7 DEF Inv, Creators
  <2>2. \A u \in Threads : pc'[u] \in {"lock", "spawn"} => pc'[child'[u]] = "made"
    BY <1>2, <1>3, <1>7, <1>9 DEF Inv, Creators, Starting
  <2>3. \A u \in Threads : pc'[u] \in {"register", "unlock", "enlist"} =>
          pc'[child'[u]] \notin {"none", "made", "joined"}
    BY <1>2, <1>3, <1>7, <1>9 DEF Inv, Creators, Starting
  <2>4. \A u \in Threads : pc'[u] \in Starting => child'[u] \notin Listed'
    BY <1>2, <1>6, <1>7, <1>9 DEF Inv, Creators
  <2>5. \A u, v \in Threads :
          pc'[u] \in Starting /\ pc'[v] \in Starting /\ child'[u] = child'[v] => u = v
    BY <1>2, <1>7 DEF Inv, Creators
  <2>. QED  BY <2>1, <2>2, <2>3, <2>4, <2>5 DEF Creators
<1>12. Created'
  <2>. SUFFICES ASSUME NEW d \in Components
                PROVE  /\ d \in Listed' => pc'[d] \notin {"none", "made"}
                       /\ pc'[d] \notin Gone /\ d \notin Listed' =>
                            \E u \in Threads : pc'[u] \in Starting /\ child[u] = d
    BY <1>2 DEF Created
  <2>1. d \in Listed' => pc'[d] \notin {"none", "made"}
    BY <1>1, <1>6, <1>7 DEF Inv, Created, Threads
  <2>2. ASSUME pc'[d] \notin Gone, d \notin Listed'
        PROVE  \E u \in Threads : pc'[u] \in Starting /\ child[u] = d
    <3>1. PICK u \in Threads : pc[u] \in Starting /\ child[u] = d
      BY <1>6, <1>7, <2>2 DEF Inv, Created, Threads
    <3>2. u # t
      BY <1>6, <2>2, <3>1 DEF c
    <3>. QED  BY <1>7, <3>1, <3>2
  <2>. QED  BY <2>1, <2>2
<1>13. Passed'
  BY <1>2, <1>4, <1>5, <1>7, <1>8, PassedKept DEF Inv, Threads
<1>14. Ranked'
  BY <1>2, <1>7 DEF Inv, Ranked, Threads
<1>15. AllJoined'
  BY <1>7, <1>8 DEF Inv, AllJoined, Threads, Gone
<1>. QED  BY <1>10, <1>11, <1>12, <1>13, <1>14, <1>15 DEF Inv

(* Returning from component_create keeps it.                                *)
LEMMA AwaitInv ==
  ASSUME Inv, TypeOK', NEW t \in Threads, Await(t)
  PROVE  Inv'
<1>1. pc \in [Threads -> Labels] /\ pc[t] = "await" /\ child \in [Threads -> Components \cup {None}]
  BY DEF Inv, TypeOK, Labels, Await
<1>2. /\ pc' = [pc EXCEPT ![t] = Program(t)]
      /\ child' = [child EXCEPT ![t] = None]
      /\ UNCHANGED <<threadList, cursor>>
  BY DEF Await, Goto, lists
<1>3. /\ pc'[t] \in {"primordial", "run"}
      /\ \A u \in Threads \ {t} : pc'[u] = pc[u] /\ child'[u] = child[u]
  BY <1>1, <1>2 DEF Program
<1>4. Listed' = Listed
  BY <1>2 DEF Listed
<1>5. \A u \in Threads : /\ pc'[u] \in Starting <=> pc[u] \in Starting
                         /\ pc'[u] \in Starting \cup {"await"} => u # t
                         /\ pc'[u] \in Gone <=> pc[u] \in Gone
                         /\ pc'[u] \in {"none", "made"} <=> pc[u] \in {"none", "made"}
                         /\ pc'[u] = "made" <=> pc[u] = "made"
                         /\ pc'[u] = "joined" <=> pc[u] = "joined"
  BY <1>1, <1>3 DEF Starting, Gone
<1>6. \A u \in Threads : pc[u] \in Starting => child[u] \in Threads /\ u # t
  BY <1>1 DEF Inv, Creators, Threads, Starting
<1>7. Creators'
  <2>1. \A u \in Threads : pc'[u] \in Starting \cup {"await"} => child'[u] \in Components
    BY <1>3, <1>5 DEF Inv, Creators
  <2>2. \A u \in Threads : pc'[u] \in {"lock", "spawn"} => pc'[child'[u]] = "made"
    BY <1>3, <1>5, <1>6 DEF Inv, Creators, Starting
  <2>3. \A u \in Threads : pc'[u] \in {"register", "unlock", "enlist"} =>
          pc'[child'[u]] \notin {"none", "made", "joined"}
    BY <1>3, <1>5, <1>6 DEF Inv, Creators, Starting
  <2>4. \A u \in Threads : pc'[u] \in Starting => child'[u] \notin Listed'
    BY <1>3, <1>4, <1>5, <1>6 DEF Inv, Creators
  <2>5. \A u, v \in Threads :
          pc'[u] \in Starting /\ pc'[v] \in Starting /\ child'[u] = child'[v] => u = v
    BY <1>3, <1>5, <1>6 DEF Inv, Creators
  <2>. QED  BY <2>1, <2>2, <2>3, <2>4, <2>5 DEF Creators
<1>8. Created'
  <2>. SUFFICES ASSUME NEW d \in Components
                PROVE  /\ d \in Listed => pc'[d] \notin {"none", "made"}
                       /\ pc'[d] \notin Gone /\ d \notin Listed =>
                            \E u \in Threads : pc'[u] \in Starting /\ child'[u] = d
    BY <1>4 DEF Created
  <2>1. d \in Threads
    BY DEF Threads
  <2>. QED  BY <1>3, <1>5, <1>6, <2>1 DEF Inv, Created
<1>9. pc'[Main] \in {"join", "next", "destroy", "returned"} => pc'[Main] = pc[Main]
  BY <1>1, <1>3 DEF Threads
<1>10. Passed'
  BY <1>2, <1>5, <1>9, PassedKept DEF Inv, Threads
<1>11. Ranked'
  BY <1>3, <1>5, <1>6 DEF Inv, Ranked, Threads
<1>12. AllJoined'
  BY <1>5, <1>9 DEF Inv, AllJoined, Threads, Gone
<1>. QED  BY <1>7, <1>8, <1>10, <1>11, <1>12 DEF Inv

(* Where only main moves, and not in component_create, creators and         *)
(* created stay as they are.                                                *)
LEMMA MainMoves ==
  ASSUME Inv, pc[Main] \in {"primordial", "join", "next", "destroy"},
         NEW b \in {"join", "next", "destroy", "returned"},
         pc' = [pc EXCEPT ![Main] = b], child' = child,
         Listed' = Listed \/ (Listed' = {} /\ \A c \in Components : pc[c] \in Gone)
  PROVE  /\ Creators' /\ Created' /\ Ranked'
         /\ pc'[Main] = b /\ \A c \in Components : pc'[c] = pc[c]
<1>1. /\ pc \in [Threads -> Labels] /\ Main \in Threads
      /\ \A c \in Components : c # Main /\ c \in Threads
  BY LifecycleAssumption DEF Inv, TypeOK, Labels, Threads
<1>2. pc'[Main] = b /\ \A c \in Components : pc'[c] = pc[c]
  BY <1>1
<1>3. \A u \in Threads : /\ pc'[u] \in Starting \cup {"await"} => u # Main /\ pc'[u] = pc[u]
                         /\ pc[u] \in Starting => u # Main /\ pc'[u] = pc[u]
  BY <1>1, <1>2 DEF Starting, Threads
<1>4. \A u \in Threads : pc[u] \in Starting => child[u] \in Components
  BY DEF Inv, Creators
<1>5. Creators'
  <2>1. \A u \in Threads : pc'[u] \in Starting \cup {"await"} => child'[u] \in Components
    BY <1>3 DEF Inv, Creators
  <2>2. \A u \in Threads : pc'[u] \in {"lock", "spawn"} => pc'[child'[u]] = "made"
    BY <1>2, <1>3, <1>4 DEF Inv, Creators, Starting
  <2>3. \A u \in Threads : pc'[u] \in {"register", "unlock", "enlist"} =>
          pc'[child'[u]] \notin {"none", "made", "joined"}
    BY <1>2, <1>3, <1>4 DEF Inv, Creators, Starting
  <2>4. \A u \in Threads : pc'[u] \in Starting => child'[u] \notin Listed'
    BY <1>3 DEF Inv, Creators
  <2>5. \A u, v \in Threads :
          pc'[u] \in Starting /\ pc'[v] \in Starting /\ child'[u] = child'[v] => u = v
    BY <1>3 DEF Inv, Creators
  <2>. QED  BY <2>1, <2>2, <2>3, <2>4, <2>5 DEF Creators
<1>6. Created'
  BY <1>1, <1>2, <1>3 DEF Inv, Created, Gone
<1>7. Ranked'
  BY <1>2 DEF Inv, Ranked
<1>. QED  BY <1>2, <1>5, <1>6, <1>7

(* main goes to an item of threadList, all before it being joined, or finds *)
(* that there is none left.                                                 *)
LEMMA AtItemInv ==
  ASSUME Inv, pc[Main] \in {"primordial", "next"}, NEW k \in 0..Len(threadList),
         k # 0 => \A j \in 1..(k - 1) : pc[threadList[j]] = "joined",
         k = 0 => \A c \in Listed : pc[c] = "joined",
         AtItem(k)
  PROVE  Inv'
<1>. DEFINE b == IF k = 0 THEN "destroy" ELSE "join"
<1>1. /\ pc' = [pc EXCEPT ![Main] = b] /\ cursor' = k
      /\ UNCHANGED <<heaps, child, id, create_sem, stopped, thread_lock, threadList, SHList>>
  BY DEF AtItem, Goto, perComponent, lists
<1>2. b \in {"join", "destroy"} /\ Listed' = Listed
  BY <1>1 DEF Listed
<1>3. /\ Creators' /\ Created' /\ Ranked'
      /\ pc'[Main] = b /\ \A c \in Components : pc'[c] = pc[c]
  <2>. HIDE DEF b
  <2>. QED  BY <1>1, <1>2, MainMoves
<1>4. /\ pc \in [Threads -> Labels] /\ threadList \in Seq(Components)
      /\ Len(threadList) \in Nat /\ DOMAIN threadList = 1..Len(threadList)
      /\ \A j \in 1..Len(threadList) : threadList[j] \in Components
  BY DEF Inv, TypeOK, Labels
<1>5. TypeOK'
  <2>1. pc' \in [Threads -> Labels]
    BY <1>1, <1>2, <1>4 DEF Labels
  <2>2. pc'[Main] \in {"join", "next"} => cursor' \in DOMAIN threadList'
    BY <1>1, <1>3, <1>4
  <2>. QED  BY <1>1, <2>1, <2>2 DEF Inv, TypeOK, Labels
<1>6. Passed'
  BY <1>1, <1>3, <1>4 DEF Passed
<1>7. AllJoined'
  <2>1. k = 0 => \A c \in Components : pc[c] \in Gone
    BY NobodyLeft DEF Starting
  <2>. QED  BY <1>3, <2>1 DEF AllJoined, Gone
<1>. QED  BY <1>3, <1>5, <1>6, <1>7 DEF Inv

(* Reading the head of the list keeps the invariant.                        *)
LEMMA ReadHeadInv ==
  ASSUME Inv, ReadHead
  PROVE  Inv'
<1>1. threadList \in Seq(Components) /\ pc[Main] = "primordial"
  BY DEF Inv, TypeOK, ReadHead
<1>2. CASE threadList = <<>>
  <2>1. Listed = {} /\ 0 \in 0..Len(threadList) /\ AtItem(0)
    BY <1>1, <1>2 DEF Listed, ReadHead
  <2>. QED  BY <1>1, <2>1, AtItemInv
<1>3. CASE threadList # <<>>
  <2>1. 1 \in 0..Len(threadList) /\ AtItem(1)
    BY <1>1, <1>3 DEF ReadHead
  <2>. QED  BY <1>1, <2>1, AtItemInv
<1>. QED  BY <1>2, <1>3

(* So does going on from an item that is joined.                            *)
LEMMA NextItemInv ==
  ASSUME Inv, NextItem
  PROVE  Inv'
<1>1. /\ pc[Main] = "next" /\ threadList \in Seq(Components)
      /\ Len(threadList) \in Nat /\ DOMAIN threadList = 1..Len(threadList)
      /\ cursor \in 1..Len(threadList)
      /\ \A j \in 1..cursor : pc[threadList[j]] = "joined"
  BY DEF Inv, TypeOK, Passed, NextItem
<1>2. CASE cursor < Len(threadList)
  <2>1. cursor + 1 \in 0..Len(threadList) /\ AtItem(cursor + 1) /\ (cursor + 1) - 1 = cursor
        /\ cursor + 1 # 0
    BY <1>1, <1>2 DEF NextItem, Following
  <2>. QED  BY <1>1, <2>1, AtItemInv
<1>3. CASE ~(cursor < Len(threadList))
  <2>1. 0 \in 0..Len(threadList) /\ cursor = Len(threadList)
    BY <1>1, <1>3
  <2>2. AtItem(0)
    BY <1>3 DEF NextItem, Following
  <2>3. \A c \in Listed : pc[c] = "joined"
    BY <1>1, <2>1 DEF Listed
  <2>. QED  BY <1>1, <2>1, <2>2, <2>3, AtItemInv
<1>. QED  BY <1>2, <1>3

(* Joining a thread that has ended keeps it: the thread is nobody's child   *)
(* that is still to be listed.                                              *)
LEMMA JoinInv ==
  ASSUME Inv, Join
  PROVE  Inv'
<1>. DEFINE c == threadList[cursor]
<1>1. /\ pc \in [Threads -> Labels] /\ threadList \in Seq(Components)
      /\ Len(threadList) \in Nat /\ DOMAIN threadList = 1..Len(threadList)
      /\ cursor \in 1..Len(threadList)
      /\ pc[Main] = "join" /\ pc[c] = "ended"
  BY DEF Inv, TypeOK, Labels, Join
<1>2. c \in Components /\ c \in Listed /\ c # Main /\ c \in Threads /\ Main \in Threads
  BY <1>1, LifecycleAssumption DEF Listed, Threads
<1>3. /\ pc' = [pc EXCEPT ![c] = "joined", ![Main] = "next"]
      /\ UNCHANGED <<heaps, child, id, create_sem, stopped, thread_lock, threadList, SHList, cursor>>
  BY DEF Join, perComponent, lists
<1>. HIDE DEF c
<1>4. pc'[c] = "joined" /\ pc'[Main] = "next"
      /\ \A u \in Threads \ {c, Main} : pc'[u] = pc[u]
  BY <1>1, <1>2, <1>3
<1>5. Listed' = Listed
  BY <1>3 DEF Listed
<1>6. \A u \in Threads : /\ pc'[u] \in Starting \cup {"await"} => pc'[u] = pc[u]
                         /\ pc[u] \in Starting => pc'[u] = pc[u] /\ child[u] # c
  BY <1>1, <1>2, <1>4 DEF Starting, Inv, Creators
<1>7. \A u \in Threads : pc[u] \in Starting =>
        child[u] \in Components /\ child[u] \in Threads /\ child[u] # Main
  BY LifecycleAssumption DEF Inv, Creators, Threads
<1>8. TypeOK'
  <2>1. pc' \in [Threads -> Labels]
    BY <1>1, <1>2, <1>3 DEF Labels
  <2>. QED  BY <1>1, <1>3, <2>1 DEF Inv, TypeOK, Labels
<1>9. Creators'
  <2>1. \A u \in Threads : pc'[u] \in Starting \cup {"await"} => child'[u] \in Components
    BY <1>3, <1>6 DEF Inv, Creators
  <2>2. \A u \in Threads : pc'[u] \in {"lock", "spawn"} => pc'[child'[u]] = "made"
    BY <1>3, <1>4, <1>6, <1>7 DEF Inv, Creators, Starting
  <2>3. \A u \in Threads : pc'[u] \in {"register", "unlock", "enlist"} =>
          pc'[child'[u]] \notin {"none", "made", "joined"}
    <3>. SUFFICES ASSUME NEW u \in Threads, pc'[u] \in {"register", "unlock", "enlist"}
                  PROVE  pc'[child[u]] \notin {"none", "made", "joined"}
      BY <1>3
    <3>1. pc[u] \in {"register", "unlock", "enlist"} /\ pc[u] \in Starting
      BY <1>6, pc'[u] \in Starting \cup {"await"} DEF Starting
    <3>2. child[u] \in Threads \ {c, Main}
      BY <1>6, <1>7, <3>1
    <3>3. pc[child[u]] \notin {"none", "made", "joined"}
      BY <3>1 DEF Inv, Creators
    <3>. QED  BY <1>4, <3>2, <3>3
  <2>4. \A u \in Threads : pc'[u] \in Starting => child'[u] \notin Listed'
    BY <1>3, <1>5, <1>6 DEF Inv, Creators
  <2>5. \A u, v \in Threads :
          pc'[u] \in Starting /\ pc'[v] \in Starting /\ child'[u] = child'[v] => u = v
    BY <1>3, <1>6 DEF Inv, Creators
  <2>. QED  BY <2>1, <2>2, <2>3, <2>4, <2>5 DEF Creators
<1>10. Created'
  <2>. SUFFICES ASSUME NEW d \in Components
                PROVE  /\ d \in Listed => pc'[d] \notin {"none", "made"}
                       /\ pc'[d] \notin Gone /\ d \notin Listed =>
                            \E u \in Threads : pc'[u] \in Starting /\ child[u] = d
    BY <1>3, <1>5 DEF Created
  <2>1. d \in Threads /\ d # Main
    BY LifecycleAssumption DEF Threads
  <2>. QED  BY <1>2, <1>4, <1>6, <2>1 DEF Inv, Created
<1>11. Passed'
  <2>1. \A k \in 1..cursor : pc'[threadList[k]] = "joined"
    <3>. SUFFICES ASSUME NEW k \in 1..cursor
                  PROVE  pc'[threadList[k]] = "joined"
      OBVIOUS
    <3>1. CASE k = cursor
      BY <1>4, <3>1 DEF c
    <3>2. CASE k # cursor
      <4>1. pc[threadList[k]] = "joined" /\ threadList[k] \in Components
        BY <1>1, <3>2 DEF Inv, Passed
      <4>2. threadList[k] \in Threads /\ threadList[k] # Main
        BY <4>1, LifecycleAssumption DEF Threads
      <4>. QED  BY <1>4, <4>1, <4>2
    <3>. QED  BY <3>1, <3>2
  <2>. QED  BY <1>3, <1>4, <2>1 DEF Passed
<1>12. Ranked'
  BY <1>3, <1>6 DEF Inv, Ranked, Threads
<1>13. AllJoined'
  BY <1>4 DEF AllJoined
<1>. QED  BY <1>8, <1>9, <1>10, <1>11, <1>12, <1>13 DEF Inv

(* When the lists are destroyed nobody is left to use them.                 *)
LEMMA DestroyInv ==
  ASSUME Inv, Destroy
  PROVE  Inv'
<1>1. /\ pc' = [pc EXCEPT ![Main] = "returned"] /\ pc[Main] = "destroy"
      /\ threadList' = <<>> /\ SHList' = <<>>
      /\ UNCHANGED <<heaps, child, id, create_sem, stopped, thread_lock, cursor>>
  BY DEF Destroy, Goto, perComponent
<1>2. \A c \in Components : pc[c] \in Gone
  BY <1>1 DEF Inv, AllJoined, Gone
<1>3. Listed' = {}
  BY <1>1 DEF Listed
<1>4. /\ Creators' /\ Created' /\ Ranked'
      /\ pc'[Main] = "returned" /\ \A c \in Components : pc'[c] = pc[c]
  BY <1>1, <1>2, <1>3, MainMoves
<1>5. TypeOK'
  <2>1. pc' \in [Threads -> Labels]
    BY <1>1 DEF Inv, TypeOK, Labels
  <2>. QED  BY <1>1, <1>4, <2>1 DEF Inv, TypeOK, Labels
<1>6. Passed' /\ AllJoined'
  BY <1>2, <1>4 DEF Passed, AllJoined, Gone
<1>. QED  BY <1>4, <1>5, <1>6 DEF Inv

(* The steps of component_create other than allocating, listing and         *)
(* returning keep the invariant.                                            *)
LEMMA CreatingInv ==
  ASSUME Inv, NEW t \in Threads,
         TakeLock(t) \/ Spawn(t) \/ Register(t) \/ Unlock(t)
  PROVE  Inv'
<1>1. /\ pc \in [Threads -> Labels] /\ Main \in Threads
      /\ \A c \in Components : c \in Threads
      /\ heaps \in BOOLEAN /\ SHList \in Seq(Components)
      /\ pc[Main] \in {"join", "next"} => cursor \in DOMAIN threadList
  BY DEF Inv, TypeOK, Labels, Threads
<1>2. ASSUME NEW u \in Threads, NEW b \in Labels, pc' = [pc EXCEPT ![u] = b],
             b \notin {"join", "next"}
      PROVE  /\ pc' \in [Threads -> Labels]
             /\ pc'[Main] \in {"join", "next"} => pc'[Main] = pc[Main]
  BY <1>1, <1>2
<1>3. CASE TakeLock(t)
  <2>1. /\ pc[t] = "lock" /\ pc' = [pc EXCEPT ![t] = "spawn"] /\ thread_lock' = t
        /\ UNCHANGED <<heaps, child, id, create_sem, stopped, threadList, SHList, cursor>>
    BY <1>3 DEF TakeLock, Goto, perComponent, lists
  <2>2. TypeOK'
    BY <1>1, <1>2, <2>1 DEF Inv, TypeOK, Labels
  <2>. QED  BY <2>1, <2>2, MoveInv
<1>4. CASE Spawn(t)
  <2>1. /\ child[t] \in Components /\ pc[child[t]] = "made" /\ pc[t] = "spawn"
    BY <1>4 DEF Inv, Creators, Spawn, Starting
  <2>2. PICK s \in {"register", "enlist"} :
          pc' = [pc EXCEPT ![child[t]] = "gate", ![t] = s]
    BY <1>4 DEF Spawn
  <2>3. /\ \E i \in Ids \ IdsInUse : id' = [id EXCEPT ![child[t]] = i]
        /\ UNCHANGED <<heaps, child, create_sem, stopped, thread_lock, threadList, SHList, cursor>>
    BY <1>4 DEF Spawn, lists
  <2>4. id' \in [Components -> Nat]
    BY <2>1, <2>3, LifecycleAssumption DEF Inv, TypeOK
  <2>5. pc' \in [Threads -> Labels]
    BY <1>1, <2>1, <2>2 DEF Labels
  <2>6. pc'[Main] \in {"join", "next"} => pc'[Main] = pc[Main]
    BY <1>1, <2>1, <2>2
  <2>7. TypeOK'
    BY <1>1, <2>3, <2>4, <2>5, <2>6 DEF Inv, TypeOK, Labels
  <2>. QED  BY <1>4, <2>7, SpawnInv
<1>5. CASE Register(t)
  <2>1. /\ pc[t] = "register" /\ pc' = [pc EXCEPT ![t] = "unlock"]
        /\ SHList' = Append(SHList, child[t])
        /\ UNCHANGED <<heaps, child, id, create_sem, stopped, thread_lock, threadList, cursor>>
    BY <1>5 DEF Register, Goto, perComponent
  <2>2. SHList' \in Seq(Components)
    <3>1. child[t] \in Components
      BY <2>1 DEF Inv, Creators, Starting
    <3>. QED  BY <1>1, <2>1, <3>1, AppendProperties
  <2>3. TypeOK'
    BY <1>1, <1>2, <2>1, <2>2 DEF Inv, TypeOK, Labels
  <2>. QED  BY <2>1, <2>3, MoveInv
<1>6. CASE Unlock(t)
  <2>1. /\ pc[t] = "unlock" /\ pc' = [pc EXCEPT ![t] = "enlist"] /\ thread_lock' = None
        /\ UNCHANGED <<heaps, child, id, create_sem, stopped, threadList, SHList, cursor>>
    BY <1>6 DEF Unlock, Goto, perComponent, lists
  <2>2. TypeOK'
    BY <1>1, <1>2, <2>1 DEF Inv, TypeOK, Labels
  <2>. QED  BY <2>1, <2>2, MoveInv
<1>. QED  BY <1>3, <1>4, <1>5, <1>6

(* So do the steps of startRoutine and of a component's program.            *)
LEMMA RunningInv ==
  ASSUME Inv, NEW c \in Components,
         \/ Gate(c) \/ PassGate(c) \/ Construct(c) \/ End(c)
         \/ \E t \in Threads : Stop(t, c)
  PROVE  Inv'
<1>1. /\ pc \in [Threads -> Labels] /\ c \in Threads /\ c # Main
      /\ pc[Main] \in {"join", "next"} => cursor \in DOMAIN threadList
  BY LifecycleAssumption DEF Inv, TypeOK, Labels, Threads
<1>2. CASE Gate(c) \/ PassGate(c) \/ End(c)
  <2>1. PICK b \in {"gated", "run", "ended"} : pc' = [pc EXCEPT ![c] = b]
    BY <1>2 DEF Gate, PassGate, End, Goto
  <2>2. /\ pc[c] \in {"gate", "gated", "run"} /\ thread_lock' \in {thread_lock, None, c}
        /\ UNCHANGED <<heaps, child, id, create_sem, stopped, threadList, SHList, cursor>>
    BY <1>2 DEF Gate, PassGate, End, perComponent, lists
  <2>3. TypeOK'
    <3>1. pc' \in [Threads -> Labels] /\ pc'[Main] = pc[Main]
      BY <1>1, <2>1 DEF Labels
    <3>2. thread_lock' \in Threads \cup {None}
      BY <1>1, <2>2 DEF Inv, TypeOK
    <3>. QED  BY <1>1, <2>2, <3>1, <3>2 DEF Inv, TypeOK, Labels
  <2>. QED  BY <1>1, <2>1, <2>2, <2>3, MoveInv
<1>3. CASE Construct(c)
  <2>1. TypeOK' /\ UNCHANGED <<pc, child, threadList, cursor>>
    BY <1>3 DEF Inv, TypeOK, Construct, lists
  <2>. QED  BY <2>1, StillInv
<1>4. CASE \E t \in Threads : Stop(t, c)
  <2>1. TypeOK' /\ UNCHANGED <<pc, child, threadList, cursor>>
    BY <1>4 DEF Inv, TypeOK, Stop, lists
  <2>. QED  BY <2>1, StillInv
<1>. QED  BY <1>2, <1>3, <1>4

(* Returning from component_create, with its type.                          *)
LEMMA ReturningInv ==
  ASSUME Inv, NEW t \in Threads, Await(t)
  PROVE  Inv'
<1>1. /\ pc \in [Threads -> Labels] /\ Main \in Threads /\ Program(t) \in Labels
      /\ Program(t) \notin {"join", "next"}
      /\ child[t] \in Components
  BY DEF Inv, TypeOK, Labels, Threads, Program, Await, Creators
<1>2. /\ pc' = [pc EXCEPT ![t] = Program(t)]
      /\ child' = [child EXCEPT ![t] = None]
      /\ create_sem' = [create_sem EXCEPT ![child[t]] = "taken"]
      /\ UNCHANGED <<heaps, id, stopped, thread_lock, threadList, SHList, cursor>>
  BY DEF Await, Goto, lists
<1>3. pc' \in [Threads -> Labels] /\ (pc'[Main] \in {"join", "next"} => pc'[Main] = pc[Main])
  BY <1>1, <1>2
<1>4. create_sem' \in [Components -> {"no", "posted", "taken"}]
      /\ child' \in [Threads -> Components \cup {None}]
  BY <1>1, <1>2 DEF Inv, TypeOK
<1>5. TypeOK'
  BY <1>2, <1>3, <1>4 DEF Inv, TypeOK, Labels
<1>. QED  BY <1>5, AwaitInv

-----------------------------------------------------------------------------
(* Theorems *)

(* The invariant holds before anything is created.                          *)
LEMMA InitInv ==
  ASSUME Init
  PROVE  Inv
<1>1. /\ pc = [t \in Threads |-> IF t = Main THEN "primordial" ELSE "none"]
      /\ \A c \in Components : pc[c] = "none"
      /\ pc[Main] = "primordial" /\ Main \in Threads
      /\ \A t \in Threads : pc[t] \notin Starting \cup {"await"}
  BY LifecycleAssumption DEF Init, Threads, Starting
<1>2. TypeOK
  <2>1. pc \in [Threads -> Labels]
    BY <1>1 DEF Labels
  <2>2. threadList \in Seq(Components) /\ SHList \in Seq(Components)
    BY EmptySeq DEF Init
  <2>. QED  BY <1>1, <2>1, <2>2 DEF Init, TypeOK, Labels
<1>3. Listed = {}
  BY DEF Init, Listed
<1>4. Creators /\ Created /\ Passed /\ AllJoined
  BY <1>1, <1>3 DEF Creators, Created, Passed, AllJoined, Starting, Gone
<1>5. Ranked
  <2>1. [c \in Components |-> 0] \in [Components -> Nat]
    OBVIOUS
  <2>. QED  BY <1>1, <2>1 DEF Ranked, Threads
<1>. QED  BY <1>2, <1>4, <1>5 DEF Inv

(* Every step keeps it.                                                     *)
LEMMA NextInv ==
  ASSUME Inv, [Next]_vars
  PROVE  Inv'
<1>1. CASE UNCHANGED vars
  <2>1. UNCHANGED <<heaps, pc, child, id, create_sem, stopped, thread_lock, threadList, SHList, cursor>>
    BY <1>1 DEF vars, perComponent, lists
  <2>2. TypeOK'
    BY <2>1 DEF Inv, TypeOK
  <2>. QED  BY <2>1, <2>2, StillInv
<1>2. ASSUME Alive, NEW t \in Threads, CreateStep(t)
      PROVE  Inv'
  BY <1>2, CreatingInv, EnlistInv, ReturningInv DEF CreateStep
<1>3. ASSUME Alive, NEW t \in Threads, NEW c \in Components, Create(t, c) \/ Stop(t, c)
      PROVE  Inv'
  BY <1>3, CreateStepInv, RunningInv
<1>4. ASSUME NEW c \in Components, Gate(c) \/ PassGate(c) \/ Construct(c) \/ End(c)
      PROVE  Inv'
  BY <1>4, RunningInv
<1>5. CASE ReadHead \/ MainStep
  BY <1>5, ReadHeadInv, JoinInv, NextItemInv, DestroyInv DEF MainStep
<1>. QED  BY <1>1, <1>2, <1>3, <1>4, <1>5 DEF Next

(* In every state creators, the list and what main has joined fit together, *)
(* for any number of components.                                            *)
THEOREM LifecycleInvariance == Spec => []Inv
<1>1. Init => Inv
  BY InitInv
<1>2. Inv /\ [Next]_vars => Inv'
  BY NextInv
<1>. QED  BY <1>1, <1>2, PTL DEF Spec

(* Types; among them, main's place in the list is an item whenever it       *)
(* reads one, whoever appends to the list meanwhile.                        *)
THEOREM LifecycleTypeCorrect == Spec => []TypeOK
<1>1. Inv => TypeOK
  BY DEF Inv
<1>. QED  BY <1>1, LifecycleInvariance, PTL

(* main never destroys the lists or returns while a component is left, for  *)
(* any number of components created by any thread in any order.             *)
THEOREM EveryoneJoined == Spec => []AllJoined
<1>1. Inv => AllJoined
  BY DEF Inv
<1>. QED  BY <1>1, LifecycleInvariance, PTL

-----------------------------------------------------------------------------
(* Heaps *)

(* The component's thread has started and has not been joined. *)
Started == {c \in Components : pc[c] \notin {"none", "made", "joined"}}

HasHeap == {SHList[k] : k \in DOMAIN SHList}

(* With HEAPS, thread_lock is held from before the thread is started until  *)
(* after its heap is registered, and by a thread inside the gate.           *)
Holders ==
  /\ \A t \in Threads : pc[t] \in {"lock", "register", "unlock"} => heaps
  /\ heaps => \A t \in Threads :
                pc[t] \in {"spawn", "register", "unlock"} => thread_lock = t
  /\ \A c \in Components : pc[c] = "gated" => thread_lock = c

(* A thread without a heap is still at the gate, and its creator is about   *)
(* to register one.                                                         *)
Registered ==
  heaps => \A c \in Components :
    /\ c \in Running \/ pc[c] = "gated" => c \in HasHeap
    /\ pc[c] = "gate" =>
         c \in HasHeap \/ \E t \in Threads : pc[t] = "register" /\ child[t] = c

(* Threads that have not been joined have different IDs. *)
OwnIds ==
  /\ \A c \in Started : id[c] \in Ids
  /\ \A c, d \in Started : id[c] = id[d] => c = d

HeapInv == Holders /\ Registered /\ OwnIds

(* A thread that moves on outside those stages keeps HeapInv.               *)
LEMMA HeapMoveInv ==
  ASSUME Inv, HeapInv, UNCHANGED <<heaps, child, id, thread_lock, SHList>>,
         NEW u \in Threads, NEW b, pc' = [pc EXCEPT ![u] = b],
         b \notin {"lock", "spawn", "register", "unlock", "made", "none", "gate", "gated"},
         pc[u] # "register",
         u = Main \/ (pc[u] \in {"enlist", "await", "run"} /\ b \in {"await", "run", "ended"})
  PROVE  HeapInv'
<1>1. /\ pc \in [Threads -> Labels] /\ \A c \in Components : c \in Threads /\ c # Main
  BY LifecycleAssumption DEF Inv, TypeOK, Labels, Threads
<1>2. pc'[u] = b /\ \A v \in Threads \ {u} : pc'[v] = pc[v]
  BY <1>1
<1>3. HasHeap' = HasHeap /\ Started' = Started
  BY <1>1, <1>2 DEF HasHeap, Started
<1>4. Holders'
  BY <1>1, <1>2 DEF HeapInv, Holders
<1>5. Registered'
  <2>. SUFFICES ASSUME heaps, NEW c \in Components
                PROVE  /\ c \in Running' \/ pc'[c] = "gated" => c \in HasHeap
                       /\ pc'[c] = "gate" =>
                            c \in HasHeap \/ \E t \in Threads : pc'[t] = "register" /\ child[t] = c
    BY <1>3 DEF Registered
  <2>1. c \in Running' \/ pc'[c] = "gated" => c \in Running \/ pc[c] = "gated"
    BY <1>1, <1>2 DEF Running
  <2>2. pc'[c] = "gate" => pc[c] = "gate"
    BY <1>1, <1>2
  <2>3. \A t \in Threads : pc[t] = "register" => pc'[t] = "register"
    BY <1>2
  <2>. QED  BY <2>1, <2>2, <2>3 DEF HeapInv, Registered
<1>6. OwnIds'
  BY <1>3 DEF HeapInv, OwnIds
<1>. QED  BY <1>4, <1>5, <1>6 DEF HeapInv

(* The creator's side: taking the lock, starting the thread, registering    *)
(* its heap and giving the lock back.                                       *)
LEMMA HeapCreatingInv ==
  ASSUME Inv, HeapInv, NEW t \in Threads,
         TakeLock(t) \/ Spawn(t) \/ Register(t) \/ Unlock(t)
  PROVE  HeapInv'
<1>1. /\ pc \in [Threads -> Labels] /\ \A c \in Components : c \in Threads
      /\ heaps \in BOOLEAN /\ SHList \in Seq(Components) /\ id \in [Components -> Nat]
      /\ None \notin Threads
  BY LifecycleAssumption DEF Inv, TypeOK, Labels, Threads
<1>2. CASE TakeLock(t)
  <2>1. /\ pc[t] = "lock" /\ pc' = [pc EXCEPT ![t] = "spawn"]
        /\ thread_lock = None /\ thread_lock' = t
        /\ UNCHANGED <<heaps, child, id, SHList>>
    BY <1>2 DEF TakeLock, Goto, perComponent, lists
  <2>2. pc'[t] = "spawn" /\ \A v \in Threads \ {t} : pc'[v] = pc[v]
    BY <1>1, <2>1
  <2>3. HasHeap' = HasHeap /\ Started' = Started
    BY <1>1, <2>1, <2>2 DEF HasHeap, Started
  <2>4. Holders'
    BY <1>1, <2>1, <2>2 DEF HeapInv, Holders
  <2>5. Registered'
    <3>1. \A c \in Components : /\ c \in Running' \/ pc'[c] = "gated" => c \in Running \/ pc[c] = "gated"
                                /\ pc'[c] = "gate" => pc[c] = "gate"
      BY <1>1, <2>1, <2>2 DEF Running
    <3>2. \A v \in Threads : pc[v] = "register" => pc'[v] = "register"
      BY <2>1, <2>2
    <3>. QED  BY <2>1, <2>3, <3>1, <3>2 DEF HeapInv, Registered
  <2>6. OwnIds'
    BY <2>1, <2>3 DEF HeapInv, OwnIds
  <2>. QED  BY <2>4, <2>5, <2>6 DEF HeapInv
<1>3. CASE Spawn(t)
  <2>. DEFINE c == child[t]
  <2>1. c \in Components /\ pc[c] = "made" /\ pc[t] = "spawn" /\ c # t
    BY <1>3 DEF Inv, Creators, Spawn, Starting
  <2>2. /\ pc' = [pc EXCEPT ![c] = "gate", ![t] = IF heaps THEN "register" ELSE "enlist"]
        /\ UNCHANGED <<heaps, child, thread_lock, SHList>>
    BY <1>3 DEF Spawn, lists
  <2>3. PICK i \in Ids \ IdsInUse : id' = [id EXCEPT ![c] = i]
    BY <1>3 DEF Spawn
  <2>. HIDE DEF c
  <2>4. /\ pc'[c] = "gate" /\ pc'[t] = IF heaps THEN "register" ELSE "enlist"
        /\ \A v \in Threads \ {t, c} : pc'[v] = pc[v]
    BY <1>1, <2>1, <2>2
  <2>5. HasHeap' = HasHeap /\ Started' = Started \cup {c} /\ c \notin Started
    BY <1>1, <2>1, <2>2, <2>4 DEF HasHeap, Started
  <2>6. Holders'
    BY <1>1, <2>1, <2>2, <2>4 DEF HeapInv, Holders
  <2>7. Registered'
    <3>. SUFFICES ASSUME heaps, NEW d \in Components
                  PROVE  /\ d \in Running' \/ pc'[d] = "gated" => d \in HasHeap
                         /\ pc'[d] = "gate" =>
                              d \in HasHeap \/ \E v \in Threads : pc'[v] = "register" /\ child[v] = d
      BY <2>2, <2>5 DEF Registered
    <3>1. /\ d \in Running' \/ pc'[d] = "gated" => d \in Running \/ pc[d] = "gated"
          /\ pc'[d] = "gate" => d = c \/ pc[d] = "gate"
      BY <1>1, <2>1, <2>4 DEF Running
    <3>2. \A v \in Threads : pc[v] = "register" => pc'[v] = "register"
      BY <2>1, <2>4
    <3>3. pc'[t] = "register" /\ child[t] = c
      BY <2>4 DEF c
    <3>. QED  BY <3>1, <3>2, <3>3 DEF HeapInv, Registered
  <2>8. OwnIds'
    <3>1. \A d \in Started : id[d] \in IdsInUse /\ id'[d] = id[d]
      BY <1>1, <2>3, <2>5 DEF Started, IdsInUse
    <3>2. id'[c] = i
      BY <1>1, <2>1, <2>3
    <3>. QED  BY <2>3, <2>5, <3>1, <3>2 DEF HeapInv, OwnIds
  <2>. QED  BY <2>6, <2>7, <2>8 DEF HeapInv
<1>4. CASE Register(t)
  <2>1. /\ pc[t] = "register" /\ pc' = [pc EXCEPT ![t] = "unlock"]
        /\ SHList' = Append(SHList, child[t])
        /\ UNCHANGED <<heaps, child, id, thread_lock>>
    BY <1>4 DEF Register, Goto, perComponent
  <2>2. child[t] \in Components
    BY <2>1 DEF Inv, Creators, Starting
  <2>3. HasHeap' = HasHeap \cup {child[t]}
    <3>1. /\ Len(SHList') = Len(SHList) + 1 /\ SHList' \in Seq(Components)
          /\ \A k \in 1..Len(SHList) : SHList'[k] = SHList[k]
          /\ SHList'[Len(SHList) + 1] = child[t]
      BY <1>1, <2>1, <2>2, AppendProperties
    <3>2. /\ DOMAIN SHList = 1..Len(SHList) /\ DOMAIN SHList' = 1..(Len(SHList) + 1)
          /\ Len(SHList) \in Nat
      BY <1>1, <3>1, LenProperties
    <3>3. \A k \in DOMAIN SHList' : SHList'[k] \in HasHeap \cup {child[t]}
      BY <3>1, <3>2 DEF HasHeap
    <3>4. \A k \in DOMAIN SHList : SHList[k] \in HasHeap'
      BY <3>1, <3>2 DEF HasHeap
    <3>5. child[t] \in HasHeap'
      BY <3>1, <3>2 DEF HasHeap
    <3>. QED  BY <3>3, <3>4, <3>5 DEF HasHeap
  <2>4. pc'[t] = "unlock" /\ \A v \in Threads \ {t} : pc'[v] = pc[v]
    BY <1>1, <2>1
  <2>5. Started' = Started
    BY <1>1, <2>1, <2>4 DEF Started
  <2>6. Holders'
    BY <1>1, <2>1, <2>4 DEF HeapInv, Holders
  <2>7. Registered'
    <3>1. \A c \in Components : /\ c \in Running' \/ pc'[c] = "gated" => c \in Running \/ pc[c] = "gated"
                                /\ pc'[c] = "gate" => pc[c] = "gate"
      BY <1>1, <2>1, <2>4 DEF Running
    <3>2. \A v \in Threads : pc[v] = "register" => pc'[v] = "register" \/ child[v] \in HasHeap'
      BY <2>3, <2>4
    <3>. QED  BY <2>1, <2>3, <3>1, <3>2 DEF HeapInv, Registered
  <2>8. OwnIds'
    BY <2>1, <2>5 DEF HeapInv, OwnIds
  <2>. QED  BY <2>6, <2>7, <2>8 DEF HeapInv
<1>5. CASE Unlock(t)
  <2>1. /\ pc[t] = "unlock" /\ pc' = [pc EXCEPT ![t] = "enlist"] /\ thread_lock' = None
        /\ UNCHANGED <<heaps, child, id, SHList>>
    BY <1>5 DEF Unlock, Goto, perComponent, lists
  <2>2. pc'[t] = "enlist" /\ \A v \in Threads \ {t} : pc'[v] = pc[v]
    BY <1>1, <2>1
  <2>3. HasHeap' = HasHeap /\ Started' = Started
    BY <1>1, <2>1, <2>2 DEF HasHeap, Started
  <2>4. heaps
    BY <2>1 DEF HeapInv, Holders
  <2>5. Holders'
    BY <1>1, <2>1, <2>2, <2>4 DEF HeapInv, Holders
  <2>6. Registered'
    <3>1. \A c \in Components : /\ c \in Running' \/ pc'[c] = "gated" => c \in Running \/ pc[c] = "gated"
                                /\ pc'[c] = "gate" => pc[c] = "gate"
      BY <1>1, <2>1, <2>2 DEF Running
    <3>2. \A v \in Threads : pc[v] = "register" => pc'[v] = "register"
      BY <2>1, <2>2
    <3>. QED  BY <2>1, <2>3, <3>1, <3>2 DEF HeapInv, Registered
  <2>7. OwnIds'
    BY <2>1, <2>3 DEF HeapInv, OwnIds
  <2>. QED  BY <2>5, <2>6, <2>7 DEF HeapInv
<1>. QED  BY <1>2, <1>3, <1>4, <1>5

(* The other steps: main's, the gate, and the program's.                    *)
LEMMA HeapNextInv ==
  ASSUME Inv, HeapInv, [Next]_vars
  PROVE  HeapInv'
<1>1. /\ pc \in [Threads -> Labels] /\ Main \in Threads
      /\ \A c \in Components : c \in Threads /\ c # Main
      /\ None \notin Threads
  BY LifecycleAssumption DEF Inv, TypeOK, Labels, Threads
<1>2. CASE UNCHANGED vars
  BY <1>2 DEF HeapInv, Holders, Registered, OwnIds, HasHeap, Started, Running,
              vars, perComponent, lists
<1>3. ASSUME NEW t \in Threads, NEW c \in Components, Create(t, c)
      PROVE  HeapInv'
  <2>1. PICK s \in {"lock", "spawn"} :
          pc' = [pc EXCEPT ![c] = "made", ![t] = s] /\ (s = "lock" <=> heaps)
    BY <1>3 DEF Create, Inv, TypeOK
  <2>2. /\ pc[t] = Program(t) /\ pc[c] = "none" /\ t # c
        /\ child' = [child EXCEPT ![t] = c]
        /\ UNCHANGED <<heaps, id, thread_lock, SHList>>
    BY <1>1, <1>3 DEF Create, Program, perComponent, lists
  <2>3. pc'[t] = s /\ pc'[c] = "made" /\ \A v \in Threads \ {t, c} : pc'[v] = pc[v]
    BY <1>1, <2>1, <2>2
  <2>4. pc[t] \in {"primordial", "run"} /\ (t # Main => pc[t] = "run")
    BY <2>2 DEF Program
  <2>5. HasHeap' = HasHeap /\ Started' = Started
    BY <1>1, <2>2, <2>3, <2>4 DEF HasHeap, Started, Threads
  <2>6. Holders'
    BY <1>1, <2>1, <2>2, <2>3, <2>4 DEF HeapInv, Holders
  <2>7. Registered'
    <3>1. \A d \in Components : /\ d \in Running' \/ pc'[d] = "gated" => d \in Running \/ pc[d] = "gated"
                                /\ pc'[d] = "gate" => pc[d] = "gate"
      BY <1>1, <2>2, <2>3, <2>4 DEF Running
    <3>2. \A v \in Threads : pc[v] = "register" => pc'[v] = "register" /\ child'[v] = child[v]
      <4>1. child \in [Threads -> Components \cup {None}]
        BY DEF Inv, TypeOK
      <4>. QED  BY <2>2, <2>3, <2>4, <4>1
    <3>. QED  BY <2>2, <2>5, <3>1, <3>2 DEF HeapInv, Registered
  <2>8. OwnIds'
    BY <2>2, <2>5 DEF HeapInv, OwnIds
  <2>. QED  BY <2>6, <2>7, <2>8 DEF HeapInv
<1>4. ASSUME NEW t \in Threads, Enlist(t)
      PROVE  HeapInv'
  <2>1. /\ pc[t] = "enlist" /\ pc' = [pc EXCEPT ![t] = "await"]
        /\ UNCHANGED <<heaps, child, id, thread_lock, SHList>>
    BY <1>4 DEF Enlist, Goto, perComponent
  <2>. QED  BY <2>1, HeapMoveInv
<1>5. ASSUME NEW t \in Threads, Await(t)
      PROVE  HeapInv'
  <2>1. /\ pc[t] = "await" /\ pc' = [pc EXCEPT ![t] = Program(t)]
        /\ child' = [child EXCEPT ![t] = None]
        /\ UNCHANGED <<heaps, id, thread_lock, SHList>>
    BY <1>5 DEF Await, Goto, lists
  <2>2. /\ pc'[t] \in {"primordial", "run"} /\ (t # Main => pc'[t] = "run")
        /\ \A v \in Threads \ {t} : pc'[v] = pc[v] /\ child'[v] = child[v]
    <3>1. child \in [Threads -> Components \cup {None}]
      BY DEF Inv, TypeOK
    <3>. QED  BY <1>1, <2>1, <3>1 DEF Program
  <2>3. HasHeap' = HasHeap /\ Started' = Started
    BY <1>1, <2>1, <2>2 DEF HasHeap, Started
  <2>4. Holders'
    BY <1>1, <2>1, <2>2 DEF HeapInv, Holders
  <2>5. Registered'
    <3>1. \A d \in Components : /\ d \in Running' \/ pc'[d] = "gated" => d \in Running \/ pc[d] = "gated"
                                /\ pc'[d] = "gate" => pc[d] = "gate"
      BY <1>1, <2>1, <2>2 DEF Running
    <3>2. \A v \in Threads : pc[v] = "register" => pc'[v] = "register" /\ child'[v] = child[v]
      BY <2>1, <2>2
    <3>. QED  BY <2>1, <2>3, <3>1, <3>2 DEF HeapInv, Registered
  <2>6. OwnIds'
    BY <2>1, <2>3 DEF HeapInv, OwnIds
  <2>. QED  BY <2>4, <2>5, <2>6 DEF HeapInv
<1>6. ASSUME NEW c \in Components, Gate(c)
      PROVE  HeapInv'
  <2>1. /\ pc[c] = "gate" /\ thread_lock = None /\ thread_lock' = c
        /\ pc' = [pc EXCEPT ![c] = "gated"]
        /\ UNCHANGED <<heaps, child, id, SHList>>
    BY <1>6 DEF Gate, GateOpen, Goto, perComponent, lists
  <2>2. pc'[c] = "gated" /\ \A v \in Threads \ {c} : pc'[v] = pc[v]
    BY <1>1, <2>1
  <2>3. HasHeap' = HasHeap /\ Started' = Started
    BY <1>1, <2>1, <2>2 DEF HasHeap, Started
  <2>4. \A v \in Threads : thread_lock # v
    BY <1>1, <2>1
  <2>5. Holders'
    BY <1>1, <2>1, <2>2, <2>4 DEF HeapInv, Holders
  <2>6. Registered'
    <3>1. heaps => c \in HasHeap
      BY <2>1, <2>4 DEF HeapInv, Registered, Holders
    <3>2. \A d \in Components \ {c} : /\ d \in Running' \/ pc'[d] = "gated" => d \in Running \/ pc[d] = "gated"
                                      /\ pc'[d] = "gate" => pc[d] = "gate"
      BY <1>1, <2>2 DEF Running
    <3>3. \A v \in Threads : pc[v] = "register" => pc'[v] = "register"
      BY <2>1, <2>2
    <3>. QED  BY <2>1, <2>2, <2>3, <3>1, <3>2, <3>3 DEF HeapInv, Registered
  <2>7. OwnIds'
    BY <2>1, <2>3 DEF HeapInv, OwnIds
  <2>. QED  BY <2>5, <2>6, <2>7 DEF HeapInv
<1>7. ASSUME NEW c \in Components, PassGate(c)
      PROVE  HeapInv'
  <2>1. /\ pc[c] = "gated" /\ thread_lock' = None
        /\ pc' = [pc EXCEPT ![c] = "run"]
        /\ UNCHANGED <<heaps, child, id, SHList>>
    BY <1>7 DEF PassGate, Goto, perComponent, lists
  <2>2. pc'[c] = "run" /\ \A v \in Threads \ {c} : pc'[v] = pc[v]
    BY <1>1, <2>1
  <2>3. HasHeap' = HasHeap /\ Started' = Started
    BY <1>1, <2>1, <2>2 DEF HasHeap, Started
  <2>4. Holders'
    BY <1>1, <2>1, <2>2 DEF HeapInv, Holders
  <2>5. Registered'
    <3>1. heaps => c \in HasHeap
      BY <2>1 DEF HeapInv, Registered
    <3>2. \A d \in Components \ {c} : /\ d \in Running' \/ pc'[d] = "gated" => d \in Running \/ pc[d] = "gated"
                                      /\ pc'[d] = "gate" => pc[d] = "gate"
      BY <1>1, <2>2 DEF Running
    <3>3. \A v \in Threads : pc[v] = "register" => pc'[v] = "register"
      BY <2>1, <2>2
    <3>. QED  BY <2>1, <2>2, <2>3, <3>1, <3>2, <3>3 DEF HeapInv, Registered
  <2>6. OwnIds'
    BY <2>1, <2>3 DEF HeapInv, OwnIds
  <2>. QED  BY <2>4, <2>5, <2>6 DEF HeapInv
<1>8. ASSUME NEW c \in Components, End(c)
      PROVE  HeapInv'
  <2>1. /\ pc[c] = "run" /\ pc' = [pc EXCEPT ![c] = "ended"]
        /\ UNCHANGED <<heaps, child, id, thread_lock, SHList>>
    BY <1>8 DEF End, Goto, perComponent, lists
  <2>. QED  BY <1>1, <2>1, HeapMoveInv
<1>9. ASSUME NEW c \in Components, Construct(c) \/ \E t \in Threads : Stop(t, c)
      PROVE  HeapInv'
  BY <1>9 DEF Construct, Stop, lists, HeapInv, Holders, Registered, OwnIds, HasHeap,
              Started, Running
<1>10. CASE ReadHead \/ NextItem
  <2>1. PICK b \in {"join", "destroy"} : pc' = [pc EXCEPT ![Main] = b]
    BY <1>10 DEF ReadHead, NextItem, AtItem, Goto
  <2>2. /\ pc[Main] \in {"primordial", "next"}
        /\ UNCHANGED <<heaps, child, id, thread_lock, SHList>>
    BY <1>10 DEF ReadHead, NextItem, AtItem, perComponent, lists
  <2>. QED  BY <1>1, <2>1, <2>2, HeapMoveInv
<1>11. CASE Join
  <2>. DEFINE c == threadList[cursor]
  <2>1. /\ pc[Main] = "join" /\ pc[c] = "ended" /\ c \in Components
        /\ pc' = [pc EXCEPT ![c] = "joined", ![Main] = "next"]
        /\ UNCHANGED <<heaps, child, id, thread_lock, SHList>>
    BY <1>11 DEF Join, Inv, TypeOK, perComponent, lists
  <2>. HIDE DEF c
  <2>2. pc'[c] = "joined" /\ pc'[Main] = "next" /\ \A v \in Threads \ {c, Main} : pc'[v] = pc[v]
    BY <1>1, <2>1
  <2>3. HasHeap' = HasHeap /\ Started' \subseteq Started
    BY <1>1, <2>1, <2>2 DEF HasHeap, Started
  <2>4. Holders'
    BY <1>1, <2>1, <2>2 DEF HeapInv, Holders
  <2>5. Registered'
    <3>1. \A d \in Components : /\ d \in Running' \/ pc'[d] = "gated" => d \in Running \/ pc[d] = "gated"
                                /\ pc'[d] = "gate" => pc[d] = "gate"
      BY <1>1, <2>1, <2>2 DEF Running
    <3>2. \A v \in Threads : pc[v] = "register" => pc'[v] = "register"
      BY <2>1, <2>2
    <3>. QED  BY <2>1, <2>3, <3>1, <3>2 DEF HeapInv, Registered
  <2>6. OwnIds'
    BY <2>1, <2>3 DEF HeapInv, OwnIds
  <2>. QED  BY <2>4, <2>5, <2>6 DEF HeapInv
<1>12. CASE Destroy
  <2>1. /\ pc[Main] = "destroy" /\ pc' = [pc EXCEPT ![Main] = "returned"]
        /\ UNCHANGED <<heaps, child, id, thread_lock>>
    BY <1>12 DEF Destroy, Goto, perComponent
  <2>2. pc'[Main] = "returned" /\ \A c \in Components : pc'[c] = pc[c] /\ pc[c] \in {"none", "joined"}
    BY <1>1, <2>1 DEF Inv, AllJoined
  <2>3. Started' = {} /\ Running' = {}
    BY <2>2 DEF Started, Running
  <2>4. \A t \in Threads : pc'[t] \notin {"lock", "spawn", "register", "unlock", "gated", "gate"}
    BY <2>2 DEF Threads
  <2>5. \A c \in Components : c \in Threads
    BY <1>1
  <2>. QED  BY <2>3, <2>4, <2>5 DEF HeapInv, Holders, Registered, OwnIds
<1>13. ASSUME NEW t \in Threads, CreateStep(t)
       PROVE  HeapInv'
  BY <1>4, <1>5, <1>13, HeapCreatingInv DEF CreateStep
<1>14. ASSUME NEW t \in Threads, NEW c \in Components, Create(t, c) \/ Stop(t, c)
       PROVE  HeapInv'
  BY <1>3, <1>9, <1>14
<1>15. ASSUME NEW c \in Components, Gate(c) \/ PassGate(c) \/ Construct(c) \/ End(c)
       PROVE  HeapInv'
  BY <1>6, <1>7, <1>8, <1>9, <1>15
<1>. QED  BY <1>2, <1>10, <1>11, <1>12, <1>13, <1>14, <1>15 DEF Next, MainStep

(* In every state the lock is held where a heap is still to be registered,  *)
(* and threads have their own IDs.                                          *)
THEOREM HeapsRegistered == Spec => []HeapInv
<1>1. Init => HeapInv
  <2>. SUFFICES ASSUME Init PROVE HeapInv
    OBVIOUS
  <2>1. /\ \A t \in Threads : pc[t] \in {"primordial", "none"}
        /\ \A c \in Components : pc[c] = "none"
    BY LifecycleAssumption DEF Init, Threads
  <2>2. Started = {} /\ Running = {}
    BY <2>1 DEF Started, Running
  <2>. QED  BY <2>1, <2>2 DEF HeapInv, Holders, Registered, OwnIds
<1>2. Inv /\ HeapInv /\ [Next]_vars => HeapInv'
  BY HeapNextInv
<1>. QED  BY <1>1, <1>2, LifecycleInvariance, PTL DEF Spec

(* The first element with a component's ID, when the component's own is on  *)
(* the list: there is one, and it has that ID.                              *)
LEMMA HeapOfMatches ==
  ASSUME Inv, NEW c \in Components, c \in HasHeap
  PROVE  /\ HeapOf(c) \in Components /\ HeapOf(c) \in HasHeap
         /\ Compared(id[HeapOf(c)]) = Compared(id[c])
<1>1. SHList \in Seq(Components) /\ DOMAIN SHList = 1..Len(SHList) /\ Len(SHList) \in Nat
  BY DEF Inv, TypeOK
<1>2. Matching(c) \in SUBSET Nat /\ Matching(c) # {}
  BY <1>1 DEF Matching, HasHeap
<1>3. PICK m \in Matching(c) : \A n \in Matching(c) : m <= n
  <2>. DEFINE S == Matching(c)
  <2>. HIDE DEF S
  <2>1. S \in SUBSET Nat /\ S # {}
    BY <1>2 DEF S
  <2>2. \E m \in S : \A n \in S : m <= n
    BY <2>1, Least
  <2>. QED  BY <2>2 DEF S
<1>. DEFINE first == CHOOSE k \in Matching(c) : \A l \in Matching(c) : k <= l
<1>4. first \in Matching(c)
  BY <1>3
<1>5. HeapOf(c) = SHList[first]
  BY <1>2 DEF HeapOf
<1>. HIDE DEF first
<1>. QED  BY <1>1, <1>4, <1>5 DEF Matching, HasHeap

(* With HEAPS every component that runs finds a heap, whoever creates it    *)
(* and whatever IDs the threads get.                                        *)
THEOREM HeapsFound == Spec => []HeapFound
<1>1. Inv /\ HeapInv => HeapFound
  <2>. SUFFICES ASSUME Inv, HeapInv, heaps, NEW c \in Running
                PROVE  HeapOf(c) # None
    BY DEF HeapFound
  <2>1. c \in Components /\ c \in HasHeap
    BY DEF HeapInv, Registered, Running
  <2>. QED  BY <2>1, HeapOfMatches, LifecycleAssumption
<1>. QED  BY <1>1, LifecycleInvariance, HeapsRegistered, PTL

(* No two that run have IDs that look alike when they are truncated. *)
ToldApart ==
  \A c, d \in Running : Compared(id[c]) = Compared(id[d]) => c = d

(* The components that run have a heap each exactly as long as the          *)
(* truncated comparison of listGetMemoryLocation tells their IDs apart.     *)
THEOREM HeapsArePrivate == Spec => [](heaps => (HeapsPrivate <=> ToldApart))
<1>1. Inv /\ HeapInv => (heaps => (HeapsPrivate <=> ToldApart))
  <2>. SUFFICES ASSUME Inv, HeapInv, heaps
                PROVE  HeapsPrivate <=> ToldApart
    OBVIOUS
  <2>1. ASSUME NEW c \in Running
        PROVE  Compared(id[HeapOf(c)]) = Compared(id[c])
    <3>1. c \in Components /\ c \in HasHeap
      BY DEF HeapInv, Registered, Running
    <3>. QED  BY <3>1, HeapOfMatches
  <2>2. ASSUME NEW c \in Running, NEW d \in Running, Compared(id[c]) = Compared(id[d])
        PROVE  HeapOf(c) = HeapOf(d)
    <3>1. Matching(c) = Matching(d)
      BY <2>2 DEF Matching
    <3>. QED  BY <3>1 DEF HeapOf
  <2>3. HeapsPrivate => ToldApart
    BY <2>2 DEF HeapsPrivate, ToldApart
  <2>4. ToldApart => HeapsPrivate
    BY <2>1 DEF HeapsPrivate, ToldApart
  <2>. QED  BY <2>3, <2>4
<1>. QED  BY <1>1, LifecycleInvariance, HeapsRegistered, PTL

-----------------------------------------------------------------------------
(* A component on SHList has had a thread, with an ID. *)
Numbered == \A c \in HasHeap : pc[c] \notin {"none", "made"} /\ id[c] \in Ids

LEMMA NumberedNext ==
  ASSUME Inv, HeapInv, Numbered, [Next]_vars
  PROVE  Numbered'
<1>1. /\ pc \in [Threads -> Labels] /\ id \in [Components -> Nat]
      /\ Components \subseteq Threads /\ Main \in Threads \ Components
      /\ HasHeap \subseteq Components /\ SHList \in Seq(Components)
  BY LifecycleAssumption DEF Inv, TypeOK, Labels, Threads, HasHeap
<1>2. ASSUME HasHeap' \subseteq HasHeap, id' = id,
             \A c \in Components : pc[c] \notin {"none", "made"} => pc'[c] \notin {"none", "made"}
      PROVE  Numbered'
  BY <1>1, <1>2 DEF Numbered
<1>3. ASSUME NEW t \in Threads, NEW c \in Components, Create(t, c)
      PROVE  Numbered'
  <2>1. /\ pc[c] = "none" /\ pc' = [pc EXCEPT ![c] = "made", ![t] = IF heaps THEN "lock" ELSE "spawn"]
        /\ SHList' = SHList /\ id' = id
    BY <1>3 DEF Create, lists, perComponent
  <2>2. \A d \in Components : pc[d] \notin {"none", "made"} => pc'[d] \notin {"none", "made"}
    BY <1>1, <2>1
  <2>. QED  BY <1>2, <2>1, <2>2 DEF HasHeap
<1>4. ASSUME NEW t \in Threads, Spawn(t)
      PROVE  Numbered'
  <2>1. /\ pc[t] = "spawn" /\ SHList' = SHList
        /\ pc' = [pc EXCEPT ![child[t]] = "gate", ![t] = IF heaps THEN "register" ELSE "enlist"]
        /\ \E i \in Ids : id' = [id EXCEPT ![child[t]] = i]
    BY <1>4 DEF Spawn, lists
  <2>2. pc[child[t]] = "made"
    BY <2>1 DEF Inv, Creators
  <2>3. \A c \in HasHeap : c # child[t]
    BY <2>2 DEF Numbered
  <2>4. \A c \in HasHeap : pc'[c] \notin {"none", "made"} /\ id'[c] = id[c]
    BY <1>1, <2>1, <2>3 DEF Numbered
  <2>5. HasHeap' = HasHeap
    BY <2>1 DEF HasHeap
  <2>6. \A c \in HasHeap : id'[c] \in Ids
    BY <2>4 DEF Numbered
  <2>. QED  BY <2>4, <2>5, <2>6 DEF Numbered
<1>5. ASSUME NEW t \in Threads, Register(t)
      PROVE  Numbered'
  <2>1. /\ pc[t] = "register" /\ pc' = [pc EXCEPT ![t] = "unlock"]
        /\ SHList' = Append(SHList, child[t]) /\ id' = id
    BY <1>5 DEF Register, Goto, perComponent
  <2>2. child[t] \in Components /\ pc[child[t]] \notin {"none", "made", "joined"}
    BY <2>1 DEF Inv, Creators, Starting
  <2>3. id[child[t]] \in Ids
    BY <2>2 DEF HeapInv, OwnIds, Started
  <2>4. HasHeap' \subseteq HasHeap \cup {child[t]}
    BY <1>1, <2>1, <2>2 DEF HasHeap
  <2>5. \A c \in Components : pc[c] \notin {"none", "made"} => pc'[c] \notin {"none", "made"}
    BY <1>1, <2>1
  <2>. QED  BY <1>1, <2>1, <2>2, <2>3, <2>4, <2>5 DEF Numbered
<1>6. ASSUME NEW u \in Threads, NEW there \in Labels \ {"none", "made"},
             pc' = [pc EXCEPT ![u] = there], HasHeap' \subseteq HasHeap, id' = id
      PROVE  Numbered'
  <2>1. \A c \in Components : pc[c] \notin {"none", "made"} => pc'[c] \notin {"none", "made"}
    BY <1>1, <1>6
  <2>. QED  BY <1>2, <1>6, <2>1
<1>7. ASSUME NEW t \in Threads, TakeLock(t) \/ Unlock(t) \/ Enlist(t) \/ Await(t)
      PROVE  Numbered'
  <2>1. PICK there \in {"spawn", "enlist", "await", Program(t)} : pc' = [pc EXCEPT ![t] = there]
    BY <1>7 DEF TakeLock, Unlock, Enlist, Await, Goto
  <2>2. there \in Labels \ {"none", "made"}
    BY DEF Program, Labels
  <2>3. HasHeap' = HasHeap /\ id' = id
    BY <1>7 DEF TakeLock, Unlock, Enlist, Await, perComponent, lists, HasHeap
  <2>. QED  BY <1>6, <2>1, <2>2, <2>3
<1>8. ASSUME NEW c \in Components, Gate(c) \/ PassGate(c) \/ End(c)
      PROVE  Numbered'
  <2>1. PICK there \in {"gated", "run", "ended"} : pc' = [pc EXCEPT ![c] = there]
    BY <1>8 DEF Gate, PassGate, End, Goto
  <2>2. HasHeap' = HasHeap /\ id' = id
    BY <1>8 DEF Gate, PassGate, End, perComponent, lists, HasHeap
  <2>3. there \in Labels \ {"none", "made"}
    BY DEF Labels
  <2>. QED  BY <1>1, <1>6, <2>1, <2>2, <2>3
<1>9. ASSUME NEW c \in Components, Construct(c) \/ \E t \in Threads : Stop(t, c)
      PROVE  Numbered'
  BY <1>9 DEF Construct, Stop, lists, Numbered, HasHeap
<1>10. CASE ReadHead \/ NextItem \/ Destroy
  <2>1. PICK there \in {"join", "destroy", "returned"} : pc' = [pc EXCEPT ![Main] = there]
    BY <1>10 DEF ReadHead, NextItem, Destroy, AtItem, Goto
  <2>2. HasHeap' \subseteq HasHeap /\ id' = id
    <3>1. SHList' \in {SHList, <<>>} /\ id' = id
      BY <1>10 DEF ReadHead, NextItem, Destroy, AtItem, perComponent, lists
    <3>. QED  BY <3>1 DEF HasHeap
  <2>3. there \in Labels \ {"none", "made"}
    BY DEF Labels
  <2>. QED  BY <1>1, <1>6, <2>1, <2>2, <2>3
<1>11. CASE Join
  <2>1. /\ pc' = [pc EXCEPT ![threadList[cursor]] = "joined", ![Main] = "next"]
        /\ SHList' = SHList /\ id' = id
    BY <1>11 DEF Join, perComponent, lists
  <2>2. \A c \in Components : pc[c] \notin {"none", "made"} => pc'[c] \notin {"none", "made"}
    BY <1>1, <2>1
  <2>. QED  BY <1>2, <2>1, <2>2 DEF HasHeap
<1>12. CASE UNCHANGED vars
  BY <1>12 DEF vars, perComponent, lists, Numbered, HasHeap
<1>. QED
  BY <1>3, <1>4, <1>5, <1>7, <1>8, <1>9, <1>10, <1>11, <1>12
  DEF Next, MainStep, CreateStep

(* A component uses its own heap or that of another whose truncated ID is   *)
(* its own, and only of a joined one if the IDs are the same.               *)
THEOREM HeapsAreOwn == Spec => []OwnHeapUnlessAlike
<1>1. Init => Numbered
  <2>1. Init => HasHeap = {}
    BY DEF Init, HasHeap
  <2>. QED  BY <2>1 DEF Numbered
<1>2. Inv /\ HeapInv /\ Numbered /\ [Next]_vars => Numbered'
  BY NumberedNext
<1>3. Inv /\ HeapInv /\ Numbered => OwnHeapUnlessAlike
  <2>. SUFFICES ASSUME Inv, HeapInv, Numbered, heaps, NEW c \in Running
                PROVE  /\ HeapOf(c) \in Components
                       /\ id[HeapOf(c)] % Low = id[c] % Low
                       /\ HeapOf(c) # c /\ id[HeapOf(c)] = id[c] =>
                            pc[HeapOf(c)] = "joined"
    BY DEF OwnHeapUnlessAlike
  <2>1. c \in Components /\ c \in HasHeap /\ c \in Started
    BY DEF HeapInv, Registered, Running, Started
  <2>2. /\ HeapOf(c) \in Components
        /\ id[HeapOf(c)] % Low = id[c] % Low
    BY <2>1, HeapOfMatches DEF Compared
  <2>3. HeapOf(c) \in HasHeap
    BY <2>1, HeapOfMatches
  <2>4. HeapOf(c) # c /\ id[HeapOf(c)] = id[c] => HeapOf(c) \notin Started
    BY <2>1 DEF HeapInv, OwnIds
  <2>. QED  BY <2>2, <2>3, <2>4 DEF Numbered, Started
<1>. QED  BY <1>1, <1>2, <1>3, LifecycleInvariance, HeapsRegistered, PTL DEF Spec

-----------------------------------------------------------------------------
(* Who waits for whom *)

(* The thread is in component_create, with a child of its own. *)
Busy == Starting \cup {"await"}

(* thread_lock is held by a thread that goes on: a creator between taking   *)
(* it and giving it back, or a component inside the gate.                   *)
LockOwned ==
  thread_lock # None =>
    \/ pc[thread_lock] \in {"register", "unlock", "gated"}
    \/ heaps /\ pc[thread_lock] = "spawn"

(* A child's semaphore is taken by its creator only, and not before the     *)
(* creator waits; nobody ends without having posted it.                     *)
Awaited ==
  /\ \A t \in Threads : pc[t] \in Busy =>
       pc[child[t]] # "none" /\ create_sem[child[t]] # "taken"
  /\ \A t \in Threads : pc[t] = "await" => pc[child[t]] # "made"
  /\ \A s, t \in Threads :
       pc[s] \in Busy /\ pc[t] \in Busy /\ child[s] = child[t] => s = t
  /\ \A c \in Components : pc[c] = "none" => create_sem[c] = "no"
  /\ \A c \in Components : pc[c] \in {"ended", "joined"} => create_sem[c] # "no"

(* Those a creator waits for can be counted down: nobody waits for itself,  *)
(* through however many components.                                         *)
Descends ==
  \E rank \in [Components -> Nat] :
    \A t \in Components : pc[t] \in Busy => rank[child[t]] < rank[t]

(* An item of threadList is a component's only one, and it is joined there, *)
(* so that main never waits for one that is joined.                         *)
InOrder ==
  /\ \A k, l \in DOMAIN threadList : threadList[k] = threadList[l] => k = l
  /\ \A k \in DOMAIN threadList : pc[threadList[k]] = "joined" =>
       /\ pc[Main] \in {"join", "next", "destroy", "returned"}
       /\ pc[Main] = "join" => k < cursor
       /\ pc[Main] = "next" => k <= cursor

WaitInv == LockOwned /\ Awaited /\ Descends /\ InOrder

(* Steps after which nobody has become a creator, and the semaphores are    *)
(* what creators and constructors make them, keep who waits for whom.       *)
LEMMA WaitKept ==
  ASSUME Inv, Awaited, Descends,
         \A u \in Threads : pc'[u] \in Busy =>
           /\ pc[u] \in Busy /\ child'[u] = child[u]
           /\ create_sem'[child[u]] # "taken",
         \A u \in Threads : pc'[u] = "await" => pc[u] = "await" \/ pc[child[u]] # "made",
         \A u \in Threads : pc'[u] = "none" => pc[u] = "none",
         \A u \in Threads : pc'[u] = "made" => pc[u] = "made",
         \A c \in Components : pc'[c] = "none" => create_sem'[c] = create_sem[c],
         \A c \in Components : pc'[c] \in {"ended", "joined"} => create_sem'[c] # "no"
  PROVE  Awaited' /\ Descends'
<1>1. \A u \in Threads : pc[u] \in Busy => child[u] \in Components /\ child[u] \in Threads
  BY DEF Inv, Creators, Busy, Threads
<1>2. Components \subseteq Threads
  BY DEF Threads
<1>3. \A t \in Threads : pc'[t] \in Busy =>
        pc'[child'[t]] # "none" /\ create_sem'[child'[t]] # "taken"
  BY <1>1 DEF Awaited
<1>4. \A t \in Threads : pc'[t] = "await" => pc'[child'[t]] # "made"
  <2>. SUFFICES ASSUME NEW t \in Threads, pc'[t] = "await"
                PROVE  pc'[child'[t]] # "made"
    OBVIOUS
  <2>1. pc'[t] \in Busy
    BY DEF Busy
  <2>2. pc[child[t]] # "made"
    BY DEF Awaited
  <2>. QED  BY <1>1, <2>1, <2>2
<1>5. \A s, t \in Threads :
        pc'[s] \in Busy /\ pc'[t] \in Busy /\ child'[s] = child'[t] => s = t
  BY DEF Awaited
<1>6. \A c \in Components : pc'[c] = "none" => create_sem'[c] = "no"
  BY <1>2 DEF Awaited
<1>7. Awaited'
  BY <1>3, <1>4, <1>5, <1>6 DEF Awaited
<1>8. Descends'
  BY <1>2 DEF Descends
<1>. QED  BY <1>7, <1>8

(* The list and main's place in it are kept by those who do not join.       *)
LEMMA OrderKept ==
  ASSUME Inv, InOrder, UNCHANGED <<threadList, cursor>>,
         pc'[Main] \in {"join", "next"} => pc'[Main] = pc[Main],
         pc[Main] \in {"join", "next", "destroy", "returned"} => pc'[Main] = pc[Main],
         \A c \in Components : pc'[c] = "joined" => pc[c] = "joined"
  PROVE  InOrder'
<1>1. \A k \in DOMAIN threadList : threadList[k] \in Components
  BY DEF Inv, TypeOK
<1>. QED  BY <1>1 DEF InOrder

(* A thread that moves on without creating, listing, returning or joining.  *)
LEMMA WaitMove ==
  ASSUME Inv, WaitInv, UNCHANGED <<child, create_sem, threadList, cursor>>,
         NEW u \in Threads, NEW b, pc' = [pc EXCEPT ![u] = b],
         b \notin {"none", "made", "await", "joined", "join", "next", "destroy", "returned"},
         pc[u] \notin {"join", "next", "destroy", "returned"},
         b \in Busy => pc[u] \in Busy,
         b = "ended" => u \in Components /\ create_sem[u] # "no"
  PROVE  Awaited' /\ Descends' /\ InOrder'
<1>1. /\ pc \in [Threads -> Labels] /\ Components \subseteq Threads
  BY DEF Inv, TypeOK, Labels, Threads
<1>2. pc'[u] = b /\ \A v \in Threads \ {u} : pc'[v] = pc[v]
  BY <1>1
<1>3. Awaited' /\ Descends'
  <2>1. \A v \in Threads : pc'[v] \in Busy =>
          pc[v] \in Busy /\ child'[v] = child[v] /\ create_sem'[child[v]] # "taken"
    BY <1>2 DEF WaitInv, Awaited
  <2>2. \A v \in Threads : /\ pc'[v] = "await" => pc[v] = "await"
                           /\ pc'[v] = "none" => pc[v] = "none"
                           /\ pc'[v] = "made" => pc[v] = "made"
    BY <1>2
  <2>3. \A c \in Components : pc'[c] \in {"ended", "joined"} => create_sem'[c] # "no"
    BY <1>1, <1>2 DEF WaitInv, Awaited
  <2>. QED  BY <2>1, <2>2, <2>3, WaitKept DEF WaitInv
<1>4. InOrder'
  <2>1. pc'[Main] \in {"join", "next"} => pc'[Main] = pc[Main]
    BY <1>2 DEF Threads
  <2>2. pc[Main] \in {"join", "next", "destroy", "returned"} => pc'[Main] = pc[Main]
    BY <1>2 DEF Threads
  <2>3. \A c \in Components : pc'[c] = "joined" => pc[c] = "joined"
    BY <1>1, <1>2
  <2>. QED  BY <2>1, <2>2, <2>3, OrderKept DEF WaitInv
<1>. QED  BY <1>3, <1>4

(* A new component waits for nobody yet, and is its creator's only.         *)
LEMMA WaitCreate ==
  ASSUME Inv, HeapInv, WaitInv, NEW t \in Threads, NEW c \in Components, Create(t, c)
  PROVE  WaitInv'
<1>1. /\ pc \in [Threads -> Labels] /\ child \in [Threads -> Components \cup {None}]
      /\ t \in Threads /\ c \in Threads /\ pc[t] \in {"primordial", "run"}
      /\ pc[c] = "none" /\ c # t
  BY DEF Inv, TypeOK, Labels, Create, Program, Threads
<1>2. PICK s \in {"lock", "spawn"} : pc' = [pc EXCEPT ![c] = "made", ![t] = s]
  BY DEF Create
<1>3. /\ child' = [child EXCEPT ![t] = c]
      /\ UNCHANGED <<heaps, create_sem, thread_lock, threadList, cursor>>
  BY DEF Create, perComponent, lists
<1>4. /\ pc'[t] = s /\ pc'[c] = "made" /\ child'[t] = c
      /\ \A u \in Threads \ {t, c} : pc'[u] = pc[u]
      /\ \A u \in Threads \ {t} : child'[u] = child[u]
  BY <1>1, <1>2, <1>3
<1>5. \A u \in Threads : pc[u] \in Busy => child[u] \in Components /\ child[u] # c
  BY <1>1 DEF Inv, Creators, Busy, WaitInv, Awaited
<1>6. \A u \in Threads : pc'[u] \in Busy => u = t \/ (u # t /\ u # c /\ pc[u] \in Busy)
  BY <1>4 DEF Busy, Starting
<1>7. LockOwned'
  BY <1>1, <1>3, <1>4 DEF WaitInv, LockOwned, Inv, TypeOK
<1>8. Awaited'
  <2>1. \A u \in Threads : pc'[u] \in Busy =>
          pc'[child'[u]] # "none" /\ create_sem'[child'[u]] # "taken"
    <3>. SUFFICES ASSUME NEW u \in Threads, pc'[u] \in Busy
                  PROVE  pc'[child'[u]] # "none" /\ create_sem[child'[u]] # "taken"
      BY <1>3
    <3>1. CASE u = t
      BY <1>1, <1>4, <3>1 DEF WaitInv, Awaited
    <3>2. CASE u # t
      <4>1. /\ child'[u] = child[u] /\ child[u] # c /\ child[u] \in Threads
            /\ pc[child[u]] # "none" /\ create_sem[child[u]] # "taken"
        BY <1>4, <1>5, <1>6, <3>2 DEF WaitInv, Awaited, Threads
      <4>2. CASE child[u] = t
        BY <1>2, <1>4, <4>1, <4>2
      <4>3. CASE child[u] # t
        BY <1>4, <4>1, <4>3
      <4>. QED  BY <4>2, <4>3
    <3>. QED  BY <3>1, <3>2
  <2>2. \A u \in Threads : pc'[u] = "await" => pc'[child'[u]] # "made"
    <3>. SUFFICES ASSUME NEW u \in Threads, pc'[u] = "await"
                  PROVE  pc'[child'[u]] # "made"
      OBVIOUS
    <3>1. u # t /\ u # c /\ pc[u] = "await"
      BY <1>2, <1>4
    <3>2. child'[u] = child[u] /\ child[u] # c /\ child[u] \in Threads /\ pc[child[u]] # "made"
      BY <1>4, <1>5, <3>1 DEF WaitInv, Awaited, Busy, Threads
    <3>. QED  BY <1>2, <1>4, <3>2
  <2>3. \A u, v \in Threads :
          pc'[u] \in Busy /\ pc'[v] \in Busy /\ child'[u] = child'[v] => u = v
    BY <1>4, <1>5, <1>6 DEF WaitInv, Awaited
  <2>4. \A d \in Components : pc'[d] = "none" => create_sem'[d] = "no"
    BY <1>2, <1>3, <1>4 DEF WaitInv, Awaited, Threads
  <2>5. \A d \in Components : pc'[d] \in {"ended", "joined"} => create_sem'[d] # "no"
    BY <1>2, <1>3, <1>4 DEF WaitInv, Awaited, Threads
  <2>. QED  BY <2>1, <2>2, <2>3, <2>4, <2>5 DEF Awaited
<1>9. Descends'
  <2>1. PICK rank \in [Components -> Nat] :
          \A u \in Components : pc[u] \in Busy => rank[child[u]] < rank[u]
    BY DEF WaitInv, Descends
  <2>. DEFINE new == [d \in Components |-> IF d = c THEN 0 ELSE rank[d] + 1]
  <2>2. new \in [Components -> Nat]
    BY <2>1
  <2>3. ASSUME NEW u \in Components, pc'[u] \in Busy
        PROVE  new[child'[u]] < new[u]
    <3>1. CASE u = t
      BY <1>1, <1>4, <2>1, <3>1
    <3>2. CASE u # t
      <4>1. u # c /\ pc[u] \in Busy /\ child'[u] = child[u] /\ child[u] # c
            /\ child[u] \in Components
        BY <1>4, <1>5, <1>6, <2>3, <3>2 DEF Threads
      <4>. QED  BY <2>1, <4>1
    <3>. QED  BY <3>1, <3>2
  <2>. HIDE DEF new
  <2>. QED  BY <2>2, <2>3 DEF Descends
<1>10. InOrder'
  <2>1. /\ pc'[Main] \in {"join", "next"} => pc'[Main] = pc[Main]
        /\ pc[Main] \in {"join", "next", "destroy", "returned"} => pc'[Main] = pc[Main]
    BY <1>1, <1>2, <1>4, LifecycleAssumption DEF Threads
  <2>2. \A d \in Components : pc'[d] = "joined" => pc[d] = "joined"
    BY <1>2, <1>4 DEF Threads
  <2>. QED  BY <1>3, <2>1, <2>2, OrderKept DEF WaitInv
<1>. QED  BY <1>7, <1>8, <1>9, <1>10 DEF WaitInv

(* Starting the child's thread, with the lock or without HEAPS.             *)
LEMMA WaitSpawn ==
  ASSUME Inv, HeapInv, WaitInv, NEW t \in Threads, Spawn(t)
  PROVE  WaitInv'
<1>. DEFINE c == child[t]
<1>1. /\ pc \in [Threads -> Labels] /\ pc[t] = "spawn"
      /\ c \in Components /\ c \in Threads /\ pc[c] = "made" /\ c # t
  BY DEF Inv, TypeOK, Labels, Creators, Spawn, Threads, Starting
<1>2. /\ pc' = [pc EXCEPT ![c] = "gate", ![t] = IF heaps THEN "register" ELSE "enlist"]
      /\ UNCHANGED <<heaps, child, create_sem, thread_lock, threadList, cursor>>
  BY DEF Spawn, lists
<1>. HIDE DEF c
<1>3. PICK s \in {"register", "enlist"} : pc'[t] = s /\ (heaps => s = "register")
  BY <1>1, <1>2
<1>4. pc'[c] = "gate" /\ \A u \in Threads \ {t, c} : pc'[u] = pc[u]
  BY <1>1, <1>2
<1>5. LockOwned'
  BY <1>1, <1>2, <1>3, <1>4 DEF WaitInv, LockOwned, Inv, TypeOK
<1>6. Awaited' /\ Descends'
  <2>1. \A u \in Threads : pc'[u] \in Busy =>
          pc[u] \in Busy /\ child'[u] = child[u] /\ create_sem'[child[u]] # "taken"
    BY <1>1, <1>2, <1>4 DEF WaitInv, Awaited, Busy, Starting
  <2>2. \A u \in Threads : /\ pc'[u] = "await" => pc[u] = "await"
                           /\ pc'[u] = "none" => pc[u] = "none"
                           /\ pc'[u] = "made" => pc[u] = "made"
    BY <1>3, <1>4
  <2>3. \A d \in Components : pc'[d] \in {"ended", "joined"} => create_sem'[d] # "no"
    BY <1>2, <1>3, <1>4 DEF WaitInv, Awaited, Threads
  <2>. QED  BY <1>2, <2>1, <2>2, <2>3, WaitKept DEF WaitInv
<1>7. InOrder'
  <2>1. /\ pc'[Main] \in {"join", "next"} => pc'[Main] = pc[Main]
        /\ pc[Main] \in {"join", "next", "destroy", "returned"} => pc'[Main] = pc[Main]
    BY <1>1, <1>3, <1>4, LifecycleAssumption DEF Threads
  <2>2. \A d \in Components : pc'[d] = "joined" => pc[d] = "joined"
    BY <1>3, <1>4 DEF Threads
  <2>. QED  BY <1>2, <2>1, <2>2, OrderKept DEF WaitInv
<1>. QED  BY <1>5, <1>6, <1>7 DEF WaitInv

(* Listing the child: it is not on the list yet and not joined.             *)
LEMMA WaitEnlist ==
  ASSUME Inv, HeapInv, WaitInv, NEW t \in Threads, Enlist(t)
  PROVE  WaitInv'
<1>. DEFINE c == child[t]
            n == Len(threadList)
<1>1. /\ pc \in [Threads -> Labels] /\ pc[t] = "enlist"
      /\ c \in Components /\ c \in Threads /\ pc[c] \notin {"none", "made", "joined"}
      /\ c \notin Listed /\ threadList \in Seq(Components) /\ n \in Nat
      /\ DOMAIN threadList = 1..n
  BY DEF Inv, TypeOK, Labels, Creators, Enlist, Threads, Starting
<1>2. /\ pc' = [pc EXCEPT ![t] = "await"] /\ threadList' = Append(threadList, c)
      /\ UNCHANGED <<heaps, child, create_sem, thread_lock, cursor>>
  BY DEF Enlist, Enlisted, Goto, perComponent
<1>3. pc'[t] = "await" /\ \A u \in Threads \ {t} : pc'[u] = pc[u]
  BY <1>1, <1>2
<1>4. /\ DOMAIN threadList' = 1..(n + 1) /\ threadList'[n + 1] = c
      /\ \A k \in 1..n : threadList'[k] = threadList[k]
  BY <1>1, <1>2, AppendProperties
<1>5. LockOwned'
  BY <1>1, <1>2, <1>3 DEF WaitInv, LockOwned, Inv, TypeOK
<1>6. Awaited' /\ Descends'
  <2>1. \A u \in Threads : pc'[u] \in Busy =>
          pc[u] \in Busy /\ child'[u] = child[u] /\ create_sem'[child[u]] # "taken"
    BY <1>1, <1>2, <1>3 DEF WaitInv, Awaited, Busy, Starting
  <2>2. \A u \in Threads : pc'[u] = "await" => pc[u] = "await" \/ pc[child[u]] # "made"
    BY <1>1, <1>3
  <2>3. \A u \in Threads : /\ pc'[u] = "none" => pc[u] = "none"
                           /\ pc'[u] = "made" => pc[u] = "made"
    BY <1>3
  <2>4. \A d \in Components : pc'[d] \in {"ended", "joined"} => create_sem'[d] # "no"
    BY <1>2, <1>3 DEF WaitInv, Awaited, Threads
  <2>. QED  BY <1>2, <2>1, <2>2, <2>3, <2>4, WaitKept DEF WaitInv
<1>. HIDE DEF c, n
<1>7. InOrder'
  <2>1. \A k \in 1..n : threadList[k] \in Components /\ threadList[k] # c
    BY <1>1 DEF Listed
  <2>2. \A d \in Components : pc'[d] = "joined" => pc[d] = "joined"
    BY <1>3 DEF Threads
  <2>3. pc'[Main] = pc[Main] \/ Main = t
    BY <1>3 DEF Threads
  <2>4. pc'[c] # "joined"
    BY <1>1, <1>3
  <2>5. \A k, l \in 1..(n + 1) : threadList'[k] = threadList'[l] => k = l
    <3>1. \A k, l \in 1..n : threadList[k] = threadList[l] => k = l
      BY <1>1 DEF WaitInv, InOrder
    <3>2. \A k \in 1..(n + 1) : k \in 1..n \/ k = n + 1
      BY <1>1
    <3>. QED  BY <1>4, <2>1, <3>1, <3>2
  <2>6. ASSUME NEW k \in 1..(n + 1), pc'[threadList'[k]] = "joined"
        PROVE  /\ pc'[Main] \in {"join", "next", "destroy", "returned"}
               /\ pc'[Main] = "join" => k < cursor'
               /\ pc'[Main] = "next" => k <= cursor'
    <3>1. k \in 1..n
      BY <1>1, <1>4, <2>4, <2>6
    <3>2. pc[threadList[k]] = "joined"
      BY <1>4, <2>1, <2>2, <2>6, <3>1
    <3>3. /\ pc[Main] \in {"join", "next", "destroy", "returned"}
          /\ pc[Main] = "join" => k < cursor
          /\ pc[Main] = "next" => k <= cursor
      BY <1>1, <3>1, <3>2 DEF WaitInv, InOrder
    <3>4. Main # t
      BY <1>1, <3>3
    <3>. QED  BY <1>2, <2>3, <3>3, <3>4
  <2>. QED  BY <1>4, <2>5, <2>6 DEF InOrder
<1>. QED  BY <1>5, <1>6, <1>7 DEF WaitInv

(* A creator takes its own child's semaphore, which no other waits for.     *)
LEMMA WaitAwait ==
  ASSUME Inv, HeapInv, WaitInv, NEW t \in Threads, Await(t)
  PROVE  WaitInv'
<1>. DEFINE c == child[t]
<1>1. /\ pc \in [Threads -> Labels] /\ pc[t] = "await" /\ create_sem[c] = "posted"
      /\ create_sem \in [Components -> {"no", "posted", "taken"}]
      /\ c \in Components /\ c \in Threads /\ pc[c] # "none"
      /\ child \in [Threads -> Components \cup {None}]
  BY DEF Inv, TypeOK, Labels, Creators, Await, Threads, WaitInv, Awaited, Busy
<1>2. /\ pc' = [pc EXCEPT ![t] = Program(t)] /\ child' = [child EXCEPT ![t] = None]
      /\ create_sem' = [create_sem EXCEPT ![c] = "taken"]
      /\ UNCHANGED <<heaps, thread_lock, threadList, cursor>>
  BY DEF Await, Goto, lists
<1>3. PICK s \in {"primordial", "run"} : pc'[t] = s
  BY <1>1, <1>2 DEF Program
<1>4. /\ \A u \in Threads \ {t} : pc'[u] = pc[u] /\ child'[u] = child[u]
      /\ create_sem'[c] = "taken"
      /\ \A d \in Components \ {c} : create_sem'[d] = create_sem[d]
  BY <1>1, <1>2
<1>5. \A u \in Threads \ {t} : pc[u] \in Busy => child[u] \in Components /\ child[u] # c
  BY <1>1 DEF Inv, Creators, Busy, WaitInv, Awaited
<1>. HIDE DEF c
<1>6. LockOwned'
  BY <1>1, <1>2, <1>4 DEF WaitInv, LockOwned, Inv, TypeOK
<1>7. Awaited' /\ Descends'
  <2>1. \A u \in Threads : pc'[u] \in Busy =>
          pc[u] \in Busy /\ child'[u] = child[u] /\ create_sem'[child[u]] # "taken"
    <3>. SUFFICES ASSUME NEW u \in Threads, pc'[u] \in Busy
                  PROVE  pc[u] \in Busy /\ child'[u] = child[u] /\ create_sem'[child[u]] # "taken"
      OBVIOUS
    <3>1. u # t
      BY <1>3 DEF Busy, Starting
    <3>. QED  BY <1>4, <1>5, <3>1 DEF WaitInv, Awaited
  <2>2. \A u \in Threads : /\ pc'[u] = "await" => pc[u] = "await"
                           /\ pc'[u] = "none" => pc[u] = "none"
                           /\ pc'[u] = "made" => pc[u] = "made"
    BY <1>3, <1>4
  <2>3. \A d \in Components : pc'[d] = "none" => create_sem'[d] = create_sem[d]
    BY <1>1, <1>3, <1>4 DEF Threads
  <2>4. \A d \in Components : pc'[d] \in {"ended", "joined"} => create_sem'[d] # "no"
    BY <1>3, <1>4 DEF WaitInv, Awaited, Threads
  <2>. QED  BY <2>1, <2>2, <2>3, <2>4, WaitKept DEF WaitInv
<1>8. InOrder'
  <2>1. /\ pc'[Main] \in {"join", "next"} => pc'[Main] = pc[Main]
        /\ pc[Main] \in {"join", "next", "destroy", "returned"} => pc'[Main] = pc[Main]
    BY <1>1, <1>3, <1>4 DEF Threads
  <2>2. \A d \in Components : pc'[d] = "joined" => pc[d] = "joined"
    BY <1>3, <1>4 DEF Threads
  <2>. QED  BY <1>2, <2>1, <2>2, OrderKept DEF WaitInv
<1>. QED  BY <1>6, <1>7, <1>8 DEF WaitInv

(* Constructors and component_stop move no thread.                          *)
LEMMA WaitStill ==
  ASSUME Inv, HeapInv, WaitInv, NEW c \in Components,
         Construct(c) \/ \E t \in Threads : Stop(t, c)
  PROVE  WaitInv'
<1>1. /\ UNCHANGED <<heaps, pc, child, thread_lock, threadList, cursor>>
      /\ \/ create_sem' = create_sem
         \/ pc[c] = "run" /\ create_sem' = [create_sem EXCEPT ![c] = "posted"]
  BY DEF Construct, Stop, lists
<1>2. create_sem \in [Components -> {"no", "posted", "taken"}] /\ Components \subseteq Threads
  BY DEF Inv, TypeOK, Threads
<1>3. Awaited' /\ Descends'
  <2>1. \A u \in Threads : pc[u] \in Busy => create_sem'[child[u]] # "taken"
    BY <1>1, <1>2 DEF WaitInv, Awaited, Inv, Creators, Busy
  <2>2. \A d \in Components : pc[d] = "none" => create_sem'[d] = create_sem[d]
    BY <1>1, <1>2
  <2>3. \A d \in Components : pc[d] \in {"ended", "joined"} => create_sem'[d] # "no"
    BY <1>1, <1>2 DEF WaitInv, Awaited
  <2>. QED  BY <1>1, <2>1, <2>2, <2>3, WaitKept DEF WaitInv
<1>. QED  BY <1>1, <1>3 DEF WaitInv, LockOwned, InOrder

(* Taking thread_lock, going on with it, and giving it back.                *)
LEMMA WaitLock ==
  ASSUME Inv, HeapInv, WaitInv, NEW t \in Threads,
         \/ TakeLock(t) \/ Register(t) \/ Unlock(t)
         \/ t \in Components /\ (Gate(t) \/ PassGate(t) \/ End(t))
  PROVE  WaitInv'
<1>1. /\ pc \in [Threads -> Labels] /\ UNCHANGED <<heaps, child, create_sem, threadList, cursor>>
      /\ thread_lock \in Threads \cup {None}
  BY DEF Inv, TypeOK, Labels, TakeLock, Register, Unlock, Gate, PassGate, End,
         perComponent, lists
<1>2. PICK b \in {"spawn", "unlock", "enlist", "gated", "run", "ended"} :
        /\ pc' = [pc EXCEPT ![t] = b]
        /\ pc[t] \in {"lock", "register", "unlock", "gate", "gated", "run"}
        /\ b \in Busy => pc[t] \in Busy
        /\ b = "ended" => t \in Components /\ create_sem[t] # "no"
  <2>1. CASE TakeLock(t) \/ Register(t) \/ Unlock(t)
    BY <2>1 DEF TakeLock, Register, Unlock, Goto, Busy, Starting
  <2>2. CASE t \in Components /\ (Gate(t) \/ PassGate(t) \/ End(t))
    BY <2>2 DEF Gate, PassGate, End, Goto, Busy, Starting
  <2>. QED  BY <2>1, <2>2
<1>3. Awaited' /\ Descends' /\ InOrder'
  BY <1>1, <1>2, WaitMove
<1>4. pc'[t] = b /\ \A u \in Threads \ {t} : pc'[u] = pc[u]
  BY <1>1, <1>2
<1>5. LockOwned'
  <2>1. CASE TakeLock(t)
    <3>1. thread_lock' = t /\ pc'[t] = "spawn" /\ heaps
      BY <1>1, <2>1 DEF TakeLock, Goto, HeapInv, Holders
    <3>. QED  BY <1>1, <3>1 DEF LockOwned
  <2>2. CASE Register(t)
    <3>1. thread_lock' = thread_lock /\ pc'[t] = "unlock"
      BY <1>1, <2>2 DEF Register, Goto
    <3>. QED  BY <1>1, <1>4, <3>1 DEF LockOwned, WaitInv
  <2>3. CASE Unlock(t) \/ PassGate(t)
    BY <2>3 DEF Unlock, PassGate, LockOwned
  <2>4. CASE Gate(t)
    <3>1. thread_lock' = t /\ pc'[t] = "gated"
      BY <1>1, <2>4 DEF Gate, Goto
    <3>. QED  BY <3>1 DEF LockOwned
  <2>5. CASE End(t)
    <3>1. thread_lock' = thread_lock /\ pc[t] = "run"
      BY <2>5 DEF End
    <3>. QED  BY <1>1, <1>4, <3>1 DEF LockOwned, WaitInv
  <2>. QED  BY <2>1, <2>2, <2>3, <2>4, <2>5
<1>. QED  BY <1>3, <1>5 DEF WaitInv

(* main's steps: it leaves behind what it has joined.                       *)
LEMMA WaitMain ==
  ASSUME Inv, HeapInv, WaitInv, ReadHead \/ NextItem \/ Destroy
  PROVE  WaitInv'
<1>1. /\ pc \in [Threads -> Labels] /\ Main \in Threads /\ Components \subseteq Threads
      /\ Main \notin Components
      /\ \A k \in DOMAIN threadList : threadList[k] \in Components
      /\ threadList \in Seq(Components) /\ DOMAIN threadList \subseteq Nat /\ cursor \in Nat
  BY LifecycleAssumption DEF Inv, TypeOK, Labels, Threads
<1>2. PICK b \in {"join", "destroy", "returned"} :
        /\ pc' = [pc EXCEPT ![Main] = b]
        /\ pc[Main] \in {"primordial", "next", "destroy"}
        /\ UNCHANGED <<heaps, child, create_sem, thread_lock>>
  BY DEF ReadHead, NextItem, Destroy, AtItem, Goto, perComponent
<1>3. pc'[Main] = b /\ \A u \in Threads \ {Main} : pc'[u] = pc[u]
  BY <1>1, <1>2
<1>4. LockOwned'
  BY <1>1, <1>2, <1>3 DEF WaitInv, LockOwned, Inv, TypeOK
<1>5. Awaited' /\ Descends'
  <2>1. \A u \in Threads : pc'[u] \in Busy =>
          pc[u] \in Busy /\ child'[u] = child[u] /\ create_sem'[child[u]] # "taken"
    BY <1>1, <1>2, <1>3 DEF WaitInv, Awaited, Busy, Starting
  <2>2. \A u \in Threads : /\ pc'[u] = "await" => pc[u] = "await"
                           /\ pc'[u] = "none" => pc[u] = "none"
                           /\ pc'[u] = "made" => pc[u] = "made"
    BY <1>3
  <2>3. \A d \in Components : pc'[d] \in {"ended", "joined"} => create_sem'[d] # "no"
    BY <1>1, <1>2, <1>3 DEF WaitInv, Awaited
  <2>. QED  BY <1>2, <2>1, <2>2, <2>3, WaitKept DEF WaitInv
<1>6. InOrder'
  <2>1. CASE Destroy
    BY <2>1 DEF Destroy, InOrder
  <2>2. CASE ReadHead \/ NextItem
    <3>1. /\ threadList' = threadList /\ b \in {"join", "destroy"}
          /\ \A c \in Components : pc'[c] = pc[c]
          /\ pc[Main] = "next" /\ b = "join" => cursor' = cursor + 1
      BY <1>1, <1>2, <1>3, <2>2 DEF ReadHead, NextItem, AtItem, Goto, lists, Following
    <3>2. \A k \in DOMAIN threadList : pc[threadList[k]] = "joined" =>
            pc[Main] = "next" /\ k <= cursor
      BY <2>2 DEF WaitInv, InOrder, ReadHead, NextItem
    <3>3. \A k, l \in DOMAIN threadList : threadList[k] = threadList[l] => k = l
      BY DEF WaitInv, InOrder
    <3>4. ASSUME NEW k \in DOMAIN threadList, pc[threadList[k]] = "joined", b = "join"
          PROVE  k < cursor'
      BY <1>1, <3>1, <3>2, <3>4
    <3>. QED  BY <1>1, <1>3, <3>1, <3>3, <3>4 DEF InOrder
  <2>. QED  BY <2>1, <2>2
<1>. QED  BY <1>4, <1>5, <1>6 DEF WaitInv

(* Joining: the component is the one at the cursor, and at no other item.   *)
LEMMA WaitJoin ==
  ASSUME Inv, HeapInv, WaitInv, Join
  PROVE  WaitInv'
<1>. DEFINE c == threadList[cursor]
<1>1. /\ pc \in [Threads -> Labels] /\ Main \in Threads /\ Components \subseteq Threads
      /\ Main \notin Components
      /\ \A k \in DOMAIN threadList : threadList[k] \in Components
      /\ DOMAIN threadList \subseteq Nat /\ cursor \in DOMAIN threadList
      /\ pc[Main] = "join" /\ c \in Components /\ pc[c] = "ended"
  BY LifecycleAssumption DEF Inv, TypeOK, Labels, Threads, Join
<1>2. /\ pc' = [pc EXCEPT ![c] = "joined", ![Main] = "next"]
      /\ UNCHANGED <<heaps, child, create_sem, thread_lock, threadList, cursor>>
  BY DEF Join, perComponent, lists
<1>. HIDE DEF c
<1>3. /\ pc'[Main] = "next" /\ pc'[c] = "joined"
      /\ \A u \in Threads \ {c, Main} : pc'[u] = pc[u]
  BY <1>1, <1>2
<1>4. LockOwned'
  BY <1>1, <1>2, <1>3 DEF WaitInv, LockOwned, Inv, TypeOK
<1>5. Awaited' /\ Descends'
  <2>1. \A u \in Threads : pc'[u] \in Busy =>
          pc[u] \in Busy /\ child'[u] = child[u] /\ create_sem'[child[u]] # "taken"
    BY <1>1, <1>2, <1>3 DEF WaitInv, Awaited, Busy, Starting
  <2>2. \A u \in Threads : /\ pc'[u] = "await" => pc[u] = "await"
                           /\ pc'[u] = "none" => pc[u] = "none"
                           /\ pc'[u] = "made" => pc[u] = "made"
    BY <1>3
  <2>3. \A d \in Components : pc'[d] \in {"ended", "joined"} => create_sem'[d] # "no"
    BY <1>1, <1>2, <1>3 DEF WaitInv, Awaited
  <2>. QED  BY <1>2, <2>1, <2>2, <2>3, WaitKept DEF WaitInv
<1>6. InOrder'
  <2>1. \A k, l \in DOMAIN threadList : threadList[k] = threadList[l] => k = l
    BY DEF WaitInv, InOrder
  <2>2. ASSUME NEW k \in DOMAIN threadList, pc'[threadList[k]] = "joined"
        PROVE  k <= cursor
    <3>1. CASE threadList[k] = c
      BY <1>1, <2>1, <3>1 DEF c
    <3>2. CASE threadList[k] # c
      <4>1. pc[threadList[k]] = "joined"
        BY <1>1, <1>3, <2>2, <3>2
      <4>2. k < cursor
        BY <1>1, <4>1 DEF WaitInv, InOrder
      <4>. QED  BY <1>1, <4>2
    <3>. QED  BY <3>1, <3>2
  <2>. QED  BY <1>2, <1>3, <2>1, <2>2 DEF InOrder
<1>. QED  BY <1>4, <1>5, <1>6 DEF WaitInv

(* Every step keeps who waits for whom.                                     *)
LEMMA WaitNext ==
  ASSUME Inv, HeapInv, WaitInv, [Next]_vars
  PROVE  WaitInv'
<1>1. CASE UNCHANGED vars
  <2>1. UNCHANGED <<heaps, pc, child, create_sem, thread_lock, threadList, cursor>>
    BY <1>1 DEF vars, perComponent, lists
  <2>. QED  BY <2>1 DEF WaitInv, LockOwned, Awaited, Descends, InOrder
<1>2. ASSUME NEW t \in Threads, CreateStep(t)
      PROVE  WaitInv'
  BY <1>2, WaitLock, WaitSpawn, WaitEnlist, WaitAwait DEF CreateStep
<1>3. ASSUME NEW t \in Threads, NEW c \in Components, Create(t, c) \/ Stop(t, c)
      PROVE  WaitInv'
  BY <1>3, WaitCreate, WaitStill
<1>4. ASSUME NEW c \in Components, Gate(c) \/ PassGate(c) \/ Construct(c) \/ End(c)
      PROVE  WaitInv'
  <2>1. c \in Threads
    BY DEF Threads
  <2>. QED  BY <1>4, <2>1, WaitLock, WaitStill
<1>5. CASE ReadHead \/ MainStep
  BY <1>5, WaitMain, WaitJoin DEF MainStep
<1>. QED  BY <1>1, <1>2, <1>3, <1>4, <1>5 DEF Next

(* main's states are main's only, and startRoutine's are not. *)
Roles ==
  /\ \A c \in Components : pc[c] \notin {"primordial", "join", "next", "destroy", "returned"}
  /\ pc[Main] \notin {"none", "made", "gate", "gated", "run", "ended", "joined"}

(* Until its creator knows a component, the creator is in component_create. *)
Expected ==
  \A c \in Components : pc[c] # "none" /\ create_sem[c] # "taken" =>
    \E t \in Threads : pc[t] \in Busy /\ child[t] = c

LEMMA ExpectedKept ==
  ASSUME Expected,
         \A t \in Threads : pc[t] \in Busy =>
           \/ pc'[t] \in Busy /\ child'[t] = child[t]
           \/ create_sem'[child[t]] = "taken",
         \A c \in Components : pc'[c] # "none" => pc[c] # "none",
         \A c \in Components : create_sem[c] = "taken" => create_sem'[c] = "taken"
  PROVE  Expected'
<1>. SUFFICES ASSUME NEW c \in Components, pc'[c] # "none", create_sem'[c] # "taken"
              PROVE  \E t \in Threads : pc'[t] \in Busy /\ child'[t] = c
  BY DEF Expected
<1>1. PICK t \in Threads : pc[t] \in Busy /\ child[t] = c
  BY DEF Expected
<1>. QED  BY <1>1

(* A thread that moves on, and is still a creator if it was one. *)
LEMMA RolesMove ==
  ASSUME Inv, Roles, Expected, UNCHANGED <<child, create_sem>>,
         NEW u \in Threads, NEW b, pc' = [pc EXCEPT ![u] = b],
         b # "none", pc[u] # "none",
         pc[u] \in Busy => b \in Busy,
         u \in Components => b \notin {"primordial", "join", "next", "destroy", "returned"},
         u = Main => b \notin {"none", "made", "gate", "gated", "run", "ended", "joined"}
  PROVE  Roles' /\ Expected'
<1>1. /\ pc \in [Threads -> Labels] /\ Components \subseteq Threads
      /\ Main \in Threads \ Components
  BY LifecycleAssumption DEF Inv, TypeOK, Labels, Threads
<1>2. pc'[u] = b /\ \A v \in Threads \ {u} : pc'[v] = pc[v]
  BY <1>1
<1>3. Roles'
  BY <1>1, <1>2 DEF Roles
<1>4. Expected'
  <2>1. \A t \in Threads : pc[t] \in Busy => pc'[t] \in Busy /\ child'[t] = child[t]
    BY <1>2
  <2>2. \A c \in Components : pc'[c] # "none" => pc[c] # "none"
    BY <1>1, <1>2
  <2>. QED  BY <2>1, <2>2, ExpectedKept
<1>. QED  BY <1>3, <1>4

LEMMA RolesNext ==
  ASSUME Inv, WaitInv, Roles, Expected, [Next]_vars
  PROVE  Roles' /\ Expected'
<1>1. /\ pc \in [Threads -> Labels] /\ Components \subseteq Threads
      /\ Main \in Threads \ Components
      /\ create_sem \in [Components -> {"no", "posted", "taken"}]
      /\ child \in [Threads -> Components \cup {None}]
      /\ \A t \in Threads : t = Main \/ t \in Components
  BY LifecycleAssumption DEF Inv, TypeOK, Labels, Threads
<1>2. ASSUME NEW t \in Threads, TakeLock(t) \/ Register(t) \/ Unlock(t) \/ Enlist(t)
      PROVE  Roles' /\ Expected'
  <2>1. PICK b \in {"spawn", "unlock", "enlist", "await"} : pc' = [pc EXCEPT ![t] = b]
    BY <1>2 DEF TakeLock, Register, Unlock, Enlist, Goto
  <2>2. pc[t] # "none" /\ b \in Busy /\ b \notin {"primordial", "join", "next", "destroy", "returned"}
        /\ b \notin {"none", "made", "gate", "gated", "run", "ended", "joined"}
    BY <1>2 DEF TakeLock, Register, Unlock, Enlist, Busy, Starting
  <2>3. UNCHANGED <<child, create_sem>>
    BY <1>2 DEF TakeLock, Register, Unlock, Enlist, perComponent
  <2>. QED  BY <2>1, <2>2, <2>3, RolesMove
<1>3. ASSUME NEW c \in Components, Gate(c) \/ PassGate(c) \/ End(c)
      PROVE  Roles' /\ Expected'
  <2>1. PICK b \in {"gated", "run", "ended"} : pc' = [pc EXCEPT ![c] = b]
    BY <1>3 DEF Gate, PassGate, End, Goto
  <2>2. pc[c] # "none" /\ pc[c] \notin Busy /\ c # Main /\ c \in Threads
    BY <1>1, <1>3 DEF Gate, PassGate, End, Busy, Starting
  <2>3. UNCHANGED <<child, create_sem>>
    BY <1>3 DEF Gate, PassGate, End, perComponent
  <2>. QED  BY <2>1, <2>2, <2>3, RolesMove
<1>4. CASE ReadHead \/ NextItem \/ Destroy
  <2>1. PICK b \in {"join", "destroy", "returned"} : pc' = [pc EXCEPT ![Main] = b]
    BY <1>4 DEF ReadHead, NextItem, Destroy, AtItem, Goto
  <2>2. pc[Main] # "none" /\ pc[Main] \notin Busy
    BY <1>4 DEF ReadHead, NextItem, Destroy, Busy, Starting
  <2>3. UNCHANGED <<child, create_sem>>
    BY <1>4 DEF ReadHead, NextItem, Destroy, AtItem, perComponent
  <2>. QED  BY <1>1, <2>1, <2>2, <2>3, RolesMove
<1>5. CASE Join
  <2>. DEFINE c == threadList[cursor]
  <2>1. /\ c \in Components /\ pc[c] = "ended" /\ pc[Main] = "join"
        /\ pc' = [pc EXCEPT ![c] = "joined", ![Main] = "next"]
        /\ UNCHANGED <<child, create_sem>>
    BY <1>5 DEF Join, Inv, TypeOK, perComponent
  <2>. HIDE DEF c
  <2>2. pc'[Main] = "next" /\ pc'[c] = "joined" /\ \A u \in Threads \ {c, Main} : pc'[u] = pc[u]
    BY <1>1, <2>1
  <2>3. Roles'
    BY <1>1, <2>1, <2>2 DEF Roles
  <2>4. \A t \in Threads : pc[t] \in Busy => pc'[t] \in Busy /\ child'[t] = child[t]
    BY <2>1, <2>2 DEF Busy, Starting
  <2>5. \A d \in Components : pc'[d] # "none" => pc[d] # "none"
    BY <1>1, <2>1, <2>2
  <2>. QED  BY <2>1, <2>3, <2>4, <2>5, ExpectedKept
<1>6. ASSUME NEW t \in Threads, Spawn(t)
      PROVE  Roles' /\ Expected'
  <2>. DEFINE c == child[t]
  <2>1. /\ c \in Components /\ pc[c] = "made" /\ pc[t] = "spawn"
        /\ pc' = [pc EXCEPT ![c] = "gate", ![t] = IF heaps THEN "register" ELSE "enlist"]
        /\ UNCHANGED <<child, create_sem>>
    BY <1>6 DEF Spawn, Inv, Creators, Starting
  <2>. HIDE DEF c
  <2>2. pc'[t] \in {"register", "enlist"} /\ pc'[c] = "gate"
        /\ \A u \in Threads \ {c, t} : pc'[u] = pc[u]
    BY <1>1, <2>1
  <2>3. Roles'
    BY <1>1, <2>1, <2>2 DEF Roles
  <2>4. \A u \in Threads : pc[u] \in Busy => pc'[u] \in Busy /\ child'[u] = child[u]
    BY <2>1, <2>2 DEF Busy, Starting
  <2>5. \A d \in Components : pc'[d] # "none" => pc[d] # "none"
    BY <1>1, <2>1, <2>2
  <2>. QED  BY <2>1, <2>3, <2>4, <2>5, ExpectedKept
<1>7. ASSUME NEW t \in Threads, Await(t)
      PROVE  Roles' /\ Expected'
  <2>. DEFINE c == child[t]
  <2>1. /\ c \in Components /\ pc[t] = "await"
        /\ pc' = [pc EXCEPT ![t] = Program(t)] /\ child' = [child EXCEPT ![t] = None]
        /\ create_sem' = [create_sem EXCEPT ![c] = "taken"]
    BY <1>7 DEF Await, Goto, Inv, Creators
  <2>2. /\ pc'[t] = Program(t) /\ Program(t) \in {"primordial", "run"}
        /\ t = Main <=> Program(t) = "primordial"
        /\ \A u \in Threads \ {t} : pc'[u] = pc[u] /\ child'[u] = child[u]
    BY <1>1, <2>1 DEF Program
  <2>3. Roles'
    BY <1>1, <2>2 DEF Roles
  <2>4. \A u \in Threads : pc[u] \in Busy =>
          \/ pc'[u] \in Busy /\ child'[u] = child[u]
          \/ create_sem'[child[u]] = "taken"
    BY <1>1, <2>1, <2>2
  <2>5. \A d \in Components : pc'[d] # "none" => pc[d] # "none"
    BY <1>1, <2>1, <2>2
  <2>6. \A d \in Components : create_sem[d] = "taken" => create_sem'[d] = "taken"
    BY <1>1, <2>1
  <2>. QED  BY <2>3, <2>4, <2>5, <2>6, ExpectedKept
<1>8. ASSUME NEW t \in Threads, NEW c \in Components, Create(t, c)
      PROVE  Roles' /\ Expected'
  <2>1. /\ pc[t] \in {"primordial", "run"} /\ pc[c] = "none" /\ c # t
        /\ pc' = [pc EXCEPT ![c] = "made", ![t] = IF heaps THEN "lock" ELSE "spawn"]
        /\ child' = [child EXCEPT ![t] = c] /\ create_sem' = create_sem
    BY <1>8 DEF Create, Program, perComponent
  <2>2. /\ pc'[t] \in {"lock", "spawn"} /\ pc'[c] = "made" /\ child'[t] = c
        /\ \A u \in Threads \ {c, t} : pc'[u] = pc[u]
        /\ \A u \in Threads \ {t} : child'[u] = child[u]
    BY <1>1, <2>1
  <2>3. Roles'
    BY <1>1, <2>1, <2>2 DEF Roles
  <2>4. Expected'
    <3>. SUFFICES ASSUME NEW d \in Components, pc'[d] # "none", create_sem[d] # "taken"
                  PROVE  \E u \in Threads : pc'[u] \in Busy /\ child'[u] = d
      BY <2>1 DEF Expected
    <3>1. CASE d = c
      BY <2>2, <3>1 DEF Busy, Starting
    <3>2. CASE d # c
      <4>1. pc[d] # "none"
        BY <1>1, <2>1, <2>2, <3>2
      <4>2. PICK u \in Threads : pc[u] \in Busy /\ child[u] = d
        BY <4>1 DEF Expected
      <4>3. u # t /\ u # c
        BY <2>1, <4>2 DEF Busy, Starting
      <4>. QED  BY <2>2, <4>2, <4>3
    <3>. QED  BY <3>1, <3>2
  <2>. QED  BY <2>3, <2>4
<1>9. ASSUME NEW c \in Components, Construct(c) \/ \E t \in Threads : Stop(t, c)
      PROVE  Roles' /\ Expected'
  <2>1. /\ UNCHANGED <<pc, child>>
        /\ \/ create_sem' = create_sem
           \/ create_sem[c] = "no" /\ create_sem' = [create_sem EXCEPT ![c] = "posted"]
    BY <1>9 DEF Construct, Stop
  <2>2. \A d \in Components : create_sem[d] = "taken" => create_sem'[d] = "taken"
    BY <1>1, <2>1
  <2>3. Expected'
    BY <2>1, <2>2, ExpectedKept
  <2>. QED  BY <2>1, <2>3 DEF Roles
<1>10. CASE UNCHANGED vars
  BY <1>10 DEF vars, perComponent, Roles, Expected
<1>. QED
  BY <1>2, <1>3, <1>4, <1>5, <1>6, <1>7, <1>8, <1>9, <1>10
  DEF Next, MainStep, CreateStep

(* What the steps of Fairness need, other than new work: a creator's next   *)
(* step, startRoutine and a constructor or stopped behaviour, and main's.   *)
CreatorGoes(t) ==
  /\ pc[t] \in Busy
  /\ pc[t] = "lock" => thread_lock = None
  /\ pc[t] = "spawn" => ~ (Ids \subseteq IdsInUse)
  /\ pc[t] = "await" => create_sem[child[t]] = "posted"

ComponentGoes(c) ==
  \/ pc[c] = "gate" /\ GateOpen
  \/ pc[c] = "gated"
  \/ pc[c] = "run" /\ (create_sem[c] = "no" \/ stopped[c])

MainGoes ==
  \/ pc[Main] \in {"next", "destroy"}
  \/ pc[Main] = "join" /\ pc[threadList[cursor]] = "ended"

AtRest ==
  /\ Alive
  /\ \A t \in Threads : ~ CreatorGoes(t)
  /\ \A c \in Components : ~ ComponentGoes(c)
  /\ ~ MainGoes

OutOfIds == Ids \subseteq IdsInUse /\ \E t \in Threads : pc[t] = "spawn"

(* main waits for a component whose behaviour goes on. *)
MainAwaitsBehaviour ==
  LET c == threadList[cursor] IN
  pc[Main] = "join" /\ pc[c] = "run" /\ create_sem[c] = "taken" /\ ~ stopped[c]

(* Where nothing goes on by itself, nobody is left in component_create or   *)
(* at the gate, and main is in primordial_main or joins a component that    *)
(* its creator knows and nobody has stopped.                                *)
RestsForProgram ==
  AtRest /\ ~ OutOfIds =>
    /\ \A t \in Threads : pc[t] \notin Busy \cup {"gate", "gated"}
    /\ pc[Main] = "primordial" \/ MainAwaitsBehaviour

(* At rest the lock is free, so nobody is on the way to starting a child.   *)
LEMMA LockFree ==
  ASSUME Inv, WaitInv, Roles, AtRest, ~ OutOfIds
  PROVE  /\ thread_lock = None
         /\ \A t \in Threads : pc[t] \notin Starting \cup {"gate", "gated"}
<1>1. \A t \in Threads : pc[t] = "spawn" => ~ (Ids \subseteq IdsInUse)
  BY DEF OutOfIds
<1>2. \A t \in Threads : pc[t] \notin {"spawn", "register", "unlock", "enlist"}
  BY <1>1 DEF AtRest, CreatorGoes, Busy, Starting
<1>3. \A t \in Threads : pc[t] # "gated"
  BY DEF AtRest, ComponentGoes, Roles, Threads
<1>4. thread_lock = None
  <2>. SUFFICES ASSUME thread_lock # None
                PROVE  FALSE
    OBVIOUS
  <2>1. thread_lock \in Threads
    BY DEF Inv, TypeOK
  <2>. QED  BY <1>2, <1>3, <2>1 DEF WaitInv, LockOwned
<1>5. \A t \in Threads : pc[t] # "lock"
  BY <1>4 DEF AtRest, CreatorGoes, Busy, Starting
<1>6. \A t \in Threads : pc[t] # "gate"
  BY <1>4 DEF AtRest, ComponentGoes, GateOpen, Roles, Threads
<1>. QED  BY <1>2, <1>3, <1>4, <1>5, <1>6 DEF Starting

(* At rest nobody waits for a child: the child would be waiting for one of  *)
(* its own, and so on without end.                                          *)
LEMMA NobodyAwaits ==
  ASSUME Inv, WaitInv, Roles, AtRest, ~ OutOfIds
  PROVE  \A t \in Threads : pc[t] \notin Busy
<1>1. \A t \in Threads : pc[t] \in Busy => pc[t] = "await"
  BY LockFree DEF Busy
<1>2. ASSUME NEW t \in Threads, pc[t] = "await"
      PROVE  child[t] \in Components /\ pc[child[t]] = "await"
  <2>. DEFINE c == child[t]
  <2>1. /\ c \in Components /\ c \in Threads /\ pc[c] \in Labels
        /\ create_sem[c] \in {"no", "posted", "taken"}
    BY <1>2 DEF Inv, TypeOK, Creators, Labels, Threads
  <2>2. pc[c] \notin {"none", "made"} /\ create_sem[c] # "taken"
    BY <1>2 DEF WaitInv, Awaited, Busy
  <2>. HIDE DEF c
  <2>3. create_sem[c] # "posted"
    BY <1>2 DEF AtRest, CreatorGoes, Busy, Starting, c
  <2>4. create_sem[c] = "no"
    BY <2>1, <2>2, <2>3
  <2>5. pc[c] \notin {"ended", "joined", "run"}
    BY <2>1, <2>4 DEF WaitInv, Awaited, AtRest, ComponentGoes
  <2>6. pc[c] \notin {"primordial", "join", "next", "destroy", "returned"}
    BY <2>1 DEF Roles
  <2>7. pc[c] \notin Starting \cup {"gate", "gated"}
    BY <2>1, LockFree
  <2>. QED  BY <2>1, <2>2, <2>5, <2>6, <2>7 DEF Labels, Starting, c
<1>3. ASSUME NEW c0 \in Components, pc[c0] = "await"
      PROVE  FALSE
  <2>1. PICK rank \in [Components -> Nat] :
          \A t \in Components : pc[t] \in Busy => rank[child[t]] < rank[t]
    BY DEF WaitInv, Descends
  <2>. DEFINE Waiters == {c \in Components : pc[c] = "await"}
              S == {rank[c] : c \in Waiters}
  <2>2. S \in SUBSET Nat /\ S # {}
    BY <1>3, <2>1
  <2>3. PICK c \in Waiters : \A d \in Waiters : rank[c] <= rank[d]
    <3>. HIDE DEF S
    <3>1. PICK m \in S : \A n \in S : m <= n
      BY <2>2, Least
    <3>. QED  BY <3>1 DEF S
  <2>4. child[c] \in Waiters
    BY <1>2 DEF Threads
  <2>5. rank[child[c]] < rank[c]
    BY <2>1, <2>3 DEF Busy
  <2>. QED  BY <2>1, <2>3, <2>4, <2>5
<1>. QED  BY <1>1, <1>2, <1>3

LEMMA RestIsTheProgram ==
  ASSUME Inv, WaitInv, Roles, Expected
  PROVE  RestsForProgram
<1>. SUFFICES ASSUME AtRest, ~ OutOfIds
              PROVE  /\ \A t \in Threads : pc[t] \notin Busy \cup {"gate", "gated"}
                     /\ pc[Main] = "primordial" \/ MainAwaitsBehaviour
  BY DEF RestsForProgram
<1>1. \A t \in Threads : pc[t] \notin Busy \cup {"gate", "gated"}
  BY LockFree, NobodyAwaits
<1>2. pc[Main] \in {"primordial", "join"}
  <2>1. pc[Main] \in Labels /\ Main \in Threads
    BY DEF Inv, TypeOK, Labels, Threads
  <2>2. pc[Main] \notin {"next", "destroy", "returned"}
    BY DEF AtRest, MainGoes, Alive
  <2>. QED  BY <1>1, <2>1, <2>2 DEF Roles, Labels, Busy, Starting
<1>3. ASSUME pc[Main] = "join"
      PROVE  MainAwaitsBehaviour
  <2>. DEFINE c == threadList[cursor]
  <2>1. /\ cursor \in DOMAIN threadList /\ c \in Components /\ c \in Listed
        /\ c \in Threads /\ pc[c] \in Labels /\ cursor \in Nat
    BY <1>3 DEF Inv, TypeOK, Listed, Labels, Threads
  <2>2. pc[c] \notin {"none", "made"}
    BY <2>1 DEF Inv, Created
  <2>3. pc[c] # "joined"
    BY <1>3, <2>1 DEF WaitInv, InOrder
  <2>. HIDE DEF c
  <2>4. pc[c] # "ended"
    BY <1>3 DEF AtRest, MainGoes, c
  <2>5. pc[c] = "run"
    BY <1>1, <2>1, <2>2, <2>3, <2>4 DEF Labels, Roles, Busy, Starting
  <2>6. ~ stopped[c]
    BY <2>1, <2>5 DEF AtRest, ComponentGoes
  <2>7. create_sem[c] = "taken"
    BY <1>1, <2>1, <2>2 DEF Expected
  <2>. QED  BY <1>3, <2>5, <2>6, <2>7 DEF MainAwaitsBehaviour, c
<1>. QED  BY <1>1, <1>2, <1>3

(* No interleaving of creations, however deep, ends in a standstill: where  *)
(* no thread goes on, main has not left primordial_main or the component it *)
(* joins is running, is known to its creator and has not been stopped - or  *)
(* there is no thread ID left.                                              *)
THEOREM RestsOnlyForTheProgram == Spec => []RestsForProgram
<1>1. Init => WaitInv /\ Roles /\ Expected
  <2>. SUFFICES ASSUME Init
                PROVE  WaitInv /\ Roles /\ Expected
    OBVIOUS
  <2>1. /\ \A c \in Components : pc[c] = "none" /\ create_sem[c] = "no"
        /\ pc[Main] = "primordial" /\ thread_lock = None /\ threadList = <<>>
        /\ \A t \in Threads : pc[t] \in {"none", "primordial"}
    BY LifecycleAssumption DEF Init, Threads
  <2>2. LockOwned /\ Awaited /\ InOrder
    BY <2>1 DEF LockOwned, Awaited, InOrder, Busy, Starting
  <2>3. Descends
    <3>1. [c \in Components |-> 0] \in [Components -> Nat]
      OBVIOUS
    <3>. QED  BY <2>1, <3>1 DEF Descends, Busy, Starting, Threads
  <2>. QED  BY <2>1, <2>2, <2>3 DEF WaitInv, Roles, Expected
<1>2. Inv /\ HeapInv /\ WaitInv /\ Roles /\ Expected /\ [Next]_vars
        => WaitInv' /\ Roles' /\ Expected'
  BY WaitNext, RolesNext
<1>3. Inv /\ WaitInv /\ Roles /\ Expected => RestsForProgram
  BY RestIsTheProgram
<1>. QED  BY <1>1, <1>2, <1>3, LifecycleInvariance, HeapsRegistered, PTL DEF Spec
=============================================================================
