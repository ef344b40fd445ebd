------------------------------ MODULE Lifecycle ------------------------------
(***************************************************************************)
(* The life of components: component_create and startRoutine of            *)
(* component.c, main of runtime_main.c, and the two lists of               *)
(* ThreadSafeList.c they share, threadList and SHList.                     *)
(*                                                                         *)
(* Any thread creates components: main while primordial_main runs, and     *)
(* every component.  A component is one thread; its heap, with HEAPS, is   *)
(* the element of SHList made for it.  What a component does is generated  *)
(* code: it posts component_create_sem once its constructor is done, and   *)
(* returns when it tests its loop condition and has been stopped, or has   *)
(* done its BEHAVIOUR_COUNT turns.                                         *)
(*                                                                         *)
(* listAdd is one step: it holds the list's mutex, and those who read the  *)
(* list without it meet it at its one write that links the item.  A        *)
(* thread's ID is free again once the thread is joined.                    *)
(***************************************************************************)
EXTENDS Integers, Sequences

CONSTANTS
  Components,   (* the components that can be created                      *)
  Main,         (* the main thread                                         *)
  None,
  Ids,          (* what pthread_t can be                                   *)
  Low           (* listGetMemoryLocation compares IDs modulo Low           *)

ASSUME LifecycleAssumption ==
  /\ Main \notin Components
  /\ None \notin Components \cup {Main}
  /\ Ids \subseteq Nat
  /\ Low \in Nat \ {0}

Threads == Components \cup {Main}

VARIABLES
  heaps,        (* HEAPS: fixed by the build                               *)
  pc,           (* where each thread is                                    *)
  child,        (* the component a thread is creating                      *)
  id,           (* behav_thread                                            *)
  create_sem,   (* component_create_sem: "no", "posted", "taken"           *)
  stopped,
  thread_lock,  (* its owner                                               *)
  threadList,
  SHList,
  cursor        (* main's place in threadList: 0 is NULL                   *)

lists == <<threadList, SHList>>
perComponent == <<id, create_sem, stopped>>
vars == <<heaps, pc, child, perComponent, thread_lock, lists, cursor>>

(* Where a thread runs the program, and may create. *)
Program(t) == IF t = Main THEN "primordial" ELSE "run"

Goto(t, there) == pc' = [pc EXCEPT ![t] = there]

-----------------------------------------------------------------------------
(* component_create *)

(* The struct is allocated and cleared.  (If it cannot be, component_create *)
(* returns NULL and has changed nothing here.)                              *)
Create(t, c) ==
  /\ pc[t] = Program(t)
  /\ pc[c] = "none"
  /\ child' = [child EXCEPT ![t] = c]
  /\ pc' = [pc EXCEPT ![c] = "made", ![t] = IF heaps THEN "lock" ELSE "spawn"]
  /\ UNCHANGED <<heaps, perComponent, thread_lock, lists, cursor>>

TakeLock(t) ==
  /\ pc[t] = "lock"
  /\ thread_lock = None
  /\ thread_lock' = t
  /\ Goto(t, "spawn")
  /\ UNCHANGED <<heaps, child, perComponent, lists, cursor>>

(* The IDs of threads that have not been joined. *)
IdsInUse ==
  {id[c] : c \in {d \in Components : pc[d] \notin {"none", "made", "joined"}}}

Spawn(t) ==
  /\ pc[t] = "spawn"
  /\ \E i \in Ids \ IdsInUse : id' = [id EXCEPT ![child[t]] = i]
  /\ pc' = [pc EXCEPT ![child[t]] = "gate",
                      ![t] = IF heaps THEN "register" ELSE "enlist"]
  /\ UNCHANGED <<heaps, child, create_sem, stopped, thread_lock, lists, cursor>>

(* The heap's element gets the thread's ID and goes on SHList. *)
Register(t) ==
  /\ pc[t] = "register"
  /\ SHList' = Append(SHList, child[t])
  /\ Goto(t, "unlock")
  /\ UNCHANGED <<heaps, child, perComponent, thread_lock, threadList, cursor>>

Unlock(t) ==
  /\ pc[t] = "unlock"
  /\ thread_lock' = None
  /\ Goto(t, "enlist")
  /\ UNCHANGED <<heaps, child, perComponent, lists, cursor>>

(* Mutant: only the components main creates are put on the list. *)
EnlistedByMain(t) ==
  IF t = Main THEN Append(threadList, child[t]) ELSE threadList

Enlisted(t) == Append(threadList, child[t])

Enlist(t) ==
  /\ pc[t] = "enlist"
  /\ threadList' = Enlisted(t)
  /\ Goto(t, "await")
  /\ UNCHANGED <<heaps, child, perComponent, thread_lock, SHList, cursor>>

(* Only now does the creator know the component. *)
Await(t) ==
  /\ pc[t] = "await"
  /\ create_sem[child[t]] = "posted"
  /\ create_sem' = [create_sem EXCEPT ![child[t]] = "taken"]
  /\ child' = [child EXCEPT ![t] = None]
  /\ Goto(t, Program(t))
  /\ UNCHANGED <<heaps, id, stopped, thread_lock, lists, cursor>>

CreateStep(t) ==
  TakeLock(t) \/ Spawn(t) \/ Register(t) \/ Unlock(t) \/ Enlist(t) \/ Await(t)

-----------------------------------------------------------------------------
(* startRoutine *)

(* Mutant: the new thread does not wait for its creator. *)
NoGate == TRUE

GateOpen == thread_lock = None

Gate(c) ==
  /\ pc[c] = "gate"
  /\ GateOpen
  /\ thread_lock' = c
  /\ Goto(c, "gated")
  /\ UNCHANGED <<heaps, child, perComponent, lists, cursor>>

(* Mutant: it does not give the lock back. *)
PassGateLocked(c) ==
  /\ pc[c] = "gated"
  /\ Goto(c, "run")
  /\ UNCHANGED <<heaps, child, perComponent, thread_lock, lists, cursor>>

PassGate(c) ==
  /\ pc[c] = "gated"
  /\ thread_lock' = None
  /\ Goto(c, "run")
  /\ UNCHANGED <<heaps, child, perComponent, lists, cursor>>

(* The constructor is done. *)
Construct(c) ==
  /\ pc[c] = "run"
  /\ create_sem[c] = "no"
  /\ create_sem' = [create_sem EXCEPT ![c] = "posted"]
  /\ UNCHANGED <<heaps, pc, child, id, stopped, thread_lock, lists, cursor>>

(* The behaviour returns. *)
End(c) ==
  /\ pc[c] = "run"
  /\ create_sem[c] # "no"
  /\ Goto(c, "ended")
  /\ UNCHANGED <<heaps, child, perComponent, thread_lock, lists, cursor>>

(* component_stop, by a thread running the program. *)
Stop(t, c) ==
  /\ pc[t] = Program(t)
  /\ create_sem[c] = "taken"
  /\ stopped' = [stopped EXCEPT ![c] = TRUE]
  /\ UNCHANGED <<heaps, pc, child, id, create_sem, thread_lock, lists, cursor>>

-----------------------------------------------------------------------------
(* main and listJoinThreads *)

AtItem(there) ==
  /\ cursor' = there
  /\ Goto(Main, IF there = 0 THEN "destroy" ELSE "join")
  /\ UNCHANGED <<heaps, child, perComponent, thread_lock, lists>>

(* primordial_main returns, and the list's head is read. *)
ReadHead ==
  /\ pc[Main] = "primordial"
  /\ AtItem(IF threadList = <<>> THEN 0 ELSE 1)

(* An ID on the list is that of one thread not joined yet: earlier threads  *)
(* with the ID were joined at earlier items.                                *)
Join ==
  /\ pc[Main] = "join"
  /\ pc[threadList[cursor]] = "ended"
  /\ pc' = [pc EXCEPT ![threadList[cursor]] = "joined", ![Main] = "next"]
  /\ UNCHANGED <<heaps, child, perComponent, thread_lock, lists, cursor>>

(* Mutant: the end of the list is not noticed. *)
OneMore == cursor + 1

Following == IF cursor < Len(threadList) THEN cursor + 1 ELSE 0

NextItem ==
  /\ pc[Main] = "next"
  /\ AtItem(Following)

(* The lists and the mutex are destroyed, and main returns: this ends the   *)
(* process and every thread in it.                                          *)
Destroy ==
  /\ pc[Main] = "destroy"
  /\ threadList' = <<>>
  /\ SHList' = <<>>
  /\ Goto(Main, "returned")
  /\ UNCHANGED <<heaps, child, perComponent, thread_lock, cursor>>

MainStep == Join \/ NextItem \/ Destroy

-----------------------------------------------------------------------------
Init ==
  /\ heaps \in BOOLEAN
  /\ pc = [t \in Threads |-> IF t = Main THEN "primordial" ELSE "none"]
  /\ child = [t \in Threads |-> None]
  /\ id = [c \in Components |-> 0]
  /\ create_sem = [c \in Components |-> "no"]
  /\ stopped = [c \in Components |-> FALSE]
  /\ thread_lock = None
  /\ threadList = <<>>
  /\ SHList = <<>>
  /\ cursor = 0

Alive == pc[Main] # "returned"

Next ==
  /\ Alive
  /\ \/ \E t \in Threads :
          \/ CreateStep(t)
          \/ \E c \in Components : Create(t, c) \/ Stop(t, c)
     \/ \E c \in Components : Gate(c) \/ PassGate(c) \/ Construct(c) \/ End(c)
     \/ ReadHead
     \/ MainStep

Spec == Init /\ [][Next]_vars

(* Threads that can run do, constructors finish, and a component that has   *)
(* been stopped tests its loop condition some day.                          *)
Fairness ==
  /\ \A t \in Threads : WF_vars(Alive /\ CreateStep(t))
  /\ \A c \in Components :
       /\ WF_vars(Alive /\ (Gate(c) \/ PassGate(c) \/ Construct(c)))
       /\ WF_vars(Alive /\ End(c) /\ stopped[c])
  /\ WF_vars(MainStep)

FairSpec == Spec /\ Fairness

-----------------------------------------------------------------------------
(* Properties *)

(* Components whose thread has passed the gate and not ended. *)
Running ==
  {c \in Components :
     pc[c] \in {"run", "lock", "spawn", "register", "unlock", "enlist", "await"}}

TypeOK ==
  /\ heaps \in BOOLEAN
  /\ pc \in [Threads -> {"none", "made", "gate", "gated", "primordial", "run",
                         "lock", "spawn", "register", "unlock", "enlist",
                         "await", "ended", "joined", "join", "next", "destroy",
                         "returned"}]
  /\ child \in [Threads -> Components \cup {None}]
  /\ id \in [Components -> Nat]
  /\ create_sem \in [Components -> {"no", "posted", "taken"}]
  /\ stopped \in [Components -> BOOLEAN]
  /\ thread_lock \in Threads \cup {None}
  /\ threadList \in Seq(Components)
  /\ SHList \in Seq(Components)
  /\ cursor \in Nat
  /\ pc[Main] \in {"join", "next"} => cursor \in DOMAIN threadList

(* Mutant: half as wide. *)
ComparedHalf(i) == i % (Low \div 2)

Compared(i) == i % Low

(* What listGetMemoryLocation finds for a component's thread: the first     *)
(* element whose ID has the low bits of its own, or None.                   *)
Matching(c) == {k \in DOMAIN SHList : Compared(id[SHList[k]]) = Compared(id[c])}

HeapOf(c) ==
  IF Matching(c) = {} THEN None
  ELSE SHList[CHOOSE k \in Matching(c) : \A l \in Matching(c) : k <= l]

(* main destroys the lists and returns only when no component is left: it   *)
(* meets in threadList also those created, by anyone, while it was joining. *)
AllJoined ==
  pc[Main] \in {"destroy", "returned"} =>
    \A c \in Components : pc[c] \in {"none", "joined"}

(* A component's first allocation, and every later one, finds a heap.       *)
HeapFound ==
  heaps => \A c \in Running : HeapOf(c) # None

(* README.md of the repository speaks of a private heap for each component: *)
(* no two that run allocate from the same one (the small heap takes no      *)
(* lock).                                                                   *)
HeapsPrivate ==
  heaps => \A c, d \in Running : HeapOf(c) = HeapOf(d) => c = d

(* A component allocates from the heap that was made for it, or from that   *)
(* of another whose ID looks like its own.  The other may be running too;   *)
(* but if it had the very same ID, main has joined it.                      *)
OwnHeapUnlessAlike ==
  heaps => \A c \in Running :
    \/ HeapOf(c) = c
    \/ /\ HeapOf(c) \in Components
       /\ id[HeapOf(c)] % Low = id[c] % Low
       /\ id[HeapOf(c)] = id[c] => pc[HeapOf(c)] = "joined"

(* If from some time on every component is stopped as soon as its creator   *)
(* knows it, and primordial_main has returned, the program ends.            *)
ProgramEnds ==
  <>[](/\ pc[Main] \in {"join", "next", "destroy", "returned"}
       /\ \A c \in Components : create_sem[c] = "taken" => stopped[c])
    => <>(pc[Main] = "returned")
=============================================================================
