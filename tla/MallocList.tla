----------------------------- MODULE MallocList -----------------------------
(***************************************************************************)
(* mallocList: the addresses that malloc returned, a doubly linked list of *)
(* ThreadSafeList.c, and the calls that use it, those of DAL_alloc and     *)
(* DAL_free down to malloc and free.                                       *)
(*                                                                         *)
(* With HEAPS only main takes memory from malloc, and whoever drops the    *)
(* last reference to a block frees it: SH_free looks every block up on the *)
(* list, without the list's mutex, to tell it from a block of the calling  *)
(* thread's heap.  Without HEAPS everybody takes memory from malloc, and   *)
(* BH_free does not look at the list.                                      *)
(*                                                                         *)
(* listAdd and the unlinking in listRemove are one step each: those who    *)
(* read without the mutex meet them at the one write of a next or of head. *)
(* The memory of a freed item can be that of a later item; until then the  *)
(* allocator has overwritten its value, and next, which is not among the   *)
(* words it uses, is as it was.  malloc of an item does not fail.          *)
(***************************************************************************)
EXTENDS Integers, FiniteSets

CONSTANTS
  Threads,
  Main,         (* the main thread                                         *)
  Blocks,       (* the addresses malloc returns to the program             *)
  Items,        (* the addresses of items: they bound the list's length    *)
  Null,
  Own           (* any block of the calling component's heap               *)

ASSUME MallocListAssumption ==
  /\ Main \in Threads
  /\ Null \notin Threads \cup Blocks \cup Items
  /\ Own \notin Blocks \cup {Null}
  /\ IsFiniteSet(Items)

VARIABLES
  heaps,        (* HEAPS: fixed by the build                               *)
  live,         (* the blocks taken from malloc                            *)
  held,         (* those the program has a reference to                    *)
  item,         (* what is in the memory of the items                      *)
  used,         (* the items allocated                                     *)
  head, tail, count,
  list_mutex,   (* its owner                                               *)
  lpc, adr,     (* where each thread is, and the address it handles        *)
  at,           (* its listItem                                            *)
  raced         (* history: an item was removed while a thread had at      *)

blocks == <<live, held>>
list == <<item, used, head, tail, count>>
mallocListVars == <<heaps, blocks, list, list_mutex, lpc, adr, at, raced>>

LGoto(t, there) == lpc' = [lpc EXCEPT ![t] = there]

At(t, i) == at' = [at EXCEPT ![t] = i]

(* DAL_alloc or DAL_free returns: its locals are gone. *)
LReturn(t) ==
  /\ LGoto(t, "idle")
  /\ adr' = [adr EXCEPT ![t] = Null]
  /\ At(t, Null)

-----------------------------------------------------------------------------
(* DAL_alloc *)

(* SH_alloc in the main thread, or BH_alloc; malloc may fail.               *)
Malloc(t) ==
  /\ lpc[t] = "idle"
  /\ heaps => t = Main
  /\ \E b \in (Blocks \ live) \cup {Null} :
       /\ adr' = [adr EXCEPT ![t] = b]
       /\ live' = live \cup ({b} \ {Null})
  /\ LGoto(t, "add")
  /\ UNCHANGED <<heaps, held, list, list_mutex, at, raced>>

(* The item becomes the tail. *)
Linked(i, v) ==
  /\ used' = used \cup {i}
  /\ item' = [j \in Items |->
       IF j = i THEN [value |-> v, prev |-> tail, next |-> Null]
       ELSE IF j = tail THEN [item[j] EXCEPT !.next = i]
       ELSE item[j]]
  /\ head' = IF tail = Null THEN i ELSE head
  /\ tail' = i
  /\ count' = count + 1

(* listAdd.  What malloc returned is listed before it is looked at: NULL    *)
(* is listed too.                                                           *)
Add(t) ==
  /\ lpc[t] = "add"
  /\ list_mutex = Null
  /\ \E i \in Items \ used : Linked(i, adr[t])
  /\ held' = held \cup ({adr[t]} \ {Null})
  /\ LReturn(t)
  /\ UNCHANGED <<heaps, live, list_mutex, raced>>

-----------------------------------------------------------------------------
(* DAL_free of a block whose last reference the thread has dropped *)

BH_free(t, b) ==
  /\ ~ heaps
  /\ lpc[t] = "idle"
  /\ b \in held
  /\ held' = held \ {b}
  /\ live' = live \ {b}
  /\ UNCHANGED <<heaps, list, list_mutex, lpc, adr, at, raced>>

(* SH_free calls listGetMallocedMemoryAdr, which starts at head. *)
SH_free(t, b) ==
  /\ heaps
  /\ lpc[t] = "idle"
  /\ b \in held \/ (b = Own /\ t # Main)
  /\ held' = held \ {b}
  /\ adr' = [adr EXCEPT ![t] = b]
  /\ At(t, head)
  /\ raced' = [raced EXCEPT ![t] = FALSE]
  /\ LGoto(t, "lookup")
  /\ UNCHANGED <<heaps, live, list, list_mutex>>

(* The value of a freed item is not an address the program holds.           *)
Matches(t) ==
  /\ at[t] \in used
  /\ item[at[t]].value = adr[t]

(* Found: the block is freed, and taken off the list afterwards.            *)
Found(t) ==
  /\ lpc[t] = "lookup"
  /\ at[t] # Null
  /\ Matches(t)
  /\ live' = live \ {adr[t]}
  /\ LGoto(t, "read_head")
  /\ UNCHANGED <<heaps, held, list, list_mutex, adr, at, raced>>

NotThis(t) ==
  /\ lpc[t] = "lookup"
  /\ at[t] # Null
  /\ ~ Matches(t)
  /\ LGoto(t, "lookup_next")
  /\ UNCHANGED <<heaps, blocks, list, list_mutex, adr, at, raced>>

(* Mutant: the last item is not looked at. *)
NextButLast(i) == IF item[i].next = tail THEN Null ELSE item[i].next

NextOf(i) == item[i].next

LookupNext(t) ==
  /\ lpc[t] = "lookup_next"
  /\ At(t, NextOf(at[t]))
  /\ LGoto(t, "lookup")
  /\ UNCHANGED <<heaps, blocks, list, list_mutex, adr, raced>>

(* Not found: SH_free goes on as for a block of the thread's heap.  For a   *)
(* block that malloc returned that is astray: main has no heap, and what is *)
(* done to a component's heap is undefined.                                 *)
NotFound(t) ==
  /\ lpc[t] = "lookup"
  /\ at[t] = Null
  /\ IF adr[t] = Own THEN LReturn(t) /\ raced' = [raced EXCEPT ![t] = FALSE]
     ELSE LGoto(t, "astray") /\ UNCHANGED <<adr, at, raced>>
  /\ UNCHANGED <<heaps, blocks, list, list_mutex>>

-----------------------------------------------------------------------------
(* listRemove *)

(* The head is read before the mutex is locked. *)
ReadHead(t) ==
  /\ lpc[t] = "read_head"
  /\ At(t, head)
  /\ raced' = [raced EXCEPT ![t] = FALSE]
  /\ LGoto(t, "lock")
  /\ UNCHANGED <<heaps, blocks, list, list_mutex, adr>>

Lock(t) ==
  /\ lpc[t] = "lock"
  /\ list_mutex = Null
  /\ list_mutex' = t
  /\ LGoto(t, "remove")
  /\ UNCHANGED <<heaps, blocks, list, adr, at, raced>>

RemoveNext(t) ==
  /\ lpc[t] = "remove"
  /\ at[t] # Null
  /\ ~ Matches(t)
  /\ At(t, item[at[t]].next)
  /\ UNCHANGED <<heaps, blocks, list, list_mutex, lpc, adr, raced>>

Unlock(t) ==
  /\ list_mutex' = Null
  /\ LReturn(t)

(* free of an item: what the allocator leaves of it. *)
Overwritten(i) == [item[i] EXCEPT !.value = Null, !.prev = Null]

(* Mutant: the tail stays. *)
UnlinkedButTail(i) ==
  LET before == item[i].prev
      after == item[i].next
  IN /\ item' = [j \in Items |->
          IF j = before THEN [item[j] EXCEPT !.next = after]
          ELSE IF j = after THEN [item[j] EXCEPT !.prev = before]
          ELSE IF j = i THEN Overwritten(i)
          ELSE item[j]]
     /\ head' = IF before = Null THEN after ELSE head
     /\ UNCHANGED tail

Unlinked(i) ==
  LET before == item[i].prev
      after == item[i].next
  IN /\ item' = [j \in Items |->
          IF j = before THEN [item[j] EXCEPT !.next = after]
          ELSE IF j = after THEN [item[j] EXCEPT !.prev = before]
          ELSE IF j = i THEN Overwritten(i)
          ELSE item[j]]
     /\ head' = IF before = Null THEN after ELSE head
     /\ tail' = IF after = Null THEN before ELSE tail

(* The threads other than t that may have a pointer to an item.             *)
Looking(t) ==
  {u \in Threads \ {t} : lpc[u] \in {"lookup", "lookup_next", "lock"}}

Removed(t) ==
  /\ Unlinked(at[t])
  /\ used' = used \ {at[t]}
  /\ count' = count - 1
  /\ raced' = [u \in Threads |-> u \in Looking(t) \/ (raced[u] /\ u # t)]

(* Mutant: the loop goes on, and removes every item with the address. *)
RemoveItemsAll(t) ==
  /\ lpc[t] = "remove"
  /\ at[t] # Null
  /\ Matches(t)
  /\ Removed(t)
  /\ At(t, item[at[t]].next)
  /\ UNCHANGED <<heaps, blocks, list_mutex, lpc, adr>>

RemoveItem(t) ==
  /\ lpc[t] = "remove"
  /\ at[t] # Null
  /\ Matches(t)
  /\ Removed(t)
  /\ Unlock(t)
  /\ UNCHANGED <<heaps, blocks>>

RemoveNone(t) ==
  /\ lpc[t] = "remove"
  /\ at[t] = Null
  /\ Unlock(t)
  /\ raced' = [raced EXCEPT ![t] = FALSE]
  /\ UNCHANGED <<heaps, blocks, list>>

-----------------------------------------------------------------------------
(* listDestroy, when every component has been joined. *)

(* The n-th item from the head. *)
ItemAt[n \in Nat] ==
  IF n = 0 THEN head
  ELSE IF ItemAt[n - 1] = Null THEN Null ELSE item[ItemAt[n - 1]].next

Reached == {ItemAt[n] : n \in 0 .. Cardinality(Items)} \ {Null}

listDestroy ==
  /\ \A t \in Threads : lpc[t] = "idle"
  /\ used' = used \ Reached
  /\ lpc' = [t \in Threads |-> "ended"]
  /\ UNCHANGED <<heaps, blocks, item, head, tail, count, list_mutex, adr, at, raced>>

-----------------------------------------------------------------------------
(* listCreate *)
MallocListInit ==
  /\ heaps \in BOOLEAN
  /\ live = {}
  /\ held = {}
  /\ item = [i \in Items |-> [value |-> Null, prev |-> Null, next |-> Null]]
  /\ used = {}
  /\ head = Null
  /\ tail = Null
  /\ count = 0
  /\ list_mutex = Null
  /\ lpc = [t \in Threads |-> "idle"]
  /\ adr = [t \in Threads |-> Null]
  /\ at = [t \in Threads |-> Null]
  /\ raced = [t \in Threads |-> FALSE]

DAL_free(t) ==
  \/ \E b \in Blocks : BH_free(t, b)
  \/ \E b \in Blocks \cup {Own} : SH_free(t, b)
  \/ Found(t) \/ NotThis(t) \/ LookupNext(t) \/ NotFound(t)
  \/ ReadHead(t) \/ Lock(t)
  \/ RemoveNext(t) \/ RemoveItem(t) \/ RemoveNone(t)

(* Nothing is modelled once a thread is astray: anything can happen.        *)
MallocListNext ==
  /\ \A t \in Threads : lpc[t] # "astray"
  /\ \/ \E t \in Threads : Malloc(t) \/ Add(t) \/ DAL_free(t)
     \/ listDestroy

MallocListSpec == MallocListInit /\ [][MallocListNext]_mallocListVars

-----------------------------------------------------------------------------
(* Properties *)

Removing == {"read_head", "lock", "remove"}

(* Who changes the list's links holds its mutex: whatever the lookups and   *)
(* the heads read too early, the items in use are the list, linked both     *)
(* ways, and counted; listDestroy leaves none behind.                       *)
ListIntact ==
  IF \E t \in Threads : lpc[t] = "ended" THEN used = {}
  ELSE
    /\ Reached = used
    /\ count = Cardinality(used)
    /\ tail = Null <=> head = Null
    /\ \A i \in used :
         /\ item[i].prev = Null <=> i = head
         /\ item[i].next = Null <=> i = tail
         /\ \A j \in used : item[i].next = j <=> item[j].prev = i

Entries(b) == {i \in used : item[i].value = b}

(* A block is freed before its address is taken off the list, so malloc can *)
(* return it meanwhile and the address is listed twice; a removal takes off *)
(* one entry.  There is always one for a block in the program's hands and   *)
(* one for each removal that has not been done, so that a block in use is   *)
(* never without its entry.                                                 *)
EntriesCover ==
  (\E t \in Threads : lpc[t] = "ended") \/
  \A b \in Blocks :
    LET removals == {t \in Threads : adr[t] = b /\ lpc[t] \in Removing}
        adding == \E t \in Threads : adr[t] = b /\ lpc[t] = "add"
    IN Cardinality(Entries(b)) >=
         Cardinality(removals) + (IF b \in live /\ ~ adding THEN 1 ELSE 0)

(* A lookup or a removal misses the entry of its block only if another      *)
(* thread removed an item after it had read the head: then it may follow a  *)
(* pointer of a freed item.  With one thread at a time neither misses.      *)
LostOnlyInRace ==
  \A t \in Threads :
    \/ lpc[t] = "astray"
    \/ lpc[t] \in {"lookup", "remove"} /\ at[t] = Null /\ adr[t] # Own
    => raced[t]
=============================================================================
