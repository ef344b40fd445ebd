-------------------------- MODULE MallocListProofs --------------------------
(***************************************************************************)
(* Proofs about MallocList for any number of threads, blocks and items: a  *)
(* block in use has its entry, an entry is missed only in a race, and the  *)
(* items in use are the list.                                              *)
(***************************************************************************)
EXTENDS MallocList, FiniteSetTheorems, TLAPS

Labels == {"idle", "add", "lookup", "lookup_next", "astray", "ended"} \cup Removing

Node ==
  [value : Blocks \cup {Null}, prev : Items \cup {Null}, next : Items \cup {Null}]

Types ==
  /\ live \in SUBSET Blocks
  /\ held \in SUBSET live
  /\ used \in SUBSET Items
  /\ item \in [Items -> Node]
  /\ head \in Items \cup {Null}
  /\ tail \in Items \cup {Null}
  /\ lpc \in [Threads -> Labels]
  /\ adr \in [Threads -> Blocks \cup {Null, Own}]
  /\ at \in [Threads -> Items \cup {Null}]
  /\ \A t \in Threads : lpc[t] = "lookup_next" => at[t] # Null
  /\ raced \in [Threads -> BOOLEAN]

(* The calls that alone know a block: no other thread can name it.          *)
Knowing == {"add", "lookup", "lookup_next"}

(* The address a call handles.                                              *)
AddressAt(t) ==
  /\ lpc[t] = "add" => adr[t] \in (live \ held) \cup {Null}
  /\ lpc[t] \in {"lookup", "lookup_next"} => adr[t] \in (live \ held) \cup {Own}
  /\ lpc[t] \in Removing => adr[t] \in Blocks

Addresses ==
  /\ \A t \in Threads : AddressAt(t)
  /\ \A t, u \in Threads :
       lpc[t] \in Knowing /\ lpc[u] \in Knowing /\ adr[t] \in Blocks /\ adr[t] = adr[u]
         => t = u

Locking == \A t \in Threads : lpc[t] = "remove" => list_mutex = t

Ending ==
  (\E t \in Threads : lpc[t] = "ended") => \A t \in Threads : lpc[t] = "ended"

(* EntriesCover, for one block.                                             *)
Removals(b) == {t \in Threads : adr[t] = b /\ lpc[t] \in Removing}
Adding(b) == \E t \in Threads : adr[t] = b /\ lpc[t] = "add"
Due(b) == IF b \in live /\ ~ Adding(b) THEN 1 ELSE 0

Covered(b) ==
  /\ IsFiniteSet(Removals(b))
  /\ Cardinality(Entries(b)) >= Cardinality(Removals(b)) + Due(b)

Covering == (\E t \in Threads : lpc[t] = "ended") \/ \A b \in Blocks : Covered(b)

(* The items in use are in an order in which next and prev are neighbours.  *)
NextInOrder(pos, i) ==
  IF item[i].next = Null THEN \A j \in used : pos[j] <= pos[i]
  ELSE /\ item[i].next \in used
       /\ pos[i] < pos[item[i].next]
       /\ \A j \in used : pos[j] <= pos[i] \/ pos[item[i].next] <= pos[j]

PrevInOrder(pos, i) ==
  IF item[i].prev = Null THEN \A j \in used : pos[i] <= pos[j]
  ELSE /\ item[i].prev \in used
       /\ pos[item[i].prev] < pos[i]
       /\ \A j \in used : pos[j] <= pos[item[i].prev] \/ pos[i] <= pos[j]

EndsInOrder(pos) ==
  /\ IF head = Null THEN used = {}
     ELSE head \in used /\ \A j \in used : pos[head] <= pos[j]
  /\ IF tail = Null THEN used = {}
     ELSE tail \in used /\ \A j \in used : pos[j] <= pos[tail]

Ordered(pos) ==
  /\ \A i, j \in used : pos[i] = pos[j] => i = j
  /\ \A i \in used : NextInOrder(pos, i) /\ PrevInOrder(pos, i)
  /\ EndsInOrder(pos)

(* A thread that no removal has overtaken has an entry of its block at its  *)
(* listItem or after it.                                                    *)
Walking == {"lookup", "lookup_next", "lock", "remove"}

AheadAt(pos, t) ==
  lpc[t] \in Walking /\ ~ raced[t] /\ adr[t] \in Blocks =>
    /\ at[t] \in used
    /\ lpc[t] = "lookup_next" => item[at[t]].value # adr[t]
    /\ \E i \in Entries(adr[t]) : pos[at[t]] <= pos[i]

InOrder ==
  (\E t \in Threads : lpc[t] = "ended") \/
  \E pos \in [Items -> Nat] : Ordered(pos) /\ \A t \in Threads : AheadAt(pos, t)

Astray == \A t \in Threads : lpc[t] = "astray" => raced[t]

MallocListInv ==
  /\ Types
  /\ Addresses
  /\ Locking
  /\ Ending
  /\ Covering
  /\ InOrder
  /\ Astray

-----------------------------------------------------------------------------
(* The steps of a thread. *)

Walk(t) == NotThis(t) \/ LookupNext(t) \/ ReadHead(t) \/ Lock(t) \/ RemoveNext(t)

ThreadStep(t) ==
  \/ Malloc(t) \/ Add(t)
  \/ \E b \in Blocks : BH_free(t, b)
  \/ \E b \in Blocks \cup {Own} : SH_free(t, b)
  \/ Found(t) \/ NotFound(t) \/ Walk(t)
  \/ RemoveItem(t) \/ RemoveNone(t)

(* A step is a thread's, or the end. *)
LEMMA MallocListSteps ==
  ASSUME MallocListNext
  PROVE  (\E t \in Threads : ThreadStep(t)) \/ listDestroy
BY Zenon DEF MallocListNext, DAL_free, ThreadStep, Walk

(* A thread moves only while none has ended, and only its own locals change. *)
LEMMA NotEnded ==
  ASSUME Types, Ending, NEW t \in Threads, ThreadStep(t)
  PROVE  /\ \A u \in Threads : lpc[u] # "ended"
         /\ \A u \in Threads : lpc'[u] # "ended"
         /\ \A u \in Threads \ {t} : lpc'[u] = lpc[u] /\ adr'[u] = adr[u] /\ at'[u] = at[u]
<1>. USE DEF Types, Labels, Removing, LGoto, At, LReturn
<1>1. lpc[t] # "ended"
  BY DEF ThreadStep, Walk, Malloc, Add, BH_free, SH_free, Found, NotThis, LookupNext,
     NotFound, ReadHead, Lock, RemoveNext, RemoveItem, RemoveNone
<1>2. \A u \in Threads : lpc[u] # "ended"
  BY <1>1 DEF Ending
<1>3. /\ lpc'[t] # "ended"
      /\ \A u \in Threads \ {t} : lpc'[u] = lpc[u] /\ adr'[u] = adr[u] /\ at'[u] = at[u]
  <2>1. CASE Malloc(t) \/ Add(t)
    BY <1>1, <2>1 DEF Malloc, Add
  <2>2. CASE \E b \in Blocks : BH_free(t, b)
    BY <1>1, <2>2 DEF BH_free
  <2>3. CASE \E b \in Blocks \cup {Own} : SH_free(t, b)
    BY <1>1, <2>3 DEF SH_free
  <2>4. CASE Found(t) \/ NotFound(t)
    BY <1>1, <2>4 DEF Found, NotFound
  <2>5. CASE Walk(t)
    BY <1>1, <2>5 DEF Walk, NotThis, LookupNext, ReadHead, Lock, RemoveNext
  <2>6. CASE RemoveItem(t) \/ RemoveNone(t)
    BY <1>1, <2>6 DEF RemoveItem, RemoveNone, Unlock
  <2>. QED  BY <2>1, <2>2, <2>3, <2>4, <2>5, <2>6 DEF ThreadStep
<1>. QED  BY <1>2, <1>3

-----------------------------------------------------------------------------
(* Types, locks and the end *)

(* Unlinking changes next before, prev after, and what free overwrites.     *)
LEMMA UnlinkedNodes ==
  ASSUME Types, NEW i \in used, Unlinked(i)
  PROVE  /\ item' \in [Items -> Node]
         /\ head' \in Items \cup {Null} /\ tail' \in Items \cup {Null}
<1>1. item[i].prev \in Items \cup {Null} /\ item[i].next \in Items \cup {Null}
  BY DEF Types, Node
<1>2. ASSUME NEW j \in Items, NEW n \in Items \cup {Null}
      PROVE  /\ item[j] \in Node
             /\ [item[j] EXCEPT !.next = n] \in Node
             /\ [item[j] EXCEPT !.prev = n] \in Node
             /\ [item[j] EXCEPT !.value = Null, !.prev = Null] \in Node
  <2>1. item[j] \in Node
    BY DEF Types
  <2>2. Null \in Items \cup {Null} /\ Null \in Blocks \cup {Null}
    OBVIOUS
  <2>3. \A x \in Node : /\ [x EXCEPT !.next = n] \in Node
                       /\ [x EXCEPT !.prev = n] \in Node
                       /\ [x EXCEPT !.value = Null, !.prev = Null] \in Node
    BY <2>2 DEF Node
  <2>. QED  BY <2>1, <2>3
<1>3. item' = [j \in Items |->
        IF j = item[i].prev THEN [item[j] EXCEPT !.next = item[i].next]
        ELSE IF j = item[i].next THEN [item[j] EXCEPT !.prev = item[i].prev]
        ELSE IF j = i THEN [item[i] EXCEPT !.value = Null, !.prev = Null]
        ELSE item[j]]
  BY Zenon DEF Unlinked, Overwritten
<1>4. head' \in Items \cup {Null} /\ tail' \in Items \cup {Null}
  BY <1>1 DEF Unlinked, Types
<1>5. item' \in [Items -> Node]
  BY <1>1, <1>2, <1>3
<1>. QED  BY <1>4, <1>5

(* A step of a thread keeps the types. *)
LEMMA TypesStep ==
  ASSUME Types, Addresses, NEW t \in Threads, ThreadStep(t)
  PROVE  Types'
<1>. USE MallocListAssumption DEF Types, Labels, Removing, LGoto, At
<1>1. CASE Malloc(t)
  BY <1>1 DEF Malloc, list
<1>2. CASE Add(t)
  <2>1. PICK i \in Items \ used : Linked(i, adr[t])
    BY <1>2 DEF Add
  <2>2. /\ lpc[t] = "add" /\ live' = live /\ raced' = raced
        /\ held' = held \cup ({adr[t]} \ {Null})
        /\ lpc' = [lpc EXCEPT ![t] = "idle"]
        /\ adr' = [adr EXCEPT ![t] = Null] /\ at' = [at EXCEPT ![t] = Null]
    BY <1>2 DEF Add, LReturn
  <2>3. adr[t] \in (live \ held) \cup {Null}
    BY <2>2 DEF Addresses, AddressAt
  <2>4. item' \in [Items -> Node]
    BY <2>1, <2>3 DEF Linked, Node
  <2>5. used' \in SUBSET Items /\ head' \in Items \cup {Null} /\ tail' \in Items \cup {Null}
    BY <2>1 DEF Linked
  <2>. QED  BY <2>2, <2>3, <2>4, <2>5
<1>3. CASE \E b \in Blocks : BH_free(t, b)
  BY <1>3 DEF BH_free, list
<1>4. CASE \E b \in Blocks \cup {Own} : SH_free(t, b)
  BY <1>4 DEF SH_free, list
<1>5. CASE Found(t)
  <2>1. lpc[t] = "lookup" /\ adr[t] \in Blocks
    <3>1. lpc[t] = "lookup" /\ adr[t] = item[at[t]].value /\ at[t] \in Items
      BY <1>5 DEF Found, Matches
    <3>2. adr[t] \in Blocks \cup {Null}
      BY <3>1 DEF Node
    <3>. QED  BY <3>1, <3>2 DEF Addresses, AddressAt
  <2>2. adr[t] \notin held
    BY <2>1 DEF Addresses, AddressAt
  <2>. QED  BY <1>5, <2>1, <2>2 DEF Found, list
<1>6. CASE NotFound(t)
  <2>1. /\ lpc' = [lpc EXCEPT ![t] = "idle"] \/ lpc' = [lpc EXCEPT ![t] = "astray"]
        /\ adr' = [adr EXCEPT ![t] = Null] \/ adr' = adr
        /\ \/ at' = at
           \/ at' = [at EXCEPT ![t] = Null] /\ lpc' = [lpc EXCEPT ![t] = "idle"]
        /\ raced' = [raced EXCEPT ![t] = FALSE] \/ raced' = raced
        /\ UNCHANGED <<live, held, used, item, head, tail>>
    BY <1>6 DEF NotFound, LReturn, blocks, list
  <2>. QED  BY ZenonT(30), <2>1
<1>7. CASE Walk(t)
  <2>1. CASE NotThis(t)
    BY <2>1 DEF NotThis, blocks, list
  <2>3. CASE ReadHead(t)
    BY <2>3 DEF ReadHead, blocks, list
  <2>4. CASE Lock(t)
    BY <2>4 DEF Lock, blocks, list
  <2>2. CASE LookupNext(t) \/ RemoveNext(t)
    <3>1. at[t] \in Items /\ at' = [at EXCEPT ![t] = item[at[t]].next]
      BY <2>2 DEF LookupNext, RemoveNext, NextOf
    <3>2. item[at[t]].next \in Items \cup {Null}
      BY <3>1 DEF Node
    <3>. QED  BY <2>2, <3>1, <3>2 DEF LookupNext, RemoveNext, blocks, list
  <2>. QED  BY <1>7, <2>1, <2>2, <2>3, <2>4 DEF Walk
<1>8. CASE RemoveItem(t)
  <2>1. /\ at[t] \in used /\ Unlinked(at[t]) /\ used' = used \ {at[t]}
        /\ raced' \in [Threads -> BOOLEAN]
        /\ lpc' = [lpc EXCEPT ![t] = "idle"] /\ UNCHANGED <<live, held>>
        /\ adr' = [adr EXCEPT ![t] = Null] /\ at' = [at EXCEPT ![t] = Null]
    <3>1. raced' = [u \in Threads |-> u \in Looking(t) \/ (raced[u] /\ u # t)]
      BY <1>8 DEF RemoveItem, Removed
    <3>2. raced' \in [Threads -> BOOLEAN]
      BY <3>1
    <3>. QED  BY <1>8, <3>2 DEF RemoveItem, Matches, Removed, Unlock, LReturn, blocks
  <2>2. /\ item' \in [Items -> Node]
        /\ head' \in Items \cup {Null} /\ tail' \in Items \cup {Null}
    BY <2>1, UnlinkedNodes
  <2>. QED  BY <2>1, <2>2
<1>9. CASE RemoveNone(t)
  BY <1>9 DEF RemoveNone, Unlock, LReturn, blocks, list
<1>. QED  BY <1>1, <1>2, <1>3, <1>4, <1>5, <1>6, <1>7, <1>8, <1>9 DEF ThreadStep

(* What a thread's step does to its label, its address and the blocks.      *)
Free == live \ held

LEMMA LabelStep ==
  ASSUME Types, Addresses, NEW t \in Threads, ThreadStep(t)
  PROVE  \/ lpc'[t] = "idle" /\ Free' = Free
         \/ lpc'[t] = "idle" /\ lpc[t] = "add" /\ Free' = Free \ {adr[t]}
         \/ /\ lpc[t] = "idle" /\ lpc'[t] = "add"
            /\ adr'[t] \in Free' \cup {Null} /\ adr'[t] \notin live
            /\ Free' = Free \cup ({adr'[t]} \ {Null})
         \/ /\ lpc[t] = "idle" /\ lpc'[t] = "lookup"
            /\ adr'[t] \in held \cup {Own}
            /\ Free' = Free \cup ({adr'[t]} \ {Own})
         \/ /\ lpc[t] = "lookup" /\ lpc'[t] = "read_head" /\ adr'[t] = adr[t]
            /\ adr[t] \in Blocks /\ Free' = Free \ {adr[t]}
         \/ /\ adr'[t] = adr[t] /\ Free' = Free
            /\ \/ {lpc[t], lpc'[t]} \subseteq {"lookup", "lookup_next"}
               \/ {lpc[t], lpc'[t]} \subseteq Removing
               \/ lpc'[t] = "astray"
<1>. USE MallocListAssumption DEF Types, Labels, Removing, LGoto, At, Free
<1>1. CASE Malloc(t)
  BY <1>1 DEF Malloc
<1>2. CASE Add(t)
  <2>1. adr[t] \in Free \cup {Null}
    BY <1>2 DEF Add, Addresses, AddressAt
  <2>. QED  BY <1>2, <2>1 DEF Add, LReturn
<1>3. CASE \E b \in Blocks : BH_free(t, b)
  BY <1>3 DEF BH_free
<1>4. CASE \E b \in Blocks \cup {Own} : SH_free(t, b)
  BY <1>4 DEF SH_free
<1>5. CASE Found(t)
  <2>1. lpc[t] = "lookup" /\ adr[t] = item[at[t]].value /\ at[t] \in Items
    BY <1>5 DEF Found, Matches
  <2>2. adr[t] \in Blocks \cup {Null}
    BY <2>1 DEF Node
  <2>3. adr[t] \in Blocks /\ adr[t] \notin held
    BY <2>1, <2>2 DEF Addresses, AddressAt
  <2>. QED  BY <1>5, <2>1, <2>3 DEF Found
<1>6. CASE NotFound(t)
  BY <1>6 DEF NotFound, LReturn, blocks
<1>7. CASE Walk(t)
  <2>1. CASE NotThis(t)
    BY <2>1 DEF NotThis, blocks
  <2>2. CASE LookupNext(t)
    BY <2>2 DEF LookupNext, blocks
  <2>3. CASE ReadHead(t)
    BY <2>3 DEF ReadHead, blocks
  <2>4. CASE Lock(t)
    BY <2>4 DEF Lock, blocks
  <2>5. CASE RemoveNext(t)
    BY <2>5 DEF RemoveNext, blocks
  <2>. QED  BY <1>7, <2>1, <2>2, <2>3, <2>4, <2>5 DEF Walk
<1>8. CASE RemoveItem(t) \/ RemoveNone(t)
  BY <1>8 DEF RemoveItem, RemoveNone, Unlock, LReturn, blocks
<1>. QED  BY <1>1, <1>2, <1>3, <1>4, <1>5, <1>6, <1>7, <1>8 DEF ThreadStep

(* Two calls never handle one block before it has been freed.               *)
LEMMA AddressesStep ==
  ASSUME Types, Types', Addresses, Ending, NEW t \in Threads, ThreadStep(t)
  PROVE  Addresses'
<1>. USE MallocListAssumption DEF Types, Labels, Removing, Knowing
<1>. DEFINE Right(u) ==
       /\ lpc[u] = "add" => adr[u] \in Free \cup {Null}
       /\ lpc[u] \in {"lookup", "lookup_next"} => adr[u] \in Free \cup {Own}
       /\ lpc[u] \in Removing => adr[u] \in Blocks
     Alone(u, w) ==
       lpc[u] \in Knowing /\ lpc[w] \in Knowing /\ adr[u] \in Blocks /\ adr[u] = adr[w]
         => u = w
<1>1. /\ \A u \in Threads : Right(u)
      /\ \A u, w \in Threads : Alone(u, w)
  BY Zenon DEF Addresses, AddressAt, Free
<1>2. \A u \in Threads \ {t} : lpc'[u] = lpc[u] /\ adr'[u] = adr[u]
  BY NotEnded
<1>3. Right(t)'
  BY <1>1, LabelStep DEF Free
<1>4. \A u \in Threads \ {t} : Right(u)'
  BY <1>1, <1>2, LabelStep DEF Free
<1>5. \A u \in Threads \ {t} : Alone(u, t)' /\ Alone(t, u)'
  BY <1>1, <1>2, LabelStep DEF Free
<1>6. \A u, w \in Threads \ {t} : Alone(u, w)'
  BY <1>1, <1>2
<1>7. /\ \A u \in Threads : Right(u)'
      /\ \A u, w \in Threads : Alone(u, w)'
  BY <1>3, <1>4, <1>5, <1>6
<1>. QED  BY <1>7, Zenon DEF Addresses, AddressAt, Free

-----------------------------------------------------------------------------
(* Entries *)

(* There are as many entries as removals and uses ask for when a step       *)
(* leaves the entries and the removals and does not begin a use.            *)
LEMMA CoverFrame ==
  ASSUME NEW b \in Blocks, Covered(b), Entries(b)' = Entries(b),
         Removals(b)' = Removals(b), Due(b)' <= Due(b),
         IsFiniteSet(Entries(b))
  PROVE  Covered(b)'
<1>1. /\ Cardinality(Entries(b)) \in Nat /\ Cardinality(Removals(b)) \in Nat
      /\ Due(b) \in {0, 1} /\ Due(b)' \in {0, 1}
  BY FS_CardinalityType DEF Covered, Due
<1>2. /\ Cardinality(Entries(b))' = Cardinality(Entries(b))
      /\ Cardinality(Removals(b))' = Cardinality(Removals(b))
      /\ IsFiniteSet(Removals(b))'
  BY DEF Covered
<1>. QED  BY <1>1, <1>2 DEF Covered

(* The entries of a block are finitely many. *)
LEMMA EntriesFinite ==
  ASSUME Types, NEW b
  PROVE  IsFiniteSet(Entries(b))
<1>1. Entries(b) \subseteq Items
  BY DEF Types, Entries
<1>. QED  BY <1>1, FS_Subset, MallocListAssumption

(* A block that is added is due an entry, and gets it. *)
LEMMA CoverAdd ==
  ASSUME Types, Addresses, NEW t \in Threads, Add(t), NEW b \in Blocks, Covered(b)
  PROVE  Covered(b)'
<1>. USE MallocListAssumption DEF Types, Labels
<1>1. PICK i \in Items \ used : Linked(i, adr[t])
  BY DEF Add
<1>2. /\ lpc[t] = "add" /\ lpc' = [lpc EXCEPT ![t] = "idle"]
      /\ adr' = [adr EXCEPT ![t] = Null] /\ live' = live
  BY DEF Add, LReturn, LGoto
<1>3. Removals(b)' = Removals(b)
  BY <1>2 DEF Removals, Removing
<1>4. /\ used' = used \cup {i} /\ item'[i].value = adr[t]
      /\ \A j \in used : item'[j].value = item[j].value
  BY <1>1 DEF Linked, Node
<1>5. CASE adr[t] = b
  <2>1. Entries(b)' = Entries(b) \cup {i} /\ i \notin Entries(b)
    BY <1>4, <1>5 DEF Entries
  <2>2. /\ Cardinality(Entries(b)') = Cardinality(Entries(b)) + 1
        /\ Cardinality(Entries(b)) \in Nat
    BY <2>1, EntriesFinite, FS_AddElement, FS_CardinalityType
  <2>3. Due(b) = 0 /\ Due(b)' \in {0, 1}
    BY <1>2, <1>5 DEF Due, Adding
  <2>4. Cardinality(Removals(b)) \in Nat
    BY FS_CardinalityType DEF Covered
  <2>5. /\ Cardinality(Removals(b))' = Cardinality(Removals(b))
        /\ IsFiniteSet(Removals(b))'
    BY <1>3 DEF Covered
  <2>. QED  BY <2>2, <2>3, <2>4, <2>5 DEF Covered
<1>6. CASE adr[t] # b
  <2>1. Entries(b)' = Entries(b)
    BY <1>4, <1>6 DEF Entries
  <2>2. Adding(b)' <=> Adding(b)
    BY <1>2, <1>6 DEF Adding
  <2>3. Due(b)' <= Due(b)
    BY <1>2, <2>2 DEF Due
  <2>. QED  BY <1>3, <2>1, <2>3, EntriesFinite, CoverFrame
<1>. QED  BY <1>5, <1>6

(* A block that is freed gives its due to the removal of its entry. *)
LEMMA CoverFound ==
  ASSUME Types, Addresses, NEW t \in Threads, Found(t), NEW b \in Blocks, Covered(b)
  PROVE  Covered(b)'
<1>. USE MallocListAssumption DEF Types, Labels
<1>1. /\ lpc[t] = "lookup" /\ lpc' = [lpc EXCEPT ![t] = "read_head"]
      /\ live' = live \ {adr[t]} /\ UNCHANGED <<adr, used, item>>
  BY DEF Found, LGoto, list
<1>2. Entries(b)' = Entries(b)
  BY <1>1 DEF Entries
<1>3. Adding(b)' <=> Adding(b)
  BY <1>1 DEF Adding
<1>4. CASE adr[t] = b
  <2>1. Removals(b)' = Removals(b) \cup {t} /\ t \notin Removals(b)
    BY <1>1, <1>4 DEF Removals, Removing
  <2>2. /\ IsFiniteSet(Removals(b)')
        /\ Cardinality(Removals(b)') = Cardinality(Removals(b)) + 1
        /\ Cardinality(Removals(b)) \in Nat
    BY <2>1, FS_AddElement, FS_CardinalityType DEF Covered
  <2>3. b \in live /\ ~ Adding(b)
    BY <1>1, <1>4 DEF Addresses, AddressAt, Adding, Knowing
  <2>4. Due(b) = 1 /\ Due(b)' = 0
    BY <1>1, <1>4, <2>3 DEF Due
  <2>5. /\ Cardinality(Entries(b))' = Cardinality(Entries(b))
        /\ Cardinality(Entries(b)) \in Nat
    BY <1>2, EntriesFinite, FS_CardinalityType
  <2>. QED  BY <2>2, <2>4, <2>5 DEF Covered
<1>5. CASE adr[t] # b
  <2>1. Removals(b)' = Removals(b)
    BY <1>1, <1>5 DEF Removals, Removing
  <2>2. Due(b)' <= Due(b)
    BY <1>1, <1>3, <1>5 DEF Due
  <2>. QED  BY <1>2, <2>1, <2>2, EntriesFinite, CoverFrame
<1>. QED  BY <1>4, <1>5

(* A removal takes one entry, or none. *)
LEMMA CoverRemove ==
  ASSUME Types, Addresses, NEW t \in Threads, RemoveItem(t) \/ RemoveNone(t),
         NEW b \in Blocks, Covered(b)
  PROVE  Covered(b)'
<1>. USE MallocListAssumption DEF Types, Labels
<1>1. /\ lpc[t] = "remove" /\ lpc' = [lpc EXCEPT ![t] = "idle"]
      /\ adr' = [adr EXCEPT ![t] = Null] /\ live' = live
  BY DEF RemoveItem, RemoveNone, Unlock, LReturn, LGoto, blocks
<1>2. Adding(b)' <=> Adding(b)
  BY <1>1 DEF Adding
<1>3. Due(b)' = Due(b) /\ Due(b) \in {0, 1}
  BY <1>1, <1>2 DEF Due
<1>4. CASE adr[t] # b
  <2>1. Removals(b)' = Removals(b)
    BY <1>1, <1>4 DEF Removals, Removing
  <2>2. CASE RemoveNone(t)
    <3>1. Entries(b)' = Entries(b)
      BY <2>2 DEF Entries, RemoveNone, list
    <3>. QED  BY <1>3, <2>1, <3>1, EntriesFinite, CoverFrame
  <2>3. CASE RemoveItem(t)
    <3>1. /\ at[t] \in used /\ item[at[t]].value = adr[t] /\ used' = used \ {at[t]}
          /\ Unlinked(at[t])
      BY <2>3 DEF RemoveItem, Matches, Removed
    <3>2. \A j \in used' : item'[j].value = item[j].value
      BY <3>1 DEF Unlinked, Node, Overwritten
    <3>3. Entries(b)' = Entries(b)
      BY <1>4, <3>1, <3>2 DEF Entries
    <3>. QED  BY <1>3, <2>1, <3>3, EntriesFinite, CoverFrame
  <2>. QED  BY <2>2, <2>3
<1>5. CASE adr[t] = b
  <2>1. Removals(b)' = Removals(b) \ {t} /\ t \in Removals(b)
    BY <1>1, <1>5 DEF Removals, Removing
  <2>2. /\ IsFiniteSet(Removals(b)')
        /\ Cardinality(Removals(b)') = Cardinality(Removals(b)) - 1
        /\ Cardinality(Removals(b)) \in Nat
    BY <2>1, FS_RemoveElement, FS_CardinalityType DEF Covered
  <2>3. CASE RemoveNone(t)
    <3>1. Entries(b)' = Entries(b)
      BY <2>3 DEF Entries, RemoveNone, list
    <3>2. /\ Cardinality(Entries(b))' = Cardinality(Entries(b))
          /\ Cardinality(Entries(b)) \in Nat
      BY <3>1, EntriesFinite, FS_CardinalityType
    <3>. QED  BY <1>3, <2>2, <3>2 DEF Covered
  <2>4. CASE RemoveItem(t)
    <3>1. /\ at[t] \in used /\ item[at[t]].value = adr[t] /\ used' = used \ {at[t]}
          /\ Unlinked(at[t])
      BY <2>4 DEF RemoveItem, Matches, Removed
    <3>2. \A j \in used' : item'[j].value = item[j].value
      BY <3>1 DEF Unlinked, Node, Overwritten
    <3>3. Entries(b)' = Entries(b) \ {at[t]} /\ at[t] \in Entries(b)
      BY <1>5, <3>1, <3>2 DEF Entries
    <3>4. /\ Cardinality(Entries(b)') = Cardinality(Entries(b)) - 1
          /\ Cardinality(Entries(b)) \in Nat
      BY <3>3, EntriesFinite, FS_RemoveElement, FS_CardinalityType
    <3>. QED  BY <1>3, <2>2, <3>4 DEF Covered
  <2>. QED  BY <2>3, <2>4
<1>. QED  BY <1>4, <1>5

(* The other steps begin no use of a block and no removal.                  *)
LEMMA CoverElsewhere ==
  ASSUME Types, Addresses, NEW t \in Threads,
         \/ Malloc(t) \/ NotFound(t) \/ Walk(t)
         \/ \E b \in Blocks : BH_free(t, b)
         \/ \E b \in Blocks \cup {Own} : SH_free(t, b),
         NEW b \in Blocks, Covered(b)
  PROVE  Covered(b)'
<1>. USE MallocListAssumption DEF Types, Labels, LGoto, At
<1>1. /\ UNCHANGED <<used, item>>
      /\ \A u \in Threads \ {t} : lpc'[u] = lpc[u] /\ adr'[u] = adr[u]
      /\ \/ adr'[t] = adr[t] /\ live' = live /\ {lpc[t], lpc'[t]} \subseteq Removing
         \/ /\ lpc[t] \notin Removing /\ lpc'[t] \notin Removing
            /\ \/ live' \subseteq live /\ lpc[t] # "add" /\ lpc'[t] # "add"
               \/ /\ live' \subseteq live \cup {adr'[t]}
                  /\ lpc[t] # "add" /\ lpc'[t] = "add"
  <2>1. CASE Malloc(t)
    BY <2>1 DEF Malloc, list, Removing
  <2>2. CASE NotFound(t)
    BY <2>2 DEF NotFound, LReturn, list, blocks, Removing
  <2>3. CASE Walk(t)
    <3>1. CASE NotThis(t) \/ LookupNext(t)
      BY <3>1 DEF NotThis, LookupNext, list, blocks, Removing
    <3>2. CASE ReadHead(t) \/ Lock(t) \/ RemoveNext(t)
      BY <3>2 DEF ReadHead, Lock, RemoveNext, list, blocks, Removing
    <3>. QED  BY <2>3, <3>1, <3>2 DEF Walk
  <2>4. CASE \E c \in Blocks : BH_free(t, c)
    BY <2>4 DEF BH_free, list, Removing
  <2>5. CASE \E c \in Blocks \cup {Own} : SH_free(t, c)
    BY <2>5 DEF SH_free, list, Removing
  <2>. QED  BY <2>1, <2>2, <2>3, <2>4, <2>5
<1>2. Entries(b)' = Entries(b)
  BY <1>1 DEF Entries
<1>3. Removals(b)' = Removals(b)
  BY <1>1 DEF Removals
<1>4. b \in live' /\ ~ Adding(b)' => b \in live /\ ~ Adding(b)
  BY <1>1 DEF Adding, Removing
<1>5. Due(b)' <= Due(b)
  BY <1>4 DEF Due
<1>. QED  BY <1>2, <1>3, <1>5, EntriesFinite, CoverFrame

(* A step of a thread keeps every block covered. *)
LEMMA CoveringStep ==
  ASSUME Types, Addresses, Ending, Covering, NEW t \in Threads, ThreadStep(t)
  PROVE  Covering'
<1>1. \A b \in Blocks : Covered(b)
  BY NotEnded DEF Covering
<1>. QED  BY <1>1, CoverAdd, CoverFound, CoverRemove, CoverElsewhere
          DEF ThreadStep, Covering

-----------------------------------------------------------------------------
(* The order of the items *)

(* A new item is the last. *)
LEMMA OrderAdd ==
  ASSUME Types, NEW v, NEW i \in Items \ used, Linked(i, v),
         NEW pos \in [Items -> Nat], Ordered(pos)
  PROVE  \E q \in [Items -> Nat] :
           Ordered(q)' /\ \A j \in used : q[j] = pos[j]
<1>. USE MallocListAssumption DEF Types
<1>1. /\ used' = used \cup {i} /\ tail' = i
      /\ head' = IF tail = Null THEN i ELSE head
      /\ item'[i].prev = tail /\ item'[i].next = Null
      /\ \A j \in used : item'[j].prev = item[j].prev
      /\ \A j \in used : item'[j].next = IF j = tail THEN i ELSE item[j].next
  BY DEF Linked, Node
<1>2. /\ tail # Null => tail \in used
      /\ tail = Null => used = {}
      /\ head = Null => used = {}
      /\ head # Null => head \in used /\ \A j \in used : pos[head] <= pos[j]
      /\ i \notin used /\ i # Null
  BY DEF Ordered, EndsInOrder
<1>3. PICK q \in [Items -> Nat] :
        \A j \in used : q[j] = pos[j] /\ q[j] < q[i]
  <2>1. \E n \in Nat : \A j \in used : pos[j] < n
    <3>1. CASE tail = Null
      BY <1>2, <3>1
    <3>2. CASE tail # Null
      <4>1. \A j \in used : pos[j] \in Nat /\ pos[j] <= pos[tail]
        BY <3>2 DEF Ordered, EndsInOrder
      <4>2. pos[tail] + 1 \in Nat
        BY <1>2, <3>2, <4>1
      <4>. QED  BY <1>2, <3>2, <4>1, <4>2
    <3>. QED  BY <3>1, <3>2
  <2>2. PICK n \in Nat : \A j \in used : pos[j] < n
    BY <2>1
  <2>. WITNESS [pos EXCEPT ![i] = n] \in [Items -> Nat]
  <2>. QED  BY <2>2
<1>4. \A j, k \in used' : q[j] = q[k] => j = k
  BY <1>1, <1>3 DEF Ordered
<1>5. ASSUME NEW k \in used'
      PROVE  NextInOrder(q, k)'
  <2>1. CASE k = i
    BY <1>1, <1>3, <2>1 DEF NextInOrder
  <2>2. CASE k # i /\ k = tail
    <3>1. \A j \in used : q[j] <= q[k]
      BY <1>1, <1>3, <2>2 DEF Ordered, EndsInOrder
    <3>. QED  BY <1>1, <1>2, <1>3, <2>2, <3>1 DEF NextInOrder
  <2>3. CASE k # i /\ k # tail
    <3>1. k \in used /\ NextInOrder(pos, k)
      BY <1>1, <2>3 DEF Ordered
    <3>2. item[k].next # Null
      <4>1. tail \in used /\ pos[k] <= pos[tail] /\ pos[k] # pos[tail]
        BY <1>1, <1>2, <2>3 DEF Ordered, EndsInOrder
      <4>. QED  BY <3>1, <4>1 DEF NextInOrder
    <3>. QED  BY <1>1, <1>3, <2>3, <3>1, <3>2 DEF NextInOrder
  <2>. QED  BY <2>1, <2>2, <2>3
<1>6. ASSUME NEW k \in used'
      PROVE  PrevInOrder(q, k)'
  <2>1. CASE k = i
    <3>1. CASE tail = Null
      BY <1>1, <1>2, <1>3, <2>1, <3>1 DEF PrevInOrder
    <3>2. CASE tail # Null
      <4>1. \A j \in used : q[j] <= q[tail]
        BY <1>2, <1>3, <3>2 DEF Ordered, EndsInOrder
      <4>. QED  BY <1>1, <1>2, <1>3, <2>1, <3>2, <4>1 DEF PrevInOrder
    <3>. QED  BY <3>1, <3>2
  <2>2. CASE k # i
    <3>1. k \in used /\ PrevInOrder(pos, k) /\ item'[k].prev = item[k].prev
      BY <1>1, <2>2 DEF Ordered
    <3>. QED  BY <1>1, <1>3, <2>2, <3>1 DEF PrevInOrder
  <2>. QED  BY <2>1, <2>2
<1>7. EndsInOrder(q)'
  BY <1>1, <1>2, <1>3 DEF EndsInOrder
<1>8. Ordered(q)'
  BY <1>4, <1>5, <1>6, <1>7 DEF Ordered
<1>. QED  BY <1>3, <1>8

(* The neighbours of an item that is removed become neighbours.             *)
LEMMA OrderRemove ==
  ASSUME Types, NEW i \in used, Unlinked(i), used' = used \ {i},
         NEW pos \in [Items -> Nat], Ordered(pos)
  PROVE  Ordered(pos)'
<1>. USE MallocListAssumption DEF Types
<1>. DEFINE before == item[i].prev
            after == item[i].next
<1>1. /\ IF before = Null THEN \A j \in used : pos[i] <= pos[j]
         ELSE /\ before \in used /\ pos[before] < pos[i]
              /\ \A j \in used : pos[j] <= pos[before] \/ pos[i] <= pos[j]
      /\ IF after = Null THEN \A j \in used : pos[j] <= pos[i]
         ELSE /\ after \in used /\ pos[i] < pos[after]
              /\ \A j \in used : pos[j] <= pos[i] \/ pos[after] <= pos[j]
  BY DEF Ordered, NextInOrder, PrevInOrder
<1>2. /\ \A j, k \in used : pos[j] = pos[k] => j = k
      /\ \A j \in used : pos[j] \in Nat
      /\ Null \notin used
  BY DEF Ordered
<1>3. before # i /\ after # i /\ (before = after => before = Null)
  BY <1>1, <1>2
<1>4. /\ head' = IF before = Null THEN after ELSE head
      /\ tail' = IF after = Null THEN before ELSE tail
      /\ \A j \in used \ {i} :
           /\ item'[j].next = IF j = before THEN after ELSE item[j].next
           /\ item'[j].prev = IF j = after THEN before ELSE item[j].prev
  BY <1>3 DEF Unlinked, Node
<1>. HIDE DEF before, after
<1>5. ASSUME NEW k \in used \ {i}
      PROVE  NextInOrder(pos, k)'
  <2>1. CASE k = before
    BY <1>1, <1>2, <1>3, <1>4, <2>1 DEF NextInOrder
  <2>2. CASE k # before
    <3>1. NextInOrder(pos, k) /\ item'[k].next = item[k].next
      BY <1>4, <2>2 DEF Ordered
    <3>2. item[k].next # i
      BY <1>1, <1>2, <2>2, <3>1 DEF NextInOrder
    <3>. QED  BY <3>1, <3>2 DEF NextInOrder
  <2>. QED  BY <2>1, <2>2
<1>6. ASSUME NEW k \in used \ {i}
      PROVE  PrevInOrder(pos, k)'
  <2>1. CASE k = after
    BY <1>1, <1>2, <1>3, <1>4, <2>1 DEF PrevInOrder
  <2>2. CASE k # after
    <3>1. PrevInOrder(pos, k) /\ item'[k].prev = item[k].prev
      BY <1>4, <2>2 DEF Ordered
    <3>2. item[k].prev # i
      BY <1>1, <1>2, <2>2, <3>1 DEF PrevInOrder
    <3>. QED  BY <3>1, <3>2 DEF PrevInOrder
  <2>. QED  BY <2>1, <2>2
<1>7. EndsInOrder(pos)'
  <2>1. /\ head # Null /\ head \in used /\ (\A j \in used : pos[head] <= pos[j])
        /\ tail # Null /\ tail \in used /\ (\A j \in used : pos[j] <= pos[tail])
    BY DEF Ordered, EndsInOrder
  <2>2. (before = Null => head = i) /\ (before # Null => head # i)
    BY <1>1, <1>2, <2>1
  <2>3. (after = Null => tail = i) /\ (after # Null => tail # i)
    BY <1>1, <1>2, <2>1
  <2>4. IF head' = Null THEN used' = {}
        ELSE head' \in used' /\ \A j \in used' : pos[head'] <= pos[j]
    BY <1>1, <1>2, <1>3, <1>4, <2>1, <2>2
  <2>5. IF tail' = Null THEN used' = {}
        ELSE tail' \in used' /\ \A j \in used' : pos[j] <= pos[tail']
    BY <1>1, <1>2, <1>3, <1>4, <2>1, <2>3
  <2>. QED  BY <2>4, <2>5 DEF EndsInOrder
<1>. QED  BY <1>2, <1>5, <1>6, <1>7 DEF Ordered

-----------------------------------------------------------------------------
(* Lookups and removals *)

(* A block that is due an entry or a removal has one.                       *)
LEMMA EntryExists ==
  ASSUME Types, NEW b \in Blocks, Covered(b), Removals(b) # {} \/ Due(b) = 1
  PROVE  Entries(b) # {}
<1>1. /\ Cardinality(Removals(b)) \in Nat /\ Cardinality(Entries(b)) \in Nat
      /\ Due(b) \in {0, 1}
  BY EntriesFinite, FS_CardinalityType DEF Covered, Due
<1>2. Removals(b) # {} => Cardinality(Removals(b)) # 0
  BY FS_EmptySet DEF Covered
<1>3. Cardinality(Entries(b)) # 0
  BY <1>1, <1>2 DEF Covered
<1>. QED  BY <1>3, FS_EmptySet

(* Who starts at the head has every entry ahead. *)
LEMMA HeadFirst ==
  ASSUME Types, NEW pos \in [Items -> Nat], Ordered(pos), NEW b, Entries(b) # {}
  PROVE  head \in used /\ \E i \in Entries(b) : pos[head] <= pos[i]
BY DEF Types, Ordered, EndsInOrder, Entries

(* Who goes on from an item that is not the entry has it ahead still. *)
LEMMA NextStillBefore ==
  ASSUME Types, NEW pos \in [Items -> Nat], Ordered(pos),
         NEW a \in used, NEW b, NEW i \in Entries(b),
         pos[a] <= pos[i], item[a].value # b
  PROVE  item[a].next \in used /\ pos[item[a].next] <= pos[i]
<1>1. i \in used /\ i # a /\ pos[a] \in Nat /\ pos[i] \in Nat
  BY DEF Entries, Types
<1>2. pos[i] # pos[a]
  BY <1>1 DEF Ordered
<1>3. NextInOrder(pos, a)
  BY DEF Ordered
<1>. QED  BY <1>1, <1>2, <1>3 DEF NextInOrder

(* Items that are added change nothing for a thread that does not move.     *)
LEMMA AheadStays ==
  ASSUME Types, NEW pos \in [Items -> Nat], NEW q \in [Items -> Nat],
         NEW u \in Threads, AheadAt(pos, u),
         \A j \in used :
           j \in used' /\ q[j] = pos[j] /\ item'[j].value = item[j].value,
         lpc'[u] = lpc[u], adr'[u] = adr[u], at'[u] = at[u], raced'[u] = raced[u]
  PROVE  AheadAt(q, u)'
<1>. SUFFICES ASSUME lpc[u] \in Walking, ~ raced[u], adr[u] \in Blocks
              PROVE  AheadAt(q, u)'
  BY DEF AheadAt
<1>1. PICK i \in Entries(adr[u]) : pos[at[u]] <= pos[i]
  BY DEF AheadAt
<1>2. at[u] \in used /\ (lpc[u] = "lookup_next" => item[at[u]].value # adr[u])
  BY DEF AheadAt
<1>3. i \in used /\ i \in used' /\ item'[i].value = adr'[u]
  BY <1>1 DEF Entries
<1>4. at'[u] \in used' /\ q[at'[u]] <= q[i]
  BY <1>1, <1>2, <1>3
<1>5. lpc'[u] = "lookup_next" => item'[at'[u]].value # adr'[u]
  BY <1>2
<1>6. \E j \in {k \in used' : item'[k].value = adr'[u]} : q[at'[u]] <= q[j]
  BY <1>3, <1>4
<1>. QED  BY <1>4, <1>5, <1>6 DEF AheadAt, Entries

(* The thread that walks has its entry ahead wherever it stands.            *)
LEMMA AheadWalks ==
  ASSUME Types, Addresses, \A b \in Blocks : Covered(b),
         NEW pos \in [Items -> Nat], Ordered(pos),
         NEW t \in Threads, Walk(t), AheadAt(pos, t)
  PROVE  AheadAt(pos, t)'
<1>. USE MallocListAssumption DEF Types, Labels, Removing, LGoto, At
<1>1. UNCHANGED <<used, item, head, adr>> /\ pos' = pos
  BY DEF Walk, NotThis, LookupNext, ReadHead, Lock, RemoveNext, list
<1>2. Entries(adr[t])' = Entries(adr[t])
  BY <1>1 DEF Entries
<1>3. CASE NotThis(t)
  <2>1. /\ lpc[t] = "lookup" /\ lpc'[t] = "lookup_next" /\ ~ Matches(t)
        /\ UNCHANGED <<at, raced>>
    BY <1>3 DEF NotThis
  <2>. SUFFICES ASSUME ~ raced[t], adr[t] \in Blocks
                PROVE  /\ at[t] \in used /\ item[at[t]].value # adr[t]
                       /\ \E i \in Entries(adr[t]) : pos[at[t]] <= pos[i]
    BY <1>1, <1>2, <2>1 DEF AheadAt
  <2>2. at[t] \in used /\ \E i \in Entries(adr[t]) : pos[at[t]] <= pos[i]
    BY <2>1 DEF AheadAt, Walking
  <2>. QED  BY <2>1, <2>2 DEF Matches
<1>4. CASE LookupNext(t) \/ RemoveNext(t)
  <2>1. /\ lpc[t] \in {"lookup_next", "remove"} /\ lpc'[t] \in {"lookup", "remove"}
        /\ at'[t] = item[at[t]].next /\ raced' = raced
        /\ lpc[t] = "remove" => ~ Matches(t)
    BY <1>4 DEF LookupNext, RemoveNext, NextOf
  <2>. SUFFICES ASSUME ~ raced[t], adr[t] \in Blocks
                PROVE  /\ item[at[t]].next \in used
                       /\ \E i \in Entries(adr[t]) : pos[item[at[t]].next] <= pos[i]
    BY <1>1, <1>2, <2>1 DEF AheadAt
  <2>2. /\ at[t] \in used /\ \E i \in Entries(adr[t]) : pos[at[t]] <= pos[i]
        /\ lpc[t] = "lookup_next" => item[at[t]].value # adr[t]
    BY <2>1 DEF AheadAt, Walking
  <2>3. item[at[t]].value # adr[t]
    BY <2>1, <2>2 DEF Matches
  <2>. QED  BY <2>2, <2>3, NextStillBefore
<1>5. CASE ReadHead(t)
  <2>1. lpc[t] = "read_head" /\ at'[t] = head /\ lpc'[t] = "lock"
    BY <1>5 DEF ReadHead
  <2>2. adr[t] \in Blocks
    BY <2>1 DEF Addresses, AddressAt
  <2>3. Entries(adr[t]) # {}
    BY <2>1, <2>2, EntryExists DEF Removals
  <2>. QED  BY <1>1, <1>2, <2>1, <2>3, HeadFirst DEF AheadAt
<1>6. CASE Lock(t)
  <2>1. lpc[t] = "lock" /\ lpc'[t] = "remove" /\ UNCHANGED <<at, raced>>
    BY <1>6 DEF Lock
  <2>. SUFFICES ASSUME ~ raced[t], adr[t] \in Blocks
                PROVE  /\ at[t] \in used
                       /\ \E i \in Entries(adr[t]) : pos[at[t]] <= pos[i]
    BY <1>1, <1>2, <2>1 DEF AheadAt
  <2>. QED  BY <2>1 DEF AheadAt, Walking
<1>. QED  BY <1>3, <1>4, <1>5, <1>6 DEF Walk

(* A step of a thread keeps the order, and what the threads have ahead.     *)
LEMMA InOrderStep ==
  ASSUME Types, Types', Addresses, Locking, Ending, Covering, InOrder,
         NEW t \in Threads, ThreadStep(t)
  PROVE  InOrder'
<1>. USE MallocListAssumption
<1>1. /\ \A u \in Threads \ {t} : lpc'[u] = lpc[u] /\ adr'[u] = adr[u] /\ at'[u] = at[u]
      /\ \A b \in Blocks : Covered(b)
  BY NotEnded DEF Covering
<1>2. PICK pos \in [Items -> Nat] : Ordered(pos) /\ \A u \in Threads : AheadAt(pos, u)
  BY NotEnded DEF InOrder
<1>3. ASSUME UNCHANGED <<used, item, head, tail>>,
             \A u \in Threads \ {t} : raced'[u] = raced[u],
             AheadAt(pos, t)'
      PROVE  InOrder'
  <2>1. Ordered(pos)'
    BY <1>2, <1>3 DEF Ordered, EndsInOrder, NextInOrder, PrevInOrder
  <2>2. \A u \in Threads \ {t} : AheadAt(pos, u)'
    BY <1>1, <1>2, <1>3, AheadStays
  <2>. QED  BY <1>3, <2>1, <2>2 DEF InOrder
<1>4. lpc'[t] \notin Walking => \A q \in [Items -> Nat] : AheadAt(q, t)'
  BY DEF AheadAt
<1>5. CASE Malloc(t) \/ NotFound(t) \/ Found(t) \/ RemoveNone(t)
           \/ \E b \in Blocks : BH_free(t, b)
  <2>1. /\ UNCHANGED <<used, item, head, tail>>
        /\ \A u \in Threads \ {t} : raced'[u] = raced[u]
    BY <1>5 DEF Malloc, NotFound, Found, RemoveNone, BH_free, list, Types
  <2>2. lpc'[t] \in {"add", "idle", "astray", "read_head"}
    BY <1>5 DEF Malloc, NotFound, Found, RemoveNone, BH_free, LReturn, Unlock, LGoto, Types
  <2>. QED  BY <1>3, <1>4, <2>1, <2>2 DEF Walking
<1>6. CASE \E b \in Blocks \cup {Own} : SH_free(t, b)
  <2>1. PICK b \in Blocks \cup {Own} : SH_free(t, b)
    BY <1>6
  <2>2. /\ UNCHANGED <<used, item, head, tail>> /\ raced' = [raced EXCEPT ![t] = FALSE]
        /\ lpc'[t] = "lookup" /\ adr'[t] = b /\ at'[t] = head
        /\ b \in held \/ b = Own
    BY <2>1 DEF SH_free, list, LGoto, At, Types
  <2>3. ASSUME b \in Blocks
        PROVE  head \in used /\ \E i \in Entries(b) : pos[head] <= pos[i]
    <3>1. b \in live /\ ~ Adding(b)
      BY <2>2, <2>3 DEF Addresses, AddressAt, Adding, Types
    <3>2. Entries(b) # {}
      BY <1>1, <2>3, <3>1, EntryExists DEF Due
    <3>. QED  BY <1>2, <3>2, HeadFirst
  <2>4. ASSUME adr'[t] \in Blocks
        PROVE  /\ at'[t] \in used'
               /\ \E i \in {k \in used' : item'[k].value = adr'[t]} : pos[at'[t]] <= pos[i]
    BY <2>2, <2>3, <2>4 DEF Entries
  <2>5. AheadAt(pos, t)'
    BY <2>2, <2>4 DEF AheadAt, Entries
  <2>. QED  BY <1>3, <2>2, <2>5 DEF Types
<1>7. CASE Walk(t)
  <2>1. UNCHANGED <<used, item, head, tail>>
    BY <1>7 DEF Walk, NotThis, LookupNext, ReadHead, Lock, RemoveNext, list
  <2>2. \A u \in Threads \ {t} : raced'[u] = raced[u]
    BY <1>7 DEF Walk, NotThis, LookupNext, ReadHead, Lock, RemoveNext, Types
  <2>3. AheadAt(pos, t)'
    BY <1>1, <1>2, <1>7, AheadWalks
  <2>. QED  BY <1>3, <2>1, <2>2, <2>3
<1>8. CASE Add(t)
  <2>1. PICK i \in Items \ used : Linked(i, adr[t])
    BY <1>8 DEF Add
  <2>2. PICK q \in [Items -> Nat] : Ordered(q)' /\ \A j \in used : q[j] = pos[j]
    BY <1>2, <2>1, OrderAdd
  <2>3. \A j \in used : j \in used' /\ item'[j].value = item[j].value
    BY <2>1 DEF Linked, Types, Node
  <2>4. raced' = raced /\ lpc'[t] = "idle"
    BY <1>8 DEF Add, LReturn, LGoto, Types
  <2>5. \A u \in Threads \ {t} : AheadAt(q, u)'
    BY <1>1, <1>2, <2>2, <2>3, <2>4, AheadStays
  <2>. QED  BY <1>4, <2>2, <2>4, <2>5 DEF InOrder, Walking
<1>9. CASE RemoveItem(t)
  <2>1. /\ at[t] \in used /\ Unlinked(at[t]) /\ used' = used \ {at[t]}
        /\ lpc[t] = "remove" /\ lpc'[t] = "idle"
        /\ raced' = [u \in Threads |-> u \in Looking(t) \/ (raced[u] /\ u # t)]
    BY <1>9 DEF RemoveItem, Matches, Removed, Unlock, LReturn, LGoto, Types
  <2>2. Ordered(pos)'
    BY <1>2, <2>1, OrderRemove
  <2>3. ASSUME NEW u \in Threads \ {t}, lpc[u] \in Walking
        PROVE  raced'[u]
    <3>1. lpc[u] # "remove"
      BY <2>1 DEF Locking
    <3>. QED  BY <2>1, <2>3, <3>1 DEF Looking, Walking
  <2>4. \A u \in Threads \ {t} : AheadAt(pos, u)'
    BY <1>1, <2>3 DEF AheadAt
  <2>. QED  BY <1>4, <2>1, <2>2, <2>4 DEF InOrder, Walking
<1>. QED  BY <1>5, <1>6, <1>7, <1>8, <1>9 DEF ThreadStep

-----------------------------------------------------------------------------
(* The rest of the invariant *)

(* The mutex is taken when it is free and given back by its owner.          *)
LEMMA LockingStep ==
  ASSUME Types, Locking, NEW t \in Threads, ThreadStep(t)
  PROVE  Locking'
<1>. USE MallocListAssumption DEF Types, Labels, Removing, LGoto, At
<1>1. CASE Lock(t)
  BY <1>1 DEF Lock, Locking
<1>2. CASE RemoveItem(t) \/ RemoveNone(t)
  <2>1. lpc[t] = "remove" /\ lpc' = [lpc EXCEPT ![t] = "idle"]
    BY <1>2 DEF RemoveItem, RemoveNone, Unlock, LReturn
  <2>2. \A u \in Threads : lpc'[u] # "remove"
    BY <2>1 DEF Locking
  <2>. QED  BY <2>2 DEF Locking
<1>3. CASE RemoveNext(t)
  BY <1>3 DEF RemoveNext, Locking
<1>4. CASE Malloc(t) \/ Add(t)
  BY <1>4 DEF Malloc, Add, LReturn, Locking
<1>5. CASE \E b \in Blocks : BH_free(t, b)
  BY <1>5 DEF BH_free, Locking
<1>6. CASE \E b \in Blocks \cup {Own} : SH_free(t, b)
  BY <1>6 DEF SH_free, Locking
<1>7. CASE Found(t) \/ NotFound(t)
  BY <1>7 DEF Found, NotFound, LReturn, Locking
<1>8. CASE NotThis(t) \/ LookupNext(t) \/ ReadHead(t)
  BY <1>8 DEF NotThis, LookupNext, ReadHead, Locking
<1>. QED  BY <1>1, <1>2, <1>3, <1>4, <1>5, <1>6, <1>7, <1>8 DEF ThreadStep, Walk

(* Who is at the end of the list without its entry has been raced.          *)
LEMMA Missed ==
  ASSUME Types, Ending, InOrder, NEW t \in Threads,
         lpc[t] \in {"lookup", "remove"}, at[t] = Null, adr[t] \in Blocks
  PROVE  raced[t]
<1>1. \A u \in Threads : lpc[u] # "ended"
  BY DEF Ending
<1>2. PICK pos \in [Items -> Nat] : AheadAt(pos, t)
  BY <1>1 DEF InOrder
<1>3. at[t] \notin used
  BY MallocListAssumption DEF Types
<1>. QED  BY <1>2, <1>3 DEF AheadAt, Walking

(* A lookup that misses the entry of its block has been raced.              *)
LEMMA AstrayStep ==
  ASSUME Types, Addresses, Ending, InOrder, Astray,
         \A u \in Threads : lpc[u] # "astray",
         NEW t \in Threads, ThreadStep(t)
  PROVE  Astray'
<1>1. \A u \in Threads \ {t} : lpc'[u] # "astray"
  BY NotEnded
<1>2. CASE NotFound(t)
  <2>1. CASE adr[t] = Own
    BY <1>1, <1>2, <2>1 DEF NotFound, LReturn, LGoto, Types, Astray
  <2>2. CASE adr[t] # Own
    <3>1. lpc[t] = "lookup" /\ at[t] = Null /\ raced' = raced
      BY <1>2, <2>2 DEF NotFound
    <3>2. adr[t] \in Blocks
      BY <2>2, <3>1 DEF Addresses, AddressAt, Types
    <3>. QED  BY <1>1, <3>1, <3>2, Missed DEF Astray
  <2>. QED  BY <2>1, <2>2
<1>3. CASE ~ NotFound(t)
  <2>1. lpc'[t] # "astray"
    <3>. USE DEF LGoto, LReturn, Unlock, Types
    <3>1. CASE Malloc(t) \/ Add(t)
      BY <3>1 DEF Malloc, Add
    <3>2. CASE \E b \in Blocks : BH_free(t, b)
      BY <3>2 DEF BH_free
    <3>3. CASE \E b \in Blocks \cup {Own} : SH_free(t, b)
      BY <3>3 DEF SH_free
    <3>4. CASE Found(t) \/ Walk(t)
      BY <3>4 DEF Found, Walk, NotThis, LookupNext, ReadHead, Lock, RemoveNext
    <3>5. CASE RemoveItem(t) \/ RemoveNone(t)
      BY <3>5 DEF RemoveItem, RemoveNone
    <3>. QED  BY <1>3, <3>1, <3>2, <3>3, <3>4, <3>5 DEF ThreadStep
  <2>. QED  BY <1>1, <2>1 DEF Astray
<1>. QED  BY <1>2, <1>3

-----------------------------------------------------------------------------
(* The theorems *)

(* The list is created empty. *)
LEMMA ListCreated == MallocListInit => MallocListInv
<1>. SUFFICES ASSUME MallocListInit PROVE MallocListInv
  OBVIOUS
<1>. USE MallocListAssumption DEF MallocListInit
<1>1. Types
  BY DEF Types, Labels, Node
<1>2. Addresses /\ Locking /\ Ending /\ Astray
  BY DEF Addresses, AddressAt, Knowing, Removing, Locking, Ending, Astray
<1>3. ASSUME NEW b \in Blocks
      PROVE  Covered(b)
  <2>1. Removals(b) = {} /\ Entries(b) = {} /\ Due(b) = 0
    BY DEF Removals, Removing, Entries, Due
  <2>2. Cardinality({}) = 0 /\ IsFiniteSet({})
    BY FS_EmptySet
  <2>. QED  BY <2>1, <2>2 DEF Covered
<1>4. Covering
  BY <1>3 DEF Covering
<1>5. InOrder
  <2>1. [i \in Items |-> 0] \in [Items -> Nat]
    OBVIOUS
  <2>2. \A pos \in [Items -> Nat] : Ordered(pos) /\ \A t \in Threads : AheadAt(pos, t)
    BY DEF Ordered, EndsInOrder, AheadAt, Walking
  <2>. QED  BY <2>1, <2>2 DEF InOrder
<1>. QED  BY <1>1, <1>2, <1>4, <1>5 DEF MallocListInv

(* Once the list is destroyed no thread has anything left to do.            *)
LEMMA ListDestroyed ==
  ASSUME MallocListInv, listDestroy
  PROVE  MallocListInv'
<1>. USE MallocListAssumption DEF MallocListInv
<1>1. /\ \A t \in Threads : lpc'[t] = "ended"
      /\ lpc' = [t \in Threads |-> "ended"]
      /\ used' \subseteq used
      /\ UNCHANGED <<live, held, item, head, tail, list_mutex, adr, at, raced>>
  BY DEF listDestroy, blocks
<1>2. Types'
  BY <1>1 DEF Types, Labels
<1>3. Addresses' /\ Locking' /\ Ending' /\ Astray'
  BY <1>1 DEF Addresses, AddressAt, Knowing, Removing, Locking, Ending, Astray
<1>4. Covering' /\ InOrder'
  BY <1>1 DEF Covering, InOrder
<1>. QED  BY <1>2, <1>3, <1>4

(* Every reachable state satisfies the invariant: a block in the program's  *)
(* hands and a removal to come have their entries, the items are in order,  *)
(* and a walk that no removal has overtaken has its entry ahead.            *)
THEOREM MallocListInvariance == MallocListSpec => []MallocListInv
<1>1. MallocListInit => MallocListInv
  BY ListCreated
<1>2. MallocListInv /\ [MallocListNext]_mallocListVars => MallocListInv'
  <2>. SUFFICES ASSUME MallocListInv, [MallocListNext]_mallocListVars
                PROVE  MallocListInv'
    OBVIOUS
  <2>1. ASSUME NEW t \in Threads, ThreadStep(t), \A u \in Threads : lpc[u] # "astray"
        PROVE  MallocListInv'
    <3>. USE <2>1 DEF MallocListInv
    <3>1. Types'
      BY TypesStep
    <3>2. Addresses'
      BY <3>1, AddressesStep
    <3>3. Locking'
      BY LockingStep
    <3>4. Ending'
      BY NotEnded DEF Ending
    <3>5. Covering'
      BY <3>1, CoveringStep
    <3>6. InOrder'
      BY <3>1, InOrderStep
    <3>7. Astray'
      BY AstrayStep
    <3>. QED  BY <3>1, <3>2, <3>3, <3>4, <3>5, <3>6, <3>7
  <2>2. CASE listDestroy
    BY <2>2, ListDestroyed
  <2>3. CASE UNCHANGED mallocListVars
    <3>1. UNCHANGED <<live, held, item, used, head, tail, list_mutex, lpc, adr, at, raced>>
      BY <2>3 DEF mallocListVars, blocks, list
    <3>2. (Types <=> Types') /\ (Addresses <=> Addresses') /\ (Locking <=> Locking')
      BY <3>1, Zenon DEF Types, Addresses, AddressAt, Locking
    <3>3. (Ending <=> Ending') /\ (Astray <=> Astray')
      BY <3>1, Zenon DEF Ending, Astray
    <3>4. Covering <=> Covering'
      <4>1. ASSUME NEW b
            PROVE  /\ Entries(b)' = Entries(b) /\ Removals(b)' = Removals(b)
                   /\ Adding(b)' <=> Adding(b)
        BY <3>1 DEF Entries, Removals, Adding
      <4>2. \A b : Covered(b)' <=> Covered(b)
        BY <3>1, <4>1 DEF Covered, Due
      <4>. QED  BY <3>1, <4>2 DEF Covering
    <3>5. InOrder <=> InOrder'
      <4>1. \A pos \in [Items -> Nat] : Ordered(pos) <=> Ordered(pos)'
        BY <3>1 DEF Ordered, NextInOrder, PrevInOrder, EndsInOrder
      <4>2. \A pos \in [Items -> Nat] : \A t \in Threads : AheadAt(pos, t) <=> AheadAt(pos, t)'
        BY <3>1 DEF AheadAt, Entries
      <4>. QED  BY <3>1, <4>1, <4>2 DEF InOrder
    <3>. QED  BY <3>2, <3>3, <3>4, <3>5 DEF MallocListInv
  <2>. QED  BY <2>1, <2>2, <2>3, MallocListSteps DEF MallocListNext
<1>. QED  BY <1>1, <1>2, PTL DEF MallocListSpec

(* However the frees, the removals and the allocations that reuse an        *)
(* address interleave, a block in use keeps an entry of its own.            *)
THEOREM EntriesAreCovered == MallocListSpec => []EntriesCover
<1>1. MallocListInv => EntriesCover
  BY Zenon DEF MallocListInv, Covering, Covered, Removals, Due, Adding, EntriesCover
<1>. QED  BY <1>1, MallocListInvariance, PTL

(* Only a thread that another thread's removal overtook misses its entry.   *)
THEOREM LostOnlyInRaces == MallocListSpec => []LostOnlyInRace
<1>1. MallocListInv => LostOnlyInRace
  <2>. SUFFICES ASSUME MallocListInv, NEW t \in Threads,
                       \/ lpc[t] = "astray"
                       \/ lpc[t] \in {"lookup", "remove"} /\ at[t] = Null /\ adr[t] # Own
                PROVE  raced[t]
    BY Zenon DEF LostOnlyInRace
  <2>1. CASE lpc[t] = "astray"
    BY <2>1 DEF MallocListInv, Astray
  <2>2. CASE lpc[t] \in {"lookup", "remove"} /\ at[t] = Null /\ adr[t] # Own
    <3>1. adr[t] \in Blocks
      BY <2>2 DEF MallocListInv, Addresses, AddressAt, Types, Removing
    <3>. QED  BY <2>2, <3>1, Missed DEF MallocListInv
  <2>. QED  BY <2>1, <2>2
<1>. QED  BY <1>1, MallocListInvariance, PTL
-----------------------------------------------------------------------------
(* What is reached from the head *)

(* A set of numbers has a least one.                                        *)
LEMMA LeastOf ==
  ASSUME NEW S \in SUBSET Nat, S # {}
  PROVE  \E m \in S : \A n \in S : m <= n
<1>1. PICK m \in S : \A n \in S : ~(<<n, m>> \in OpToRel(<, Nat))
  BY NatLessThanWellFounded, WFMin
<1>2. \A n \in S : ~(n < m)
  BY <1>1 DEF OpToRel
<1>. QED  BY <1>2

(* A set that has 0 and the successor of each of its numbers has them all.  *)
LEMMA NatSetInduction ==
  ASSUME NEW S, 0 \in S, \A n \in Nat : n \in S => n + 1 \in S
  PROVE  \A n \in Nat : n \in S
<1>. SUFFICES ASSUME Nat \ S # {}  PROVE FALSE
  OBVIOUS
<1>1. PICK m \in Nat \ S : \A n \in Nat \ S : m <= n
  BY LeastOf
<1>2. m - 1 \in Nat
  BY <1>1
<1>3. m - 1 \in S
  BY <1>1, <1>2
<1>. QED  BY <1>1, <1>2, <1>3

(* f[n] is where n steps of s lead from a, ...                              *)
Walks(f, a, s) == f = [i \in Nat |-> IF i = 0 THEN a ELSE s[f[i - 1]]]

(* ... for the first n numbers.                                             *)
WalksTo(n, f, a, s) == f = [i \in 0 .. n |-> IF i = 0 THEN a ELSE s[f[i - 1]]]

(* There is a walk of any length.                                           *)
LEMMA WalkOfLength ==
  ASSUME NEW a, NEW s
  PROVE  \A n \in Nat : \E f : WalksTo(n, f, a, s)
<1>. DEFINE S == {n \in Nat : \E f : WalksTo(n, f, a, s)}
<1>1. 0 \in S
  <2>1. WalksTo(0, [i \in 0 .. 0 |-> a], a, s)
    BY DEF WalksTo
  <2>. QED  BY <2>1
<1>2. ASSUME NEW n \in Nat, n \in S
      PROVE  n + 1 \in S
  <2>1. PICK f : WalksTo(n, f, a, s)
    BY <1>2
  <2>. DEFINE g == [i \in 0 .. n + 1 |-> IF i = n + 1 THEN s[f[n]] ELSE f[i]]
  <2>2. \A i \in 0 .. n : f[i] = IF i = 0 THEN a ELSE s[f[i - 1]]
    BY <2>1 DEF WalksTo
  <2>3. \A i \in 0 .. n + 1 : g[i] = IF i = 0 THEN a ELSE s[g[i - 1]]
    BY <2>2
  <2>4. WalksTo(n + 1, g, a, s)
    BY <2>3 DEF WalksTo
  <2>. QED  BY <2>4
<1>. HIDE DEF S
<1>3. \A n \in Nat : n \in S
  BY <1>1, <1>2, NatSetInduction
<1>. QED  BY <1>3 DEF S

(* A longer walk begins as a shorter one.                                   *)
LEMMA WalksAgree ==
  ASSUME NEW a, NEW s, NEW n \in Nat, NEW m \in Nat, n <= m, NEW f, NEW g,
         WalksTo(n, f, a, s), WalksTo(m, g, a, s)
  PROVE  \A i \in 0 .. n : f[i] = g[i]
<1>. DEFINE S == {i \in Nat : i <= n => f[i] = g[i]}
<1>1. \A i \in 0 .. n : /\ f[i] = IF i = 0 THEN a ELSE s[f[i - 1]]
                        /\ g[i] = IF i = 0 THEN a ELSE s[g[i - 1]]
  BY DEF WalksTo
<1>2. 0 \in S
  BY <1>1
<1>3. ASSUME NEW i \in Nat, i \in S
      PROVE  i + 1 \in S
  BY <1>1, <1>3
<1>. HIDE DEF S
<1>4. \A i \in Nat : i \in S
  BY <1>2, <1>3, NatSetInduction
<1>. QED  BY <1>4 DEF S

(* There is a walk that does not end.                                       *)
LEMMA WalkExists ==
  ASSUME NEW a, NEW s
  PROVE  \E f : Walks(f, a, s)
<1>. DEFINE up == [n \in Nat |-> CHOOSE f : WalksTo(n, f, a, s)]
            F == [n \in Nat |-> up[n][n]]
<1>1. \A n \in Nat : WalksTo(n, up[n], a, s)
  BY WalkOfLength
<1>. HIDE DEF up
<1>2. ASSUME NEW n \in Nat
      PROVE  F[n] = IF n = 0 THEN a ELSE s[F[n - 1]]
  <2>1. up[n][n] = IF n = 0 THEN a ELSE s[up[n][n - 1]]
    <3>1. WalksTo(n, up[n], a, s) /\ n \in 0 .. n
      BY <1>1
    <3>. DEFINE f == up[n]
    <3>. HIDE DEF f
    <3>2. WalksTo(n, f, a, s)
      BY <3>1 DEF f
    <3>3. f[n] = IF n = 0 THEN a ELSE s[f[n - 1]]
      BY <3>1, <3>2 DEF WalksTo
    <3>. QED  BY <3>3 DEF f
  <2>2. ASSUME n # 0
        PROVE  up[n - 1][n - 1] = up[n][n - 1]
    <3>1. n - 1 \in Nat /\ n - 1 <= n /\ n - 1 \in 0 .. n - 1
      BY <2>2
    <3>2. WalksTo(n - 1, up[n - 1], a, s) /\ WalksTo(n, up[n], a, s)
      BY <1>1, <3>1
    <3>. DEFINE k == n - 1
                f == up[k]
                g == up[n]
    <3>3. k \in Nat /\ k <= n /\ k \in 0 .. k /\ WalksTo(k, f, a, s) /\ WalksTo(n, g, a, s)
      BY <3>1, <3>2
    <3>. HIDE DEF k, f, g
    <3>4. f[k] = g[k]
      BY <3>3, WalksAgree
    <3>. QED  BY <3>4 DEF k, f, g
  <2>. QED  BY <2>1, <2>2
<1>3. Walks(F, a, s)
  BY <1>2 DEF Walks
<1>. QED  BY <1>3

(* ItemAt walks from the head along next, and stays at the end.             *)
LEMMA ItemAtWalks ==
  ASSUME Types
  PROVE  /\ ItemAt[0] = head
         /\ \A n \in Nat :
              /\ ItemAt[n] \in Items \cup {Null}
              /\ ItemAt[n + 1] = IF ItemAt[n] = Null THEN Null ELSE item[ItemAt[n]].next
<1>. DEFINE Rec(g) == g = [n \in Nat |->
              IF n = 0 THEN head
              ELSE IF g[n - 1] = Null THEN Null ELSE item[g[n - 1]].next]
<1>1. PICK s : s = [i \in Items \cup {Null} |-> IF i = Null THEN Null ELSE item[i].next]
  OBVIOUS
<1>2. PICK f : Walks(f, head, s)
  BY WalkExists
<1>3. /\ f = [n \in Nat |-> f[n]]
      /\ \A n \in Nat : f[n] = IF n = 0 THEN head ELSE s[f[n - 1]]
  BY <1>2 DEF Walks
<1>4. \A n \in Nat : f[n] \in Items \cup {Null}
  <2>. DEFINE S == {n \in Nat : f[n] \in Items \cup {Null}}
  <2>1. 0 \in S
    BY <1>3 DEF Types
  <2>2. ASSUME NEW n \in Nat, n \in S
        PROVE  n + 1 \in S
    <3>3. n + 1 \in Nat /\ n + 1 # 0 /\ (n + 1) - 1 = n
      OBVIOUS
    <3>1. f[n + 1] = s[f[n]] /\ f[n] \in Items \cup {Null}
      <4>1. f[n + 1] = s[f[(n + 1) - 1]]
        BY <1>3, <3>3, Zenon
      <4>. QED  BY <2>2, <3>3, <4>1
    <3>2. \A i \in Items \cup {Null} : s[i] \in Items \cup {Null}
      BY <1>1 DEF Types, Node
    <3>. QED  BY <3>1, <3>2
  <2>. HIDE DEF S
  <2>3. \A n \in Nat : n \in S
    BY <2>1, <2>2, NatSetInduction
  <2>. QED  BY <2>3 DEF S
<1>5. \A n \in Nat : f[n] = IF n = 0 THEN head
                            ELSE IF f[n - 1] = Null THEN Null ELSE item[f[n - 1]].next
  <2>. SUFFICES ASSUME NEW n \in Nat, n # 0
       PROVE  f[n] = IF f[n - 1] = Null THEN Null ELSE item[f[n - 1]].next
    BY <1>3
  <2>1. n - 1 \in Nat
    OBVIOUS
  <2>. QED  BY <1>1, <1>3, <1>4, <2>1
<1>6. Rec(f)
  BY <1>3, <1>5
<1>7. ItemAt = CHOOSE g : Rec(g)
  BY DEF ItemAt
<1>8. Rec(ItemAt)
  BY <1>6, <1>7
<1>9. PICK g : g = ItemAt
  OBVIOUS
<1>10. \A n \in Nat : g[n] = IF n = 0 THEN head
                             ELSE IF g[n - 1] = Null THEN Null ELSE item[g[n - 1]].next
  BY <1>8, <1>9
<1>11. \A n \in Nat : g[n] \in Items \cup {Null}
  <2>. DEFINE S == {n \in Nat : g[n] \in Items \cup {Null}}
  <2>1. 0 \in S
    BY <1>10 DEF Types
  <2>2. ASSUME NEW n \in Nat, n \in S
        PROVE  n + 1 \in S
    <3>1. g[n + 1] = IF g[n] = Null THEN Null ELSE item[g[n]].next
      BY <1>10
    <3>. QED  BY <2>2, <3>1 DEF Types, Node
  <2>. HIDE DEF S
  <2>3. \A n \in Nat : n \in S
    BY <2>1, <2>2, NatSetInduction
  <2>. QED  BY <2>3 DEF S
<1>12. \A n \in Nat : g[n + 1] = IF g[n] = Null THEN Null ELSE item[g[n]].next
  <2>. SUFFICES ASSUME NEW n \in Nat
       PROVE  g[n + 1] = IF g[n] = Null THEN Null ELSE item[g[n]].next
    OBVIOUS
  <2>. QED  BY <1>10
<1>. QED  BY <1>9, <1>10, <1>11, <1>12

(* The items before one.                                                    *)
Before(pos, i) == {j \in used : pos[j] < pos[i]}

(* The n-th item from the head has n before it, and they are the first n.   *)
LEMMA ItemsBefore ==
  ASSUME Types, NEW pos \in [Items -> Nat], Ordered(pos)
  PROVE  \A n \in Nat : ItemAt[n] # Null =>
           /\ ItemAt[n] \in used
           /\ IsFiniteSet(Before(pos, ItemAt[n]))
           /\ Cardinality(Before(pos, ItemAt[n])) = n
           /\ \A j \in Before(pos, ItemAt[n]) : \E m \in 0 .. n - 1 : ItemAt[m] = j
<1>. DEFINE S == {n \in Nat : ItemAt[n] # Null =>
                    /\ ItemAt[n] \in used
                    /\ IsFiniteSet(Before(pos, ItemAt[n]))
                    /\ Cardinality(Before(pos, ItemAt[n])) = n
                    /\ \A j \in Before(pos, ItemAt[n]) : \E m \in 0 .. n - 1 : ItemAt[m] = j}
<1>1. 0 \in S
  <2>1. ASSUME head # Null
        PROVE  head \in used /\ Before(pos, head) = {}
    BY <2>1 DEF Ordered, EndsInOrder, Before, Types
  <2>2. ItemAt[0] = head
    BY ItemAtWalks
  <2>3. IsFiniteSet({}) /\ Cardinality({}) = 0
    BY FS_EmptySet
  <2>. QED  BY <2>1, <2>2, <2>3
<1>2. ASSUME NEW n \in Nat, n \in S
      PROVE  n + 1 \in S
  <2>. SUFFICES ASSUME ItemAt[n + 1] # Null
       PROVE  /\ ItemAt[n + 1] \in used
              /\ IsFiniteSet(Before(pos, ItemAt[n + 1]))
              /\ Cardinality(Before(pos, ItemAt[n + 1])) = n + 1
              /\ \A j \in Before(pos, ItemAt[n + 1]) : \E m \in 0 .. n : ItemAt[m] = j
    OBVIOUS
  <2>1. ItemAt[n] # Null /\ ItemAt[n + 1] = item[ItemAt[n]].next
    BY ItemAtWalks
  <2>2. PICK i \in used : i = ItemAt[n]
    BY <1>2, <2>1
  <2>3. PICK k : k = ItemAt[n + 1]
    OBVIOUS
  <2>4. k = item[i].next /\ k # Null
    BY <2>1, <2>2, <2>3
  <2>5. /\ IsFiniteSet(Before(pos, i)) /\ Cardinality(Before(pos, i)) = n
        /\ \A j \in Before(pos, i) : \E m \in 0 .. n - 1 : ItemAt[m] = j
    BY <1>2, <2>1, <2>2
  <2>6. NextInOrder(pos, i) /\ \A j, l \in used : pos[j] = pos[l] => j = l
    BY DEF Ordered
  <2>7. k \in used /\ pos[i] < pos[k] /\ \A j \in used : pos[j] <= pos[i] \/ pos[k] <= pos[j]
    BY <2>4, <2>6 DEF NextInOrder
  <2>8. used \subseteq Items /\ \A j \in used : pos[j] \in Nat
    BY DEF Types
  <2>9. Before(pos, k) = Before(pos, i) \cup {i} /\ i \notin Before(pos, i)
    <3>1. ASSUME NEW j \in used
          PROVE  pos[j] < pos[k] <=> pos[j] < pos[i] \/ j = i
      BY <2>2, <2>6, <2>7, <2>8
    <3>2. ~ pos[i] < pos[i]
      BY <2>8
    <3>. QED  BY <3>1, <3>2 DEF Before
  <2>10. IsFiniteSet(Before(pos, k)) /\ Cardinality(Before(pos, k)) = n + 1
    BY <2>5, <2>9, FS_AddElement
  <2>11. ASSUME NEW j \in Before(pos, k)
         PROVE  \E m \in 0 .. n : ItemAt[m] = j
    <3>1. CASE j = i
      BY <2>2, <3>1
    <3>2. CASE j \in Before(pos, i)
      BY <2>5, <3>2
    <3>. QED  BY <2>9, <3>1, <3>2
  <2>. QED  BY <2>3, <2>7, <2>10, <2>11
<1>. HIDE DEF S
<1>3. \A n \in Nat : n \in S
  BY <1>1, <1>2, NatSetInduction
<1>. QED  BY <1>3 DEF S

(* The items in use are those a walk from the head reaches.                 *)
LEMMA ReachedIsUsed ==
  ASSUME Types, NEW pos \in [Items -> Nat], Ordered(pos)
  PROVE  Reached = used
<1>. DEFINE N == Cardinality(Items)
<1>1. /\ IsFiniteSet(Items) /\ N \in Nat /\ used \subseteq Items
      /\ \A j \in used : pos[j] \in Nat
  BY FS_CardinalityType, MallocListAssumption DEF Types
<1>2. ASSUME NEW n \in Nat, ItemAt[n] # Null
      PROVE  n <= N
  <2>1. Before(pos, ItemAt[n]) \in SUBSET Items
    BY <1>1 DEF Before
  <2>2. Cardinality(Before(pos, ItemAt[n])) <= N
    BY <1>1, <2>1, FS_Subset
  <2>3. Cardinality(Before(pos, ItemAt[n])) = n
    BY <1>2, ItemsBefore
  <2>. QED  BY <2>2, <2>3
<1>. HIDE DEF N
<1>3. Reached = {ItemAt[n] : n \in 0 .. N} \ {Null}
  BY DEF Reached, N
<1>4. Reached \subseteq used
  <2>1. \A n \in 0 .. N : ItemAt[n] # Null => ItemAt[n] \in used
    BY <1>1, ItemsBefore
  <2>. QED  BY <1>3, <2>1
<1>5. ASSUME NEW j \in used
      PROVE  \E n \in Nat : ItemAt[n] = j
  <2>. DEFINE Ends == {n \in Nat : ItemAt[n] = Null}
  <2>1. Ends # {}
    <3>1. N + 1 \in Nat /\ ~ N + 1 <= N
      BY <1>1
    <3>. QED  BY <1>2, <3>1
  <2>2. PICK e \in Ends : \A n \in Ends : e <= n
    BY <2>1, LeastOf
  <2>3. CASE e = 0
    <3>1. head = Null
      BY <2>2, <2>3, ItemAtWalks
    <3>. QED  BY <3>1 DEF Ordered, EndsInOrder
  <2>4. CASE e # 0
    <3>1. PICK n \in Nat : n + 1 = e /\ n \notin Ends
      <4>1. e - 1 \in Nat /\ (e - 1) + 1 = e /\ ~ e <= e - 1
        BY <2>4
      <4>. QED  BY <2>2, <4>1
    <3>2. ItemAt[n] # Null /\ ItemAt[n + 1] = Null
      BY <3>1, <2>2
    <3>3. PICK i \in used : i = ItemAt[n]
      BY <3>2, ItemsBefore
    <3>4. item[i].next = Null
      BY <3>2, <3>3, ItemAtWalks
    <3>5. pos[j] <= pos[i] /\ (pos[j] = pos[i] => j = i)
      BY <3>4 DEF Ordered, NextInOrder
    <3>6. CASE j = i
      BY <3>3, <3>6
    <3>7. CASE j # i
      <4>1. j \in Before(pos, ItemAt[n])
        BY <1>1, <3>3, <3>5, <3>7 DEF Before
      <4>2. PICK m \in 0 .. n - 1 : ItemAt[m] = j
        BY <3>2, <4>1, ItemsBefore
      <4>. QED  BY <4>2
    <3>. QED  BY <3>6, <3>7
  <2>. QED  BY <2>3, <2>4
<1>6. used \subseteq Reached
  <2>. SUFFICES ASSUME NEW j \in used PROVE j \in Reached
    OBVIOUS
  <2>1. PICK n \in Nat : ItemAt[n] = j
    BY <1>5
  <2>2. j # Null
    BY <1>1, MallocListAssumption
  <2>3. n \in 0 .. N
    BY <1>1, <1>2, <2>1, <2>2
  <2>. QED  BY <1>3, <2>1, <2>2, <2>3
<1>. QED  BY <1>4, <1>6

(* In an ordered list the links agree in both directions and with the ends. *)
LEMMA LinksAgree ==
  ASSUME Types, NEW pos \in [Items -> Nat], Ordered(pos)
  PROVE  /\ tail = Null <=> head = Null
         /\ \A i \in used :
              /\ item[i].prev = Null <=> i = head
              /\ item[i].next = Null <=> i = tail
              /\ \A j \in used : item[i].next = j <=> item[j].prev = i
<1>1. \A j \in used : pos[j] \in Nat
  BY DEF Types
<1>2. Null \notin used
  BY MallocListAssumption DEF Types
<1>3. \A i, j \in used : pos[i] = pos[j] => i = j
  BY DEF Ordered
<1>4. EndsInOrder(pos) /\ \A i \in used : NextInOrder(pos, i) /\ PrevInOrder(pos, i)
  BY DEF Ordered
<1>5. tail = Null <=> head = Null
  BY <1>4 DEF EndsInOrder
<1>6. ASSUME NEW i \in used
      PROVE  item[i].prev = Null <=> i = head
  <2>1. head \in used /\ \A j \in used : pos[head] <= pos[j]
    BY <1>4, <1>6 DEF EndsInOrder
  <2>2. ASSUME item[i].prev = Null
        PROVE  i = head
    <3>1. pos[i] <= pos[head]
      BY <1>4, <2>1, <2>2 DEF PrevInOrder
    <3>. QED  BY <1>1, <1>3, <2>1, <3>1
  <2>3. ASSUME item[i].prev # Null, i = head
        PROVE  FALSE
    <3>1. item[i].prev \in used /\ pos[item[i].prev] < pos[i]
      BY <1>4, <2>3 DEF PrevInOrder
    <3>. QED  BY <1>1, <2>1, <2>3, <3>1
  <2>. QED  BY <2>2, <2>3
<1>7. ASSUME NEW i \in used
      PROVE  item[i].next = Null <=> i = tail
  <2>1. tail \in used /\ \A j \in used : pos[j] <= pos[tail]
    BY <1>4, <1>7 DEF EndsInOrder
  <2>2. ASSUME item[i].next = Null
        PROVE  i = tail
    <3>1. pos[tail] <= pos[i]
      BY <1>4, <2>1, <2>2 DEF NextInOrder
    <3>. QED  BY <1>1, <1>3, <2>1, <3>1
  <2>3. ASSUME item[i].next # Null, i = tail
        PROVE  FALSE
    <3>1. item[i].next \in used /\ pos[i] < pos[item[i].next]
      BY <1>4, <2>3 DEF NextInOrder
    <3>. QED  BY <1>1, <2>1, <2>3, <3>1
  <2>. QED  BY <2>2, <2>3
<1>8. ASSUME NEW i \in used, NEW j \in used, item[i].next = j
      PROVE  item[j].prev = i
  <2>1. pos[i] < pos[j] /\ \A k \in used : pos[k] <= pos[i] \/ pos[j] <= pos[k]
    BY <1>2, <1>4, <1>8 DEF NextInOrder
  <2>2. item[j].prev # Null
    BY <1>1, <1>4, <2>1 DEF PrevInOrder
  <2>3. PICK p \in used : p = item[j].prev /\ pos[p] < pos[j] /\ (pos[i] <= pos[p] \/ pos[j] <= pos[i])
    BY <1>4, <2>2 DEF PrevInOrder
  <2>. QED  BY <1>1, <1>3, <2>1, <2>3
<1>9. ASSUME NEW i \in used, NEW j \in used, item[j].prev = i
      PROVE  item[i].next = j
  <2>1. pos[i] < pos[j] /\ \A k \in used : pos[k] <= pos[i] \/ pos[j] <= pos[k]
    BY <1>2, <1>4, <1>9 DEF PrevInOrder
  <2>2. item[i].next # Null
    BY <1>1, <1>4, <2>1 DEF NextInOrder
  <2>3. PICK n \in used : n = item[i].next /\ pos[i] < pos[n] /\ (pos[j] <= pos[i] \/ pos[n] <= pos[j])
    BY <1>4, <2>2 DEF NextInOrder
  <2>. QED  BY <1>1, <1>3, <2>1, <2>3
<1>. QED  BY <1>5, <1>6, <1>7, <1>8, <1>9

-----------------------------------------------------------------------------
(* The count *)

(* count is the number of the items; listDestroy leaves none.               *)
CountRight ==
  IF \E t \in Threads : lpc[t] = "ended" THEN used = {}
  ELSE count = Cardinality(used)

(* The number of items, and that none is left at the end.                   *)
LEMMA CountStep ==
  ASSUME MallocListInv, CountRight, [MallocListNext]_mallocListVars
  PROVE  CountRight'
<1>. USE DEF MallocListInv
<1>1. IsFiniteSet(used)
  BY FS_Subset, MallocListAssumption DEF Types
<1>2. ASSUME NEW t \in Threads, ThreadStep(t)
      PROVE  CountRight'
  <2>1. count = Cardinality(used) /\ \A u \in Threads : lpc'[u] # "ended"
    BY <1>2, NotEnded DEF CountRight
  <2>. SUFFICES count' = Cardinality(used')
    BY <2>1 DEF CountRight
  <2>2. CASE UNCHANGED list
    BY <2>1, <2>2 DEF list
  <2>3. CASE Add(t)
    <3>1. PICK i \in Items \ used : used' = used \cup {i} /\ count' = count + 1
      BY <2>3 DEF Add, Linked
    <3>. QED  BY <1>1, <2>1, <3>1, FS_AddElement
  <2>4. CASE RemoveItem(t)
    <3>1. at[t] \in used /\ used' = used \ {at[t]} /\ count' = count - 1
      BY <2>4 DEF RemoveItem, Removed, Matches
    <3>. QED  BY <1>1, <2>1, <3>1, FS_RemoveElement
  <2>5. Add(t) \/ RemoveItem(t) \/ UNCHANGED list
    BY <1>2 DEF ThreadStep, Walk, Malloc, BH_free, SH_free, Found, NotThis, LookupNext,
       NotFound, ReadHead, Lock, RemoveNext, RemoveNone
  <2>. QED  BY <2>2, <2>3, <2>4, <2>5
<1>3. CASE listDestroy
  <2>1. \A t \in Threads : lpc[t] = "idle" /\ lpc'[t] = "ended"
    BY <1>3 DEF listDestroy
  <2>2. PICK pos \in [Items -> Nat] : Ordered(pos)
    BY <2>1, MallocListAssumption DEF InOrder
  <2>3. Reached = used
    BY <2>2, ReachedIsUsed
  <2>4. used' = {}
    BY <1>3, <2>3 DEF listDestroy
  <2>. QED  BY <2>1, <2>4, MallocListAssumption DEF CountRight
<1>4. CASE UNCHANGED mallocListVars
  BY <1>4 DEF mallocListVars, list, CountRight
<1>. QED  BY <1>2, <1>3, <1>4, MallocListSteps

(* Whatever look-ups and removals read without the mutex, the items in use         *)
(* are exactly what is reached from the head, linked both ways and counted, *)
(* for any number of threads and items; listDestroy leaves none.            *)
THEOREM ListStaysIntact == MallocListSpec => []ListIntact
<1>1. MallocListInit => CountRight
  BY FS_EmptySet DEF MallocListInit, CountRight
<1>2. MallocListInv /\ CountRight => ListIntact
  <2>. SUFFICES ASSUME MallocListInv, CountRight, \A t \in Threads : lpc[t] # "ended"
       PROVE  /\ Reached = used
              /\ count = Cardinality(used)
              /\ tail = Null <=> head = Null
              /\ \A i \in used :
                   /\ item[i].prev = Null <=> i = head
                   /\ item[i].next = Null <=> i = tail
                   /\ \A j \in used : item[i].next = j <=> item[j].prev = i
    BY DEF ListIntact, CountRight
  <2>1. PICK pos \in [Items -> Nat] : Ordered(pos)
    BY DEF MallocListInv, InOrder
  <2>2. Types /\ count = Cardinality(used)
    BY DEF MallocListInv, CountRight
  <2>. QED  BY <2>1, <2>2, ReachedIsUsed, LinksAgree
<1>3. MallocListInv /\ CountRight /\ [MallocListNext]_mallocListVars => CountRight'
  BY CountStep
<1>. QED  BY <1>1, <1>2, <1>3, MallocListInvariance, PTL DEF MallocListSpec
=============================================================================
