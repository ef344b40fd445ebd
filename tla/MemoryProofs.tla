---------------------------- MODULE MemoryProofs ----------------------------
(***************************************************************************)
(* Proofs about Memory for any number of blocks and variables: counts are  *)
(* the numbers of references, nothing dangles, and nothing is forgotten.   *)
(***************************************************************************)
EXTENDS Memory, FiniteSetTheorems, TLAPS

(* Arrays whose length fits its bit-field.                                  *)
ShortArrays == MaxLength < LengthMod

(* What a block refers to is of a lower kind, so dropping a block drops     *)
(* lower ones only.                                                         *)
Rank(kind) ==
  IF kind = "chars" THEN 1
  ELSE IF kind \in {"literal", "string"} THEN 2
  ELSE IF kind = "data" THEN 3
  ELSE IF kind = "array" THEN 4
  ELSE 5

Below(kind) ==
  IF kind = "string" THEN {"chars"}
  ELSE IF kind = "data" THEN {"literal", "string"}
  ELSE IF kind = "array" THEN {"data"}
  ELSE IF kind = "any" THEN {"literal", "string", "array"}
  ELSE {}

(* The kinds a place can refer to, and the rank they have.                  *)
VarKinds(v) ==
  IF v \in StringVars THEN {"literal", "string"}
  ELSE IF v \in ArrayVars THEN {"array"} ELSE {"any"}

PlaceKinds(place) ==
  IF Len(place) = 1 THEN VarKinds(place[1]) ELSE {"literal", "string"}

(* The place DAL_assign is about to overwrite does not count.               *)
Overwritten(place) ==
  \E k \in DOMAIN todo : todo[k][1] = "store" /\ todo[k][2] = place

Freeing(b) == \E k \in DOMAIN todo : todo[k] = <<"free", b>>

Clearing(d) == \E k \in DOMAIN todo : todo[k] = <<"clear", d>>

Is(b, kinds) == b \in Allocated /\ heap[b].kind \in kinds

(* An array has its data, with as many elements as are dropped with it; but *)
(* not when it is being freed, or its constructor failed.                   *)
ArrayTyped(a) ==
  \/ heap[a].fields = <<>> /\ Freeing(a)
  \/ heap[a].fields = <<Null>> /\ a \in lost
  \/ /\ Len(heap[a].fields) = 1 /\ Is(DataOf(a), {"data"})
     /\ OfPointers(a) => Len(heap[DataOf(a)].fields) = ElementsDropped(a)

DataTyped(d) ==
  /\ Len(heap[d].fields) <= MaxLength + 1
  /\ heap[d].contains_pointers \/ heap[d].fields = <<>>
  /\ heap[d].contains_pointers /\ heap[d].fields = <<>> =>
       Clearing(d)

BlockTyped(b) ==
  /\ heap[b].kind \in {"literal", "chars"} =>
       ~ heap[b].contains_pointers /\ heap[b].fields = <<>>
  /\ heap[b].kind \in {"string", "array", "any"} =>
       heap[b].contains_pointers /\ Len(heap[b].fields) <= 1
  /\ heap[b].kind \in {"chars", "data"} => heap[b].ref_count <= 1
  /\ heap[b].kind = "array" => ArrayTyped(b)
  /\ heap[b].kind = "data" => DataTyped(b)

FieldTyped(b, i) ==
  \/ Overwritten(<<b, i>>)
  \/ heap[b].fields[i] = Null
  \/ Is(heap[b].fields[i], Below(heap[b].kind))

VarTyped(v) ==
  Overwritten(<<v>>) \/ var[v] = Null \/ Is(var[v], VarKinds(v))

Typed ==
  /\ heap \in [Blocks -> Block \cup {Free}]
  /\ var \in [Vars -> Pointers]
  /\ \A b \in Allocated : BlockTyped(b)
  /\ \A b \in Allocated : \A i \in DOMAIN heap[b].fields : FieldTyped(b, i)
  /\ \A v \in Vars : VarTyped(v)

(* Nothing refers to a temporary, or to what is lost.                       *)
Values == {"literal", "string", "array", "any"}

Unused ==
  /\ temp # Null =>
       /\ todo = <<>>
       /\ Is(temp, Values) /\ heap[temp].ref_count = 0 /\ temp \notin lost
  /\ lost \subseteq Allocated
  /\ \A b \in lost : heap[b].ref_count = 0 /\ ~ Freeing(b)

(* The calls to be made.                                                    *)
DropTyped(k) ==
  todo[k][2] # Null =>
    /\ todo[k][2] \in Allocated
    /\ heap[todo[k][2]].kind = "data" =>
         \/ ~ heap[todo[k][2]].contains_pointers
         \/ k > 1 /\ todo[k - 1] = <<"clear", todo[k][2]>>

ClearTyped(k) ==
  /\ Is(todo[k][2], {"data"}) /\ heap[todo[k][2]].fields = <<>>
  /\ k < Len(todo) /\ todo[k + 1] = <<"decRef", todo[k][2]>>

FreeTyped(k) ==
  /\ todo[k][2] \in Allocated
  /\ heap[todo[k][2]].ref_count = 0 /\ heap[todo[k][2]].fields = <<>>
  /\ \A j \in DOMAIN todo : todo[j] = todo[k] => j = k

(* What is to be stored is not among what is dropped before it.             *)
StoreTyped(k) ==
  LET place == todo[k][2]
      new == todo[k][3]
  IN /\ k = Len(todo)
     /\ Len(place) = 2 =>
          /\ Is(place[1], {"data"}) /\ heap[place[1]].contains_pointers
          /\ place[2] \in DOMAIN heap[place[1]].fields
     /\ new # Null => Is(new, PlaceKinds(place)) /\ new \notin lost
     /\ \A j \in DOMAIN todo :
          j # k /\ todo[j][2] # Null =>
            /\ todo[j][2] # new
            /\ \A kind \in PlaceKinds(place) :
                 Rank(heap[todo[j][2]].kind) <= Rank(kind)

Places == {<<v>> : v \in Vars} \cup (Blocks \X (Nat \ {0}))

Entry ==
  ({"decRef"} \X Pointers) \cup ({"clear", "free"} \X Blocks)
    \cup ({"store"} \X Places \X Pointers)

TodoTyped ==
  /\ todo \in Seq(Entry)
  /\ \A k \in DOMAIN todo :
       /\ todo[k][1] = "decRef" => DropTyped(k)
       /\ todo[k][1] = "clear" => ClearTyped(k)
       /\ todo[k][1] = "free" => FreeTyped(k)
       /\ todo[k][1] = "store" => StoreTyped(k)

(* A block that nothing refers to is about to be freed or to be used.       *)
InHand(b) ==
  \/ b = temp \/ b \in lost \/ Freeing(b)
  \/ \E k \in DOMAIN todo : todo[k][1] = "store" /\ todo[k][3] = b

Remembered == \A b \in Allocated : heap[b].ref_count = 0 => InHand(b)

(* The references to a block, as sets: variables, fields, and calls.        *)
VarsTo(b) == {v \in Vars : var[v] = b /\ ~ Overwritten(<<v>>)}

FieldPlaces == Blocks \X (1..(MaxLength + 1))

FieldsTo(b) ==
  {p \in FieldPlaces :
     /\ p[1] \in Allocated /\ p[2] \in DOMAIN heap[p[1]].fields
     /\ heap[p[1]].fields[p[2]] = b /\ ~ Overwritten(p)}

Occurrences(s, e) == {k \in DOMAIN s : s[k] = e}

Dropping(b) == Occurrences(todo, <<"decRef", b>>)

References(b) ==
  Cardinality(VarsTo(b)) + Cardinality(FieldsTo(b)) + Cardinality(Dropping(b))

Counted ==
  \A b \in Allocated :
    References(b) = heap[b].ref_count /\ References(b) <= MaxReferences

MemoryInv == Typed /\ Unused /\ TodoTyped /\ Remembered /\ Counted

-----------------------------------------------------------------------------
(* Counting *)

(* A sequence has finitely many occurrences of an element. *)
LEMMA OccurrencesFinite ==
  ASSUME NEW s \in Seq(Entry), NEW e
  PROVE  IsFiniteSet(Occurrences(s, e)) /\ Cardinality(Occurrences(s, e)) \in Nat
<1>1. Occurrences(s, e) \in SUBSET (1..Len(s)) /\ 1 \in Int /\ Len(s) \in Int
  BY DEF Occurrences
<1>2. IsFiniteSet(1..Len(s))
  BY <1>1, FS_Interval
<1>3. IsFiniteSet(Occurrences(s, e))
  BY <1>1, <1>2, FS_Subset, Zenon
<1>. QED  BY <1>3, FS_CardinalityType

(* Those of two sequences one after the other add up. *)
LEMMA OccurrencesConcat ==
  ASSUME NEW s \in Seq(Entry), NEW t \in Seq(Entry), NEW e
  PROVE  Cardinality(Occurrences(s \o t, e))
           = Cardinality(Occurrences(s, e)) + Cardinality(Occurrences(t, e))
<1>. DEFINE shifted == {k + Len(s) : k \in Occurrences(t, e)}
            f == [k \in Occurrences(t, e) |-> k + Len(s)]
<1>1. /\ IsFiniteSet(Occurrences(s, e)) /\ IsFiniteSet(Occurrences(t, e))
      /\ Len(s) \in Nat /\ Occurrences(t, e) \subseteq Nat
  <2>1. Len(s) \in Nat /\ Occurrences(t, e) \subseteq Nat
    BY DEF Occurrences
  <2>. QED  BY <2>1, OccurrencesFinite
<1>2. f \in Bijection(Occurrences(t, e), shifted)
  BY <1>1 DEF Bijection, Injection, Surjection, IsInjective
<1>3. IsFiniteSet(shifted) /\ Cardinality(shifted) = Cardinality(Occurrences(t, e))
  BY <1>1, <1>2, FS_Bijection DEF ExistsBijection
<1>4. Occurrences(s \o t, e) = Occurrences(s, e) \cup shifted
  <2>1. ASSUME NEW k \in Occurrences(s \o t, e)
        PROVE  k \in Occurrences(s, e) \cup shifted
    <3>1. CASE k <= Len(s)
      BY <3>1 DEF Occurrences
    <3>2. CASE k > Len(s)
      <4>1. k - Len(s) \in Occurrences(t, e) /\ k = (k - Len(s)) + Len(s)
        BY <3>2 DEF Occurrences
      <4>. QED  BY <4>1
    <3>. QED  BY <3>1, <3>2, <1>1 DEF Occurrences
  <2>2. Occurrences(s, e) \subseteq Occurrences(s \o t, e)
    BY DEF Occurrences
  <2>3. ASSUME NEW k \in Occurrences(t, e)
        PROVE  k + Len(s) \in Occurrences(s \o t, e)
    BY DEF Occurrences
  <2>. QED  BY <2>1, <2>2, <2>3
<1>5. Occurrences(s, e) \cap shifted = {}
  BY DEF Occurrences
<1>6. Cardinality(Occurrences(s, e) \cap shifted) = 0
  BY <1>5, FS_EmptySet
<1>7. /\ Cardinality(Occurrences(s \o t, e))
            = Cardinality(Occurrences(s, e)) + Cardinality(shifted)
                - Cardinality(Occurrences(s, e) \cap shifted)
  BY <1>1, <1>3, <1>4, FS_Union
<1>8. Cardinality(Occurrences(s, e)) \in Nat /\ Cardinality(shifted) \in Nat
  BY <1>1, <1>3, FS_CardinalityType
<1>. QED  BY <1>3, <1>6, <1>7, <1>8

(* One element occurs once. *)
LEMMA OccurrencesOne ==
  ASSUME NEW x, NEW e
  PROVE  Cardinality(Occurrences(<<x>>, e)) = IF x = e THEN 1 ELSE 0
<1>1. CASE x = e
  <2>1. Occurrences(<<x>>, e) = {1}
    BY <1>1 DEF Occurrences
  <2>. QED  BY <1>1, <2>1, FS_Singleton
<1>2. CASE x # e
  <2>1. Occurrences(<<x>>, e) = {}
    BY <1>2 DEF Occurrences
  <2>. QED  BY <1>2, <2>1, FS_EmptySet
<1>. QED  BY <1>1, <1>2

(* The first element's occurrence goes with it. *)
LEMMA OccurrencesTail ==
  ASSUME NEW s \in Seq(Entry), s # <<>>, NEW e
  PROVE  Cardinality(Occurrences(s, e))
           = (IF s[1] = e THEN 1 ELSE 0) + Cardinality(Occurrences(Tail(s), e))
<1>1. s = <<s[1]>> \o Tail(s) /\ <<s[1]>> \in Seq(Entry) /\ Tail(s) \in Seq(Entry)
  OBVIOUS
<1>2. Cardinality(Occurrences(<<s[1]>> \o Tail(s), e))
        = Cardinality(Occurrences(<<s[1]>>, e)) + Cardinality(Occurrences(Tail(s), e))
  BY ZenonT(30), <1>1, OccurrencesConcat
<1>. QED  BY <1>1, <1>2, OccurrencesOne

(* No element occurs in the empty sequence. *)
LEMMA OccurrencesNone ==
  ASSUME NEW e
  PROVE  Cardinality(Occurrences(<<>>, e)) = 0
<1>1. Occurrences(<<>>, e) = {}
  BY DEF Occurrences
<1>. QED  BY <1>1, FS_EmptySet

(* A set with an element has at least one; with two it has at least two.    *)
LEMMA AtLeast ==
  ASSUME NEW S, IsFiniteSet(S)
  PROVE  /\ Cardinality(S) \in Nat
         /\ \A x \in S : Cardinality(S) >= 1
         /\ \A x, y \in S : x # y => Cardinality(S) >= 2
<1>1. Cardinality(S) \in Nat /\ (Cardinality(S) = 0 <=> S = {})
  BY FS_CardinalityType, FS_EmptySet
<1>2. Cardinality(S) = 1 <=> \E x : S = {x}
  BY FS_Singleton
<1>. QED  BY <1>1, <1>2

(* Places are finitely many: fewer than the references there is room for.   *)
LEMMA PlacesFinite ==
  ASSUME NEW V \in SUBSET Vars, NEW F \in SUBSET FieldPlaces
  PROVE  /\ IsFiniteSet(V) /\ IsFiniteSet(F)
         /\ Cardinality(V) \in Nat /\ Cardinality(F) \in Nat
         /\ Cardinality(V) + Cardinality(F) + 2 <= MaxReferences
         /\ MaxReferences \in Nat /\ MaxReferences < CountMod
<1>. USE MemoryAssumption
<1>1. /\ IsFiniteSet(1..(MaxLength + 1))
      /\ Cardinality(1..(MaxLength + 1)) = MaxLength + 1
  <2>1. MaxLength + 1 \in Int /\ ~ 1 > MaxLength + 1
    OBVIOUS
  <2>2. /\ IsFiniteSet(1..(MaxLength + 1))
        /\ Cardinality(1..(MaxLength + 1))
             = IF 1 > MaxLength + 1 THEN 0 ELSE (MaxLength + 1) - 1 + 1
    BY <2>1, FS_Interval
  <2>. QED  BY <2>1, <2>2
<1>2. /\ IsFiniteSet(FieldPlaces)
      /\ Cardinality(FieldPlaces) = Cardinality(Blocks) * (MaxLength + 1)
  BY <1>1, FS_Product DEF FieldPlaces
<1>3. /\ IsFiniteSet(F) /\ Cardinality(F) <= Cardinality(FieldPlaces)
      /\ IsFiniteSet(V) /\ Cardinality(V) <= Cardinality(Vars)
  BY <1>2, FS_Subset
<1>4. /\ Cardinality(F) \in Nat /\ Cardinality(FieldPlaces) \in Nat
      /\ Cardinality(V) \in Nat /\ Cardinality(Vars) \in Nat
  BY <1>2, <1>3, FS_CardinalityType
<1>5. MaxReferences = Cardinality(Vars) + Cardinality(FieldPlaces) + 2
  BY <1>2 DEF MaxReferences
<1>. QED  BY <1>3, <1>4, <1>5

(* The references to a block are finitely many. *)
LEMMA ReferencesFinite ==
  ASSUME TodoTyped, NEW b
  PROVE  /\ VarsTo(b) \in SUBSET Vars /\ FieldsTo(b) \in SUBSET FieldPlaces
         /\ IsFiniteSet(VarsTo(b)) /\ IsFiniteSet(FieldsTo(b))
         /\ IsFiniteSet(Dropping(b))
         /\ Cardinality(VarsTo(b)) \in Nat /\ Cardinality(FieldsTo(b)) \in Nat
         /\ Cardinality(Dropping(b)) \in Nat
         /\ References(b) \in Nat
<1>1. VarsTo(b) \in SUBSET Vars /\ FieldsTo(b) \in SUBSET FieldPlaces
  BY DEF VarsTo, FieldsTo
<1>2. IsFiniteSet(Dropping(b)) /\ Cardinality(Dropping(b)) \in Nat
  BY OccurrencesFinite DEF Dropping, TodoTyped
<1>. QED  BY <1>1, <1>2, PlacesFinite DEF References

(* What a block whose count is 0 or 1 tells about its references.           *)
LEMMA FewReferences ==
  ASSUME TodoTyped, Counted, NEW b \in Allocated
  PROVE  /\ heap[b].ref_count \in Nat
         /\ heap[b].ref_count = 0 =>
              VarsTo(b) = {} /\ FieldsTo(b) = {} /\ Dropping(b) = {}
         /\ heap[b].ref_count <= 1 =>
              /\ \A p, q \in FieldsTo(b) : p = q
              /\ \A j, k \in Dropping(b) : j = k
              /\ Dropping(b) # {} => VarsTo(b) = {} /\ FieldsTo(b) = {}
<1>1. /\ IsFiniteSet(VarsTo(b)) /\ IsFiniteSet(FieldsTo(b)) /\ IsFiniteSet(Dropping(b))
      /\ heap[b].ref_count
           = Cardinality(VarsTo(b)) + Cardinality(FieldsTo(b)) + Cardinality(Dropping(b))
  BY ReferencesFinite DEF Counted, References
<1>2. /\ Cardinality(VarsTo(b)) \in Nat
      /\ \A x \in VarsTo(b) : Cardinality(VarsTo(b)) >= 1
  BY <1>1, AtLeast
<1>3. /\ Cardinality(FieldsTo(b)) \in Nat
      /\ \A x \in FieldsTo(b) : Cardinality(FieldsTo(b)) >= 1
      /\ \A x, y \in FieldsTo(b) : x # y => Cardinality(FieldsTo(b)) >= 2
  BY <1>1, AtLeast
<1>4. /\ Cardinality(Dropping(b)) \in Nat
      /\ \A x \in Dropping(b) : Cardinality(Dropping(b)) >= 1
      /\ \A x, y \in Dropping(b) : x # y => Cardinality(Dropping(b)) >= 2
  BY <1>1, AtLeast
<1>. QED  BY <1>1, <1>2, <1>3, <1>4

(* Counts do not wrap around. *)
LEMMA CountFits ==
  ASSUME NEW n \in Nat, n <= MaxReferences
  PROVE  n % CountMod = n /\ n \in 0..(CountMod - 1)
<1>1. MaxReferences \in Nat /\ CountMod \in Nat /\ MaxReferences < CountMod
  BY PlacesFinite, MemoryAssumption
<1>2. n \in Int /\ 0 <= n /\ n < CountMod /\ CountMod \in Int /\ 0 < CountMod
  BY <1>1
<1>3. n % CountMod = n
  BY <1>2
<1>. QED  BY <1>2, <1>3

-----------------------------------------------------------------------------
(* Constructors *)

(* Between statements nothing is about to be overwritten, freed or dropped. *)
LEMMA Quiet ==
  ASSUME todo = <<>>
  PROVE  /\ \A place : ~ Overwritten(place)
         /\ \A b : ~ Freeing(b) /\ Dropping(b) = {}
         /\ todo \in Seq(Entry) /\ TodoTyped
         /\ \A b : InHand(b) <=> b = temp \/ b \in lost
BY DEF Overwritten, Freeing, Dropping, Occurrences, TodoTyped, InHand

(* Nothing refers to a block that is not allocated. *)
LEMMA UnallocatedUnreferenced ==
  ASSUME Typed, NEW b \in Blocks \ Allocated
  PROVE  VarsTo(b) = {} /\ FieldsTo(b) = {}
BY MemoryAssumption
   DEF Typed, VarTyped, FieldTyped, VarsTo, FieldsTo, FieldPlaces, Is

(* The references a constructor adds, with the new blocks.                  *)
NewFields(N, b) ==
  {p \in FieldPlaces :
     /\ p[1] \in N /\ p[2] \in DOMAIN heap[p[1]].fields
     /\ heap[p[1]].fields[p[2]] = b}

(* A constructor leaves the references there are and adds those of the new  *)
(* blocks.                                                                  *)
LEMMA ReferencesAdded ==
  ASSUME Typed, todo = <<>>, todo' = <<>>, var' = var,
         NEW N \in SUBSET (Blocks \ Allocated), Allocated' = Allocated \cup N,
         \A c \in Allocated : heap'[c].fields = heap[c].fields,
         NEW b
  PROVE  /\ References(b)' =
              References(b) + Cardinality(NewFields(N, b)')
         /\ References(b) \in Nat
         /\ Cardinality(NewFields(N, b)') \in Nat
         /\ References(b)' <= MaxReferences
<1>1. /\ \A place : ~ Overwritten(place) /\ ~ Overwritten(place)'
      /\ Dropping(b) = {} /\ Dropping(b)' = {}
  BY DEF Overwritten, Dropping, Occurrences
<1>2. VarsTo(b)' = VarsTo(b) /\ VarsTo(b) \in SUBSET Vars
  BY <1>1 DEF VarsTo
<1>3. /\ FieldsTo(b)' = FieldsTo(b) \cup NewFields(N, b)'
      /\ FieldsTo(b) \cap NewFields(N, b)' = {}
      /\ FieldsTo(b) \in SUBSET FieldPlaces /\ NewFields(N, b)' \in SUBSET FieldPlaces
      /\ FieldsTo(b)' \in SUBSET FieldPlaces
  BY <1>1 DEF FieldsTo, NewFields
<1>4. /\ Cardinality(FieldsTo(b)')
           = Cardinality(FieldsTo(b)) + Cardinality(NewFields(N, b)')
      /\ Cardinality(FieldsTo(b)) \in Nat /\ Cardinality(NewFields(N, b)') \in Nat
  <2>1. /\ IsFiniteSet(FieldsTo(b)) /\ IsFiniteSet(NewFields(N, b)')
        /\ Cardinality(FieldsTo(b)) \in Nat /\ Cardinality(NewFields(N, b)') \in Nat
    BY <1>2, <1>3, PlacesFinite
  <2>2. Cardinality(FieldsTo(b) \cup NewFields(N, b)')
          = Cardinality(FieldsTo(b)) + Cardinality(NewFields(N, b)')
              - Cardinality(FieldsTo(b) \cap NewFields(N, b)')
    BY <2>1, FS_Union
  <2>3. Cardinality(FieldsTo(b) \cap NewFields(N, b)') = 0
    BY <1>3, FS_EmptySet
  <2>. QED  BY <1>3, <2>1, <2>2, <2>3
<1>5. /\ Cardinality(VarsTo(b)) \in Nat /\ MaxReferences \in Nat
      /\ Cardinality(VarsTo(b)') + Cardinality(FieldsTo(b)') + 2 <= MaxReferences
      /\ Cardinality(VarsTo(b)') \in Nat /\ Cardinality(FieldsTo(b)') \in Nat
  BY <1>2, <1>3, PlacesFinite
<1>6. Cardinality(Dropping(b)) = 0 /\ Cardinality(Dropping(b)') = 0
  BY <1>1, FS_EmptySet
<1>. QED  BY <1>2, <1>4, <1>5, <1>6 DEF References

(* If the new blocks are as their kinds demand everything is.               *)
LEMMA TypedBlocksAdded ==
  ASSUME Typed, todo = <<>>, todo' = <<>>, var' = var, lost \subseteq lost',
         NEW N \in SUBSET (Blocks \ Allocated), Allocated' = Allocated \cup N,
         heap' \in [Blocks -> Block \cup {Free}],
         \A c \in Allocated :
           /\ heap'[c].kind = heap[c].kind /\ heap'[c].length = heap[c].length
           /\ heap'[c].contains_pointers = heap[c].contains_pointers
           /\ heap'[c].fields = heap[c].fields
           /\ heap[c].kind \in {"chars", "data"} => heap'[c].ref_count = heap[c].ref_count,
         \A c \in N : BlockTyped(c)' /\ \A i \in DOMAIN heap'[c].fields : FieldTyped(c, i)'
  PROVE  Typed'
<1>1. /\ \A place : ~ Overwritten(place) /\ ~ Overwritten(place)'
      /\ \A b : ~ Freeing(b) /\ ~ Freeing(b)'
  BY DEF Overwritten, Freeing
<1>2. \A b, kinds : Is(b, kinds) => Is(b, kinds)'
  BY DEF Is
<1>3. ASSUME NEW c \in Allocated
      PROVE  BlockTyped(c)'
  <2>1. BlockTyped(c)
    BY DEF Typed
  <2>2. ASSUME heap[c].kind = "array"
        PROVE  ArrayTyped(c)'
    <3>1. ArrayTyped(c)
      BY <2>1, <2>2 DEF BlockTyped
    <3>2. DataOf(c)' = DataOf(c) /\ ElementsDropped(c)' = ElementsDropped(c)
      BY DEF DataOf, ElementsDropped
    <3>. QED  BY <1>1, <1>2, <3>1, <3>2 DEF ArrayTyped, OfPointers, Is
  <2>3. ASSUME heap[c].kind = "data"
        PROVE  DataTyped(c)'
    <3>1. DataTyped(c)
      BY <2>1, <2>3 DEF BlockTyped
    <3>. QED  BY <3>1 DEF DataTyped, Clearing
  <2>. QED  BY <2>1, <2>2, <2>3 DEF BlockTyped
<1>4. ASSUME NEW c \in Allocated, NEW i \in DOMAIN heap'[c].fields
      PROVE  FieldTyped(c, i)'
  BY <1>1, <1>2, <1>4 DEF FieldTyped, Typed
<1>5. \A v \in Vars : VarTyped(v)'
  BY <1>1, <1>2 DEF VarTyped, Typed
<1>. QED  BY <1>3, <1>4, <1>5 DEF Typed

(* Nothing refers to a new block, whatever it is made of.                   *)
LEMMA FreshUnreferenced ==
  ASSUME Typed, todo = <<>>, NEW b \in Blocks \ Allocated
  PROVE  References(b) = 0
<1>1. VarsTo(b) = {} /\ FieldsTo(b) = {} /\ Dropping(b) = {}
  BY UnallocatedUnreferenced, Quiet
<1>. QED  BY <1>1, FS_EmptySet DEF References

(* Allocated is what heap says. *)
LEMMA AllocatedIs ==
  ASSUME Typed, NEW b
  PROVE  b \in Allocated <=> b \in Blocks /\ heap[b] \in Block
BY MemoryAssumption DEF Typed, Allocated

(* A constructor that adds the blocks N and counts what they refer to keeps *)
(* the invariant, if it uses the temporary there was.                       *)
LEMMA BlocksAdded ==
  ASSUME MemoryInv, todo = <<>>, todo' = <<>>, var' = var,
         NEW N \in SUBSET (Blocks \ Allocated), Typed', Allocated' = Allocated \cup N,
         \A c \in Allocated : heap'[c].fields = heap[c].fields,
         \A c \in Allocated' :
           LET count == (IF c \in N THEN 0 ELSE heap[c].ref_count)
                          + Cardinality(NewFields(N, c)')
           IN heap'[c].ref_count \in {count, count % CountMod},
         \A c \in N : heap'[c].ref_count = 0 => c = temp' \/ c \in lost',
         lost' \subseteq lost \cup {temp} \cup N,
         lost \subseteq lost',
         Null \notin lost',
         \A c \in lost' : heap'[c].ref_count = 0,
         temp # Null => heap'[temp].ref_count > 0 \/ temp \in lost',
         temp' # Null => /\ temp' \in N /\ temp' \notin lost'
                         /\ heap'[temp'].kind \in Values /\ heap'[temp'].ref_count = 0
  PROVE  MemoryInv'
<1>. USE DEF MemoryInv
<1>1. Counted'
  <2>1. ASSUME NEW c \in Allocated'
        PROVE  References(c)' = heap'[c].ref_count /\ References(c)' <= MaxReferences
    <3>1. /\ References(c)' = References(c) + Cardinality(NewFields(N, c)')
          /\ References(c)' <= MaxReferences
      BY ReferencesAdded
    <3>2. References(c) = IF c \in N THEN 0 ELSE heap[c].ref_count
      BY <2>1, FreshUnreferenced DEF Counted
    <3>3. References(c)' \in Nat
      BY <3>1, <3>2, ReferencesAdded
    <3>4. References(c)' % CountMod = References(c)'
      BY <3>1, <3>3, CountFits
    <3>. QED  BY <3>1, <3>2, <3>4
  <2>. QED  BY <2>1 DEF Counted
<1>2. ASSUME NEW b
      PROVE  ~ Freeing(b)' /\ (b = temp' \/ b \in lost' => InHand(b)')
  BY DEF Freeing, InHand
<1>3. Remembered'
  <2>1. ASSUME NEW c \in Allocated, heap'[c].ref_count = 0
        PROVE  c = temp' \/ c \in lost'
    <3>1. /\ References(c) \in Nat /\ Cardinality(NewFields(N, c)') \in Nat
          /\ References(c) = heap[c].ref_count
      BY ReferencesAdded DEF Counted
    <3>2. heap[c].ref_count = 0
      BY <1>1, <2>1, <3>1, ReferencesAdded DEF Counted
    <3>3. c = temp \/ c \in lost
      BY <3>2, Quiet DEF Remembered
    <3>. QED  BY <2>1, <3>3, MemoryAssumption DEF Allocated
  <2>. QED  BY <1>2, <2>1 DEF Remembered
<1>4. Unused'
  <2>1. lost' \subseteq Allocated'
    BY MemoryAssumption DEF Unused, Is
  <2>. QED  BY <1>2, <2>1 DEF Unused, Is
<1>5. TodoTyped'
  BY DEF TodoTyped
<1>. QED  BY <1>1, <1>3, <1>4, <1>5

(* Between statements, what a variable or a block refers to has a count.    *)
LEMMA ReferredIsCounted ==
  ASSUME MemoryInv, todo = <<>>, NEW b \in Allocated, VarsTo(b) # {} \/ FieldsTo(b) # {}
  PROVE  heap[b].ref_count > 0 /\ b \notin lost
BY FewReferences, Quiet DEF MemoryInv, Unused

(* An array that a variable holds, or that has just been made, has its data. *)
LEMMA ArrayHasData ==
  ASSUME MemoryInv, todo = <<>>, NEW a, Is(a, {"array"}), a \notin lost
  PROVE  /\ Len(heap[a].fields) = 1 /\ Is(DataOf(a), {"data"})
         /\ OfPointers(a) => Len(heap[DataOf(a)].fields) = ElementsDropped(a)
BY Quiet DEF MemoryInv, Typed, BlockTyped, ArrayTyped, Is

(* What a variable holds is of its kind. *)
LEMMA VarsHold ==
  ASSUME MemoryInv, todo = <<>>, NEW v \in Vars, var[v] # Null
  PROVE  Is(var[v], VarKinds(v)) /\ heap[var[v]].ref_count > 0 /\ var[v] \notin lost
<1>1. Is(var[v], VarKinds(v))
  BY Quiet DEF MemoryInv, Typed, VarTyped
<1>2. v \in VarsTo(var[v])
  BY Quiet DEF VarsTo
<1>. QED  BY <1>1, <1>2, ReferredIsCounted DEF Is

(* What a block refers to is of a kind below its own. *)
LEMMA FieldsHold ==
  ASSUME MemoryInv, todo = <<>>, NEW c \in Allocated, NEW i \in DOMAIN heap[c].fields,
         i \in 1..(MaxLength + 1), heap[c].fields[i] # Null
  PROVE  /\ Is(heap[c].fields[i], Below(heap[c].kind))
         /\ heap[heap[c].fields[i]].ref_count > 0 /\ heap[c].fields[i] \notin lost
<1>1. Is(heap[c].fields[i], Below(heap[c].kind))
  BY Quiet DEF MemoryInv, Typed, FieldTyped
<1>2. <<c, i>> \in FieldsTo(heap[c].fields[i])
  BY Quiet DEF FieldsTo, FieldPlaces, Allocated
<1>. QED  BY <1>1, <1>2, ReferredIsCounted DEF Is

(* An array's element has its place in the data. *)
LEMMA ElementsHold ==
  ASSUME MemoryInv, ShortArrays, todo = <<>>, NEW e \in ElementPlaces
  PROVE  /\ e = <<e[1], e[2]>> /\ Len(e) = 2
         /\ Is(e[1], {"data"}) /\ heap[e[1]].contains_pointers
         /\ e[2] \in DOMAIN heap[e[1]].fields /\ e[2] \in 1..(MaxLength + 1)
         /\ e[1] \in Blocks
         /\ heap[e[1]].fields[e[2]] # Null =>
              /\ Is(heap[e[1]].fields[e[2]], {"literal", "string"})
              /\ heap[e[1]].fields[e[2]] \notin lost
<1>1. PICK a \in ArraysHeld, i \in 0..MaxLength :
        OfPointers(a) /\ e = <<DataOf(a), Location(a, i)>>
  BY DEF ElementPlaces
<1>2. Is(a, {"array"}) /\ a \notin lost
  <2>1. PICK v \in ArrayVars : a = var[v] /\ a # Null
    BY <1>1 DEF ArraysHeld
  <2>2. v \in Vars /\ VarKinds(v) = {"array"}
    BY MemoryAssumption DEF Vars, VarKinds
  <2>. QED  BY <2>1, <2>2, VarsHold
<1>3. /\ Is(DataOf(a), {"data"}) /\ Len(heap[DataOf(a)].fields) = ElementsDropped(a)
      /\ heap[DataOf(a)].contains_pointers
  BY <1>1, <1>2, ArrayHasData DEF OfPointers
<1>4. heap[a] \in Block /\ heap[DataOf(a)] \in Block /\ DataTyped(DataOf(a))
  BY <1>2, <1>3, AllocatedIs DEF Is, MemoryInv, Typed, BlockTyped
<1>5. /\ heap[a].length \in Nat /\ Len(heap[DataOf(a)].fields) <= MaxLength + 1
      /\ heap[DataOf(a)].fields \in Seq(Pointers)
  BY <1>4, MemoryAssumption DEF DataTyped, Block
<1>6. Location(a, i) \in 1..Len(heap[DataOf(a)].fields)
  BY <1>1, <1>3, <1>5, MemoryAssumption DEF Location, ElementsDropped
<1>7. /\ e[1] = DataOf(a) /\ e[2] = Location(a, i) /\ e = <<e[1], e[2]>> /\ Len(e) = 2
      /\ e[1] \in Allocated /\ e[1] \in Blocks
      /\ e[2] \in DOMAIN heap[e[1]].fields /\ e[2] \in 1..(MaxLength + 1)
  BY <1>1, <1>3, <1>5, <1>6, MemoryAssumption DEF Is, Allocated
<1>8. heap[e[1]].fields[e[2]] # Null =>
        /\ Is(heap[e[1]].fields[e[2]], {"literal", "string"})
        /\ heap[e[1]].fields[e[2]] \notin lost
  BY <1>3, <1>7, FieldsHold DEF Is, Below
<1>. QED  BY <1>1, <1>3, <1>7, <1>8

(* What is projected from an any. *)
LEMMA ProjectedHold ==
  ASSUME MemoryInv, todo = <<>>, NEW p \in Projected
  PROVE  p # Null /\ Is(p, {"literal", "string", "array"}) /\ p \notin lost
<1>1. PICK v \in AnyVars : /\ var[v] # Null /\ heap[var[v]].fields # <<>>
                           /\ p = heap[var[v]].fields[1] /\ p # Null
  BY DEF Projected
<1>2. Is(var[v], {"any"})
  <2>1. v \in Vars /\ VarKinds(v) = {"any"}
    BY MemoryAssumption DEF Vars, VarKinds
  <2>. QED  BY <1>1, <2>1, VarsHold
<1>3. heap[var[v]] \in Block
  BY <1>2, AllocatedIs DEF Is, MemoryInv
<1>4. 1 \in DOMAIN heap[var[v]].fields /\ 1 \in 1..(MaxLength + 1)
  BY <1>1, <1>3, MemoryAssumption DEF Block
<1>. QED  BY <1>1, <1>2, <1>4, FieldsHold DEF Is, Below

(* The values of the program's expressions have their types.                *)
LEMMA ValuesHold ==
  ASSUME MemoryInv, ShortArrays, todo = <<>>
  PROVE  /\ \A p \in Strings : p # Null => Is(p, {"literal", "string"}) /\ p \notin lost
         /\ \A p \in Arrays : p # Null => Is(p, {"array"}) /\ p \notin lost
         /\ \A p \in Anys : p # Null => Is(p, {"any"}) /\ p \notin lost
<1>. USE MemoryAssumption
<1>1. \A v \in Vars : var[v] # Null => Is(var[v], VarKinds(v)) /\ var[v] \notin lost
  BY VarsHold
<1>2. /\ \A v \in StringVars : v \in Vars /\ VarKinds(v) = {"literal", "string"}
      /\ \A v \in ArrayVars : v \in Vars /\ VarKinds(v) = {"array"}
      /\ \A v \in AnyVars : v \in Vars /\ VarKinds(v) = {"any"}
  BY DEF Vars, VarKinds
<1>3. temp # Null => Is(temp, Values) /\ temp \notin lost
  BY DEF MemoryInv, Unused
<1>4. \A e \in ElementPlaces : heap[e[1]].fields[e[2]] # Null =>
        /\ Is(heap[e[1]].fields[e[2]], {"literal", "string"})
        /\ heap[e[1]].fields[e[2]] \notin lost
  BY ElementsHold
<1>5. \A p \in Projected : p # Null /\ Is(p, {"literal", "string", "array"}) /\ p \notin lost
  BY ProjectedHold
<1>6. \A p \in Strings : p # Null => Is(p, {"literal", "string"}) /\ p \notin lost
  BY <1>1, <1>2, <1>3, <1>4, <1>5 DEF Strings, IsString, Is
<1>7. \A p \in Arrays : p # Null => Is(p, {"array"}) /\ p \notin lost
  BY <1>1, <1>2, <1>3, <1>5 DEF Arrays, ArraysHeld, IsArray, Is
<1>8. \A p \in Anys : p # Null => Is(p, {"any"}) /\ p \notin lost
  BY <1>1, <1>2, <1>3 DEF Anys, IsAny, Is
<1>. QED  BY <1>6, <1>7, <1>8

(* A block DAL_alloc returned is one. *)
LEMMA Allocation ==
  ASSUME NEW kind \in {"literal", "chars", "string", "array", "data", "any"},
         NEW contains_pointers \in BOOLEAN, NEW fields \in Seq(Pointers)
  PROVE  DAL_alloc(kind, contains_pointers, fields) \in Block
<1>1. 0 \in 0..(CountMod - 1) /\ 0 \in 0..(LengthMod - 1)
  <2>1. {} \in SUBSET Vars /\ {} \in SUBSET FieldPlaces
    OBVIOUS
  <2>2. MaxReferences \in Nat
    BY <2>1, PlacesFinite
  <2>. QED  BY <2>2, MemoryAssumption
<1>. QED  BY <1>1 DEF DAL_alloc, Block

(* A new block without fields refers to nothing. *)
LEMMA NoNewFields ==
  ASSUME NEW N, NEW x, \A c \in N : heap'[c].fields = <<>> \/ heap'[c].fields = <<Null>>,
         x # Null
  PROVE  Cardinality(NewFields(N, x)') = 0
<1>1. NewFields(N, x)' = {}
  BY DEF NewFields, FieldPlaces
<1>. QED  BY <1>1, FS_EmptySet

(* One with one field refers to that. *)
LEMMA OneNewField ==
  ASSUME NEW N \in SUBSET Blocks, NEW b \in N, NEW y, heap'[b].fields = <<y>>,
         \A c \in N \ {b} : heap'[c].fields = <<>>, NEW x
  PROVE  Cardinality(NewFields(N, x)') = IF x = y THEN 1 ELSE 0
<1>0. <<b, 1>> \in FieldPlaces
  BY MemoryAssumption DEF FieldPlaces
<1>1. NewFields(N, x)' = IF x = y THEN {<<b, 1>>} ELSE {}
  BY <1>0 DEF NewFields, FieldPlaces
<1>. QED  BY <1>1, FS_EmptySet, FS_Singleton

(* A string in the program's text. *)
LEMMA String0Step ==
  ASSUME MemoryInv, todo = <<>>, todo' = <<>>, Construct_String0
  PROVE  MemoryInv'
<1>1. PICK b \in Blocks \ Allocated :
        heap' = [heap EXCEPT ![b] = DAL_alloc("literal", FALSE, <<>>)] /\ temp' = b
  BY DEF Construct_String0
<1>2. var' = var /\ lost' = lost /\ temp = Null
  BY DEF Construct_String0, Uses
<1>3. DAL_alloc("literal", FALSE, <<>>) \in Block
  <2>1. <<>> \in Seq(Pointers) /\ FALSE \in BOOLEAN
    OBVIOUS
  <2>. QED  BY <2>1, Allocation
<1>. DEFINE N == {b}
<1>4. /\ heap'[b] = DAL_alloc("literal", FALSE, <<>>)
      /\ \A c \in Allocated : heap'[c] = heap[c]
      /\ heap' \in [Blocks -> Block \cup {Free}]
      /\ N \in SUBSET (Blocks \ Allocated) /\ Allocated' = Allocated \cup N
  BY <1>1, <1>3, MemoryAssumption DEF MemoryInv, Typed, Allocated
<1>5. \A c \in N : /\ BlockTyped(c)' /\ heap'[c].fields = <<>>
                   /\ heap'[c].ref_count = 0 /\ heap'[c].kind = "literal"
  BY <1>4 DEF BlockTyped, DAL_alloc
<1>. HIDE DEF N
<1>6. Typed'
  BY <1>2, <1>4, <1>5, TypedBlocksAdded DEF MemoryInv
<1>7. \A c \in Allocated' : Cardinality(NewFields(N, c)') = 0
  BY <1>4, <1>5, NoNewFields, MemoryAssumption DEF Allocated
<1>8. \A c \in Allocated : heap[c].ref_count \in Nat
  BY FewReferences DEF MemoryInv
<1>9. \A c \in Allocated' :
        heap'[c].ref_count =
          (IF c \in N THEN 0 ELSE heap[c].ref_count) + Cardinality(NewFields(N, c)')
  BY <1>4, <1>5, <1>7, <1>8
<1>10. /\ \A c \in lost : c \in Allocated /\ heap[c].ref_count = 0
       /\ \A c \in N : c = temp'
       /\ temp' \in N /\ temp' \notin lost
  BY <1>1, <1>4 DEF N, MemoryInv, Unused
<1>. QED
  BY <1>2, <1>4, <1>5, <1>6, <1>9, <1>10, BlocksAdded, MemoryAssumption DEF Allocated, Values

(* What counting does to the heap. *)
LEMMA ModRef ==
  ASSUME NEW h \in [Blocks -> Block \cup {Free}], NEW b \in Blocks, h[b] \in Block,
         NEW n \in Nat
  PROVE  /\ DAL_modRef_by_n(h, b, n) \in [Blocks -> Block \cup {Free}]
         /\ \A c \in Blocks : c # b => DAL_modRef_by_n(h, b, n)[c] = h[c]
         /\ DAL_modRef_by_n(h, b, n)[b] \in Block
         /\ DAL_modRef_by_n(h, b, n)[b].kind = h[b].kind
         /\ DAL_modRef_by_n(h, b, n)[b].contains_pointers = h[b].contains_pointers
         /\ DAL_modRef_by_n(h, b, n)[b].fields = h[b].fields
         /\ DAL_modRef_by_n(h, b, n)[b].length = h[b].length
         /\ DAL_modRef_by_n(h, b, n)[b].ref_count = (h[b].ref_count + n) % CountMod
<1>1. CountMod \in Nat /\ CountMod > 0 /\ h[b].ref_count \in Nat
  <2>1. {} \in SUBSET Vars /\ {} \in SUBSET FieldPlaces
    OBVIOUS
  <2>. QED  BY <2>1, PlacesFinite, MemoryAssumption DEF Block
<1>2. (h[b].ref_count + n) % CountMod \in 0..(CountMod - 1)
  BY <1>1
<1>3. [h[b] EXCEPT !.ref_count = (h[b].ref_count + n) % CountMod] \in Block
  BY <1>2 DEF Block
<1>4. DAL_modRef_by_n(h, b, n)
        = [h EXCEPT ![b] = [h[b] EXCEPT !.ref_count = (h[b].ref_count + n) % CountMod]]
  BY DEF DAL_modRef_by_n
<1>. QED  BY <1>3, <1>4 DEF Block

(* There is room for two references at least. *)
LEMMA OneFits ==
  /\ 0 % CountMod = 0 /\ 1 % CountMod = 1 /\ 1 \in 0..(CountMod - 1)
  /\ MaxReferences \in Nat /\ 2 <= MaxReferences
<1>1. {} \in SUBSET Vars /\ {} \in SUBSET FieldPlaces
  OBVIOUS
<1>2. MaxReferences \in Nat /\ 2 <= MaxReferences
  <2>1. /\ Cardinality({}) + Cardinality({}) + 2 <= MaxReferences /\ MaxReferences \in Nat
    BY <1>1, PlacesFinite
  <2>. QED  BY <2>1, FS_EmptySet
<1>. QED  BY <1>2, CountFits

(* A first allocation fails. *)
LEMMA FirstFailsStep ==
  ASSUME MemoryInv, todo = <<>>, todo' = <<>>, NEW used, Uses({used}), FirstFails(used)
  PROVE  MemoryInv'
<1>1. /\ heap' = heap /\ var' = var /\ temp' = Null
      /\ lost' = lost \cup (({used} \cap {temp}) \ {Null})
      /\ temp = Null \/ temp = used
  BY DEF FirstFails, Uses
<1>. DEFINE N == {}
<1>2. /\ N \in SUBSET (Blocks \ Allocated) /\ Allocated' = Allocated \cup N
      /\ \A c : c \notin N
  BY <1>1 DEF Allocated
<1>. HIDE DEF N
<1>3. Typed'
  BY <1>1, <1>2, TypedBlocksAdded DEF MemoryInv, Typed
<1>4. \A c \in Allocated' : Cardinality(NewFields(N, c)') = 0
  BY <1>2, NoNewFields, MemoryAssumption DEF Allocated
<1>5. \A c \in Allocated' :
        heap'[c].ref_count =
          (IF c \in N THEN 0 ELSE heap[c].ref_count) + Cardinality(NewFields(N, c)')
  <2>1. \A c \in Allocated : heap[c].ref_count \in Nat
    BY FewReferences DEF MemoryInv
  <2>. QED  BY <1>1, <1>2, <1>4, <2>1
<1>6. /\ \A c \in lost' : heap'[c].ref_count = 0
      /\ Null \notin lost' /\ lost \subseteq lost' /\ lost' \subseteq lost \cup {temp} \cup N
      /\ temp # Null => temp \in lost'
  BY <1>1, MemoryAssumption DEF MemoryInv, Unused, Allocated
<1>. QED
  BY <1>1, <1>2, <1>3, <1>5, <1>6, BlocksAdded

(* A second one fails. *)
LEMMA SecondFailsStep ==
  ASSUME MemoryInv, todo = <<>>, todo' = <<>>, NEW used, Uses({used}),
         NEW kind \in {"string", "array"}, SecondFails(kind, used)
  PROVE  MemoryInv'
<1>1. PICK b \in Blocks \ Allocated :
        /\ heap' = [heap EXCEPT ![b] = DAL_alloc(kind, TRUE, <<Null>>)]
        /\ lost' = lost \cup {b} \cup (({used} \cap {temp}) \ {Null})
  BY DEF SecondFails
<1>2. var' = var /\ temp' = Null /\ (temp = Null \/ temp = used)
  BY DEF SecondFails, Uses
<1>3. DAL_alloc(kind, TRUE, <<Null>>) \in Block
  <2>1. <<Null>> \in Seq(Pointers) /\ TRUE \in BOOLEAN
    BY DEF Pointers
  <2>. QED  BY <2>1, Allocation
<1>. DEFINE N == {b}
<1>4. /\ heap'[b] = DAL_alloc(kind, TRUE, <<Null>>)
      /\ \A c \in Allocated : heap'[c] = heap[c]
      /\ heap' \in [Blocks -> Block \cup {Free}]
      /\ N \in SUBSET (Blocks \ Allocated) /\ Allocated' = Allocated \cup N
  BY <1>1, <1>3, MemoryAssumption DEF MemoryInv, Typed, Allocated
<1>5. \A c \in N : /\ BlockTyped(c)' /\ heap'[c].fields = <<Null>>
                   /\ heap'[c].ref_count = 0
                   /\ \A i \in DOMAIN heap'[c].fields : FieldTyped(c, i)'
  <2>1. b \in lost' /\ heap'[b].fields = <<Null>> /\ heap'[b].kind = kind
    BY <1>1, <1>4 DEF DAL_alloc
  <2>2. ArrayTyped(b)'
    BY <2>1 DEF ArrayTyped
  <2>3. \A i \in DOMAIN heap'[b].fields : FieldTyped(b, i)'
    BY <2>1 DEF FieldTyped
  <2>4. BlockTyped(b)' /\ heap'[b].ref_count = 0
    BY <1>4, <2>1, <2>2 DEF BlockTyped, DAL_alloc
  <2>. QED  BY <2>1, <2>3, <2>4
<1>6. lost' = lost \cup N \cup (({used} \cap {temp}) \ {Null})
  BY <1>1
<1>. HIDE DEF N
<1>7. Typed'
  BY <1>2, <1>4, <1>5, <1>6, TypedBlocksAdded DEF MemoryInv
<1>8. \A c \in Allocated' : Cardinality(NewFields(N, c)') = 0
  BY <1>4, <1>5, NoNewFields, MemoryAssumption DEF Allocated
<1>9. \A c \in Allocated' :
        heap'[c].ref_count =
          (IF c \in N THEN 0 ELSE heap[c].ref_count) + Cardinality(NewFields(N, c)')
  <2>1. \A c \in Allocated : heap[c].ref_count \in Nat
    BY FewReferences DEF MemoryInv
  <2>. QED  BY <1>4, <1>5, <1>8, <2>1
<1>10. /\ \A c \in lost' : heap'[c].ref_count = 0
       /\ Null \notin lost' /\ lost \subseteq lost' /\ lost' \subseteq lost \cup {temp} \cup N
       /\ temp # Null => temp \in lost'
       /\ \A c \in N : c \in lost'
  BY <1>2, <1>4, <1>5, <1>6, MemoryAssumption DEF MemoryInv, Unused, Allocated, Is
<1>. QED
  BY <1>2, <1>4, <1>7, <1>9, <1>10, BlocksAdded

(* A string and its characters. *)
LEMMA String1Step ==
  ASSUME MemoryInv, todo = <<>>, todo' = <<>>, Construct_String1
  PROVE  MemoryInv'
<1>1. CASE SecondFails("string", Null) /\ Uses({})
  <2>1. Uses({Null})
    BY <1>1 DEF Uses
  <2>. QED  BY <1>1, <2>1, SecondFailsStep
<1>2. ASSUME NEW b \in Blocks \ Allocated, NEW data \in Blocks \ Allocated, b # data,
             heap' = DAL_incRef([heap EXCEPT
                                   ![b] = DAL_alloc("string", TRUE, <<data>>),
                                   ![data] = DAL_alloc("chars", FALSE, <<>>)], data),
             temp' = b, var' = var, lost' = lost, temp = Null
      PROVE  MemoryInv'
  <2>. DEFINE N == {b, data}
              h == [heap EXCEPT ![b] = DAL_alloc("string", TRUE, <<data>>),
                                ![data] = DAL_alloc("chars", FALSE, <<>>)]
  <2>1. b # data /\ temp' = b /\ var' = var /\ lost' = lost /\ temp = Null /\ data \in Blocks
    BY <1>2
  <2>2. DAL_alloc("string", TRUE, <<data>>) \in Block /\ DAL_alloc("chars", FALSE, <<>>) \in Block
    <3>1. <<data>> \in Seq(Pointers) /\ <<>> \in Seq(Pointers) /\ TRUE \in BOOLEAN /\ FALSE \in BOOLEAN
      BY DEF Pointers
    <3>. QED  BY <3>1, Allocation
  <2>3. /\ h \in [Blocks -> Block \cup {Free}]
        /\ h[b] \in Block /\ h[b].kind = "string" /\ h[b].contains_pointers
        /\ h[b].fields = <<data>> /\ h[b].ref_count = 0
        /\ h[data] \in Block /\ h[data].kind = "chars" /\ ~ h[data].contains_pointers
        /\ h[data].fields = <<>> /\ h[data].ref_count = 0
        /\ \A c \in Blocks : c # b /\ c # data => h[c] = heap[c]
    BY <1>2, <2>2 DEF MemoryInv, Typed, DAL_alloc
  <2>4. heap' = DAL_modRef_by_n(h, data, 1)
    BY <1>2, MemoryAssumption DEF DAL_incRef, h
  <2>. HIDE DEF h
  <2>5. /\ heap' \in [Blocks -> Block \cup {Free}]
        /\ \A c \in Blocks : c # data => heap'[c] = h[c]
        /\ heap'[data] \in Block /\ heap'[data].kind = "chars"
        /\ ~ heap'[data].contains_pointers /\ heap'[data].fields = <<>>
        /\ heap'[data].ref_count = 1
    <3>1. heap'[data].ref_count = (h[data].ref_count + 1) % CountMod
      BY <2>1, <2>3, <2>4, ModRef
    <3>2. heap'[data].ref_count = 1
      BY <2>3, <3>1, OneFits
    <3>. QED  BY <2>1, <2>3, <2>4, <3>2, ModRef
  <2>6. /\ heap'[b].kind = "string" /\ heap'[b].contains_pointers
        /\ heap'[b].fields = <<data>> /\ heap'[b].ref_count = 0 /\ heap'[b] \in Block
        /\ \A c \in Allocated : heap'[c] = heap[c] /\ c # data /\ c # b
    BY <2>1, <2>3, <2>5 DEF Allocated
  <2>7. N \in SUBSET (Blocks \ Allocated) /\ Allocated' = Allocated \cup N
    BY <2>1, <2>3, <2>5, <2>6, MemoryAssumption DEF Allocated
  <2>8. \A c \in N : BlockTyped(c)' /\ \A i \in DOMAIN heap'[c].fields : FieldTyped(c, i)'
    <3>1. BlockTyped(b)'
      BY <2>6 DEF BlockTyped
    <3>2. BlockTyped(data)' /\ DOMAIN heap'[data].fields = {}
      BY <2>5 DEF BlockTyped
    <3>3. Is(data, {"chars"})'
      BY <2>5, <2>7 DEF Is
    <3>4. FieldTyped(b, 1)' /\ DOMAIN heap'[b].fields = {1}
      BY <2>6, <3>3 DEF FieldTyped, Below
    <3>. QED  BY <3>1, <3>2, <3>4
  <2>9. /\ b \in N /\ data \in N /\ N \in SUBSET Blocks
        /\ \A c \in N : c = b \/ c = data
        /\ \A c \in N \ {b} : heap'[c].fields = <<>>
    BY <2>5
  <2>. HIDE DEF N
  <2>10. ASSUME NEW c \in Allocated'
         PROVE  Cardinality(NewFields(N, c)') = IF c = data THEN 1 ELSE 0
    BY <2>6, <2>9, OneNewField
  <2>11. Typed'
    BY <2>1, <2>5, <2>6, <2>7, <2>8, TypedBlocksAdded DEF MemoryInv
  <2>12. \A c \in Allocated' :
        heap'[c].ref_count =
          (IF c \in N THEN 0 ELSE heap[c].ref_count) + Cardinality(NewFields(N, c)')
    <3>1. \A c \in Allocated : heap[c].ref_count \in Nat
      BY FewReferences DEF MemoryInv
    <3>. QED  BY <2>1, <2>5, <2>6, <2>7, <2>9, <2>10, <3>1
  <2>13. \A c \in lost : c \in Allocated /\ heap[c].ref_count = 0
    BY DEF MemoryInv, Unused
  <2>14. /\ \A c \in lost : heap'[c].ref_count = 0
         /\ Null \notin lost /\ b \notin lost
         /\ \A c \in N : heap'[c].ref_count = 0 => c = temp'
    BY <2>1, <2>5, <2>6, <2>9, <2>13, MemoryAssumption DEF Allocated
  <2>. QED
    BY <2>1, <2>6, <2>7, <2>9, <2>11, <2>12, <2>14, BlocksAdded DEF Values
<1>. QED  BY <1>1, <1>2 DEF Construct_String1, Uses

(* An any, with what it holds. *)
LEMMA AnyTypeStep ==
  ASSUME MemoryInv, todo = <<>>, todo' = <<>>, NEW value \in Pointers,
         value # Null => Is(value, {"literal", "string", "array"}) /\ value \notin lost,
         Construct_AnyType(value)
  PROVE  MemoryInv'
<1>1. CASE FirstFails(value) /\ Uses({value})
  BY <1>1, FirstFailsStep
<1>2. ASSUME NEW b \in Blocks \ Allocated,
             heap' = DAL_incRef([heap EXCEPT
                       ![b] = DAL_alloc("any", TRUE, IF value = Null THEN <<>> ELSE <<value>>)],
                       value),
             temp' = b, var' = var, lost' = lost, temp = Null \/ temp = value
      PROVE  MemoryInv'
  <2>. DEFINE N == {b}
              fields == IF value = Null THEN <<>> ELSE <<value>>
              h == [heap EXCEPT ![b] = DAL_alloc("any", TRUE, fields)]
  <2>1. /\ temp' = b /\ var' = var /\ lost' = lost /\ (temp = Null \/ temp = value)
        /\ Null \notin Blocks /\ \A c \in Allocated : c # Null
        /\ value # Null => value \in Allocated /\ value \in Blocks /\ value # b
    BY <1>2, MemoryAssumption DEF Is, Allocated
  <2>2. DAL_alloc("any", TRUE, fields) \in Block
    <3>1. fields \in Seq(Pointers) /\ TRUE \in BOOLEAN
      OBVIOUS
    <3>. QED  BY <3>1, Allocation
  <2>3. /\ h \in [Blocks -> Block \cup {Free}]
        /\ h[b] \in Block /\ h[b].kind = "any" /\ h[b].contains_pointers
        /\ h[b].fields = fields /\ h[b].ref_count = 0
        /\ \A c \in Blocks : c # b => h[c] = heap[c]
    BY <1>2, <2>2 DEF MemoryInv, Typed, DAL_alloc
  <2>4. heap' = IF value = Null THEN h ELSE DAL_modRef_by_n(h, value, 1)
    BY <1>2 DEF DAL_incRef, h
  <2>. HIDE DEF h
  <2>5. value # Null => h[value] \in Block /\ h[value] = heap[value]
    BY <2>1, <2>3, AllocatedIs DEF MemoryInv
  <2>6. /\ heap' \in [Blocks -> Block \cup {Free}]
        /\ \A c \in Blocks : c # value => heap'[c] = h[c]
        /\ value # Null =>
             /\ heap'[value] \in Block
             /\ heap'[value].kind = h[value].kind /\ heap'[value].length = h[value].length
             /\ heap'[value].contains_pointers = h[value].contains_pointers
             /\ heap'[value].fields = h[value].fields
             /\ heap'[value].ref_count = (h[value].ref_count + 1) % CountMod
    BY <2>1, <2>3, <2>4, <2>5, ModRef
  <2>7. /\ heap'[b].kind = "any" /\ heap'[b].contains_pointers
        /\ heap'[b].fields = fields /\ heap'[b].ref_count = 0 /\ heap'[b] \in Block
        /\ \A c \in Allocated : c # value => heap'[c] = heap[c]
        /\ \A c \in Allocated : c # b
    BY <2>1, <2>3, <2>6 DEF Allocated
  <2>8. N \in SUBSET (Blocks \ Allocated) /\ Allocated' = Allocated \cup N
    BY <2>1, <2>3, <2>5, <2>6, <2>7, MemoryAssumption DEF Allocated
  <2>9. \A c \in N : BlockTyped(c)' /\ \A i \in DOMAIN heap'[c].fields : FieldTyped(c, i)'
    <3>1. Len(fields) <= 1
      OBVIOUS
    <3>2. BlockTyped(b)'
      BY <2>7, <3>1 DEF BlockTyped
    <3>3. CASE value = Null
      <4>1. DOMAIN heap'[b].fields = {}
        BY <2>7, <3>3
      <4>. QED  BY <3>2, <4>1
    <3>4. CASE value # Null
      <4>1. Is(value, {"literal", "string", "array"})'
        BY <2>1, <2>5, <2>6, <2>8, <3>4 DEF Is
      <4>2. FieldTyped(b, 1)' /\ DOMAIN heap'[b].fields = {1}
        BY <2>7, <3>4, <4>1 DEF FieldTyped, Below
      <4>. QED  BY <3>2, <4>2
    <3>. QED  BY <3>3, <3>4
  <2>10. /\ b \in N /\ N \in SUBSET Blocks
         /\ \A c \in N : c = b
    OBVIOUS
  <2>. HIDE DEF N
  <2>11. ASSUME NEW c \in Allocated'
         PROVE  Cardinality(NewFields(N, c)') = IF c = value THEN 1 ELSE 0
    <3>1. CASE value = Null
      <4>1. \A a \in N : heap'[a].fields = <<>>
        BY <2>7, <2>10, <3>1
      <4>2. c # Null
        BY <2>1, <2>11 DEF Allocated
      <4>3. Cardinality(NewFields(N, c)') = 0
        BY <4>1, <4>2, NoNewFields
      <4>. QED  BY <3>1, <4>2, <4>3
    <3>2. CASE value # Null
      <4>1. heap'[b].fields = <<value>> /\ \A a \in N \ {b} : heap'[a].fields = <<>>
        BY <2>7, <2>10, <3>2
      <4>. QED  BY <2>10, <4>1, OneNewField
    <3>. QED  BY <3>1, <3>2
  <2>12. Typed'
    <3>1. value # Null => heap[value].kind \notin {"chars", "data"}
      BY DEF Is
    <3>2. \A c \in Allocated :
            /\ heap'[c].kind = heap[c].kind /\ heap'[c].length = heap[c].length
            /\ heap'[c].contains_pointers = heap[c].contains_pointers
            /\ heap'[c].fields = heap[c].fields
            /\ heap[c].kind \in {"chars", "data"} => heap'[c].ref_count = heap[c].ref_count
      <4>1. ASSUME NEW c \in Allocated, c # value
            PROVE  heap'[c] = heap[c]
        BY <2>7, <4>1
      <4>. QED  BY <2>1, <2>5, <2>6, <3>1, <4>1
    <3>. QED  BY <2>1, <2>6, <2>8, <2>9, <3>2, TypedBlocksAdded DEF MemoryInv
  <2>13. \A c \in Allocated' :
           LET count == (IF c \in N THEN 0 ELSE heap[c].ref_count)
                          + Cardinality(NewFields(N, c)')
           IN heap'[c].ref_count \in {count, count % CountMod}
    <3>1. \A c \in Allocated : heap[c].ref_count \in Nat
      BY FewReferences DEF MemoryInv
    <3>2. ASSUME NEW c \in Allocated, c # value
          PROVE  c \notin N /\ heap'[c].ref_count = heap[c].ref_count + 0
      BY <2>7, <2>10, <3>1, <3>2
    <3>3. value # Null => /\ value \notin N
                          /\ heap'[value].ref_count = (heap[value].ref_count + 1) % CountMod
      BY <2>1, <2>5, <2>6, <2>10
    <3>4. value # b /\ heap'[b].ref_count = 0 + 0
      BY <2>1, <2>7
    <3>5. \A c \in Allocated :
            heap'[c].ref_count \in {heap[c].ref_count + (IF c = value THEN 1 ELSE 0),
                                   (heap[c].ref_count + (IF c = value THEN 1 ELSE 0)) % CountMod}
      BY <2>1, <3>2, <3>3, MemoryAssumption DEF Allocated
    <3>6. \A c \in N : c = b /\ c \notin Allocated
      BY <2>8, <2>10
    <3>. QED  BY <2>8, <2>11, <3>4, <3>5, <3>6
  <2>14. \A c \in lost : c \in Allocated /\ heap[c].ref_count = 0 /\ c # value
    BY <2>1 DEF MemoryInv, Unused, Allocated
  <2>15. /\ \A c \in lost : heap'[c].ref_count = 0
         /\ Null \notin lost /\ b \notin lost
         /\ \A c \in N : heap'[c].ref_count = 0 => c = temp'
    BY <2>1, <2>7, <2>10, <2>14 DEF Allocated
  <2>16. temp # Null => heap'[temp].ref_count > 0
    <3>1. temp # Null => temp = value /\ heap[temp].ref_count = 0
      BY <2>1 DEF MemoryInv, Unused
    <3>. QED  BY <2>5, <2>6, <3>1, OneFits
  <2>17. \A c \in Allocated : heap'[c].fields = heap[c].fields
    BY <2>1, <2>5, <2>6, <2>7
  <2>. QED
    BY <2>1, <2>7, <2>8, <2>10, <2>12, <2>13, <2>15, <2>16, <2>17, BlocksAdded DEF Values
<1>. QED  BY <1>1, <1>2 DEF Construct_AnyType, Uses

(* A sequence of n times x.                                                 *)
Repeated(s, n, x) == DOMAIN s = 1..n /\ \A i \in 1..n : s[i] = x

(* The fields of new blocks b and data, when b's is data and data's are all *)
(* init.                                                                    *)
LEMMA ArrayFields ==
  ASSUME NEW N \in SUBSET Blocks, NEW b \in N, NEW data \in N, b # data,
         \A c \in N : c = b \/ c = data,
         heap'[b].fields = <<data>>,
         NEW n \in Nat, n <= MaxLength + 1, NEW init, init # data,
         Repeated(heap'[data].fields, n, init), NEW x
  PROVE  Cardinality(NewFields(N, x)')
           = IF x = data THEN 1 ELSE IF x = init THEN n ELSE 0
<1>. USE DEF Repeated
<1>1. /\ \A i \in 1..n : i \in 1..(MaxLength + 1)
      /\ 1 \in 1..(MaxLength + 1)
  BY MemoryAssumption
<1>2. CASE x = data
  <2>1. NewFields(N, x)' = {<<b, 1>>}
    BY <1>1, <1>2 DEF NewFields, FieldPlaces
  <2>. QED  BY <1>2, <2>1, FS_Singleton
<1>3. CASE x # data /\ x = init
  <2>1. NewFields(N, x)' = {data} \X (1..n)
    BY <1>1, <1>3 DEF NewFields, FieldPlaces
  <2>2. IsFiniteSet(1..n) /\ Cardinality(1..n) = n
    <3>1. /\ 1 \in Int /\ n \in Int
          /\ (IF 1 > n THEN 0 ELSE n - 1 + 1) = n
      OBVIOUS
    <3>. QED  BY <3>1, FS_Interval
  <2>3. IsFiniteSet({data}) /\ Cardinality({data}) = 1
    BY FS_Singleton
  <2>4. Cardinality({data} \X (1..n)) = Cardinality({data}) * Cardinality(1..n)
    BY <2>2, <2>3, FS_Product
  <2>5. Cardinality({data} \X (1..n)) = n
    BY <2>2, <2>3, <2>4
  <2>. QED  BY <1>3, <2>1, <2>5
<1>4. CASE x # data /\ x # init
  <2>1. NewFields(N, x)' = {}
    BY <1>4 DEF NewFields, FieldPlaces
  <2>. QED  BY <1>4, <2>1, FS_EmptySet
<1>. QED  BY <1>2, <1>3, <1>4

(* An array, with its data. *)
LEMMA ArrayStep ==
  ASSUME MemoryInv, ShortArrays, todo = <<>>, todo' = <<>>,
         NEW length \in 0..MaxLength, NEW contains_pointers \in BOOLEAN,
         NEW init \in Pointers, contains_pointers \/ init = Null,
         init # Null => Is(init, {"literal", "string"}) /\ init \notin lost,
         Construct_Array(length, contains_pointers, init)
  PROVE  MemoryInv'
<1>. DEFINE n == ElementsCreated(length)
            elements == IF contains_pointers THEN [i \in 1..n |-> init] ELSE <<>>
            count == IF contains_pointers THEN n ELSE 0
<1>1. CASE FirstFails(init) /\ Uses({init})
  BY <1>1, FirstFailsStep
<1>2. CASE SecondFails("array", init) /\ Uses({init})
  BY <1>2, SecondFailsStep
<1>3. ASSUME NEW b \in Blocks \ Allocated, NEW data \in Blocks \ Allocated, b # data,
             NEW made,
             made = DAL_incRef([heap EXCEPT
               ![b] = [DAL_alloc("array", TRUE, <<data>>) EXCEPT !.length = length % LengthMod],
               ![data] = DAL_alloc("data", contains_pointers, elements)], data),
             heap' = IF init = Null THEN made ELSE DAL_modRef_by_n(made, init, n),
             temp' = b, var' = var, lost' = lost, temp = Null \/ temp = init
      PROVE  MemoryInv'
  <2>. DEFINE N == {b, data}
              block == [DAL_alloc("array", TRUE, <<data>>) EXCEPT !.length = length % LengthMod]
              h == [heap EXCEPT ![b] = block,
                                ![data] = DAL_alloc("data", contains_pointers, elements)]
  <2>1. /\ b # data /\ temp' = b /\ var' = var /\ lost' = lost /\ (temp = Null \/ temp = init)
        /\ Null \notin Blocks /\ \A c \in Allocated : c # Null /\ c # b /\ c # data
        /\ init # Null => init \in Allocated /\ init \in Blocks
        /\ init # b /\ init # data /\ data \in Blocks /\ b \in Blocks /\ data # Null
    BY <1>3, MemoryAssumption DEF Is, Allocated
  <2>2. /\ n \in Nat /\ n >= 1 /\ n <= MaxLength + 1 /\ length % LengthMod = length
        /\ n = (IF length = 0 THEN 1 ELSE length) /\ length \in 0..(LengthMod - 1)
    BY MemoryAssumption DEF ElementsCreated, ShortArrays
  <2>3. /\ elements \in Seq(Pointers) /\ Len(elements) = count /\ DOMAIN elements = 1..count
        /\ \A i \in 1..count : elements[i] = init
    BY <2>2
  <2>. HIDE DEF n, elements
  <2>4. block \in Block /\ DAL_alloc("data", contains_pointers, elements) \in Block
    <3>1. <<data>> \in Seq(Pointers) /\ TRUE \in BOOLEAN
      BY DEF Pointers
    <3>2. DAL_alloc("array", TRUE, <<data>>) \in Block
      BY <3>1, Allocation
    <3>3. block \in Block
      BY <2>2, <3>2 DEF Block
    <3>. QED  BY <2>3, <3>3, Allocation
  <2>5. /\ h \in [Blocks -> Block \cup {Free}]
        /\ h[b] \in Block /\ h[b].kind = "array" /\ h[b].contains_pointers
        /\ h[b].fields = <<data>> /\ h[b].ref_count = 0 /\ h[b].length = length
        /\ h[data] \in Block /\ h[data].kind = "data"
        /\ h[data].contains_pointers = contains_pointers
        /\ h[data].fields = elements /\ h[data].ref_count = 0
        /\ \A c \in Blocks : c # b /\ c # data => h[c] = heap[c]
    BY <1>3, <2>2, <2>4 DEF MemoryInv, Typed, DAL_alloc
  <2>6. made = DAL_modRef_by_n(h, data, 1)
    BY <1>3, MemoryAssumption DEF DAL_incRef, h
  <2>. HIDE DEF h
  <2>7. /\ made \in [Blocks -> Block \cup {Free}]
        /\ \A c \in Blocks : c # data => made[c] = h[c]
        /\ made[data] \in Block /\ made[data].kind = "data"
        /\ made[data].contains_pointers = contains_pointers
        /\ made[data].fields = elements /\ made[data].ref_count = 1
    <3>1. made[data].ref_count = (h[data].ref_count + 1) % CountMod
      BY <2>1, <2>5, <2>6, ModRef
    <3>2. made[data].ref_count = 1
      BY <2>5, <3>1, OneFits
    <3>. QED  BY <2>1, <2>5, <2>6, <3>2, ModRef
  <2>8. init # Null => made[init] \in Block /\ made[init] = heap[init]
    BY <2>1, <2>5, <2>7, AllocatedIs DEF MemoryInv
  <2>9. heap' = IF init = Null THEN made ELSE DAL_modRef_by_n(made, init, n)
    BY <1>3
  <2>10. /\ heap' \in [Blocks -> Block \cup {Free}]
         /\ \A c \in Blocks : c # init => heap'[c] = made[c]
         /\ init # Null =>
              /\ heap'[init] \in Block
              /\ heap'[init].kind = made[init].kind /\ heap'[init].length = made[init].length
              /\ heap'[init].contains_pointers = made[init].contains_pointers
              /\ heap'[init].fields = made[init].fields
              /\ heap'[init].ref_count = (made[init].ref_count + n) % CountMod
    BY <2>1, <2>2, <2>7, <2>8, <2>9, ModRef
  <2>11. /\ heap'[b].kind = "array" /\ heap'[b].contains_pointers
         /\ heap'[b].fields = <<data>> /\ heap'[b].ref_count = 0 /\ heap'[b].length = length
         /\ heap'[b] \in Block
         /\ heap'[data] \in Block /\ heap'[data].kind = "data"
         /\ heap'[data].contains_pointers = contains_pointers
         /\ heap'[data].fields = elements /\ heap'[data].ref_count = 1
    BY <2>1, <2>5, <2>7, <2>10
  <2>12. \A c \in Allocated : c # init => heap'[c] = heap[c]
    BY <2>1, <2>5, <2>7, <2>10 DEF Allocated
  <2>13. N \in SUBSET (Blocks \ Allocated) /\ Allocated' = Allocated \cup N
    BY <2>1, <2>5, <2>7, <2>8, <2>10, <2>11, MemoryAssumption DEF Allocated
  <2>14. \A c \in Allocated :
           /\ heap'[c].kind = heap[c].kind /\ heap'[c].length = heap[c].length
           /\ heap'[c].contains_pointers = heap[c].contains_pointers
           /\ heap'[c].fields = heap[c].fields
           /\ heap[c].kind \in {"chars", "data"} => heap'[c].ref_count = heap[c].ref_count
    <3>1. init # Null => heap[init].kind \notin {"chars", "data"}
      BY DEF Is
    <3>. QED  BY <2>1, <2>8, <2>10, <2>12, <3>1
  <2>15. \A c \in N : BlockTyped(c)' /\ \A i \in DOMAIN heap'[c].fields : FieldTyped(c, i)'
    <3>1. Is(data, {"data"})' /\ DataOf(b)' = data
      BY <2>11, <2>13 DEF Is, DataOf
    <3>2. contains_pointers => Len(heap'[data].fields) = ElementsDropped(b)'
      BY <2>2, <2>3, <2>11 DEF ElementsDropped
    <3>3. ArrayTyped(b)'
      BY <2>11, <3>1, <3>2 DEF ArrayTyped, OfPointers
    <3>4. DataTyped(data)'
      <4>1. CASE contains_pointers
        <5>1. Len(elements) = n /\ elements # <<>>
          BY <2>2, <2>3, <4>1
        <5>. QED  BY <2>2, <2>11, <4>1, <5>1 DEF DataTyped
      <4>2. CASE ~ contains_pointers
        <5>1. Len(elements) = 0 /\ elements = <<>>
          BY <2>3, <4>2
        <5>. QED  BY <2>11, <4>2, <5>1, MemoryAssumption DEF DataTyped
      <4>. QED  BY <4>1, <4>2
    <3>5. BlockTyped(b)' /\ BlockTyped(data)'
      BY <2>11, <3>3, <3>4 DEF BlockTyped
    <3>6. FieldTyped(b, 1)' /\ DOMAIN heap'[b].fields = {1}
      BY <2>11, <3>1 DEF FieldTyped, Below
    <3>7. init # Null => Is(init, {"literal", "string"})'
      BY <2>1, <2>13, <2>14 DEF Is
    <3>8. \A i \in DOMAIN heap'[data].fields : FieldTyped(data, i)'
      BY <2>3, <2>11, <3>7 DEF FieldTyped, Below
    <3>. QED  BY <3>5, <3>6, <3>8
  <2>16. /\ b \in N /\ data \in N /\ N \in SUBSET Blocks /\ N = {b, data}
         /\ \A c \in N : c = b \/ c = data
    BY <2>1
  <2>. HIDE DEF N
  <2>17. count \in Nat /\ count <= MaxLength + 1 /\ (init # Null => count = n)
    BY <2>2, MemoryAssumption
  <2>18. DOMAIN elements = 1..count /\ \A i \in 1..count : elements[i] = init
    BY <2>3
  <2>. HIDE DEF count
  <2>19. ASSUME NEW c \in Allocated'
         PROVE  Cardinality(NewFields(N, c)')
                  = IF c = data THEN 1 ELSE IF c = init THEN count ELSE 0
    <3>1. Repeated(heap'[data].fields, count, init) /\ heap'[b].fields = <<data>>
      BY <2>11, <2>18 DEF Repeated
    <3>. QED  BY <2>1, <2>16, <2>17, <3>1, ArrayFields
  <2>20. Typed'
    BY <2>1, <2>10, <2>13, <2>14, <2>15, TypedBlocksAdded DEF MemoryInv
  <2>21. \A c \in Allocated' :
           LET total == (IF c \in N THEN 0 ELSE heap[c].ref_count)
                          + Cardinality(NewFields(N, c)')
           IN heap'[c].ref_count \in {total, total % CountMod}
    <3>1. \A c \in Allocated : heap[c].ref_count \in Nat
      BY FewReferences DEF MemoryInv
    <3>2. ASSUME NEW c \in Allocated, c # init
          PROVE  heap'[c].ref_count = heap[c].ref_count + 0
      BY <2>12, <3>1, <3>2
    <3>3. init # Null => heap'[init].ref_count = (heap[init].ref_count + count) % CountMod
      BY <2>8, <2>10, <2>17
    <3>4. ASSUME NEW c \in Allocated
          PROVE  /\ c \notin N
                 /\ heap'[c].ref_count \in {heap[c].ref_count + (IF c = init THEN count ELSE 0),
                       (heap[c].ref_count + (IF c = init THEN count ELSE 0)) % CountMod}
      BY <2>1, <2>13, <3>2, <3>3
    <3>5. \A c \in Allocated : Cardinality(NewFields(N, c)') = IF c = init THEN count ELSE 0
      BY <2>1, <2>13, <2>19
    <3>6. /\ Cardinality(NewFields(N, b)') = 0 /\ heap'[b].ref_count = 0 + 0
          /\ Cardinality(NewFields(N, data)') = 1 /\ heap'[data].ref_count = 0 + 1
      <4>1. b \in Allocated' /\ data \in Allocated' /\ b # data /\ b # init
        BY <2>1, <2>13, <2>16
      <4>. QED  BY <2>11, <2>19, <4>1
    <3>. QED  BY ZenonT(30), <2>13, <2>16, <3>4, <3>5, <3>6
  <2>22. \A c \in lost : c \in Allocated /\ heap[c].ref_count = 0 /\ c # init
    BY <2>1 DEF MemoryInv, Unused, Allocated
  <2>23. /\ \A c \in lost : heap'[c].ref_count = 0
         /\ Null \notin lost /\ b \notin lost
         /\ \A c \in N : heap'[c].ref_count = 0 => c = temp'
    BY <2>1, <2>11, <2>12, <2>16, <2>22
  <2>24. \A c \in Allocated : heap'[c].fields = heap[c].fields
    BY <2>14
  <2>25. temp # Null => heap'[temp].ref_count > 0
    <3>1. temp # Null => temp = init /\ heap[temp].ref_count = 0
      BY <2>1 DEF MemoryInv, Unused
    <3>2. init # Null => n <= MaxReferences
      <4>1. SUFFICES ASSUME init # Null
                     PROVE  n <= MaxReferences
        OBVIOUS
      <4>2. /\ References(init)' = References(init) + Cardinality(NewFields(N, init)')
            /\ References(init) \in Nat /\ References(init)' <= MaxReferences
        BY <2>1, <2>13, <2>24, ReferencesAdded DEF MemoryInv
      <4>3. Cardinality(NewFields(N, init)') = n
        BY <2>1, <2>13, <2>17, <2>19, <4>1
      <4>. QED  BY <2>2, <4>2, <4>3, OneFits
    <3>3. init # Null => n % CountMod = n
      BY <2>2, <3>2, CountFits
    <3>. QED  BY <2>2, <2>8, <2>10, <3>1, <3>3
  <2>. QED
    BY <2>1, <2>11, <2>13, <2>16, <2>20, <2>21, <2>23, <2>24, <2>25, BlocksAdded DEF Values
<1>. QED  BY <1>1, <1>2, <1>3 DEF Construct_Array, Uses

-----------------------------------------------------------------------------
(* Calls *)

(* A pointer's place in its block. *)
LEMMA FieldIndex ==
  ASSUME Typed, NEW c \in Allocated, NEW i \in DOMAIN heap[c].fields
  PROVE  /\ c \in Blocks /\ heap[c] \in Block /\ heap[c].fields \in Seq(Pointers)
         /\ i \in 1..(MaxLength + 1) /\ <<c, i>> \in FieldPlaces
         /\ heap[c].fields # <<>>
<1>1. c \in Blocks /\ heap[c] \in Block /\ BlockTyped(c)
  BY AllocatedIs DEF Typed
<1>2. heap[c].fields \in Seq(Pointers) /\ Len(heap[c].fields) \in Nat
  BY <1>1 DEF Block
<1>3. i \in 1..Len(heap[c].fields) /\ heap[c].fields # <<>>
  BY <1>2
<1>4. Len(heap[c].fields) <= MaxLength + 1
  <2>1. CASE heap[c].kind \in {"literal", "chars"}
    BY <1>1, <1>3, <2>1 DEF BlockTyped
  <2>2. CASE heap[c].kind \in {"string", "array", "any"}
    BY <1>1, <1>2, <2>2, MemoryAssumption DEF BlockTyped
  <2>3. CASE heap[c].kind = "data"
    BY <1>1, <2>3 DEF BlockTyped, DataTyped
  <2>. QED  BY <1>1, <2>1, <2>2, <2>3 DEF Block
<1>. QED  BY <1>1, <1>2, <1>3, <1>4, MemoryAssumption DEF FieldPlaces

(* A pointer that is not about to be overwritten is one of the references.  *)
LEMMA FieldRefers ==
  ASSUME Typed, NEW c \in Allocated, NEW i \in DOMAIN heap[c].fields,
         ~ Overwritten(<<c, i>>)
  PROVE  <<c, i>> \in FieldsTo(heap[c].fields[i])
BY FieldIndex DEF FieldsTo

(* The calls to be made after the next one made way for the calls D.        *)
LEMMA Shifted ==
  ASSUME NEW D \in Seq(Entry), todo \in Seq(Entry), todo # <<>>, todo' = D \o Tail(todo)
  PROVE  /\ todo' \in Seq(Entry) /\ Len(todo') = Len(D) + Len(todo) - 1
         /\ Len(D) \in Nat /\ Len(todo) \in Nat /\ 1 \in DOMAIN todo
         /\ DOMAIN todo = 1..Len(todo)
         /\ \A k \in DOMAIN D : k \in DOMAIN todo' /\ todo'[k] = D[k]
         /\ \A k \in DOMAIN todo : k > 1 =>
              /\ (k - 1) + Len(D) \in DOMAIN todo'
              /\ todo'[(k - 1) + Len(D)] = todo[k]
         /\ \A k \in DOMAIN todo' :
              \/ k \in DOMAIN D /\ todo'[k] = D[k]
              \/ \E j \in DOMAIN todo : j > 1 /\ k = (j - 1) + Len(D) /\ todo'[k] = todo[j]
<1>1. /\ Len(D) \in Nat /\ Len(todo) \in Nat /\ Len(todo) >= 1
      /\ Tail(todo) \in Seq(Entry) /\ Len(Tail(todo)) = Len(todo) - 1
      /\ \A k \in 1..(Len(todo) - 1) : Tail(todo)[k] = todo[k + 1]
      /\ DOMAIN D = 1..Len(D) /\ DOMAIN todo = 1..Len(todo)
  OBVIOUS
<1>2. /\ todo' \in Seq(Entry) /\ Len(todo') = Len(D) + (Len(todo) - 1)
      /\ DOMAIN todo' = 1..(Len(D) + (Len(todo) - 1))
      /\ \A k \in 1..(Len(D) + (Len(todo) - 1)) :
           todo'[k] = IF k <= Len(D) THEN D[k] ELSE Tail(todo)[k - Len(D)]
  BY <1>1
<1>3. ASSUME NEW k \in DOMAIN todo, k > 1
      PROVE  (k - 1) + Len(D) \in DOMAIN todo' /\ todo'[(k - 1) + Len(D)] = todo[k]
  <2>1. /\ (k - 1) + Len(D) \in 1..(Len(D) + (Len(todo) - 1))
        /\ (k - 1) + Len(D) > Len(D) /\ ((k - 1) + Len(D)) - Len(D) = k - 1
        /\ k - 1 \in 1..(Len(todo) - 1) /\ (k - 1) + 1 = k
    BY <1>1, <1>3
  <2>. QED  BY <1>1, <1>2, <2>1
<1>4. ASSUME NEW k \in DOMAIN todo', k > Len(D)
      PROVE  \E j \in DOMAIN todo : j > 1 /\ k = (j - 1) + Len(D) /\ todo'[k] = todo[j]
  <2>. DEFINE j == k - Len(D) + 1
  <2>1. j \in DOMAIN todo /\ j > 1 /\ k = (j - 1) + Len(D)
    BY <1>1, <1>2, <1>4
  <2>. HIDE DEF j
  <2>. QED  BY <1>3, <2>1
<1>5. \A k \in DOMAIN D : k \in DOMAIN todo' /\ todo'[k] = D[k]
  BY <1>1, <1>2
<1>6. \A k \in DOMAIN todo' : k \in DOMAIN D \/ k > Len(D)
  BY <1>1, <1>2
<1>7. Len(todo') = Len(D) + Len(todo) - 1 /\ 1 \in DOMAIN todo
  BY <1>1, <1>2
<1>. QED  BY <1>1, <1>2, <1>3, <1>4, <1>5, <1>6, <1>7

(* A call may leave a block as it is, clear its flag, or take its last      *)
(* reference and its pointers.                                              *)
Kept(c) ==
  /\ c \in Allocated' /\ heap'[c].kind = heap[c].kind
  /\ heap'[c].contains_pointers => heap[c].contains_pointers
  /\ heap[c].fields = <<>> => heap'[c].fields = <<>>
  /\ heap[c].ref_count = 0 => heap'[c].ref_count = 0

(* The block of a place about to be overwritten stays as it is. *)
PlaceKept(place) ==
  Len(place) = 2 => /\ place[1] \in Allocated' /\ heap'[place[1]].kind = "data"
                    /\ heap'[place[1]].contains_pointers
                    /\ heap'[place[1]].fields = heap[place[1]].fields

(* The calls that remain are about blocks that remain. *)
Remaining(gone) ==
  /\ \A c \in Allocated : c \notin gone => Kept(c)
  /\ \A k \in DOMAIN todo : k > 1 =>
       /\ todo[k][1] # "store" /\ todo[k][2] # Null => todo[k][2] \notin gone
       /\ todo[k][1] = "store" =>
            PlaceKept(todo[k][2]) /\ (todo[k][3] # Null => todo[k][3] \notin gone)
  /\ todo[1][1] = "clear" => ~ heap'[todo[1][2]].contains_pointers

(* The calls D that come first leave the others alone. *)
Apart(D) ==
  \A j \in DOMAIN D, k \in DOMAIN todo :
    /\ todo[k][1] = "free" => D[j] # todo[k]
    /\ todo[k][1] = "store" /\ D[j][2] # Null =>
         /\ D[j][2] # todo[k][3]
         /\ \A kind \in PlaceKinds(todo[k][2]) : Rank(heap'[D[j][2]].kind) <= Rank(kind)

CallsTyped(D) ==
  \A k \in DOMAIN D :
    /\ D[k][1] = "decRef" => DropTyped(k)'
    /\ D[k][1] = "clear" => ClearTyped(k)'
    /\ D[k][1] = "free" => FreeTyped(k)'
    /\ D[k][1] # "store"

(* Then all of them are as they must be. *)
LEMMA TailTyped ==
  ASSUME TodoTyped, todo # <<>>, todo[1][1] # "store", lost' = lost,
         NEW D \in Seq(Entry), todo' = D \o Tail(todo),
         NEW gone, Remaining(gone), Apart(D), CallsTyped(D)
  PROVE  TodoTyped'
<1>1. todo \in Seq(Entry)
  BY DEF TodoTyped
<1>2. /\ todo' \in Seq(Entry) /\ Len(todo') = Len(D) + Len(todo) - 1
      /\ Len(D) \in Nat /\ Len(todo) \in Nat /\ 1 \in DOMAIN todo
      /\ DOMAIN todo = 1..Len(todo)
      /\ \A k \in DOMAIN D : k \in DOMAIN todo' /\ todo'[k] = D[k]
      /\ \A k \in DOMAIN todo : k > 1 =>
           /\ (k - 1) + Len(D) \in DOMAIN todo'
           /\ todo'[(k - 1) + Len(D)] = todo[k]
      /\ \A k \in DOMAIN todo' :
           \/ k \in DOMAIN D /\ todo'[k] = D[k]
           \/ \E j \in DOMAIN todo : j > 1 /\ k = (j - 1) + Len(D) /\ todo'[k] = todo[j]
  BY <1>1, Shifted
<1>3. ASSUME NEW k \in DOMAIN D
      PROVE  /\ todo'[k][1] = "decRef" => DropTyped(k)'
             /\ todo'[k][1] = "clear" => ClearTyped(k)'
             /\ todo'[k][1] = "free" => FreeTyped(k)'
             /\ todo'[k][1] = "store" => StoreTyped(k)'
  BY <1>2 DEF CallsTyped
<1>4. ASSUME NEW k \in DOMAIN todo', NEW j \in DOMAIN todo, j > 1,
             k = (j - 1) + Len(D), todo'[k] = todo[j]
      PROVE  /\ todo'[k][1] = "decRef" => DropTyped(k)'
             /\ todo'[k][1] = "clear" => ClearTyped(k)'
             /\ todo'[k][1] = "free" => FreeTyped(k)'
             /\ todo'[k][1] = "store" => StoreTyped(k)'
  <2>0. /\ j \in Nat /\ k \in Nat /\ Len(D) \in Nat /\ Len(todo) \in Nat
        /\ DOMAIN todo = 1..Len(todo) /\ j > 1 /\ k = (j - 1) + Len(D)
    BY SMTT(30), <1>2, <1>4
  <2>1. ASSUME todo'[k][1] = "decRef"
        PROVE  DropTyped(k)'
    <3>. SUFFICES ASSUME todo[j][2] # Null
                  PROVE  DropTyped(k)'
      BY <1>4 DEF DropTyped
    <3>0. DropTyped(j)
      BY <1>4, <2>1 DEF TodoTyped
    <3>1. DropTyped(j) /\ todo[j][2] \in Allocated /\ Kept(todo[j][2])
      BY <1>4, <2>1, <3>0 DEF DropTyped, Remaining
    <3>2. ASSUME heap'[todo[j][2]].kind = "data", heap'[todo[j][2]].contains_pointers
          PROVE  k > 1 /\ todo'[k - 1] = <<"clear", todo[j][2]>>
      <4>1. todo[j - 1] = <<"clear", todo[j][2]>>
        BY <3>1, <3>2 DEF DropTyped, Kept
      <4>2. j # 2
        BY <3>2, <4>1 DEF Remaining
      <4>3. j - 1 \in DOMAIN todo /\ j - 1 > 1 /\ ((j - 1) - 1) + Len(D) = k - 1
        BY <2>0, <4>2
      <4>4. todo'[((j - 1) - 1) + Len(D)] = todo[j - 1]
        BY <1>2, <4>3
      <4>5. k > 1
        BY <2>0, <4>2
      <4>. QED  BY <4>1, <4>3, <4>4, <4>5
    <3>. QED  BY <1>4, <3>1, <3>2 DEF DropTyped, Kept
  <2>2. ASSUME todo'[k][1] = "clear"
        PROVE  ClearTyped(k)'
    <3>1. ClearTyped(j)
      BY <1>4, <2>2 DEF TodoTyped
    <3>2. todo[j] \in Entry
      BY <1>1
    <3>3. todo[j][2] # Null /\ Kept(todo[j][2])
      <4>1. todo[j][2] \in Allocated /\ todo[j][2] # Null
        BY <3>1, MemoryAssumption DEF ClearTyped, Is, Allocated
      <4>. QED  BY <1>4, <2>2, <4>1 DEF Remaining
    <3>4. j + 1 \in DOMAIN todo /\ ((j + 1) - 1) + Len(D) = k + 1 /\ j + 1 > 1
      <4>1. j < Len(todo)
        BY <3>1 DEF ClearTyped
      <4>. QED  BY <2>0, <4>1
    <3>5. k + 1 \in DOMAIN todo' /\ todo'[k + 1] = todo[j + 1]
      BY <1>2, <3>4
    <3>6. k < Len(todo')
      <4>1. j < Len(todo)
        BY <3>1 DEF ClearTyped
      <4>. QED  BY <1>2, <1>4, <2>0, <4>1
    <3>. QED  BY <1>4, <3>1, <3>3, <3>5, <3>6 DEF ClearTyped, Is, Kept
  <2>3. ASSUME todo'[k][1] = "free"
        PROVE  FreeTyped(k)'
    <3>1. FreeTyped(j)
      BY <1>4, <2>3 DEF TodoTyped
    <3>2. todo[j][2] # Null /\ Kept(todo[j][2])
      <4>1. todo[j][2] \in Allocated /\ todo[j][2] # Null
        BY <3>1, MemoryAssumption DEF FreeTyped, Allocated
      <4>. QED  BY <1>4, <2>3, <4>1 DEF Remaining
    <3>3. ASSUME NEW i \in DOMAIN todo', todo'[i] = todo'[k]
          PROVE  i = k
      <4>1. ~ (i \in DOMAIN D /\ todo'[i] = D[i])
        BY SMTT(30), <1>4, <2>3, <3>3 DEF Apart
      <4>2. PICK l \in DOMAIN todo : l > 1 /\ i = (l - 1) + Len(D) /\ todo'[i] = todo[l]
        BY SMTT(30), <1>2, <4>1
      <4>3. l = j
        BY <1>4, <3>1, <3>3, <4>2 DEF FreeTyped
      <4>. QED  BY <1>4, <4>2, <4>3
    <3>. QED  BY <1>4, <3>1, <3>2, <3>3 DEF FreeTyped, Kept
  <2>4. ASSUME todo'[k][1] = "store"
        PROVE  StoreTyped(k)'
    <3>0. todo[j] \in Entry
      BY <1>1
    <3>1. PICK place, new : todo[j] = <<"store", place, new>>
      BY <1>4, <2>4, <3>0 DEF Entry
    <3>2. /\ todo[j][1] = "store" /\ todo[j][2] = place /\ todo[j][3] = new
          /\ todo'[k][2] = place /\ todo'[k][3] = new
      BY <1>4, <3>1
    <3>3. /\ StoreTyped(j) /\ PlaceKept(place) /\ (new # Null => new \notin gone)
      BY <1>4, <3>2 DEF TodoTyped, Remaining
    <3>4. /\ j = Len(todo)
          /\ Len(place) = 2 =>
               /\ Is(place[1], {"data"}) /\ heap[place[1]].contains_pointers
               /\ place[2] \in DOMAIN heap[place[1]].fields
          /\ new # Null => Is(new, PlaceKinds(place)) /\ new \notin lost
          /\ \A i \in DOMAIN todo :
               i # j /\ todo[i][2] # Null =>
                 /\ todo[i][2] # new
                 /\ \A kind \in PlaceKinds(place) :
                      Rank(heap[todo[i][2]].kind) <= Rank(kind)
      BY <3>2, <3>3 DEF StoreTyped
    <3>5. k = Len(todo')
      BY <1>2, <2>0, <3>4
    <3>6. Len(place) = 2 =>
            /\ Is(place[1], {"data"})' /\ heap'[place[1]].contains_pointers
            /\ place[2] \in DOMAIN heap'[place[1]].fields
      BY <3>3, <3>4 DEF PlaceKept, Is
    <3>7. new # Null => Is(new, PlaceKinds(place))' /\ new \notin lost'
      BY <3>3, <3>4 DEF Kept, Is, Remaining
    <3>8. ASSUME NEW i \in DOMAIN todo', i # k, todo'[i][2] # Null
          PROVE  /\ todo'[i][2] # new
                 /\ \A kind \in PlaceKinds(place) : Rank(heap'[todo'[i][2]].kind) <= Rank(kind)
      <4>1. CASE i \in DOMAIN D /\ todo'[i] = D[i]
        BY <3>2, <3>8, <4>1 DEF Apart
      <4>2. ASSUME NEW l \in DOMAIN todo, l > 1, i = (l - 1) + Len(D), todo'[i] = todo[l]
            PROVE  /\ todo'[i][2] # new
                   /\ \A kind \in PlaceKinds(place) : Rank(heap'[todo'[i][2]].kind) <= Rank(kind)
        <5>1. l # j
          BY <1>4, <3>8, <4>2
        <5>2. todo[l][1] = "store" => StoreTyped(l)
          BY DEF TodoTyped
        <5>3. todo[l][1] # "store"
          BY <3>4, <5>1, <5>2 DEF StoreTyped
        <5>4. todo[l] \in Entry
          BY <1>1
        <5>5. todo[l][1] \in {"decRef", "clear", "free"}
          BY <5>3, <5>4 DEF Entry
        <5>6. todo[l][2] \in Allocated
          <6>1. /\ todo[l][1] = "decRef" => DropTyped(l)
                /\ todo[l][1] = "clear" => ClearTyped(l)
                /\ todo[l][1] = "free" => FreeTyped(l)
            BY DEF TodoTyped
          <6>. QED  BY <3>8, <4>2, <5>5, <6>1 DEF DropTyped, ClearTyped, FreeTyped, Is
        <5>7. heap'[todo[l][2]].kind = heap[todo[l][2]].kind
          BY <3>8, <4>2, <5>3, <5>6 DEF Kept, Remaining
        <5>. QED  BY <3>4, <3>8, <4>2, <5>1, <5>7
      <4>. QED  BY <1>2, <4>1, <4>2
    <3>. QED  BY <3>2, <3>5, <3>6, <3>7, <3>8 DEF StoreTyped
  <2>. QED  BY <2>1, <2>2, <2>3, <2>4
<1>. QED  BY <1>2, <1>3, <1>4 DEF TodoTyped

(* What is to be called afterwards is among D, or was to be called before.  *)
LEMMA Entries ==
  ASSUME TodoTyped, todo # <<>>, NEW D \in Seq(Entry), todo' = D \o Tail(todo), NEW e
  PROVE  /\ (\E k \in DOMAIN todo' : todo'[k] = e) <=>
              \/ \E j \in DOMAIN D : D[j] = e
              \/ \E k \in DOMAIN todo : k > 1 /\ todo[k] = e
         /\ Cardinality(Occurrences(todo', e))
              = (Cardinality(Occurrences(D, e)) + Cardinality(Occurrences(todo, e)))
                  - (IF todo[1] = e THEN 1 ELSE 0)
<1>1. todo \in Seq(Entry) /\ Tail(todo) \in Seq(Entry)
  BY DEF TodoTyped
<1>2. (\E k \in DOMAIN todo' : todo'[k] = e) <=>
        \/ \E j \in DOMAIN D : D[j] = e
        \/ \E k \in DOMAIN todo : k > 1 /\ todo[k] = e
  <2>1. /\ \A k \in DOMAIN D : k \in DOMAIN todo' /\ todo'[k] = D[k]
        /\ \A k \in DOMAIN todo : k > 1 =>
             /\ (k - 1) + Len(D) \in DOMAIN todo'
             /\ todo'[(k - 1) + Len(D)] = todo[k]
        /\ \A k \in DOMAIN todo' :
             \/ k \in DOMAIN D /\ todo'[k] = D[k]
             \/ \E j \in DOMAIN todo : j > 1 /\ k = (j - 1) + Len(D) /\ todo'[k] = todo[j]
    BY <1>1, Shifted
  <2>2. ASSUME NEW k \in DOMAIN todo', todo'[k] = e
        PROVE  \/ \E j \in DOMAIN D : D[j] = e
               \/ \E j \in DOMAIN todo : j > 1 /\ todo[j] = e
    BY <2>1, <2>2
  <2>3. ASSUME NEW j \in DOMAIN D, D[j] = e
        PROVE  \E k \in DOMAIN todo' : todo'[k] = e
    BY <2>1, <2>3
  <2>4. ASSUME NEW j \in DOMAIN todo, j > 1, todo[j] = e
        PROVE  \E k \in DOMAIN todo' : todo'[k] = e
    BY <2>1, <2>4
  <2>. QED  BY <2>2, <2>3, <2>4
<1>3. /\ Cardinality(Occurrences(todo', e))
           = Cardinality(Occurrences(D, e)) + Cardinality(Occurrences(Tail(todo), e))
      /\ Cardinality(Occurrences(todo, e))
           = (IF todo[1] = e THEN 1 ELSE 0) + Cardinality(Occurrences(Tail(todo), e))
  BY ZenonT(30), <1>1, OccurrencesConcat, OccurrencesTail
<1>4. /\ Cardinality(Occurrences(D, e)) \in Nat
      /\ Cardinality(Occurrences(Tail(todo), e)) \in Nat
  BY <1>1, OccurrencesFinite
<1>5. Cardinality(Occurrences(todo', e))
        = (Cardinality(Occurrences(D, e)) + Cardinality(Occurrences(todo, e)))
            - (IF todo[1] = e THEN 1 ELSE 0)
  <2>1. CASE todo[1] = e
    BY <1>3, <1>4, <2>1
  <2>2. CASE todo[1] # e
    BY <1>3, <1>4, <2>2
  <2>. QED  BY <2>1, <2>2
<1>. QED  BY <1>2, <1>5

(* No call but Store touches what is about to be overwritten. *)
LEMMA OverwrittenKept ==
  ASSUME TodoTyped, todo # <<>>, todo[1][1] # "store", NEW D \in Seq(Entry),
         todo' = D \o Tail(todo), \A j \in DOMAIN D : D[j][1] # "store"
  PROVE  \A place : Overwritten(place)' <=> Overwritten(place)
<1>. SUFFICES ASSUME NEW place
              PROVE  Overwritten(place)' <=> Overwritten(place)
  OBVIOUS
<1>1. todo \in Seq(Entry)
  BY DEF TodoTyped
<1>2. /\ \A k \in DOMAIN todo : k > 1 =>
           /\ (k - 1) + Len(D) \in DOMAIN todo'
           /\ todo'[(k - 1) + Len(D)] = todo[k]
      /\ \A k \in DOMAIN todo' :
           \/ k \in DOMAIN D /\ todo'[k] = D[k]
           \/ \E j \in DOMAIN todo : j > 1 /\ k = (j - 1) + Len(D) /\ todo'[k] = todo[j]
      /\ DOMAIN todo = 1..Len(todo) /\ Len(todo) \in Nat
  BY <1>1, Shifted
<1>3. ASSUME Overwritten(place)
      PROVE  Overwritten(place)'
  <2>1. PICK k \in DOMAIN todo : todo[k][1] = "store" /\ todo[k][2] = place
    BY <1>3 DEF Overwritten
  <2>2. k > 1
    BY <1>2, <2>1
  <2>. QED  BY SMTT(30), <1>2, <2>1, <2>2 DEF Overwritten
<1>4. ASSUME Overwritten(place)'
      PROVE  Overwritten(place)
  <2>1. PICK k \in DOMAIN todo' : todo'[k][1] = "store" /\ todo'[k][2] = place
    BY <1>4 DEF Overwritten
  <2>. QED  BY SMTT(30), <1>2, <2>1 DEF Overwritten
<1>. QED  BY <1>3, <1>4

(* If the blocks keep their pointers, and nothing they may lack turns up    *)
(* missing, types remain.                                                   *)
LEMMA SameShape ==
  ASSUME Typed, var' = var, lost' = lost, Allocated' = Allocated,
         heap' \in [Blocks -> Block \cup {Free}],
         \A c \in Allocated :
           /\ heap'[c].kind = heap[c].kind /\ heap'[c].length = heap[c].length
           /\ \/ heap'[c].contains_pointers = heap[c].contains_pointers
              \/ /\ heap[c].kind = "data" /\ heap[c].fields = <<>>
                 /\ ~ heap'[c].contains_pointers
           /\ heap'[c].fields = heap[c].fields
           /\ heap[c].kind \in {"chars", "data"} => heap'[c].ref_count <= 1,
         \A place : Overwritten(place) => Overwritten(place)',
         \A c : /\ Freeing(c) => Freeing(c)'
                /\ Clearing(c) /\ heap'[c].contains_pointers => Clearing(c)'
  PROVE  Typed'
<1>1. \A b, kinds : Is(b, kinds) => Is(b, kinds)'
  BY DEF Is
<1>2. ASSUME NEW c \in Allocated
      PROVE  BlockTyped(c)'
  <2>1. BlockTyped(c)
    BY DEF Typed
  <2>2. ASSUME heap[c].kind = "array"
        PROVE  ArrayTyped(c)'
    <3>1. ArrayTyped(c)
      BY <2>1, <2>2 DEF BlockTyped
    <3>2. DataOf(c)' = DataOf(c) /\ ElementsDropped(c)' = ElementsDropped(c)
      BY DEF DataOf, ElementsDropped
    <3>3. Is(DataOf(c), {"data"}) /\ OfPointers(c)' =>
            OfPointers(c) /\ heap'[DataOf(c)].fields = heap[DataOf(c)].fields
      BY <3>2 DEF OfPointers, Is
    <3>. QED  BY <1>1, <3>1, <3>2, <3>3 DEF ArrayTyped
  <2>3. ASSUME heap[c].kind = "data"
        PROVE  DataTyped(c)'
    <3>1. DataTyped(c)
      BY <2>1, <2>3 DEF BlockTyped
    <3>. QED  BY <3>1 DEF DataTyped
  <2>. QED  BY <2>1, <2>2, <2>3 DEF BlockTyped
<1>3. ASSUME NEW c \in Allocated, NEW i \in DOMAIN heap'[c].fields
      PROVE  FieldTyped(c, i)'
  BY <1>1, <1>3 DEF FieldTyped, Typed
<1>4. \A v \in Vars : VarTyped(v)'
  BY <1>1 DEF VarTyped, Typed
<1>. QED  BY <1>2, <1>3, <1>4 DEF Typed

(* And the places that refer to a block are the same. *)
LEMMA SamePlaces ==
  ASSUME var' = var, Allocated' = Allocated,
         \A place : Overwritten(place)' <=> Overwritten(place),
         \A c \in Allocated : heap'[c].fields = heap[c].fields,
         NEW b
  PROVE  VarsTo(b)' = VarsTo(b) /\ FieldsTo(b)' = FieldsTo(b)
BY DEF VarsTo, FieldsTo

-----------------------------------------------------------------------------
(* Statements that call *)

(* The calls a statement makes first. *)
LEMMA Statement ==
  ASSUME todo = <<>>, todo' \in Seq(Entry), NEW b
  PROVE  /\ ~ Freeing(b) /\ ~ Clearing(b) /\ ~ Overwritten(b)
         /\ Dropping(b) = {} /\ Cardinality(Dropping(b)) = 0
         /\ Cardinality(Dropping(b)') = Cardinality(Occurrences(todo', <<"decRef", b>>))
<1>1. Dropping(b) = {}
  BY DEF Dropping, Occurrences
<1>2. ~ Freeing(b) /\ ~ Clearing(b) /\ ~ Overwritten(b)
  BY DEF Freeing, Clearing, Overwritten
<1>. QED  BY <1>1, <1>2, FS_EmptySet DEF Dropping, Occurrences

(* What a place of its own kind refers to may be dropped, and what is to be *)
(* put there stays.                                                         *)
AssignTyped(place, new) ==
  /\ place \in Places /\ At(place) \in Pointers /\ new \in Pointers
  /\ Len(place) = 1 => place[1] \in Vars /\ place = <<place[1]>>
  /\ Len(place) = 2 =>
       /\ place = <<place[1], place[2]>>
       /\ Is(place[1], {"data"}) /\ heap[place[1]].contains_pointers
       /\ place[2] \in DOMAIN heap[place[1]].fields
  /\ Len(place) \in {1, 2}
  /\ At(place) # Null => Is(At(place), PlaceKinds(place))
  /\ new # Null => Is(new, PlaceKinds(place)) /\ new \notin lost
  /\ PlaceKinds(place) \in {{"literal", "string"}, {"array"}, {"any"}}

(* The place's reference is given up, and becomes a call if there was one.  *)
LEMMA GivesUp ==
  ASSUME MemoryInv, todo = <<>>, heap' = heap, var' = var,
         NEW place, NEW new, AssignTyped(place, new), todo' \in Seq(Entry),
         \A p : Overwritten(p)' <=> p = place,
         NEW b \in Allocated,
         Cardinality(Occurrences(todo', <<"decRef", b>>)) = IF b = At(place) THEN 1 ELSE 0
  PROVE  References(b)' = References(b)
<1>1. /\ Dropping(b) = {} /\ Cardinality(Dropping(b)) = 0
      /\ Cardinality(Dropping(b)') = IF b = At(place) THEN 1 ELSE 0
      /\ \A p : ~ Overwritten(p)
  BY Statement
<1>2. Allocated' = Allocated /\ b # Null
  BY MemoryAssumption DEF Allocated
<1>3. /\ IsFiniteSet(VarsTo(b)) /\ IsFiniteSet(FieldsTo(b))
      /\ Cardinality(VarsTo(b)) \in Nat /\ Cardinality(FieldsTo(b)) \in Nat
  BY ReferencesFinite DEF MemoryInv
<1>4. CASE Len(place) = 1
  <2>1. place = <<place[1]>> /\ place[1] \in Vars /\ At(place) = var[place[1]]
    BY <1>4 DEF AssignTyped, At
  <2>2. FieldsTo(b)' = FieldsTo(b)
    <3>1. \A p \in FieldPlaces : p # place
      BY <2>1 DEF FieldPlaces
    <3>. QED  BY <1>1, <1>2, <3>1 DEF FieldsTo
  <2>3. VarsTo(b)' = VarsTo(b) \ {place[1]}
    <3>1. \A v \in Vars : <<v>> = place <=> v = place[1]
      BY <2>1
    <3>. QED  BY <1>1, <3>1 DEF VarsTo
  <2>4. place[1] \in VarsTo(b) <=> b = At(place)
    BY <1>1, <2>1 DEF VarsTo
  <2>5. Cardinality(VarsTo(b)') = Cardinality(VarsTo(b)) - (IF b = At(place) THEN 1 ELSE 0)
    <3>1. CASE b = At(place)
      <4>1. Cardinality(VarsTo(b) \ {place[1]}) = Cardinality(VarsTo(b)) - 1
        BY <1>3, <2>4, <3>1, FS_RemoveElement
      <4>. QED  BY <2>3, <3>1, <4>1
    <3>2. CASE b # At(place)
      <4>1. VarsTo(b)' = VarsTo(b)
        BY <2>3, <2>4, <3>2
      <4>. QED  BY <1>3, <3>2, <4>1
    <3>. QED  BY <3>1, <3>2
  <2>. QED  BY <1>1, <1>3, <2>2, <2>5 DEF References
<1>5. CASE Len(place) = 2
  <2>1. /\ place = <<place[1], place[2]>> /\ place[1] \in Allocated
        /\ place[2] \in DOMAIN heap[place[1]].fields
        /\ At(place) = heap[place[1]].fields[place[2]]
    BY <1>5 DEF AssignTyped, At, Is
  <2>2. place \in FieldPlaces
    BY <2>1, FieldIndex DEF MemoryInv
  <2>3. VarsTo(b)' = VarsTo(b)
    <3>1. \A v \in Vars : <<v>> # place
      BY <2>1
    <3>. QED  BY <1>1, <3>1 DEF VarsTo
  <2>4. FieldsTo(b)' = FieldsTo(b) \ {place}
    BY <1>1, <1>2 DEF FieldsTo
  <2>5. place \in FieldsTo(b) <=> b = At(place)
    BY <1>1, <2>1, <2>2 DEF FieldsTo
  <2>6. Cardinality(FieldsTo(b)') = Cardinality(FieldsTo(b)) - (IF b = At(place) THEN 1 ELSE 0)
    <3>1. CASE b = At(place)
      BY ZenonT(30), <1>3, <2>4, <2>5, <3>1, FS_RemoveElement
    <3>2. CASE b # At(place)
      <4>1. FieldsTo(b)' = FieldsTo(b)
        BY <2>4, <2>5, <3>2
      <4>. QED  BY <1>3, <3>2, <4>1
    <3>. QED  BY <3>1, <3>2
  <2>. QED  BY <1>1, <1>3, <2>3, <2>6 DEF References
<1>. QED  BY <1>4, <1>5 DEF AssignTyped

(* DAL_assign begins. *)
LEMMA AssignStep ==
  ASSUME MemoryInv, todo = <<>>, NEW place, NEW new, AssignTyped(place, new),
         DAL_assign(place, new)
  PROVE  MemoryInv'
<1>. DEFINE old == At(place)
            drop == IF old = Null THEN <<>> ELSE <<<<"decRef", old>>>>
            store == <<"store", place, new>>
<1>1. /\ heap' = heap /\ var' = var /\ lost' = lost /\ temp' = Null
      /\ (temp = Null \/ temp = new) /\ old # new /\ todo' = drop \o <<store>>
  BY DEF DAL_assign, Uses, Same
<1>2. Allocated' = Allocated
  BY <1>1 DEF Allocated
<1>3. /\ store \in Entry /\ old \in Pointers /\ <<"decRef", old>> \in Entry
      /\ old # Null => old \in Allocated /\ heap[old].kind \in PlaceKinds(place)
  BY DEF AssignTyped, Entry, Is
<1>4. /\ store[1] = "store" /\ store[2] = place /\ store[3] = new
      /\ \A b : <<"decRef", b>> # store /\ <<"free", b>> # store /\ <<"clear", b>> # store
  OBVIOUS
<1>. HIDE DEF old, store
<1>5. /\ todo' \in Seq(Entry) /\ drop \in Seq(Entry) /\ <<store>> \in Seq(Entry)
      /\ todo' = IF old = Null THEN <<store>> ELSE <<<<"decRef", old>>, store>>
  BY SMTT(30), <1>1, <1>3
<1>6. \A k \in DOMAIN todo' :
        \/ k = Len(todo') /\ todo'[k] = store
        \/ k = 1 /\ old # Null /\ todo'[k] = <<"decRef", old>>
  BY <1>5
<1>7. Len(todo') \in DOMAIN todo' /\ todo'[Len(todo')] = store
  BY <1>5
<1>8. \A p : Overwritten(p)' <=> p = place
  <2>1. \A k \in DOMAIN todo' : todo'[k][1] = "store" => todo'[k][2] = place
    BY <1>4, <1>6
  <2>. QED  BY <1>4, <1>7, <2>1 DEF Overwritten
<1>9. \A b : ~ Freeing(b)' /\ ~ Clearing(b)'
  BY <1>4, <1>6 DEF Freeing, Clearing
<1>10. \A b : ~ Freeing(b) /\ ~ Clearing(b) /\ ~ Overwritten(b)
  BY <1>5, Statement
<1>11. Typed'
  <2>1. \A c \in Allocated : heap[c].kind \in {"chars", "data"} => heap[c].ref_count <= 1
    BY DEF MemoryInv, Typed, BlockTyped
  <2>2. heap' \in [Blocks -> Block \cup {Free}]
    BY <1>1 DEF MemoryInv, Typed
  <2>. QED  BY <1>1, <1>2, <1>10, <2>1, <2>2, SameShape DEF MemoryInv
<1>12. Unused'
  BY <1>1, <1>2, <1>9 DEF MemoryInv, Unused
<1>13. TodoTyped'
  <2>1. ASSUME NEW k \in DOMAIN todo', todo'[k] = store, k = Len(todo')
        PROVE  StoreTyped(k)'
    <3>1. /\ Len(place) = 2 =>
               /\ Is(place[1], {"data"})' /\ heap'[place[1]].contains_pointers
               /\ place[2] \in DOMAIN heap'[place[1]].fields
          /\ new # Null => Is(new, PlaceKinds(place))' /\ new \notin lost'
      BY <1>1, <1>2 DEF AssignTyped, Is
    <3>2. ASSUME NEW j \in DOMAIN todo', j # k
          PROVE  /\ todo'[j][2] # new
                 /\ \A kind \in PlaceKinds(place) :
                      Rank(heap'[todo'[j][2]].kind) <= Rank(kind)
      <4>1. todo'[j][2] = old /\ old # Null
        BY <1>6, <2>1, <3>2
      <4>2. \A kind \in PlaceKinds(place) : Rank(heap[old].kind) <= Rank(kind)
        BY <1>3, <4>1 DEF AssignTyped, Rank
      <4>. QED  BY <1>1, <4>1, <4>2
    <3>. QED  BY <1>4, <2>1, <3>1, <3>2 DEF StoreTyped
  <2>2. ASSUME NEW k \in DOMAIN todo', todo'[k] = <<"decRef", old>>, old # Null
        PROVE  DropTyped(k)'
    <3>1. heap'[old].kind # "data" /\ old \in Allocated'
      BY <1>1, <1>2, <1>3, <2>2 DEF AssignTyped
    <3>. QED  BY <2>2, <3>1 DEF DropTyped
  <2>. QED  BY <1>4, <1>5, <1>6, <2>1, <2>2 DEF TodoTyped
<1>14. Remembered'
  <2>1. ASSUME NEW b \in Allocated, heap[b].ref_count = 0
        PROVE  InHand(b)'
    <3>1. b = temp \/ b \in lost
      BY <2>1, Quiet DEF MemoryInv, Remembered
    <3>2. CASE b \in lost
      BY <1>1, <3>2 DEF InHand
    <3>3. CASE b = temp
      <4>1. b = new
        BY <1>1, <3>3, MemoryAssumption DEF Allocated
      <4>. QED  BY <1>4, <1>7, <4>1 DEF InHand
    <3>. QED  BY <3>1, <3>2, <3>3
  <2>. QED  BY <1>1, <1>2, <2>1 DEF Remembered
<1>15. Counted'
  <2>1. ASSUME NEW b \in Allocated
        PROVE  References(b)' = References(b)
    <3>1. Cardinality(Occurrences(todo', <<"decRef", b>>)) = IF b = old THEN 1 ELSE 0
      <4>1. Cardinality(Occurrences(<<store>>, <<"decRef", b>>)) = 0
        BY <1>4, OccurrencesOne
      <4>2. CASE old = Null
        <5>1. todo' = <<store>> /\ b # old
          BY <1>5, <4>2, MemoryAssumption DEF Allocated
        <5>. QED  BY <4>1, <5>1
      <4>3. CASE old # Null
        <5>1. todo' = <<<<"decRef", old>>>> \o <<store>>
          BY <1>1, <4>3
        <5>2. Cardinality(Occurrences(<<<<"decRef", old>>>>, <<"decRef", b>>))
                = IF b = old THEN 1 ELSE 0
          <6>1. <<"decRef", old>> = <<"decRef", b>> <=> b = old
            OBVIOUS
          <6>. QED  BY <6>1, OccurrencesOne
        <5>3. <<<<"decRef", old>>>> \in Seq(Entry)
          BY <1>3
        <5>4. Cardinality(Occurrences(<<<<"decRef", old>>>> \o <<store>>, <<"decRef", b>>))
                = Cardinality(Occurrences(<<<<"decRef", old>>>>, <<"decRef", b>>))
                    + Cardinality(Occurrences(<<store>>, <<"decRef", b>>))
          BY ZenonT(30), <1>5, <5>3, OccurrencesConcat
        <5>. QED  BY <4>1, <5>1, <5>2, <5>4
      <4>. QED  BY <4>2, <4>3
    <3>. QED  BY <1>1, <1>5, <1>8, <3>1, GivesUp DEF old
  <2>. QED  BY <1>1, <1>2, <2>1 DEF MemoryInv, Counted
<1>. QED  BY <1>11, <1>12, <1>13, <1>14, <1>15 DEF MemoryInv

(* Counting one reference more. *)
LEMMA IncRef ==
  ASSUME NEW h \in [Blocks -> Block \cup {Free}], NEW p \in Pointers,
         p # Null => h[p] \in Block /\ h[p].ref_count < MaxReferences
  PROVE  /\ DAL_incRef(h, p) \in [Blocks -> Block \cup {Free}]
         /\ \A c \in Blocks : DAL_incRef(h, p)[c] = Free <=> h[c] = Free
         /\ \A c \in Blocks : h[c] # Free =>
              /\ DAL_incRef(h, p)[c].kind = h[c].kind
              /\ DAL_incRef(h, p)[c].length = h[c].length
              /\ DAL_incRef(h, p)[c].contains_pointers = h[c].contains_pointers
              /\ DAL_incRef(h, p)[c].fields = h[c].fields
              /\ DAL_incRef(h, p)[c].ref_count
                   = h[c].ref_count + (IF c = p THEN 1 ELSE 0)
<1>0. \A c \in Blocks : h[c] # Free => h[c] \in Block /\ h[c].ref_count \in Nat
  BY MemoryAssumption DEF Block
<1>1. CASE p = Null
  <2>1. DAL_incRef(h, p) = h /\ \A c \in Blocks : c # p
    BY <1>1, MemoryAssumption DEF DAL_incRef
  <2>. QED  BY <1>0, <2>1
<1>2. CASE p # Null
  <2>1. /\ DAL_incRef(h, p) = DAL_modRef_by_n(h, p, 1) /\ p \in Blocks
        /\ h[p] \in Block /\ h[p] # Free
    BY <1>2, MemoryAssumption DEF DAL_incRef, Pointers
  <2>. DEFINE m == DAL_modRef_by_n(h, p, 1)
  <2>2. /\ m \in [Blocks -> Block \cup {Free}]
        /\ \A c \in Blocks : c # p => m[c] = h[c]
        /\ m[p] \in Block
        /\ m[p].kind = h[p].kind
        /\ m[p].contains_pointers = h[p].contains_pointers
        /\ m[p].fields = h[p].fields
        /\ m[p].length = h[p].length
        /\ m[p].ref_count = (h[p].ref_count + 1) % CountMod
    BY <2>1, ModRef
  <2>3. (h[p].ref_count + 1) % CountMod = h[p].ref_count + 1
    <3>1. h[p].ref_count + 1 \in Nat /\ h[p].ref_count + 1 <= MaxReferences
      BY <1>0, <1>2, <2>1, OneFits
    <3>. QED  BY <3>1, CountFits
  <2>4. m[p] # Free
    BY <2>2, MemoryAssumption
  <2>. HIDE DEF m
  <2>5. ASSUME NEW c \in Blocks, h[c] # Free
        PROVE  /\ m[c].kind = h[c].kind /\ m[c].length = h[c].length
               /\ m[c].contains_pointers = h[c].contains_pointers
               /\ m[c].fields = h[c].fields
               /\ m[c].ref_count = h[c].ref_count + (IF c = p THEN 1 ELSE 0)
    <3>1. CASE c = p
      BY <2>2, <2>3, <3>1
    <3>2. CASE c # p
      BY <1>0, <2>2, <2>5, <3>2
    <3>. QED  BY <3>1, <3>2
  <2>6. \A c \in Blocks : m[c] = Free <=> h[c] = Free
    BY <2>1, <2>2, <2>4
  <2>. QED  BY <2>1, <2>2, <2>5, <2>6 DEF m
<1>. QED  BY <1>1, <1>2

(* Between statements there is room for two references more.                *)
LEMMA Room ==
  ASSUME MemoryInv, todo = <<>>, NEW b \in Allocated
  PROVE  /\ heap[b].ref_count = References(b) /\ References(b) \in Nat
         /\ References(b) + 2 <= MaxReferences /\ MaxReferences \in Nat
         /\ heap[b].ref_count < MaxReferences
<1>1. /\ VarsTo(b) \in SUBSET Vars /\ FieldsTo(b) \in SUBSET FieldPlaces
      /\ References(b) \in Nat
  BY ReferencesFinite DEF MemoryInv
<1>2. Cardinality(Dropping(b)) = 0
  BY Quiet, FS_EmptySet
<1>3. /\ Cardinality(VarsTo(b)) \in Nat /\ Cardinality(FieldsTo(b)) \in Nat
      /\ Cardinality(VarsTo(b)) + Cardinality(FieldsTo(b)) + 2 <= MaxReferences
      /\ MaxReferences \in Nat
  BY <1>1, PlacesFinite
<1>4. heap[b].ref_count = References(b)
  BY DEF MemoryInv, Counted
<1>. QED  BY <1>1, <1>2, <1>3, <1>4 DEF References

(* Two calls, one after the other. *)
LEMMA PairConcat ==
  ASSUME NEW S, NEW x \in S, NEW y \in S
  PROVE  <<x, y>> = <<x>> \o <<y>>
<1>1. ASSUME NEW s \in Seq(S), s # <<>>
      PROVE  s = <<s[1]>> \o Tail(s)
  BY <1>1
<1>2. <<x, y>> \in Seq(S) /\ <<x, y>> # <<>>
  OBVIOUS
<1>3. <<x, y>>[1] = x /\ Tail(<<x, y>>) = <<y>>
  OBVIOUS
<1>4. <<x, y>> = <<<<x, y>>[1]>> \o Tail(<<x, y>>)
  BY <1>1, <1>2, Zenon
<1>. QED  BY <1>3, <1>4, Zenon

(* A library function holds its parameters and will drop them. *)
LEMMA HoldStep ==
  ASSUME MemoryInv, todo = <<>>, NEW p \in Pointers, NEW q \in Pointers,
         p # Null => Is(p, Values) /\ p \notin lost,
         q # Null => Is(q, Values) /\ q \notin lost,
         HoldForAWhile(p, q)
  PROVE  MemoryInv'
<1>. DEFINE first == <<"decRef", p>>
            second == <<"decRef", q>>
            h == DAL_incRef(heap, p)
<1>1. /\ heap' = DAL_incRef(h, q) /\ var' = var /\ lost' = lost /\ temp' = Null
      /\ (temp = Null \/ temp = p \/ temp = q) /\ todo' = <<first, second>>
  BY DEF HoldForAWhile, Uses
<1>2. /\ heap \in [Blocks -> Block \cup {Free}]
      /\ \A c \in Blocks : c \in Allocated <=> heap[c] # Free
      /\ \A c \in Allocated : c \in Blocks /\ c # Null /\ heap[c] \in Block
      /\ \A c \in Allocated : heap[c].ref_count \in Nat /\ heap[c].ref_count + 2 <= MaxReferences
      /\ MaxReferences \in Nat
  <2>1. \A c \in Allocated : heap[c].ref_count \in Nat /\ heap[c].ref_count + 2 <= MaxReferences
    BY Room
  <2>. QED  BY <2>1, OneFits, MemoryAssumption DEF MemoryInv, Typed, Allocated
<1>3. /\ h \in [Blocks -> Block \cup {Free}]
      /\ \A c \in Blocks : h[c] = Free <=> heap[c] = Free
      /\ \A c \in Blocks : heap[c] # Free =>
           /\ h[c].kind = heap[c].kind /\ h[c].length = heap[c].length
           /\ h[c].contains_pointers = heap[c].contains_pointers
           /\ h[c].fields = heap[c].fields
           /\ h[c].ref_count = heap[c].ref_count + (IF c = p THEN 1 ELSE 0)
  <2>1. p # Null => heap[p] \in Block /\ heap[p].ref_count < MaxReferences
    BY <1>2 DEF Is
  <2>. QED  BY <1>2, <2>1, IncRef
<1>. HIDE DEF h
<1>4. /\ heap' \in [Blocks -> Block \cup {Free}]
      /\ \A c \in Blocks : heap'[c] = Free <=> h[c] = Free
      /\ \A c \in Blocks : h[c] # Free =>
           /\ heap'[c].kind = h[c].kind /\ heap'[c].length = h[c].length
           /\ heap'[c].contains_pointers = h[c].contains_pointers
           /\ heap'[c].fields = h[c].fields
           /\ heap'[c].ref_count = h[c].ref_count + (IF c = q THEN 1 ELSE 0)
  <2>1. q # Null => q \in Blocks /\ heap[q] # Free /\ q \in Allocated
    BY <1>2 DEF Is
  <2>2. q # Null => h[q] \in Block
    BY <1>3, <2>1
  <2>3. q # Null => h[q].ref_count < MaxReferences
    <3>1. q # Null => h[q].ref_count = heap[q].ref_count + (IF q = p THEN 1 ELSE 0)
      BY <1>3, <2>1
    <3>. QED  BY <1>2, <2>1, <3>1
  <2>. QED  BY <1>1, <1>3, <2>2, <2>3, IncRef
<1>5. Allocated' = Allocated
  BY <1>2, <1>3, <1>4 DEF Allocated
<1>6. \A c \in Allocated :
        /\ heap'[c].kind = heap[c].kind /\ heap'[c].length = heap[c].length
        /\ heap'[c].contains_pointers = heap[c].contains_pointers
        /\ heap'[c].fields = heap[c].fields
        /\ heap'[c].ref_count
             = heap[c].ref_count + (IF c = p THEN 1 ELSE 0) + (IF c = q THEN 1 ELSE 0)
  BY <1>2, <1>3, <1>4
<1>7. /\ todo' \in Seq(Entry) /\ <<first>> \in Seq(Entry) /\ <<second>> \in Seq(Entry)
      /\ todo' = <<first>> \o <<second>>
  <2>1. first \in Entry /\ second \in Entry
    BY DEF Entry
  <2>. HIDE DEF first, second
  <2>2. todo' = <<first, second>>
    BY <1>1
  <2>4. /\ <<first>> \in Seq(Entry) /\ <<second>> \in Seq(Entry)
        /\ <<first, second>> \in Seq(Entry)
    BY <2>1
  <2>3. todo' = <<first>> \o <<second>>
    <3>1. <<first, second>> = <<first>> \o <<second>>
      BY <2>1, PairConcat
    <3>. QED  BY <2>2, <3>1, Zenon
  <2>5. todo' \in Seq(Entry)
    BY <2>2, <2>4, Zenon
  <2>. QED  BY <2>3, <2>4, <2>5, Zenon
<1>8. \A k \in DOMAIN todo' : todo'[k][1] = "decRef" /\ todo'[k][2] \in {p, q}
  BY <1>1
<1>9. /\ \A place : ~ Overwritten(place)'
      /\ \A b : ~ Freeing(b)' /\ ~ Clearing(b)'
  BY <1>8 DEF Overwritten, Freeing, Clearing
<1>10. \A b : ~ Freeing(b) /\ ~ Clearing(b) /\ ~ Overwritten(b)
  BY <1>7, Statement
<1>11. /\ p # Null => p \in Allocated /\ heap[p].kind \notin {"chars", "data"} /\ p \notin lost
       /\ q # Null => q \in Allocated /\ heap[q].kind \notin {"chars", "data"} /\ q \notin lost
  BY DEF Is, Values
<1>12. Typed'
  <2>1. \A c \in Allocated : heap[c].kind \in {"chars", "data"} => heap'[c].ref_count <= 1
    <3>1. \A c \in Allocated : heap[c].kind \in {"chars", "data"} =>
            heap[c].ref_count <= 1 /\ c # p /\ c # q
      BY <1>2, <1>11 DEF MemoryInv, Typed, BlockTyped
    <3>. QED  BY <1>2, <1>6, <3>1
  <2>. QED  BY <1>1, <1>4, <1>5, <1>6, <1>10, <2>1, SameShape DEF MemoryInv
<1>13. Unused'
  <2>1. \A b \in lost : b \in Allocated /\ b # p /\ b # q /\ heap[b].ref_count = 0
    BY <1>2, <1>11 DEF MemoryInv, Unused
  <2>2. \A b \in lost : heap'[b].ref_count = 0
    BY <1>6, <2>1
  <2>. QED  BY <1>1, <1>5, <1>9, <2>1, <2>2 DEF Unused
<1>14. TodoTyped'
  <2>1. ASSUME NEW k \in DOMAIN todo'
        PROVE  DropTyped(k)'
    <3>1. \A c \in {p, q} : c # Null => c \in Allocated' /\ heap'[c].kind # "data"
      BY <1>5, <1>6, <1>11
    <3>. QED  BY <1>8, <3>1 DEF DropTyped
  <2>. QED  BY <1>7, <1>8, <2>1 DEF TodoTyped
<1>15. Remembered'
  <2>1. ASSUME NEW b \in Allocated, heap'[b].ref_count = 0
        PROVE  b \in lost
    <3>1. heap[b].ref_count = 0 /\ b # p /\ b # q
      BY <1>2, <1>6, <2>1
    <3>2. b = temp \/ b \in lost
      BY <3>1, Quiet DEF MemoryInv, Remembered
    <3>. QED  BY <1>1, <1>2, <3>1, <3>2
  <2>. QED  BY <1>1, <1>5, <2>1 DEF Remembered, InHand
<1>16. Counted'
  <2>1. ASSUME NEW b \in Allocated
        PROVE  References(b)' = heap'[b].ref_count /\ References(b)' <= MaxReferences
    <3>1. VarsTo(b)' = VarsTo(b) /\ FieldsTo(b)' = FieldsTo(b)
      BY <1>1, <1>5, <1>6, <1>9, <1>10, SamePlaces
    <3>2. Cardinality(Dropping(b)')
            = (IF b = p THEN 1 ELSE 0) + (IF b = q THEN 1 ELSE 0)
      <4>1. /\ first = <<"decRef", b>> <=> b = p
            /\ second = <<"decRef", b>> <=> b = q
        OBVIOUS
      <4>2. /\ Cardinality(Occurrences(<<first>>, <<"decRef", b>>)) = IF b = p THEN 1 ELSE 0
            /\ Cardinality(Occurrences(<<second>>, <<"decRef", b>>)) = IF b = q THEN 1 ELSE 0
        BY <4>1, OccurrencesOne
      <4>3. Cardinality(Occurrences(todo', <<"decRef", b>>))
              = Cardinality(Occurrences(<<first>>, <<"decRef", b>>))
                  + Cardinality(Occurrences(<<second>>, <<"decRef", b>>))
        BY ZenonT(30), <1>7, OccurrencesConcat
      <4>. QED  BY <4>2, <4>3 DEF Dropping, Occurrences
    <3>3. /\ Cardinality(VarsTo(b)) \in Nat /\ Cardinality(FieldsTo(b)) \in Nat
          /\ Cardinality(Dropping(b)) = 0
      BY <1>7, ReferencesFinite, Statement DEF MemoryInv
    <3>4. References(b)' = References(b) + (IF b = p THEN 1 ELSE 0) + (IF b = q THEN 1 ELSE 0)
      BY <3>1, <3>2, <3>3 DEF References
    <3>5. heap[b].ref_count = References(b)
      BY DEF MemoryInv, Counted
    <3>. QED  BY <1>2, <1>6, <3>4, <3>5
  <2>. QED  BY <1>5, <2>1 DEF Counted
<1>. QED  BY <1>12, <1>13, <1>14, <1>15, <1>16 DEF MemoryInv

-----------------------------------------------------------------------------
(* The calls *)

(* What is to be done after a call that makes way for the calls D.          *)
LEMMA NextCall ==
  ASSUME MemoryInv, todo # <<>>, todo[1][1] # "store", NEW D \in Seq(Entry),
         todo' = D \o Tail(todo), \A j \in DOMAIN D : D[j][1] # "store",
         temp' = temp, lost' = lost
  PROVE  /\ temp = Null
         /\ \A place : Overwritten(place)' <=> Overwritten(place)
         /\ \A b : Freeing(b)' <=> \/ \E j \in DOMAIN D : D[j] = <<"free", b>>
                                   \/ Freeing(b) /\ todo[1] # <<"free", b>>
         /\ \A b : \/ \E j \in DOMAIN D : D[j] = <<"clear", b>>
                   \/ Clearing(b) /\ todo[1] # <<"clear", b>>
                   => Clearing(b)'
         /\ \A b : InHand(b) /\ todo[1] # <<"free", b>> => InHand(b)'
         /\ \A b : Cardinality(Dropping(b)') =
              (Cardinality(Occurrences(D, <<"decRef", b>>)) + Cardinality(Dropping(b)))
                - (IF todo[1] = <<"decRef", b>> THEN 1 ELSE 0)
<1>1. TodoTyped /\ todo \in Seq(Entry) /\ DOMAIN todo = 1..Len(todo) /\ Len(todo) \in Nat
  BY DEF MemoryInv, TodoTyped
<1>2. temp = Null
  BY DEF MemoryInv, Unused
<1>3. \A place : Overwritten(place)' <=> Overwritten(place)
  BY <1>1, OverwrittenKept
<1>4. ASSUME NEW e
      PROVE  /\ (\E k \in DOMAIN todo' : todo'[k] = e) <=>
                   \/ \E j \in DOMAIN D : D[j] = e
                   \/ \E k \in DOMAIN todo : k > 1 /\ todo[k] = e
             /\ Cardinality(Occurrences(todo', e))
                  = (Cardinality(Occurrences(D, e)) + Cardinality(Occurrences(todo, e)))
                      - (IF todo[1] = e THEN 1 ELSE 0)
  BY <1>1, Entries
<1>5. ASSUME NEW e, todo[1] # e, NEW k \in DOMAIN todo, todo[k] = e
      PROVE  k > 1
  <2>1. k # 1
    BY <1>5
  <2>. QED  BY <1>1, <2>1
<1>6. ASSUME NEW b
      PROVE  Freeing(b)' <=> \/ \E j \in DOMAIN D : D[j] = <<"free", b>>
                             \/ Freeing(b) /\ todo[1] # <<"free", b>>
  <2>1. ASSUME todo[1] = <<"free", b>>, NEW k \in DOMAIN todo, k > 1
        PROVE  todo[k] # <<"free", b>>
    <3>1. 1 \in DOMAIN todo /\ todo[1][1] = "free"
      BY <1>1, <2>1
    <3>2. FreeTyped(1)
      BY <1>1, <3>1 DEF TodoTyped
    <3>. QED  BY <2>1, <3>2 DEF FreeTyped
  <2>. QED  BY <1>4, <1>5, <2>1 DEF Freeing
<1>7. ASSUME NEW b
      PROVE  \/ \E j \in DOMAIN D : D[j] = <<"clear", b>>
             \/ Clearing(b) /\ todo[1] # <<"clear", b>>
             => Clearing(b)'
  BY <1>4, <1>5 DEF Clearing
<1>8. ASSUME NEW b, InHand(b), todo[1] # <<"free", b>>
      PROVE  InHand(b)'
  <2>1. ASSUME NEW k \in DOMAIN todo, todo[k][1] = "store", todo[k][3] = b
        PROVE  \E l \in DOMAIN todo' : todo'[l][1] = "store" /\ todo'[l][3] = b
    <3>1. todo[1] # todo[k]
      BY <2>1
    <3>2. k > 1
      BY <1>5, <3>1
    <3>3. \E l \in DOMAIN todo' : todo'[l] = todo[k]
      BY <1>4, <3>2
    <3>. QED  BY <2>1, <3>3
  <2>. QED  BY <1>6, <1>8, <2>1 DEF InHand
<1>9. ASSUME NEW b
      PROVE  Cardinality(Dropping(b)') =
               (Cardinality(Occurrences(D, <<"decRef", b>>)) + Cardinality(Dropping(b)))
                 - (IF todo[1] = <<"decRef", b>> THEN 1 ELSE 0)
  <2>1. Dropping(b)' = Occurrences(todo', <<"decRef", b>>)
    BY DEF Dropping, Occurrences
  <2>. QED  BY <1>4, <2>1 DEF Dropping
<1>. QED  BY <1>2, <1>3, <1>6, <1>7, <1>8, <1>9

(* A reference is dropped, and there are others; or there was none.         *)
LEMMA DropStep ==
  ASSUME MemoryInv, todo # <<>>, NEW b, todo[1] = <<"decRef", b>>,
         todo' = Tail(todo), var' = var, temp' = temp, lost' = lost,
         heap' \in [Blocks -> Block \cup {Free}], Allocated' = Allocated,
         \A c \in Allocated :
           /\ heap'[c].kind = heap[c].kind /\ heap'[c].length = heap[c].length
           /\ heap'[c].contains_pointers = heap[c].contains_pointers
           /\ heap'[c].fields = heap[c].fields
           /\ heap'[c].ref_count = heap[c].ref_count - (IF c = b THEN 1 ELSE 0),
         b # Null => heap[b].ref_count > 1
  PROVE  MemoryInv'
<1>1. /\ todo \in Seq(Entry) /\ <<>> \in Seq(Entry) /\ todo' = <<>> \o Tail(todo)
      /\ todo[1][1] = "decRef" /\ todo[1][2] = b /\ Typed /\ TodoTyped
      /\ \A e : e \in DOMAIN <<>> => FALSE
  BY DEF MemoryInv, TodoTyped
<1>2. \A c \in Allocated : c # Null /\ c \in Blocks /\ heap[c].ref_count \in Nat
  BY <1>1, FewReferences, MemoryAssumption DEF MemoryInv, Allocated
<1>3. /\ temp = Null
      /\ \A place : Overwritten(place)' <=> Overwritten(place)
      /\ \A c : Freeing(c)' <=> Freeing(c)
      /\ \A c : Clearing(c) => Clearing(c)'
      /\ \A c : InHand(c) => InHand(c)'
      /\ \A c : Cardinality(Dropping(c)') =
           (Cardinality(Occurrences(<<>>, <<"decRef", c>>)) + Cardinality(Dropping(c)))
             - (IF todo[1] = <<"decRef", c>> THEN 1 ELSE 0)
  <2>1. \A c : todo[1] # <<"free", c>> /\ todo[1] # <<"clear", c>> /\ todo[1][1] # "store"
    BY <1>1
  <2>. QED  BY <1>1, <2>1, NextCall
<1>4. Typed'
  <2>1. \A c \in Allocated : heap[c].kind \in {"chars", "data"} => heap'[c].ref_count <= 1
    <3>1. \A c \in Allocated : heap[c].kind \in {"chars", "data"} => heap[c].ref_count <= 1
      BY <1>1 DEF Typed, BlockTyped
    <3>. QED  BY <1>2, <3>1
  <2>. QED  BY <1>1, <1>3, <2>1, SameShape
<1>5. \A c \in Allocated : (heap[c].ref_count = 0 <=> heap'[c].ref_count = 0)
  BY <1>2
<1>6. Unused'
  BY <1>3, <1>5 DEF MemoryInv, Unused
<1>7. TodoTyped'
  <2>1. \A c \in Allocated : Kept(c)
    BY <1>5 DEF Kept
  <2>2. \A k \in DOMAIN todo : todo[k][1] = "store" => PlaceKept(todo[k][2])
    <3>1. \A k \in DOMAIN todo : todo[k][1] = "store" => StoreTyped(k)
      BY <1>1 DEF TodoTyped
    <3>. QED  BY <3>1 DEF StoreTyped, PlaceKept, Is
  <2>3. Remaining({}) /\ Apart(<<>>) /\ CallsTyped(<<>>)
    BY <1>1, <2>1, <2>2 DEF Remaining, Apart, CallsTyped
  <2>. QED  BY <1>1, <2>3, TailTyped
<1>8. Remembered'
  BY <1>3, <1>5 DEF MemoryInv, Remembered
<1>9. Counted'
  <2>1. ASSUME NEW c \in Allocated
        PROVE  References(c)' = heap'[c].ref_count /\ References(c)' <= MaxReferences
    <3>1. VarsTo(c)' = VarsTo(c) /\ FieldsTo(c)' = FieldsTo(c)
      BY <1>3, SamePlaces
    <3>2. <<"decRef", b>> = <<"decRef", c>> <=> b = c
      OBVIOUS
    <3>3. Cardinality(Dropping(c)') = Cardinality(Dropping(c)) - (IF c = b THEN 1 ELSE 0)
      <4>1. Cardinality(Dropping(c)) \in Nat
        BY <1>1, ReferencesFinite
      <4>2. Cardinality(Occurrences(<<>>, <<"decRef", c>>)) = 0
        BY OccurrencesNone
      <4>3. Cardinality(Dropping(c)') =
              (Cardinality(Occurrences(<<>>, <<"decRef", c>>)) + Cardinality(Dropping(c)))
                - (IF b = c THEN 1 ELSE 0)
        BY <1>3, <3>2
      <4>. QED  BY <4>1, <4>2, <4>3
    <3>4. /\ Cardinality(VarsTo(c)) \in Nat /\ Cardinality(FieldsTo(c)) \in Nat
          /\ Cardinality(Dropping(c)) \in Nat /\ References(c) \in Nat
      BY <1>1, ReferencesFinite
    <3>5. References(c) = heap[c].ref_count /\ References(c) <= MaxReferences
      BY DEF MemoryInv, Counted
    <3>6. References(c)' = References(c) - (IF c = b THEN 1 ELSE 0)
      BY <3>1, <3>3, <3>4 DEF References
    <3>7. MaxReferences \in Nat
      BY OneFits
    <3>. QED  BY <3>4, <3>5, <3>6, <3>7
  <2>. QED  BY <2>1 DEF Counted
<1>. QED  BY <1>4, <1>6, <1>7, <1>8, <1>9 DEF MemoryInv

(* The places about to be overwritten are variables and elements.           *)
LEMMA OverwrittenData ==
  ASSUME TodoTyped, NEW c, NEW i, Overwritten(<<c, i>>)
  PROVE  c \in Allocated /\ heap[c].kind = "data" /\ heap[c].contains_pointers
           /\ i \in DOMAIN heap[c].fields
<1>1. PICK k \in DOMAIN todo : todo[k][1] = "store" /\ todo[k][2] = <<c, i>>
  BY DEF Overwritten
<1>2. StoreTyped(k)
  BY <1>1 DEF TodoTyped
<1>3. Len(todo[k][2]) = 2 /\ todo[k][2][1] = c /\ todo[k][2][2] = i
  BY <1>1
<1>. QED  BY <1>2, <1>3 DEF StoreTyped, Is

(* The flag of an array's data is cleared. *)
LEMMA ClearStep ==
  ASSUME MemoryInv, todo # <<>>, NEW d, todo[1] = <<"clear", d>>,
         todo' = Tail(todo), var' = var, temp' = temp, lost' = lost,
         heap' = [heap EXCEPT ![d].contains_pointers = FALSE]
  PROVE  MemoryInv'
<1>1. /\ todo \in Seq(Entry) /\ <<>> \in Seq(Entry) /\ todo' = <<>> \o Tail(todo)
      /\ todo[1][1] = "clear" /\ todo[1][2] = d /\ Typed /\ TodoTyped
      /\ 1 \in DOMAIN todo
      /\ \A e : e \in DOMAIN <<>> => FALSE
  BY DEF MemoryInv, TodoTyped
<1>2. ClearTyped(1)
  BY <1>1 DEF TodoTyped
<1>3. d \in Allocated /\ heap[d].kind = "data" /\ heap[d].fields = <<>>
  BY <1>1, <1>2 DEF ClearTyped, Is
<1>4. /\ heap \in [Blocks -> Block \cup {Free}] /\ Free \notin Block
      /\ \A c \in Allocated : c \in Blocks /\ heap[c] \in Block
  BY <1>1, AllocatedIs, MemoryAssumption DEF Typed
<1>5. /\ heap' \in [Blocks -> Block \cup {Free}]
      /\ \A c \in Blocks : c # d => heap'[c] = heap[c]
      /\ heap'[d] \in Block
      /\ heap'[d].kind = "data" /\ heap'[d].fields = <<>>
      /\ ~ heap'[d].contains_pointers /\ heap'[d].length = heap[d].length
      /\ heap'[d].ref_count = heap[d].ref_count
  BY <1>3, <1>4 DEF Block
<1>6. Allocated' = Allocated
  BY <1>4, <1>5, <1>3 DEF Allocated
<1>7. \A c \in Allocated :
        /\ heap'[c].kind = heap[c].kind /\ heap'[c].length = heap[c].length
        /\ heap'[c].fields = heap[c].fields
        /\ heap'[c].ref_count = heap[c].ref_count
        /\ c # d => heap'[c].contains_pointers = heap[c].contains_pointers
        /\ heap'[c].contains_pointers => heap[c].contains_pointers
  BY <1>3, <1>4, <1>5
<1>8. /\ temp = Null
      /\ \A place : Overwritten(place)' <=> Overwritten(place)
      /\ \A c : Freeing(c)' <=> Freeing(c)
      /\ \A c : Clearing(c) /\ c # d => Clearing(c)'
      /\ \A c : InHand(c) => InHand(c)'
      /\ \A c : Cardinality(Dropping(c)') =
           (Cardinality(Occurrences(<<>>, <<"decRef", c>>)) + Cardinality(Dropping(c)))
             - (IF todo[1] = <<"decRef", c>> THEN 1 ELSE 0)
  <2>1. \A c : /\ todo[1] # <<"free", c>> /\ todo[1] # <<"decRef", c>>
               /\ c # d => todo[1] # <<"clear", c>>
               /\ todo[1][1] # "store"
    BY <1>1
  <2>. QED  BY <1>1, <2>1, NextCall
<1>9. Typed'
  <2>1. \A c \in Allocated : heap[c].kind \in {"chars", "data"} => heap'[c].ref_count <= 1
    BY <1>1, <1>7 DEF Typed, BlockTyped
  <2>. QED  BY <1>1, <1>3, <1>5, <1>6, <1>7, <1>8, <2>1, SameShape
<1>10. Unused'
  BY <1>6, <1>7, <1>8 DEF MemoryInv, Unused
<1>11. TodoTyped'
  <2>1. \A c \in Allocated : Kept(c)
    BY <1>6, <1>7 DEF Kept
  <2>2. \A k \in DOMAIN todo : todo[k][1] = "store" => PlaceKept(todo[k][2])
    <3>1. ASSUME NEW k \in DOMAIN todo, todo[k][1] = "store", Len(todo[k][2]) = 2
          PROVE  PlaceKept(todo[k][2])
      <4>1. /\ Is(todo[k][2][1], {"data"}) /\ heap[todo[k][2][1]].contains_pointers
            /\ todo[k][2][2] \in DOMAIN heap[todo[k][2][1]].fields
        BY <1>1, <3>1 DEF TodoTyped, StoreTyped
      <4>2. todo[k][2][1] # d
        BY <1>3, <4>1
      <4>. QED  BY <1>6, <1>7, <4>1, <4>2 DEF PlaceKept, Is
    <3>. QED  BY <3>1 DEF PlaceKept
  <2>3. Remaining({}) /\ Apart(<<>>) /\ CallsTyped(<<>>)
    BY <1>1, <1>5, <2>1, <2>2 DEF Remaining, Apart, CallsTyped
  <2>. QED  BY <1>1, <2>3, TailTyped
<1>12. Remembered'
  BY <1>6, <1>7, <1>8 DEF MemoryInv, Remembered
<1>13. Counted'
  <2>1. ASSUME NEW c \in Allocated
        PROVE  References(c)' = References(c)
    <3>1. VarsTo(c)' = VarsTo(c) /\ FieldsTo(c)' = FieldsTo(c)
      BY <1>6, <1>7, <1>8, SamePlaces
    <3>2. Cardinality(Dropping(c)') = Cardinality(Dropping(c))
      <4>1. Cardinality(Dropping(c)) \in Nat
        BY <1>1, ReferencesFinite
      <4>2. Cardinality(Occurrences(<<>>, <<"decRef", c>>)) = 0
        BY OccurrencesNone
      <4>3. todo[1] # <<"decRef", c>>
        BY <1>1
      <4>. QED  BY <1>8, <4>1, <4>2, <4>3
    <3>. QED  BY <3>1, <3>2 DEF References
  <2>. QED  BY <1>6, <1>7, <2>1 DEF MemoryInv, Counted
<1>. QED  BY <1>9, <1>10, <1>11, <1>12, <1>13 DEF MemoryInv

(* A block that nothing refers to is freed. *)
LEMMA FreeStep ==
  ASSUME MemoryInv, todo # <<>>, NEW b, todo[1] = <<"free", b>>,
         todo' = Tail(todo), var' = var, temp' = temp, lost' = lost,
         heap' = [heap EXCEPT ![b] = Free]
  PROVE  MemoryInv'
<1>1. /\ todo \in Seq(Entry) /\ <<>> \in Seq(Entry) /\ todo' = <<>> \o Tail(todo)
      /\ todo[1][1] = "free" /\ todo[1][2] = b /\ Typed /\ TodoTyped
      /\ 1 \in DOMAIN todo
      /\ \A e : e \in DOMAIN <<>> => FALSE
  BY DEF MemoryInv, TodoTyped
<1>2. FreeTyped(1)
  BY <1>1 DEF TodoTyped
<1>3. /\ b \in Allocated /\ heap[b].ref_count = 0 /\ heap[b].fields = <<>>
      /\ \A j \in DOMAIN todo : todo[j] = <<"free", b>> => j = 1
  BY <1>1, <1>2 DEF FreeTyped
<1>4. /\ heap \in [Blocks -> Block \cup {Free}]
      /\ \A c \in Allocated : c \in Blocks /\ c # Null
  BY <1>1, MemoryAssumption DEF Typed, Allocated
<1>5. /\ heap' \in [Blocks -> Block \cup {Free}] /\ heap'[b] = Free
      /\ \A c \in Blocks : c # b => heap'[c] = heap[c]
  BY <1>3, <1>4
<1>6. /\ Allocated' = Allocated \ {b}
      /\ \A c \in Allocated' : c \in Allocated /\ c # b /\ heap'[c] = heap[c]
      /\ \A c \in Allocated : c # b => c \in Allocated' /\ heap'[c] = heap[c]
  BY <1>3, <1>4, <1>5 DEF Allocated
<1>7. VarsTo(b) = {} /\ FieldsTo(b) = {} /\ Dropping(b) = {}
  BY <1>3, FewReferences DEF MemoryInv
<1>8. /\ temp = Null
      /\ \A place : Overwritten(place)' <=> Overwritten(place)
      /\ \A c : Freeing(c) /\ c # b => Freeing(c)'
      /\ \A c : Freeing(c)' => Freeing(c)
      /\ \A c : Clearing(c) => Clearing(c)'
      /\ \A c : InHand(c) /\ c # b => InHand(c)'
      /\ \A c : Cardinality(Dropping(c)') =
           (Cardinality(Occurrences(<<>>, <<"decRef", c>>)) + Cardinality(Dropping(c)))
             - (IF todo[1] = <<"decRef", c>> THEN 1 ELSE 0)
  <2>1. \A c : /\ c # b => todo[1] # <<"free", c>>
               /\ todo[1] # <<"clear", c>> /\ todo[1][1] # "store"
    BY <1>1
  <2>. QED  BY <1>1, <2>1, NextCall
<1>9. \A c, kinds : Is(c, kinds) /\ c # b => Is(c, kinds)'
  BY <1>6 DEF Is
<1>10. \A c \in Allocated : \A i \in DOMAIN heap[c].fields :
         heap[c].fields[i] = b => Overwritten(<<c, i>>)
  BY <1>1, <1>7, FieldRefers
<1>11. Typed'
  <2>1. ASSUME NEW c \in Allocated'
        PROVE  BlockTyped(c)'
    <3>1. BlockTyped(c) /\ c \in Allocated /\ c # b /\ heap'[c] = heap[c]
      BY <1>1, <1>6 DEF Typed
    <3>2. ASSUME heap[c].kind = "array"
          PROVE  ArrayTyped(c)'
      <4>1. ArrayTyped(c)
        BY <3>1, <3>2 DEF BlockTyped
      <4>2. ASSUME Len(heap[c].fields) = 1
            PROVE  DataOf(c) # b
        <5>1. heap[c] \in Block /\ 1 \in DOMAIN heap[c].fields
          BY <1>1, <3>1, <4>2, AllocatedIs DEF Block
        <5>2. ~ Overwritten(<<c, 1>>)
          BY <1>1, <3>2, OverwrittenData
        <5>. QED  BY <1>10, <3>1, <5>1, <5>2 DEF DataOf
      <4>3. DataOf(c)' = DataOf(c) /\ ElementsDropped(c)' = ElementsDropped(c)
        BY <3>1 DEF DataOf, ElementsDropped
      <4>4. ASSUME Len(heap[c].fields) = 1, Is(DataOf(c), {"data"})
            PROVE  /\ Is(DataOf(c), {"data"})' /\ heap'[DataOf(c)] = heap[DataOf(c)]
                   /\ OfPointers(c)' = OfPointers(c)
        BY <1>6, <1>9, <4>2, <4>3, <4>4 DEF Is, OfPointers
      <4>. QED  BY <1>8, <3>1, <4>1, <4>3, <4>4 DEF ArrayTyped
    <3>3. ASSUME heap[c].kind = "data"
          PROVE  DataTyped(c)'
      BY <1>8, <3>1, <3>3 DEF BlockTyped, DataTyped
    <3>. QED  BY <3>1, <3>2, <3>3 DEF BlockTyped
  <2>2. ASSUME NEW c \in Allocated', NEW i \in DOMAIN heap'[c].fields
        PROVE  FieldTyped(c, i)'
    <3>1. c \in Allocated /\ heap'[c] = heap[c] /\ FieldTyped(c, i)
      BY <1>1, <1>6, <2>2 DEF Typed
    <3>. QED  BY <1>8, <1>9, <1>10, <2>2, <3>1 DEF FieldTyped
  <2>3. ASSUME NEW v \in Vars
        PROVE  VarTyped(v)'
    <3>1. VarTyped(v) /\ (var[v] = b => Overwritten(<<v>>))
      BY <1>1, <1>7 DEF Typed, VarsTo
    <3>. QED  BY <1>8, <1>9, <3>1 DEF VarTyped
  <2>4. var' \in [Vars -> Pointers]
    BY <1>1 DEF Typed
  <2>. QED  BY <1>5, <2>1, <2>2, <2>3, <2>4 DEF Typed
<1>12. Unused'
  <2>1. b \notin lost
    BY <1>1 DEF MemoryInv, Unused, Freeing
  <2>. QED  BY <1>6, <1>8, <2>1 DEF MemoryInv, Unused
<1>13. TodoTyped'
  <2>1. \A c \in Allocated : c # b => Kept(c)
    BY <1>6 DEF Kept
  <2>2. ASSUME NEW k \in DOMAIN todo, k > 1, todo[k][1] = "store"
        PROVE  PlaceKept(todo[k][2]) /\ (todo[k][3] # Null => todo[k][3] # b)
    <3>1. StoreTyped(k)
      BY <1>1, <2>2 DEF TodoTyped
    <3>2. b # Null => b # todo[k][3]
      BY <1>1, <2>2, <3>1 DEF StoreTyped
    <3>3. ASSUME Len(todo[k][2]) = 2
          PROVE  PlaceKept(todo[k][2])
      <4>1. /\ Is(todo[k][2][1], {"data"}) /\ heap[todo[k][2][1]].contains_pointers
            /\ todo[k][2][2] \in DOMAIN heap[todo[k][2][1]].fields
        BY <3>1, <3>3 DEF StoreTyped
      <4>2. todo[k][2][1] # b
        BY <1>3, <4>1
      <4>. QED  BY <1>6, <4>1, <4>2 DEF PlaceKept, Is
    <3>. QED  BY <1>3, <1>4, <3>2, <3>3 DEF PlaceKept
  <2>3. ASSUME NEW k \in DOMAIN todo, k > 1, todo[k][1] # "store"
        PROVE  todo[k][2] # b
    <3>1. todo[k] \in Entry
      BY <1>1
    <3>2. CASE todo[k][1] = "decRef"
      <4>1. todo[k] = <<"decRef", todo[k][2]>>
        BY <3>1, <3>2 DEF Entry
      <4>. QED  BY <1>7, <4>1 DEF Dropping, Occurrences
    <3>3. CASE todo[k][1] = "clear"
      <4>1. ClearTyped(k)
        BY <1>1, <3>3 DEF TodoTyped
      <4>2. k + 1 \in DOMAIN todo /\ todo[k + 1] = <<"decRef", todo[k][2]>>
        BY <1>1, <4>1 DEF ClearTyped
      <4>. QED  BY <1>7, <4>2 DEF Dropping, Occurrences
    <3>4. CASE todo[k][1] = "free"
      <4>1. todo[k] = <<"free", todo[k][2]>>
        BY <3>1, <3>4 DEF Entry
      <4>. QED  BY <1>3, <2>3, <4>1
    <3>. QED  BY <2>3, <3>1, <3>2, <3>3, <3>4 DEF Entry
  <2>4. Remaining({b}) /\ Apart(<<>>) /\ CallsTyped(<<>>)
    BY <1>1, <2>1, <2>2, <2>3 DEF Remaining, Apart, CallsTyped
  <2>. QED  BY <1>1, <2>4, TailTyped
<1>14. Remembered'
  BY <1>6, <1>8 DEF MemoryInv, Remembered
<1>15. Counted'
  <2>1. ASSUME NEW c \in Allocated'
        PROVE  References(c)' = References(c)
    <3>1. VarsTo(c)' = VarsTo(c)
      BY <1>8 DEF VarsTo
    <3>2. FieldsTo(c)' = FieldsTo(c)
      BY <1>3, <1>6, <1>8 DEF FieldsTo
    <3>3. Cardinality(Dropping(c)') = Cardinality(Dropping(c))
      <4>1. Cardinality(Dropping(c)) \in Nat
        BY <1>1, ReferencesFinite
      <4>2. Cardinality(Occurrences(<<>>, <<"decRef", c>>)) = 0
        BY OccurrencesNone
      <4>3. todo[1] # <<"decRef", c>>
        BY <1>1
      <4>. QED  BY <1>8, <4>1, <4>2, <4>3
    <3>. QED  BY <3>1, <3>2, <3>3 DEF References
  <2>. QED  BY <1>6, <2>1 DEF MemoryInv, Counted
<1>. QED  BY <1>11, <1>12, <1>13, <1>14, <1>15 DEF MemoryInv

(* What is stored has its reference. *)
LEMMA Stored ==
  ASSUME MemoryInv, todo # <<>>, NEW place, NEW new, todo[1] = <<"store", place, new>>,
         todo' = Tail(todo), temp' = temp, lost' = lost, Allocated' = Allocated,
         heap' \in [Blocks -> Block \cup {Free}],
         \A c \in Allocated :
           /\ heap'[c].kind = heap[c].kind /\ heap'[c].length = heap[c].length
           /\ heap'[c].contains_pointers = heap[c].contains_pointers
           /\ heap[c].kind # "data" => heap'[c].fields = heap[c].fields
           /\ Len(heap'[c].fields) = Len(heap[c].fields)
           /\ heap'[c].fields = <<>> <=> heap[c].fields = <<>>
           /\ DOMAIN heap'[c].fields = DOMAIN heap[c].fields
           /\ heap'[c].ref_count = heap[c].ref_count + (IF c = new THEN 1 ELSE 0),
         \A c \in Allocated : \A i \in DOMAIN heap[c].fields :
           heap'[c].fields[i] = IF <<c, i>> = place THEN new ELSE heap[c].fields[i],
         var' \in [Vars -> Pointers],
         \A v \in Vars : var'[v] = IF <<v>> = place THEN new ELSE var[v]
  PROVE  MemoryInv'
<1>1. /\ todo \in Seq(Entry) /\ 1 \in DOMAIN todo /\ DOMAIN todo = 1..Len(todo)
      /\ Len(todo) \in Nat /\ Typed /\ TodoTyped /\ todo[1] \in Entry
      /\ todo[1][1] = "store" /\ todo[1][2] = place /\ todo[1][3] = new
      /\ \A e : e \in DOMAIN <<>> => FALSE
  <2>1. Typed /\ TodoTyped /\ todo \in Seq(Entry)
    BY DEF MemoryInv, TodoTyped
  <2>2. 1 \in DOMAIN todo /\ DOMAIN todo = 1..Len(todo) /\ Len(todo) \in Nat
    BY <2>1
  <2>3. todo[1] \in Entry
    BY <2>1, <2>2
  <2>. QED  BY <2>1, <2>2, <2>3
<1>2. StoreTyped(1)
  BY <1>1 DEF TodoTyped
<1>3. /\ Len(todo) = 1
      /\ Len(place) = 2 =>
           /\ Is(place[1], {"data"}) /\ heap[place[1]].contains_pointers
           /\ place[2] \in DOMAIN heap[place[1]].fields
      /\ new # Null => Is(new, PlaceKinds(place)) /\ new \notin lost
  BY <1>1, <1>2 DEF StoreTyped
<1>4. \A k \in DOMAIN todo : k = 1
  BY <1>1, <1>3
<1>5. todo' = <<>> /\ temp = Null
  <2>1. Len(Tail(todo)) = 0 /\ Tail(todo) \in Seq(Entry)
    BY <1>1, <1>3
  <2>. QED  BY <2>1 DEF MemoryInv, Unused
<1>6. /\ \A p : Overwritten(p) <=> p = place
      /\ \A p : ~ Overwritten(p)'
      /\ \A b : ~ Freeing(b) /\ ~ Freeing(b)' /\ ~ Clearing(b) /\ ~ Clearing(b)'
      /\ \A b : Dropping(b) = {} /\ Dropping(b)' = {}
      /\ \A b : (b = new \/ InHand(b)') /\ b # Null <=> (b = new \/ b \in lost) /\ b # Null
  <2>1. \A b : todo[1] # <<"free", b>> /\ todo[1] # <<"clear", b>> /\ todo[1] # <<"decRef", b>>
    BY <1>1
  <2>. QED  BY <1>1, <1>4, <1>5, <2>1
            DEF Overwritten, Freeing, Clearing, Dropping, Occurrences, InHand
<1>7. \/ \E w \in Vars : place = <<w>> /\ Len(place) = 1
      \/ /\ Len(place) = 2 /\ place = <<place[1], place[2]>>
         /\ \A v \in Vars : place # <<v>>
  <2>1. place \in Places
    BY <1>1 DEF Entry
  <2>. QED  BY <2>1 DEF Places
<1>8. \A c, kinds : Is(c, kinds)' <=> Is(c, kinds)
  BY DEF Is
<1>9. /\ \A c \in Allocated : c # Null /\ c \in Blocks /\ heap[c].ref_count \in Nat
      /\ new # Null => heap[new].kind \notin {"chars", "data"}
  <2>1. new # Null => heap[new].kind \notin {"chars", "data"}
    BY <1>3 DEF Is, PlaceKinds, VarKinds
  <2>. QED  BY <1>1, <2>1, FewReferences, MemoryAssumption DEF MemoryInv, Allocated
<1>10. Typed'
  <2>1. ASSUME NEW c \in Allocated
        PROVE  BlockTyped(c)'
    <3>1. BlockTyped(c)
      BY <1>1 DEF Typed
    <3>2. ASSUME heap[c].kind = "array"
          PROVE  ArrayTyped(c)'
      <4>1. ArrayTyped(c) /\ heap'[c].fields = heap[c].fields
        BY <3>1, <3>2 DEF BlockTyped
      <4>2. DataOf(c)' = DataOf(c) /\ ElementsDropped(c)' = ElementsDropped(c)
        BY <4>1 DEF DataOf, ElementsDropped
      <4>3. Is(DataOf(c), {"data"}) =>
              /\ OfPointers(c)' = OfPointers(c)
              /\ Len(heap'[DataOf(c)].fields) = Len(heap[DataOf(c)].fields)
        BY <4>2 DEF Is, OfPointers
      <4>. QED  BY <1>6, <1>8, <4>1, <4>2, <4>3 DEF ArrayTyped
    <3>3. ASSUME heap[c].kind = "data"
          PROVE  DataTyped(c)'
      BY <1>6, <3>1, <3>3 DEF BlockTyped, DataTyped
    <3>4. heap[c].kind \in {"chars", "data"} => heap'[c].ref_count = heap[c].ref_count
      BY <1>9
    <3>. QED  BY <3>1, <3>2, <3>3, <3>4 DEF BlockTyped
  <2>2. ASSUME NEW c \in Allocated, NEW i \in DOMAIN heap'[c].fields
        PROVE  FieldTyped(c, i)'
    <3>1. FieldTyped(c, i) /\ i \in DOMAIN heap[c].fields
      BY <1>1, <2>2 DEF Typed
    <3>2. CASE <<c, i>> = place
      <4>1. Len(place) = 2 /\ place[1] = c
        BY <3>2
      <4>2. heap'[c].fields[i] = new /\ heap[c].kind = "data" /\ heap'[c].kind = "data"
        BY <1>3, <3>1, <3>2, <4>1 DEF Is
      <4>. QED  BY <1>3, <1>8, <4>1, <4>2 DEF FieldTyped, PlaceKinds, Below
    <3>3. CASE <<c, i>> # place
      BY <1>6, <1>8, <3>1, <3>3 DEF FieldTyped
    <3>. QED  BY <3>2, <3>3
  <2>3. ASSUME NEW v \in Vars
        PROVE  VarTyped(v)'
    <3>1. VarTyped(v)
      BY <1>1 DEF Typed
    <3>2. CASE <<v>> = place
      <4>1. Len(place) = 1 /\ place[1] = v
        BY <3>2
      <4>. QED  BY <1>3, <1>8, <3>2, <4>1 DEF VarTyped, PlaceKinds
    <3>3. CASE <<v>> # place
      BY <1>6, <1>8, <3>1, <3>3 DEF VarTyped
    <3>. QED  BY <3>2, <3>3
  <2>. QED  BY <2>1, <2>2, <2>3 DEF Typed
<1>11. Unused'
  BY <1>3, <1>5, <1>6, <1>9 DEF MemoryInv, Unused
<1>12. TodoTyped'
  <2>1. todo' \in Seq(Entry) /\ \A k : k \in DOMAIN todo' => FALSE
    BY <1>1, <1>5
  <2>. QED  BY <2>1 DEF TodoTyped
<1>13. Remembered'
  <2>1. ASSUME NEW c \in Allocated, heap'[c].ref_count = 0
        PROVE  c \in lost
    <3>1. c # new /\ heap[c].ref_count = 0
      BY <1>9, <2>1
    <3>2. InHand(c)
      BY <3>1 DEF MemoryInv, Remembered
    <3>. QED  BY <1>1, <1>4, <1>5, <1>6, <1>9, <3>1, <3>2 DEF InHand
  <2>. QED  BY <2>1 DEF Remembered, InHand
<1>14. Counted'
  <2>1. ASSUME NEW c \in Allocated
        PROVE  References(c)' = heap'[c].ref_count /\ References(c)' <= MaxReferences
    <3>. DEFINE one == IF c = new THEN 1 ELSE 0
    <3>1. /\ IsFiniteSet(VarsTo(c)) /\ IsFiniteSet(FieldsTo(c))
          /\ Cardinality(VarsTo(c)) \in Nat /\ Cardinality(FieldsTo(c)) \in Nat
          /\ Cardinality(Dropping(c)) = 0 /\ Cardinality(Dropping(c)') = 0
      BY <1>1, <1>6, ReferencesFinite, FS_EmptySet
    <3>2. Cardinality(VarsTo(c)') + Cardinality(FieldsTo(c)')
            = Cardinality(VarsTo(c)) + Cardinality(FieldsTo(c)) + one
      <4>1. ASSUME NEW w \in Vars, place = <<w>>
            PROVE  /\ FieldsTo(c)' = FieldsTo(c)
                   /\ VarsTo(c)' = IF c = new THEN VarsTo(c) \cup {w} ELSE VarsTo(c)
                   /\ w \notin VarsTo(c)
        <5>1. \A d, i : <<d, i>> # place
          BY <4>1
        <5>2. \A p \in FieldPlaces : p = <<p[1], p[2]>> /\ p # place
          BY <5>1 DEF FieldPlaces
        <5>3. \A v \in Vars : <<v>> = place <=> v = w
          BY <4>1
        <5>4. FieldsTo(c)' = FieldsTo(c)
          BY <1>6, <5>1, <5>2 DEF FieldsTo
        <5>5. VarsTo(c) = {v \in Vars : var[v] = c /\ v # w}
          BY <1>6, <5>3 DEF VarsTo
        <5>6. VarsTo(c)' = {v \in Vars : IF v = w THEN new = c ELSE var[v] = c}
          BY <1>6, <5>3 DEF VarsTo
        <5>. QED  BY <5>4, <5>5, <5>6
      <4>2. ASSUME place = <<place[1], place[2]>>, Len(place) = 2, \A v \in Vars : place # <<v>>
            PROVE  /\ VarsTo(c)' = VarsTo(c)
                   /\ FieldsTo(c)' = IF c = new THEN FieldsTo(c) \cup {place} ELSE FieldsTo(c)
                   /\ place \notin FieldsTo(c)
        <5>1. VarsTo(c)' = VarsTo(c)
          <6>1. ASSUME NEW v \in Vars
                PROVE  ~ Overwritten(<<v>>) /\ ~ Overwritten(<<v>>)'
            <7>1. <<v>> # place
              BY <4>2
            <7>2. ~ Overwritten(<<v>>)
              BY <1>6, <7>1, Zenon
            <7>. QED  BY <1>6, <7>2, Zenon
          <6>2. ASSUME NEW v \in Vars
                PROVE  var'[v] = var[v]
            <7>1. <<v>> # place
              BY <4>2
            <7>. QED  BY <7>1
          <6>. QED  BY <6>1, <6>2 DEF VarsTo
        <5>2. /\ place[1] \in Allocated /\ place[2] \in DOMAIN heap[place[1]].fields
              /\ place \in FieldPlaces
          BY <1>1, <1>3, <4>2, FieldIndex DEF Is
        <5>3. \A p \in FieldPlaces : p = <<p[1], p[2]>>
          BY DEF FieldPlaces
        <5>4. \A p \in FieldPlaces : p \in FieldsTo(c)' <=>
                IF p = place THEN new = c ELSE p \in FieldsTo(c)
          BY SMTT(30), <1>6, <5>2, <5>3 DEF FieldsTo
        <5>5. place \notin FieldsTo(c) /\ FieldsTo(c) \subseteq FieldPlaces
                /\ FieldsTo(c)' \subseteq FieldPlaces
          BY <1>6 DEF FieldsTo
        <5>. QED  BY <5>1, <5>2, <5>4, <5>5
      <4>3. CASE \E w \in Vars : place = <<w>>
        <5>1. PICK w \in Vars : place = <<w>>
          BY <4>3
        <5>2. /\ FieldsTo(c)' = FieldsTo(c) /\ w \notin VarsTo(c)
              /\ VarsTo(c)' = IF c = new THEN VarsTo(c) \cup {w} ELSE VarsTo(c)
          BY <4>1, <5>1
        <5>3. Cardinality(VarsTo(c) \cup {w}) = Cardinality(VarsTo(c)) + 1
          BY <3>1, <5>2, FS_AddElement
        <5>. QED  BY <3>1, <5>2, <5>3
      <4>4. CASE /\ Len(place) = 2 /\ place = <<place[1], place[2]>>
                 /\ \A v \in Vars : place # <<v>>
        <5>1. /\ VarsTo(c)' = VarsTo(c) /\ place \notin FieldsTo(c)
              /\ FieldsTo(c)' = IF c = new THEN FieldsTo(c) \cup {place} ELSE FieldsTo(c)
          BY <4>2, <4>4
        <5>2. Cardinality(FieldsTo(c) \cup {place}) = Cardinality(FieldsTo(c)) + 1
          BY <3>1, <5>1, FS_AddElement
        <5>. QED  BY <3>1, <5>1, <5>2
      <4>. QED  BY <1>7, <4>3, <4>4
    <3>3. /\ Cardinality(VarsTo(c)') \in Nat /\ Cardinality(FieldsTo(c)') \in Nat
          /\ Cardinality(VarsTo(c)') + Cardinality(FieldsTo(c)') + 2 <= MaxReferences
          /\ MaxReferences \in Nat
      <4>1. VarsTo(c)' \in SUBSET Vars /\ FieldsTo(c)' \in SUBSET FieldPlaces
        BY DEF VarsTo, FieldsTo
      <4>. QED  BY <4>1, PlacesFinite
    <3>4. References(c) = heap[c].ref_count
      BY DEF MemoryInv, Counted
    <3>. QED  BY <3>1, <3>2, <3>3, <3>4 DEF References
  <2>. QED  BY <2>1 DEF Counted
<1>. QED  BY <1>10, <1>11, <1>12, <1>13, <1>14 DEF MemoryInv

(* DAL_assign ends. *)
LEMMA StoreStep ==
  ASSUME MemoryInv, Store
  PROVE  MemoryInv'
<1>1. /\ todo # <<>> /\ todo[1][1] = "store" /\ todo' = Tail(todo)
      /\ temp' = temp /\ lost' = lost
  BY DEF Store
<1>2. /\ todo \in Seq(Entry) /\ 1 \in DOMAIN todo /\ Typed /\ TodoTyped /\ todo[1] \in Entry
  <2>1. Typed /\ TodoTyped /\ todo \in Seq(Entry)
    BY DEF MemoryInv, TodoTyped
  <2>2. 1 \in DOMAIN todo
    BY <1>1, <2>1
  <2>. QED  BY <2>1, <2>2
<1>3. PICK place \in Places, new \in Pointers : todo[1] = <<"store", place, new>>
  BY <1>1, <1>2 DEF Entry
<1>4. todo[1][2] = place /\ todo[1][3] = new
  BY <1>3
<1>5. StoreTyped(1)
  BY <1>1, <1>2 DEF TodoTyped
<1>6. /\ Len(todo) = 1
      /\ Len(place) = 2 =>
           /\ Is(place[1], {"data"}) /\ heap[place[1]].contains_pointers
           /\ place[2] \in DOMAIN heap[place[1]].fields
      /\ new # Null => Is(new, PlaceKinds(place))
  BY <1>4, <1>5 DEF StoreTyped
<1>. DEFINE h == DAL_incRef(heap, new)
<1>7. /\ heap \in [Blocks -> Block \cup {Free}] /\ var \in [Vars -> Pointers]
      /\ \A c \in Blocks : c \in Allocated <=> heap[c] # Free
      /\ \A c \in Allocated : c \in Blocks /\ heap[c] \in Block
  BY <1>2, AllocatedIs DEF Typed, Allocated
<1>8. new # Null => heap[new] \in Block /\ heap[new].ref_count < MaxReferences
  <2>1. SUFFICES ASSUME new # Null
                 PROVE  heap[new] \in Block /\ heap[new].ref_count < MaxReferences
    OBVIOUS
  <2>2. new \in Allocated
    BY <1>6, <2>1 DEF Is
  <2>3. Dropping(new) = {}
    <3>1. \A k \in DOMAIN todo : todo[k] = todo[1]
      BY <1>2, <1>6
    <3>. QED  BY <1>1, <3>1 DEF Dropping, Occurrences
  <2>4. /\ Cardinality(Dropping(new)) = 0 /\ VarsTo(new) \in SUBSET Vars
        /\ FieldsTo(new) \in SUBSET FieldPlaces
    BY <1>2, <2>3, ReferencesFinite, FS_EmptySet
  <2>5. /\ Cardinality(VarsTo(new)) \in Nat /\ Cardinality(FieldsTo(new)) \in Nat
        /\ Cardinality(VarsTo(new)) + Cardinality(FieldsTo(new)) + 2 <= MaxReferences
        /\ MaxReferences \in Nat
    BY <2>4, PlacesFinite
  <2>6. References(new) = heap[new].ref_count
    BY <2>2 DEF MemoryInv, Counted
  <2>. QED  BY <1>7, <2>2, <2>4, <2>5, <2>6 DEF References
<1>9. /\ h \in [Blocks -> Block \cup {Free}]
      /\ \A c \in Blocks : h[c] = Free <=> heap[c] = Free
      /\ \A c \in Blocks : heap[c] # Free =>
           /\ h[c].kind = heap[c].kind /\ h[c].length = heap[c].length
           /\ h[c].contains_pointers = heap[c].contains_pointers
           /\ h[c].fields = heap[c].fields
           /\ h[c].ref_count = heap[c].ref_count + (IF c = new THEN 1 ELSE 0)
  BY <1>7, <1>8, IncRef
<1>10. \/ Len(place) = 1 /\ place = <<place[1]>> /\ place[1] \in Vars
       \/ Len(place) = 2 /\ place = <<place[1], place[2]>>
  BY DEF Places
<1>11. CASE Len(place) = 1
  <2>1. var' = [var EXCEPT ![place[1]] = new] /\ heap' = h
    BY <1>4, <1>11 DEF Store
  <2>. HIDE DEF h
  <2>2. \A v \in Vars : var'[v] = IF <<v>> = place THEN new ELSE var[v]
    <3>1. \A v \in Vars : <<v>> = place <=> v = place[1]
      BY <1>10, <1>11
    <3>. QED  BY <1>7, <2>1, <3>1
  <2>3. var' \in [Vars -> Pointers]
    BY <1>7, <2>1
  <2>4. Allocated' = Allocated
    BY <1>7, <1>9, <2>1 DEF Allocated
  <2>5. \A c \in Allocated :
          /\ heap'[c].kind = heap[c].kind /\ heap'[c].length = heap[c].length
          /\ heap'[c].contains_pointers = heap[c].contains_pointers
          /\ heap'[c].fields = heap[c].fields
          /\ heap'[c].ref_count = heap[c].ref_count + (IF c = new THEN 1 ELSE 0)
    BY <1>7, <1>9, <2>1
  <2>6. \A c, i : <<c, i>> # place
    BY <1>11
  <2>. QED  BY <1>1, <1>3, <1>9, <2>1, <2>2, <2>3, <2>4, <2>5, <2>6, Stored
<1>12. CASE Len(place) = 2
  <2>1. var' = var /\ heap' = [h EXCEPT ![place[1]].fields[place[2]] = new]
    BY <1>4, <1>12 DEF Store
  <2>. HIDE DEF h
  <2>2. \A v \in Vars : var'[v] = IF <<v>> = place THEN new ELSE var[v]
    <3>1. \A v \in Vars : <<v>> # place
      BY <1>12
    <3>. QED  BY <2>1, <3>1
  <2>3. var' \in [Vars -> Pointers]
    BY <1>7, <2>1
  <2>4. PICK d, i : place = <<d, i>> /\ place[1] = d /\ place[2] = i
    BY <1>10, <1>12
  <2>5. /\ d \in Allocated /\ d \in Blocks /\ heap[d].kind = "data" /\ heap[d] # Free
        /\ i \in DOMAIN heap[d].fields /\ heap[d].fields \in Seq(Pointers)
        /\ h[d].fields = heap[d].fields /\ h[d] \in Block
    <3>1. d \in Allocated /\ heap[d].kind = "data" /\ i \in DOMAIN heap[d].fields
      BY <1>6, <1>12, <2>4 DEF Is
    <3>2. d \in Blocks /\ heap[d] # Free /\ heap[d] \in Block
      BY <1>7, <3>1
    <3>3. h[d].fields = heap[d].fields /\ h[d] \in Block /\ heap[d].fields \in Seq(Pointers)
      BY <1>9, <3>2 DEF Block
    <3>. QED  BY <3>1, <3>2, <3>3
  <2>6. heap' = [h EXCEPT ![d] = [h[d] EXCEPT !.fields = [h[d].fields EXCEPT ![i] = new]]]
    BY <2>1, <2>4
  <2>7. PICK f : f = [h[d].fields EXCEPT ![i] = new]
    OBVIOUS
  <2>8. /\ f \in Seq(Pointers) /\ Len(f) = Len(heap[d].fields) /\ DOMAIN f = DOMAIN heap[d].fields
        /\ (f = <<>> <=> heap[d].fields = <<>>)
        /\ f[i] = new /\ \A j \in DOMAIN heap[d].fields : j # i => f[j] = heap[d].fields[j]
    <3>1. f = [heap[d].fields EXCEPT ![i] = new]
      BY <2>5, <2>7
    <3>. QED  BY <2>5, <3>1
  <2>9. PICK block : block = [h[d] EXCEPT !.fields = f]
    OBVIOUS
  <2>10. /\ block \in Block /\ block.fields = f
         /\ block.kind = h[d].kind /\ block.length = h[d].length
         /\ block.contains_pointers = h[d].contains_pointers
         /\ block.ref_count = h[d].ref_count
    BY <2>5, <2>8, <2>9 DEF Block
  <2>11. heap' = [h EXCEPT ![d] = block]
    BY <2>6, <2>7, <2>9
  <2>12. /\ heap' \in [Blocks -> Block \cup {Free}] /\ heap'[d] = block
         /\ \A c \in Blocks : c # d => heap'[c] = h[c]
         /\ block # Free
    BY <1>9, <2>5, <2>10, <2>11, MemoryAssumption
  <2>13. Allocated' = Allocated
    BY <1>7, <1>9, <2>5, <2>12 DEF Allocated
  <2>14. \A c \in Allocated :
           /\ heap'[c].kind = heap[c].kind /\ heap'[c].length = heap[c].length
           /\ heap'[c].contains_pointers = heap[c].contains_pointers
           /\ heap'[c].ref_count = heap[c].ref_count + (IF c = new THEN 1 ELSE 0)
           /\ c # d => heap'[c].fields = heap[c].fields
    BY <1>7, <1>9, <2>5, <2>10, <2>12
  <2>15. heap'[d].fields = f
    BY <2>10, <2>12
  <2>16. \A c \in Allocated : \A j \in DOMAIN heap[c].fields :
           heap'[c].fields[j] = IF <<c, j>> = place THEN new ELSE heap[c].fields[j]
    <3>1. \A c, j : <<c, j>> = place <=> c = d /\ j = i
      BY <2>4
    <3>. QED  BY SMTT(30), <2>8, <2>14, <2>15, <3>1
  <2>17. \A c \in Allocated :
           /\ heap[c].kind # "data" => heap'[c].fields = heap[c].fields
           /\ Len(heap'[c].fields) = Len(heap[c].fields)
           /\ heap'[c].fields = <<>> <=> heap[c].fields = <<>>
           /\ DOMAIN heap'[c].fields = DOMAIN heap[c].fields
    BY <2>5, <2>8, <2>14, <2>15
  <2>. QED  BY <1>1, <1>3, <2>2, <2>3, <2>12, <2>13, <2>14, <2>16, <2>17, Stored
<1>. QED  BY <1>10, <1>11, <1>12

(* Dropping b empties the blocks E and makes way for the calls D, which     *)
(* give up the references these blocks had and then free b.                 *)
From(c, E) == {p \in FieldsTo(c) : p[1] \in E}

EmptiedTyped(b, E, D) ==
  /\ b \in E /\ E \subseteq Allocated
  /\ \A c \in E :
       /\ c # b => heap[c].kind = "data"
       /\ Rank(heap[c].kind) <= Rank(heap[b].kind)
       /\ \A p \in FieldsTo(c) : p[1] \in E
       /\ heap[c].kind = "data" /\ heap[c].contains_pointers =>
            \E j \in DOMAIN D : D[j] = <<"clear", c>>

CallTyped(k, b, E, D) ==
  /\ D[k][1] \in {"decRef", "clear", "free"}
  /\ D[k][1] = "decRef" /\ D[k][2] # Null /\ heap[D[k][2]].kind = "data" =>
       k > 1 /\ D[k - 1] = <<"clear", D[k][2]>>
  /\ D[k][1] = "clear" =>
       /\ D[k][2] \in E /\ heap[D[k][2]].kind = "data"
       /\ k < Len(D) /\ D[k + 1] = <<"decRef", D[k][2]>>
  /\ D[k][1] = "free" => k = Len(D)
  /\ D[k][2] # Null =>
       \/ D[k][2] = b
       \/ D[k][2] \in Allocated /\ Rank(heap[D[k][2]].kind) < Rank(heap[b].kind)

DropCalls(b, E, D) ==
  /\ \A k \in DOMAIN D : CallTyped(k, b, E, D)
  /\ Len(D) \in DOMAIN D /\ D[Len(D)] = <<"free", b>>
  /\ \A c \in Allocated :
       Cardinality(Occurrences(D, <<"decRef", c>>)) = Cardinality(From(c, E))

(* What is to be stored is not among what is dropped, nor is the place.     *)
LEMMA StoredApart ==
  ASSUME TodoTyped, todo # <<>>, NEW b \in Allocated, b # Null, todo[1] = <<"decRef", b>>,
         NEW k \in DOMAIN todo, todo[k][1] = "store"
  PROVE  /\ todo[k][3] # b
         /\ \A kind \in PlaceKinds(todo[k][2]) : Rank(heap[b].kind) <= Rank(kind)
         /\ \A c \in Allocated : Rank(heap[c].kind) < Rank(heap[b].kind) => c # todo[k][3]
         /\ Len(todo[k][2]) = 2 => Rank(heap[b].kind) <= 2
<1>1. StoreTyped(k) /\ 1 \in DOMAIN todo /\ k # 1 /\ todo[1][2] = b
  BY DEF TodoTyped
<1>2. /\ todo[k][3] # b
      /\ \A kind \in PlaceKinds(todo[k][2]) : Rank(heap[b].kind) <= Rank(kind)
      /\ todo[k][3] # Null => Is(todo[k][3], PlaceKinds(todo[k][2]))
  BY <1>1 DEF StoreTyped
<1>3. \A kind : Rank(kind) \in Nat
  BY DEF Rank
<1>4. \A c \in Allocated : Rank(heap[c].kind) < Rank(heap[b].kind) => c # todo[k][3]
  <2>1. ASSUME NEW c \in Allocated, Rank(heap[c].kind) < Rank(heap[b].kind), c = todo[k][3]
        PROVE  FALSE
    <3>1. heap[c].kind \in PlaceKinds(todo[k][2])
      BY <1>2, <2>1, MemoryAssumption DEF Is, Allocated
    <3>2. Rank(heap[b].kind) <= Rank(heap[c].kind)
      BY <1>2, <3>1
    <3>. QED  BY <1>3, <2>1, <3>2
  <2>. QED  BY <2>1
<1>5. Len(todo[k][2]) = 2 => Rank(heap[b].kind) <= 2
  <2>1. Len(todo[k][2]) = 2 => "string" \in PlaceKinds(todo[k][2])
    BY DEF PlaceKinds
  <2>2. Rank("string") = 2
    BY DEF Rank
  <2>. QED  BY <1>2, <2>1, <2>2
<1>. QED  BY <1>2, <1>4, <1>5

(* Nor is a place of what is emptied. *)
LEMMA EmptiedKept ==
  ASSUME TodoTyped, todo # <<>>, NEW b \in Allocated, b # Null, todo[1] = <<"decRef", b>>,
         NEW c \in Allocated, Rank(heap[c].kind) <= Rank(heap[b].kind), NEW i
  PROVE  ~ Overwritten(<<c, i>>)
<1>. SUFFICES ASSUME Overwritten(<<c, i>>)
              PROVE  FALSE
  OBVIOUS
<1>1. PICK k \in DOMAIN todo : todo[k][1] = "store" /\ todo[k][2] = <<c, i>>
  BY DEF Overwritten
<1>2. Len(todo[k][2]) = 2
  BY <1>1
<1>3. Rank(heap[b].kind) <= 2
  BY <1>1, <1>2, StoredApart
<1>4. heap[c].kind = "data"
  BY OverwrittenData
<1>5. Rank(heap[c].kind) = 3 /\ Rank(heap[b].kind) \in Nat
  BY <1>4 DEF Rank
<1>. QED  BY <1>3, <1>5

(* What the last drop of b makes of the blocks, when it empties E.         *)
AsDropped(b, E) ==
  \A c \in Allocated :
    /\ heap'[c].kind = heap[c].kind /\ heap'[c].length = heap[c].length
    /\ heap'[c].contains_pointers = heap[c].contains_pointers
    /\ heap'[c].fields = IF c \in E THEN <<>> ELSE heap[c].fields
    /\ heap'[c].ref_count = IF c = b THEN 0 ELSE heap[c].ref_count

(* The last reference is dropped. *)
LEMMA LastDrop ==
  ASSUME MemoryInv, todo # <<>>, NEW b, todo[1] = <<"decRef", b>>, b # Null,
         NEW E, NEW D \in Seq(Entry), EmptiedTyped(b, E, D), DropCalls(b, E, D),
         todo' = D \o Tail(todo), var' = var, temp' = temp, lost' = lost,
         heap' \in [Blocks -> Block \cup {Free}], Allocated' = Allocated,
         AsDropped(b, E),
         heap[b].ref_count = 1
  PROVE  MemoryInv'
<1>. USE DEF AsDropped
<1>1. /\ todo \in Seq(Entry) /\ Typed /\ TodoTyped
      /\ todo[1][1] = "decRef" /\ todo[1][2] = b /\ b \in Allocated /\ E \subseteq Allocated
      /\ b \in E
  BY DEF MemoryInv, TodoTyped, EmptiedTyped
<1>2. /\ DOMAIN todo = 1..Len(todo) /\ Len(todo) \in Nat /\ 1 \in DOMAIN todo
      /\ DOMAIN D = 1..Len(D) /\ Len(D) \in Nat
  BY <1>1
<1>3. /\ \A k \in DOMAIN D : CallTyped(k, b, E, D)
      /\ Len(D) \in DOMAIN D /\ D[Len(D)] = <<"free", b>>
      /\ \A k \in DOMAIN D : D[k][1] = "free" => k = Len(D)
      /\ \A k \in DOMAIN D : D[k][1] # "store"
  BY DEF DropCalls, CallTyped
<1>4. \A c : (\E j \in DOMAIN D : D[j] = <<"free", c>>) <=> c = b
  <2>1. ASSUME NEW c, NEW j \in DOMAIN D, D[j] = <<"free", c>>
        PROVE  c = b
    <3>1. D[j][1] = "free" /\ D[j][2] = c
      BY <2>1
    <3>2. D[j] = <<"free", b>>
      BY <1>3, <3>1
    <3>. QED  BY <3>1, <3>2
  <2>. QED  BY <1>3, <2>1
<1>5. /\ temp = Null
      /\ \A place : Overwritten(place)' <=> Overwritten(place)
      /\ \A c : Freeing(c)' <=> c = b \/ Freeing(c)
      /\ \A c : (\E j \in DOMAIN D : D[j] = <<"clear", c>>) \/ Clearing(c) => Clearing(c)'
      /\ \A c : InHand(c) => InHand(c)'
      /\ \A c : Cardinality(Dropping(c)') =
           (Cardinality(Occurrences(D, <<"decRef", c>>)) + Cardinality(Dropping(c)))
             - (IF todo[1] = <<"decRef", c>> THEN 1 ELSE 0)
  <2>1. \A c : todo[1] # <<"free", c>> /\ todo[1] # <<"clear", c>> /\ todo[1][1] # "store"
    BY <1>1
  <2>. QED  BY ZenonT(30), <1>1, <1>3, <1>4, <2>1, NextCall
<1>6. /\ ~ Freeing(b) /\ b \notin lost
      /\ \A c \in Allocated : heap[c].ref_count \in Nat /\ c \in Blocks
  <2>1. ASSUME NEW k \in DOMAIN todo, todo[k] = <<"free", b>>
        PROVE  FALSE
    <3>1. todo[k][1] = "free" /\ todo[k][2] = b
      BY <2>1
    <3>. QED  BY <1>1, <3>1 DEF TodoTyped, FreeTyped
  <2>2. \A c \in lost : heap[c].ref_count = 0
    BY DEF MemoryInv, Unused
  <2>. QED  BY <1>1, <2>1, <2>2, FewReferences DEF Freeing, MemoryInv, Allocated
<1>7. \A c \in E : \A i : ~ Overwritten(<<c, i>>)
  BY <1>1, EmptiedKept DEF EmptiedTyped
<1>8. \A c, kinds : Is(c, kinds)' <=> Is(c, kinds)
  BY DEF Is
<1>9. Typed'
  <2>1. ASSUME NEW c \in Allocated
        PROVE  BlockTyped(c)'
    <3>1. BlockTyped(c)
      BY <1>1 DEF Typed
    <3>2. heap'[c].ref_count <= heap[c].ref_count /\ heap'[c].ref_count \in Nat
      BY <1>6
    <3>3. CASE c \in E
      <4>1. heap'[c].fields = <<>> /\ Len(heap'[c].fields) = 0
        BY <3>3
      <4>2. ASSUME heap[c].kind = "array"
            PROVE  ArrayTyped(c)'
        BY <1>5, <3>3, <4>1, <4>2 DEF ArrayTyped, EmptiedTyped
      <4>3. ASSUME heap[c].kind = "data"
            PROVE  DataTyped(c)'
        <5>1. heap[c].contains_pointers => Clearing(c)'
          BY <1>5, <3>3, <4>3 DEF EmptiedTyped
        <5>2. 0 <= MaxLength + 1
          BY MemoryAssumption
        <5>. QED  BY <4>1, <5>1, <5>2 DEF DataTyped
      <4>. QED  BY <1>6, <3>1, <3>2, <4>1, <4>2, <4>3 DEF BlockTyped
    <3>4. CASE c \notin E
      <4>1. heap'[c].fields = heap[c].fields
        BY <3>4
      <4>2. ASSUME heap[c].kind = "array"
            PROVE  ArrayTyped(c)'
        <5>1. ArrayTyped(c)
          BY <3>1, <4>2 DEF BlockTyped
        <5>2. DataOf(c)' = DataOf(c) /\ ElementsDropped(c)' = ElementsDropped(c)
          BY <4>1 DEF DataOf, ElementsDropped
        <5>3. ASSUME Len(heap[c].fields) = 1, Is(DataOf(c), {"data"})
              PROVE  /\ Is(DataOf(c), {"data"})' /\ OfPointers(c)' = OfPointers(c)
                     /\ heap'[DataOf(c)].fields = heap[DataOf(c)].fields
          <6>1. heap[c] \in Block /\ 1 \in DOMAIN heap[c].fields
            BY <1>1, <5>3, AllocatedIs DEF Block
          <6>2. ~ Overwritten(<<c, 1>>)
            BY <1>1, <4>2, OverwrittenData
          <6>3. <<c, 1>> \in FieldsTo(DataOf(c))
            BY <1>1, <6>1, <6>2, FieldRefers DEF DataOf
          <6>4. DataOf(c) \notin E
            BY <3>4, <6>3 DEF EmptiedTyped
          <6>. QED  BY <1>8, <5>2, <5>3, <6>4 DEF Is, OfPointers
        <5>. QED  BY <1>5, <4>1, <5>1, <5>2, <5>3 DEF ArrayTyped
      <4>3. ASSUME heap[c].kind = "data"
            PROVE  DataTyped(c)'
        BY <1>5, <3>1, <4>1, <4>3 DEF BlockTyped, DataTyped
      <4>4. heap'[c].ref_count = heap[c].ref_count
        BY <1>1, <3>4
      <4>. QED  BY <3>1, <4>1, <4>2, <4>3, <4>4 DEF BlockTyped
    <3>. QED  BY <3>3, <3>4
  <2>2. ASSUME NEW c \in Allocated, NEW i \in DOMAIN heap'[c].fields
        PROVE  FieldTyped(c, i)'
    <3>1. c \notin E /\ heap'[c].fields = heap[c].fields
      BY <2>2
    <3>2. FieldTyped(c, i)
      BY <1>1, <2>2, <3>1 DEF Typed
    <3>. QED  BY <1>5, <1>8, <3>1, <3>2 DEF FieldTyped
  <2>3. \A v \in Vars : VarTyped(v)'
    BY <1>1, <1>5, <1>8 DEF VarTyped, Typed
  <2>. QED  BY <1>1, <2>1, <2>2, <2>3 DEF Typed
<1>10. Unused'
  BY <1>5, <1>6 DEF MemoryInv, Unused
<1>11. Remembered'
  <2>1. ASSUME NEW c \in Allocated, heap'[c].ref_count = 0
        PROVE  InHand(c)'
    <3>1. CASE c = b
      BY <1>5, <3>1 DEF InHand
    <3>2. CASE c # b
      BY <1>5, <2>1, <3>2 DEF MemoryInv, Remembered
    <3>. QED  BY <3>1, <3>2
  <2>. QED  BY <2>1 DEF Remembered
<1>12. TodoTyped'
  <2>1. \A c \in Allocated : Kept(c)
    BY <1>1, <1>6 DEF Kept
  <2>2. ASSUME NEW k \in DOMAIN todo, todo[k][1] = "store"
        PROVE  PlaceKept(todo[k][2])
    <3>1. ASSUME Len(todo[k][2]) = 2
          PROVE  PlaceKept(todo[k][2])
      <4>1. /\ Is(todo[k][2][1], {"data"}) /\ heap[todo[k][2][1]].contains_pointers
        BY <1>1, <2>2, <3>1 DEF TodoTyped, StoreTyped
      <4>2. todo[k][2][1] \notin E
        <5>1. Rank(heap[b].kind) <= 2 /\ Rank(heap[b].kind) \in Nat
          BY <1>1, <2>2, <3>1, StoredApart DEF Rank
        <5>2. Rank("data") = 3
          BY DEF Rank
        <5>3. \A c \in E : heap[c].kind = "data" => Rank("data") <= Rank(heap[b].kind)
          BY DEF EmptiedTyped
        <5>. QED  BY <4>1, <5>1, <5>2, <5>3 DEF Is
      <4>. QED  BY <4>1, <4>2 DEF PlaceKept, Is
    <3>. QED  BY <3>1 DEF PlaceKept
  <2>3. Remaining({})
    BY <1>1, <2>1, <2>2 DEF Remaining
  <2>4. Apart(D)
    <3>1. ASSUME NEW j \in DOMAIN D, NEW k \in DOMAIN todo, todo[k][1] = "free"
          PROVE  D[j] # todo[k]
      <4>1. ASSUME D[j] = todo[k]
            PROVE  FALSE
        <5>1. D[j] = <<"free", b>>
          BY <1>3, <3>1, <4>1
        <5>. QED  BY <1>6, <4>1, <5>1 DEF Freeing
      <4>. QED  BY <4>1
    <3>2. ASSUME NEW j \in DOMAIN D, NEW k \in DOMAIN todo, todo[k][1] = "store", D[j][2] # Null
          PROVE  /\ D[j][2] # todo[k][3]
                 /\ \A kind \in PlaceKinds(todo[k][2]) : Rank(heap'[D[j][2]].kind) <= Rank(kind)
      <4>1. \/ D[j][2] = b
            \/ D[j][2] \in Allocated /\ Rank(heap[D[j][2]].kind) < Rank(heap[b].kind)
        BY <1>3, <3>2 DEF CallTyped
      <4>2. /\ todo[k][3] # b
            /\ \A kind \in PlaceKinds(todo[k][2]) : Rank(heap[b].kind) <= Rank(kind)
            /\ \A c \in Allocated : Rank(heap[c].kind) < Rank(heap[b].kind) => c # todo[k][3]
        BY <1>1, <3>2, StoredApart
      <4>3. heap'[D[j][2]].kind = heap[D[j][2]].kind
        BY <1>1, <4>1
      <4>4. \A kind : Rank(kind) \in Nat
        BY DEF Rank
      <4>. QED  BY <4>1, <4>2, <4>3, <4>4
    <3>. QED  BY <3>1, <3>2 DEF Apart
  <2>5. CallsTyped(D)
    <3>0. /\ todo' \in Seq(Entry) /\ Len(todo') = Len(D) + Len(todo) - 1
          /\ \A k \in DOMAIN D : k \in DOMAIN todo' /\ todo'[k] = D[k]
          /\ \A k \in DOMAIN todo' :
               \/ k \in DOMAIN D /\ todo'[k] = D[k]
               \/ \E j \in DOMAIN todo : j > 1 /\ k = (j - 1) + Len(D) /\ todo'[k] = todo[j]
      BY <1>1, Shifted
    <3>1. ASSUME NEW k \in DOMAIN D, D[k][1] = "decRef"
          PROVE  DropTyped(k)'
      <4>1. SUFFICES ASSUME D[k][2] # Null
                     PROVE  /\ D[k][2] \in Allocated'
                            /\ heap'[D[k][2]].kind = "data" =>
                                 k > 1 /\ todo'[k - 1] = <<"clear", D[k][2]>>
        BY <3>0 DEF DropTyped
      <4>2. D[k][2] \in Allocated
        BY <1>1, <1>3, <4>1 DEF CallTyped
      <4>3. heap[D[k][2]].kind = "data" => k > 1 /\ D[k - 1] = <<"clear", D[k][2]>>
        BY <1>3, <3>1, <4>1 DEF CallTyped
      <4>4. k > 1 => k - 1 \in DOMAIN D
        BY <1>2
      <4>. QED  BY <3>0, <4>2, <4>3, <4>4
    <3>2. ASSUME NEW k \in DOMAIN D, D[k][1] = "clear"
          PROVE  ClearTyped(k)'
      <4>1. /\ D[k][2] \in E /\ heap[D[k][2]].kind = "data"
            /\ k < Len(D) /\ D[k + 1] = <<"decRef", D[k][2]>>
        BY <1>3, <3>2 DEF CallTyped
      <4>2. k + 1 \in DOMAIN D /\ k < Len(todo')
        BY <1>2, <3>0, <4>1
      <4>3. D[k][2] \in Allocated /\ heap'[D[k][2]].fields = <<>>
        BY <1>1, <4>1
      <4>. QED  BY <3>0, <4>1, <4>2, <4>3 DEF ClearTyped, Is
    <3>3. ASSUME NEW k \in DOMAIN D, D[k][1] = "free"
          PROVE  FreeTyped(k)'
      <4>1. k = Len(D) /\ todo'[k] = <<"free", b>>
        BY <1>3, <3>0, <3>3
      <4>2. todo'[k][2] = b
        BY <4>1
      <4>3. ASSUME NEW i \in DOMAIN todo', todo'[i] = todo'[k]
            PROVE  i = k
        <5>1. CASE i \in DOMAIN D /\ todo'[i] = D[i]
          <6>1. D[i][1] = "free"
            BY <4>1, <4>3, <5>1
          <6>. QED  BY <1>3, <4>1, <5>1, <6>1
        <5>2. CASE \E j \in DOMAIN todo : todo'[i] = todo[j]
          BY <1>6, <4>1, <4>3, <5>2 DEF Freeing
        <5>. QED  BY <3>0, <5>1, <5>2
      <4>. QED  BY <1>1, <4>2, <4>3 DEF FreeTyped
    <3>. QED  BY <1>3, <3>1, <3>2, <3>3 DEF CallsTyped
  <2>. QED  BY <1>1, <2>3, <2>4, <2>5, TailTyped
<1>13. Counted'
  <2>1. ASSUME NEW c \in Allocated
        PROVE  References(c)' = heap'[c].ref_count /\ References(c)' <= MaxReferences
    <3>1. VarsTo(c)' = VarsTo(c)
      BY <1>5 DEF VarsTo
    <3>2. FieldsTo(c)' = FieldsTo(c) \ From(c, E)
      <4>1. ASSUME NEW p \in FieldPlaces
            PROVE  p \in FieldsTo(c)' <=> p \in FieldsTo(c) /\ p[1] \notin E
        BY <1>5, <4>1 DEF FieldsTo
      <4>2. FieldsTo(c)' \subseteq FieldPlaces /\ FieldsTo(c) \subseteq FieldPlaces
        BY DEF FieldsTo
      <4>. QED  BY <4>1, <4>2 DEF From
    <3>3. /\ IsFiniteSet(FieldsTo(c)) /\ Cardinality(FieldsTo(c)) \in Nat
          /\ Cardinality(VarsTo(c)) \in Nat /\ Cardinality(Dropping(c)) \in Nat
      BY <1>1, ReferencesFinite
    <3>4. /\ From(c, E) \subseteq FieldsTo(c) /\ IsFiniteSet(From(c, E))
          /\ Cardinality(From(c, E)) \in Nat
          /\ Cardinality(FieldsTo(c)') = Cardinality(FieldsTo(c)) - Cardinality(From(c, E))
      <4>1. From(c, E) \subseteq FieldsTo(c)
        BY DEF From
      <4>2. IsFiniteSet(From(c, E)) /\ Cardinality(From(c, E)) \in Nat
        BY <3>3, <4>1, FS_Subset, FS_CardinalityType
      <4>3. FieldsTo(c) \cap From(c, E) = From(c, E)
        BY <4>1
      <4>4. Cardinality(FieldsTo(c) \ From(c, E))
              = Cardinality(FieldsTo(c)) - Cardinality(FieldsTo(c) \cap From(c, E))
        BY <3>3, FS_Difference
      <4>. QED  BY <3>2, <4>1, <4>2, <4>3, <4>4
    <3>5. Cardinality(Occurrences(D, <<"decRef", c>>)) = Cardinality(From(c, E))
      BY DEF DropCalls
    <3>6. <<"decRef", b>> = <<"decRef", c>> <=> c = b
      OBVIOUS
    <3>7. Cardinality(Dropping(c)') =
            Cardinality(From(c, E)) + Cardinality(Dropping(c)) - (IF c = b THEN 1 ELSE 0)
      <4>1. Cardinality(Dropping(c)') =
              (Cardinality(From(c, E)) + Cardinality(Dropping(c)))
                - (IF <<"decRef", b>> = <<"decRef", c>> THEN 1 ELSE 0)
        BY <1>5, <3>5
      <4>. QED  BY <3>3, <3>4, <3>6, <4>1
    <3>8. References(c)' = References(c) - (IF c = b THEN 1 ELSE 0) /\ References(c) \in Nat
      BY SMTT(30), <3>1, <3>3, <3>4, <3>7 DEF References
    <3>9. References(c) = heap[c].ref_count /\ References(c) <= MaxReferences /\ MaxReferences \in Nat
      BY OneFits DEF MemoryInv, Counted
    <3>. QED  BY <3>8, <3>9
  <2>. QED  BY <2>1 DEF Counted
<1>. QED  BY <1>9, <1>10, <1>11, <1>12, <1>13 DEF MemoryInv

(* The references a block gives up are those in its fields.                 *)
LEMMA DecRefsTyped ==
  ASSUME NEW s \in Seq(Pointers)
  PROVE  /\ DecRefs(s) \in Seq(Entry) /\ Len(DecRefs(s)) = Len(s)
         /\ DOMAIN DecRefs(s) = DOMAIN s
         /\ \A i \in DOMAIN s : DecRefs(s)[i] = <<"decRef", s[i]>>
<1>1. \A i \in DOMAIN s : <<"decRef", s[i]>> \in Entry
  BY DEF Entry
<1>2. DOMAIN s = 1..Len(s) /\ Len(s) \in Nat
  OBVIOUS
<1>. QED  BY <1>1, <1>2 DEF DecRefs

(* Those counted in one block. *)
LEMMA FromOne ==
  ASSUME Typed, NEW d \in Allocated, \A i : ~ Overwritten(<<d, i>>), NEW c
  PROVE  Cardinality(From(c, {d}))
           = Cardinality(Occurrences(DecRefs(heap[d].fields), <<"decRef", c>>))
<1>. DEFINE s == heap[d].fields
            S == Occurrences(DecRefs(s), <<"decRef", c>>)
            T == From(c, {d})
            f == [i \in S |-> <<d, i>>]
<1>1. s \in Seq(Pointers) /\ d \in Blocks
  BY AllocatedIs DEF Block
<1>2. /\ DecRefs(s) \in Seq(Entry) /\ DOMAIN DecRefs(s) = DOMAIN s
      /\ \A i \in DOMAIN s : DecRefs(s)[i] = <<"decRef", s[i]>>
  BY <1>1, DecRefsTyped
<1>3. \A i \in DOMAIN s : <<"decRef", s[i]>> = <<"decRef", c>> <=> s[i] = c
  OBVIOUS
<1>4. \A i : i \in S <=> i \in DOMAIN s /\ s[i] = c
  BY <1>2, <1>3 DEF Occurrences
<1>5. ASSUME NEW i \in S
      PROVE  <<d, i>> \in T
  <2>1. i \in DOMAIN s /\ s[i] = c
    BY <1>4
  <2>2. <<d, i>> \in FieldsTo(c)
    BY <2>1, FieldRefers
  <2>. QED  BY <2>2 DEF From
<1>6. ASSUME NEW p \in T
      PROVE  \E i \in S : p = <<d, i>>
  <2>1. p \in FieldPlaces /\ p[2] \in DOMAIN heap[p[1]].fields
          /\ heap[p[1]].fields[p[2]] = c /\ p[1] = d
    BY DEF From, FieldsTo
  <2>2. p = <<d, p[2]>>
    BY <2>1 DEF FieldPlaces
  <2>. QED  BY <1>4, <2>1, <2>2
<1>7. IsFiniteSet(S)
  BY <1>2, OccurrencesFinite
<1>. HIDE DEF S, T
<1>8. f \in Bijection(S, T)
  BY <1>5, <1>6 DEF Bijection, Injection, Surjection, IsInjective
<1>. QED  BY <1>7, <1>8, FS_Bijection DEF ExistsBijection, S, T

(* What a block refers to is of a lower kind. *)
LEMMA FieldBelow ==
  ASSUME Typed, NEW d \in Allocated, \A i : ~ Overwritten(<<d, i>>),
         NEW i \in DOMAIN heap[d].fields, heap[d].fields[i] # Null
  PROVE  /\ heap[d].fields[i] \in Allocated
         /\ Rank(heap[heap[d].fields[i]].kind) < Rank(heap[d].kind)
         /\ heap[heap[d].fields[i]].kind = "data" => heap[d].kind = "array"
<1>1. Is(heap[d].fields[i], Below(heap[d].kind))
  BY DEF Typed, FieldTyped
<1>2. /\ heap[d].fields[i] \in Allocated
      /\ heap[heap[d].fields[i]].kind \in Below(heap[d].kind)
  BY <1>1 DEF Is
<1>3. ASSUME NEW kind, NEW kind2 \in Below(kind)
      PROVE  Rank(kind2) < Rank(kind) /\ (kind2 = "data" => kind = "array")
  BY DEF Below, Rank
<1>. QED  BY <1>2, <1>3

(* Emptying blocks. *)
LEMMA WithoutTyped ==
  ASSUME NEW h \in [Blocks -> Block \cup {Free}], NEW E \in SUBSET Blocks,
         \A c \in E : h[c] \in Block
  PROVE  /\ Without(h, E) \in [Blocks -> Block \cup {Free}]
         /\ \A c \in Blocks : c \notin E => Without(h, E)[c] = h[c]
         /\ \A c \in E :
              /\ Without(h, E)[c] \in Block
              /\ Without(h, E)[c].kind = h[c].kind
              /\ Without(h, E)[c].length = h[c].length
              /\ Without(h, E)[c].contains_pointers = h[c].contains_pointers
              /\ Without(h, E)[c].ref_count = h[c].ref_count
              /\ Without(h, E)[c].fields = <<>>
<1>1. \A c \in Blocks : c \notin E => Without(h, E)[c] = h[c]
  BY DEF Without
<1>2. ASSUME NEW c \in E
      PROVE  /\ Without(h, E)[c] \in Block
             /\ Without(h, E)[c].kind = h[c].kind
             /\ Without(h, E)[c].length = h[c].length
             /\ Without(h, E)[c].contains_pointers = h[c].contains_pointers
             /\ Without(h, E)[c].ref_count = h[c].ref_count
             /\ Without(h, E)[c].fields = <<>>
  <2>1. Without(h, E)[c] = [h[c] EXCEPT !.fields = <<>>]
    BY DEF Without
  <2>2. <<>> \in Seq(Pointers) /\ h[c] \in Block
    OBVIOUS
  <2>. QED  BY <2>1, <2>2 DEF Block
<1>3. /\ Without(h, E) = [c \in Blocks |-> Without(h, E)[c]]
  BY DEF Without
<1>4. \A c \in Blocks : Without(h, E)[c] \in Block \cup {Free}
  BY <1>1, <1>2
<1>5. Without(h, E) \in [Blocks -> Block \cup {Free}]
  BY <1>3, <1>4
<1>. QED  BY <1>1, <1>2, <1>5

(* A sequence of calls, and one or two more.                                *)
IsOneMore(D, q, x) ==
  /\ D \in Seq(Entry) /\ Len(q) \in Nat /\ Len(D) = Len(q) + 1
  /\ DOMAIN D = 1..(Len(q) + 1)
  /\ \A k \in 1..Len(q) : D[k] = q[k]
  /\ D[Len(q) + 1] = x
  /\ \A e : Cardinality(Occurrences(D, e))
              = Cardinality(Occurrences(q, e)) + (IF x = e THEN 1 ELSE 0)

IsTwoMore(D, q, x, y) ==
  /\ D \in Seq(Entry) /\ Len(q) \in Nat /\ Len(D) = Len(q) + 2
  /\ DOMAIN D = 1..(Len(q) + 2)
  /\ \A k \in 1..Len(q) : D[k] = q[k]
  /\ D[Len(q) + 1] = x /\ D[Len(q) + 2] = y
  /\ \A e : Cardinality(Occurrences(D, e))
              = Cardinality(Occurrences(q, e)) + (IF x = e THEN 1 ELSE 0)
                  + (IF y = e THEN 1 ELSE 0)

(* One call is added at the end. *)
LEMMA OneMore ==
  ASSUME NEW q \in Seq(Entry), NEW x \in Entry, NEW D, D = q \o <<x>>
  PROVE  IsOneMore(D, q, x)
<1>1. <<x>> \in Seq(Entry) /\ Len(<<x>>) = 1 /\ <<x>>[1] = x
  OBVIOUS
<1>2. D \in Seq(Entry) /\ Len(D) = Len(q) + 1 /\ Len(q) \in Nat
  BY <1>1
<1>3. \A k \in 1..Len(q) : D[k] = q[k]
  BY <1>1
<1>4. D[Len(q) + 1] = x
  BY <1>1
<1>5. DOMAIN D = 1..(Len(q) + 1)
  BY <1>2
<1>6. ASSUME NEW e
      PROVE  Cardinality(Occurrences(D, e))
               = Cardinality(Occurrences(q, e)) + (IF x = e THEN 1 ELSE 0)
  <2>1. Cardinality(Occurrences(q \o <<x>>, e))
          = Cardinality(Occurrences(q, e)) + Cardinality(Occurrences(<<x>>, e))
    BY <1>1, OccurrencesConcat
  <2>2. Cardinality(Occurrences(<<x>>, e)) = IF x = e THEN 1 ELSE 0
    BY OccurrencesOne
  <2>. QED  BY <2>1, <2>2
<1>. QED  BY <1>2, <1>3, <1>4, <1>5, <1>6 DEF IsOneMore

(* Two calls are added at the end. *)
LEMMA TwoMore ==
  ASSUME NEW q \in Seq(Entry), NEW x \in Entry, NEW y \in Entry, NEW D, D = q \o <<x, y>>
  PROVE  IsTwoMore(D, q, x, y)
<1>1. /\ <<x, y>> \in Seq(Entry) /\ Len(<<x, y>>) = 2
      /\ <<x, y>>[1] = x /\ <<x, y>>[2] = y
      /\ <<x>> \in Seq(Entry) /\ <<y>> \in Seq(Entry)
  OBVIOUS
<1>2. D \in Seq(Entry) /\ Len(D) = Len(q) + 2 /\ Len(q) \in Nat
  BY <1>1
<1>3. \A k \in 1..Len(q) : D[k] = q[k]
  BY <1>1
<1>4. D[Len(q) + 1] = x /\ D[Len(q) + 2] = y
  BY <1>1
<1>5. DOMAIN D = 1..(Len(q) + 2)
  BY <1>2
<1>6. ASSUME NEW e
      PROVE  Cardinality(Occurrences(D, e))
               = Cardinality(Occurrences(q, e)) + (IF x = e THEN 1 ELSE 0)
                   + (IF y = e THEN 1 ELSE 0)
  <2>1. Cardinality(Occurrences(q \o <<x, y>>, e))
          = Cardinality(Occurrences(q, e)) + Cardinality(Occurrences(<<x, y>>, e))
    BY <1>1, OccurrencesConcat
  <2>2. <<x, y>> = <<x>> \o <<y>>
    BY PairConcat
  <2>3. Cardinality(Occurrences(<<x>> \o <<y>>, e))
          = Cardinality(Occurrences(<<x>>, e)) + Cardinality(Occurrences(<<y>>, e))
    BY ZenonT(30), <1>1, OccurrencesConcat
  <2>4. /\ Cardinality(Occurrences(<<x>>, e)) = IF x = e THEN 1 ELSE 0
        /\ Cardinality(Occurrences(<<y>>, e)) = IF y = e THEN 1 ELSE 0
    BY OccurrencesOne
  <2>5. Cardinality(Occurrences(q, e)) \in Nat
    BY OccurrencesFinite
  <2>6. Cardinality(Occurrences(D, e))
          = Cardinality(Occurrences(q, e)) + Cardinality(Occurrences(<<x, y>>, e))
    BY <2>1, Zenon
  <2>7. Cardinality(Occurrences(<<x, y>>, e))
          = Cardinality(Occurrences(<<x>>, e)) + Cardinality(Occurrences(<<y>>, e))
    BY <2>2, <2>3, Zenon
  <2>. HIDE DEF Occurrences
  <2>8. PICK n, m, i, j, l :
          /\ n = Cardinality(Occurrences(D, e)) /\ m = Cardinality(Occurrences(q, e))
          /\ i = Cardinality(Occurrences(<<x>>, e)) /\ j = Cardinality(Occurrences(<<y>>, e))
          /\ l = Cardinality(Occurrences(<<x, y>>, e))
    OBVIOUS
  <2>9. n = m + l /\ l = i + j /\ m \in Nat /\ i = (IF x = e THEN 1 ELSE 0)
          /\ j = (IF y = e THEN 1 ELSE 0)
    BY <2>4, <2>5, <2>6, <2>7, <2>8, Zenon
  <2>10. n = m + (IF x = e THEN 1 ELSE 0) + (IF y = e THEN 1 ELSE 0)
    BY <2>9
  <2>. QED  BY <2>8, <2>10, Zenon
<1>. QED  BY <1>2, <1>3, <1>4, <1>5, <1>6 DEF IsTwoMore

(* The calls made for a block with the fields s, and for an array whose     *)
(* data d has the fields s.                                                 *)
PlainCalls(s, b) == DecRefs(s) \o <<<<"free", b>>>>

ArrayCalls(s, d, b) ==
  (DecRefs(s) \o <<<<"clear", d>>, <<"decRef", d>>>>) \o <<<<"free", b>>>>

(* A string, an any or emptied data: its fields, then itself. *)
LEMMA PlainCallsAre ==
  ASSUME NEW s \in Seq(Pointers), NEW b \in Blocks, NEW D, D = PlainCalls(s, b)
  PROVE  /\ D \in Seq(Entry) /\ Len(s) \in Nat /\ DOMAIN s = 1..Len(s)
         /\ Len(D) = Len(s) + 1 /\ DOMAIN D = 1..(Len(s) + 1)
         /\ \A k \in 1..Len(s) : D[k] = <<"decRef", s[k]>>
         /\ D[Len(s) + 1] = <<"free", b>>
         /\ \A c : Cardinality(Occurrences(D, <<"decRef", c>>))
                     = Cardinality(Occurrences(DecRefs(s), <<"decRef", c>>))
<1>1. PICK q, x : q = DecRefs(s) /\ x = <<"free", b>>
  OBVIOUS
<1>2. /\ q \in Seq(Entry) /\ Len(q) = Len(s) /\ DOMAIN s = 1..Len(s) /\ Len(s) \in Nat
      /\ \A k \in 1..Len(s) : q[k] = <<"decRef", s[k]>>
  <2>1. DOMAIN s = 1..Len(s) /\ Len(s) \in Nat
    OBVIOUS
  <2>. QED  BY <1>1, <2>1, DecRefsTyped
<1>3. x \in Entry /\ \A c : x # <<"decRef", c>>
  BY <1>1 DEF Entry
<1>4. D = q \o <<x>>
  BY <1>1 DEF PlainCalls
<1>5. /\ D \in Seq(Entry) /\ Len(q) \in Nat /\ Len(D) = Len(q) + 1
      /\ DOMAIN D = 1..(Len(q) + 1)
      /\ \A k \in 1..Len(q) : D[k] = q[k]
      /\ D[Len(q) + 1] = x
      /\ \A e : Cardinality(Occurrences(D, e))
                  = Cardinality(Occurrences(q, e)) + (IF x = e THEN 1 ELSE 0)
  <2>1. IsOneMore(D, q, x)
    BY <1>2, <1>3, <1>4, OneMore
  <2>. QED  BY <2>1 DEF IsOneMore
<1>6. ASSUME NEW c
      PROVE  Cardinality(Occurrences(D, <<"decRef", c>>))
               = Cardinality(Occurrences(q, <<"decRef", c>>))
  <2>1. Cardinality(Occurrences(q, <<"decRef", c>>)) \in Nat
    BY <1>2, OccurrencesFinite
  <2>2. Cardinality(Occurrences(D, <<"decRef", c>>))
          = Cardinality(Occurrences(q, <<"decRef", c>>)) + 0
    BY <1>3, <1>5
  <2>. QED  BY <2>1, <2>2
<1>. QED  BY <1>1, <1>2, <1>5, <1>6

(* An array: the elements, the flag, the data, then itself. *)
LEMMA ArrayCallsAre ==
  ASSUME NEW s \in Seq(Pointers), NEW b \in Blocks, NEW d \in Blocks,
         NEW D, D = ArrayCalls(s, d, b)
  PROVE  /\ D \in Seq(Entry) /\ Len(s) \in Nat /\ DOMAIN s = 1..Len(s)
         /\ Len(D) = Len(s) + 3 /\ DOMAIN D = 1..(Len(s) + 3)
         /\ \A k \in 1..Len(s) : D[k] = <<"decRef", s[k]>>
         /\ D[Len(s) + 1] = <<"clear", d>>
         /\ D[Len(s) + 2] = <<"decRef", d>>
         /\ D[Len(s) + 3] = <<"free", b>>
         /\ \A c : Cardinality(Occurrences(D, <<"decRef", c>>))
                     = Cardinality(Occurrences(DecRefs(s), <<"decRef", c>>))
                         + (IF c = d THEN 1 ELSE 0)
<1>1. PICK q, x, y, z, h :
        /\ q = DecRefs(s) /\ x = <<"clear", d>> /\ y = <<"decRef", d>> /\ z = <<"free", b>>
        /\ h = q \o <<x, y>>
  OBVIOUS
<1>2. /\ q \in Seq(Entry) /\ Len(q) = Len(s) /\ DOMAIN s = 1..Len(s) /\ Len(s) \in Nat
      /\ \A k \in 1..Len(s) : q[k] = <<"decRef", s[k]>>
  <2>1. DOMAIN s = 1..Len(s) /\ Len(s) \in Nat
    OBVIOUS
  <2>. QED  BY <1>1, <2>1, DecRefsTyped
<1>3. /\ x \in Entry /\ y \in Entry /\ z \in Entry
      /\ \A c : x # <<"decRef", c>> /\ z # <<"decRef", c>> /\ (y = <<"decRef", c>> <=> c = d)
  BY <1>1 DEF Entry, Pointers
<1>4. D = h \o <<z>>
  BY <1>1 DEF ArrayCalls
<1>5. /\ h \in Seq(Entry) /\ Len(q) \in Nat /\ Len(h) = Len(q) + 2
      /\ \A k \in 1..Len(q) : h[k] = q[k]
      /\ h[Len(q) + 1] = x /\ h[Len(q) + 2] = y
      /\ \A e : Cardinality(Occurrences(h, e))
                  = Cardinality(Occurrences(q, e)) + (IF x = e THEN 1 ELSE 0)
                      + (IF y = e THEN 1 ELSE 0)
  <2>1. IsTwoMore(h, q, x, y)
    BY <1>1, <1>2, <1>3, TwoMore
  <2>. QED  BY <2>1 DEF IsTwoMore
<1>6. /\ D \in Seq(Entry) /\ Len(h) \in Nat /\ Len(D) = Len(h) + 1
      /\ DOMAIN D = 1..(Len(h) + 1)
      /\ \A k \in 1..Len(h) : D[k] = h[k]
      /\ D[Len(h) + 1] = z
      /\ \A e : Cardinality(Occurrences(D, e))
                  = Cardinality(Occurrences(h, e)) + (IF z = e THEN 1 ELSE 0)
  <2>1. IsOneMore(D, h, z)
    BY <1>3, <1>4, <1>5, OneMore
  <2>. QED  BY <2>1 DEF IsOneMore
<1>7. PICK n \in Nat : n = Len(s)
  BY <1>2
<1>8. /\ Len(D) = n + 3 /\ DOMAIN D = 1..(n + 3)
      /\ \A k \in 1..n : D[k] = <<"decRef", s[k]>>
      /\ D[n + 1] = x /\ D[n + 2] = y /\ D[n + 3] = z
  <2>1. Len(q) = n /\ Len(h) = n + 2 /\ Len(D) = n + 3 /\ (n + 2) + 1 = n + 3
    BY <1>2, <1>5, <1>6, <1>7
  <2>2. DOMAIN D = 1..(n + 3) /\ D[n + 3] = z
    BY <1>6, <2>1
  <2>3. \A k \in 1..(n + 2) : D[k] = h[k]
    BY <1>6, <2>1
  <2>4. \A k \in 1..n : h[k] = <<"decRef", s[k]>>
    BY <1>2, <1>5, <1>7, <2>1
  <2>5. h[n + 1] = x /\ h[n + 2] = y
    BY <1>5, <2>1
  <2>6. n + 1 \in 1..(n + 2) /\ n + 2 \in 1..(n + 2) /\ \A k \in 1..n : k \in 1..(n + 2)
    OBVIOUS
  <2>. QED  BY <2>1, <2>2, <2>3, <2>4, <2>5, <2>6
<1>9. ASSUME NEW c
      PROVE  Cardinality(Occurrences(D, <<"decRef", c>>))
               = Cardinality(Occurrences(q, <<"decRef", c>>)) + (IF c = d THEN 1 ELSE 0)
  <2>1. Cardinality(Occurrences(q, <<"decRef", c>>)) \in Nat
    BY <1>2, OccurrencesFinite
  <2>2. Cardinality(Occurrences(h, <<"decRef", c>>))
          = Cardinality(Occurrences(q, <<"decRef", c>>)) + 0 + (IF c = d THEN 1 ELSE 0)
    BY <1>3, <1>5
  <2>3. Cardinality(Occurrences(D, <<"decRef", c>>))
          = Cardinality(Occurrences(h, <<"decRef", c>>)) + 0
    BY <1>3, <1>6
  <2>. QED  BY <2>1, <2>2, <2>3
<1>. QED  BY <1>1, <1>2, <1>6, <1>7, <1>8, <1>9

(* A block that is not an array gives up what its fields hold.              *)
LEMMA DropsOne ==
  ASSUME MemoryInv, todo # <<>>, NEW b \in Allocated, b # Null, todo[1] = <<"decRef", b>>,
         heap[b].ref_count = 1, heap[b].kind # "array",
         heap[b].kind = "data" => ~ heap[b].contains_pointers,
         NEW s, s = heap[b].fields, NEW D, D = PlainCalls(s, b)
  PROVE  D \in Seq(Entry) /\ EmptiedTyped(b, {b}, D) /\ DropCalls(b, {b}, D)
<1>1. /\ Typed /\ TodoTyped /\ todo \in Seq(Entry) /\ 1 \in DOMAIN todo
      /\ s \in Seq(Pointers) /\ b \in Blocks
  <2>1. Typed /\ TodoTyped /\ todo \in Seq(Entry)
    BY DEF MemoryInv, TodoTyped
  <2>. QED  BY <2>1, AllocatedIs DEF Block
<1>2. FieldsTo(b) = {}
  <2>1. 1 \in Dropping(b)
    BY <1>1 DEF Dropping, Occurrences
  <2>. QED  BY <1>1, <2>1, FewReferences DEF MemoryInv
<1>3. \A i : ~ Overwritten(<<b, i>>)
  <2>1. Rank(heap[b].kind) <= Rank(heap[b].kind)
    BY DEF Rank
  <2>2. TodoTyped /\ b \in Allocated
    BY <1>1
  <2>3. ASSUME NEW i
        PROVE  ~ Overwritten(<<b, i>>)
    BY <2>1, <2>2, EmptiedKept
  <2>. QED  BY <2>3
<1>4. /\ D \in Seq(Entry) /\ Len(s) \in Nat /\ DOMAIN s = 1..Len(s)
      /\ Len(D) = Len(s) + 1 /\ DOMAIN D = 1..(Len(s) + 1)
      /\ \A k \in 1..Len(s) : D[k] = <<"decRef", s[k]>>
      /\ D[Len(s) + 1] = <<"free", b>>
      /\ \A c : Cardinality(Occurrences(D, <<"decRef", c>>))
                  = Cardinality(Occurrences(DecRefs(s), <<"decRef", c>>))
  BY <1>1, PlainCallsAre
<1>5. EmptiedTyped(b, {b}, D)
  <2>1. Rank(heap[b].kind) <= Rank(heap[b].kind)
    BY DEF Rank
  <2>. QED  BY <1>2, <2>1 DEF EmptiedTyped
<1>6. ASSUME NEW k \in DOMAIN D
      PROVE  CallTyped(k, b, {b}, D)
  <2>1. CASE k \in 1..Len(s)
    <3>1. D[k][1] = "decRef" /\ D[k][2] = s[k] /\ k \in DOMAIN heap[b].fields
      BY <1>4, <2>1
    <3>2. s[k] # Null => /\ s[k] \in Allocated /\ Rank(heap[s[k]].kind) < Rank(heap[b].kind)
                         /\ heap[s[k]].kind # "data"
      BY <1>1, <1>3, <3>1, FieldBelow
    <3>. QED  BY <3>1, <3>2 DEF CallTyped
  <2>2. CASE k = Len(s) + 1
    <3>1. D[k][1] = "free" /\ D[k][2] = b /\ k = Len(D)
      BY <1>4, <2>2
    <3>. QED  BY <3>1 DEF CallTyped
  <2>3. k \in 1..Len(s) \/ k = Len(s) + 1
    BY <1>4
  <2>. QED  BY <2>1, <2>2, <2>3
<1>7. ASSUME NEW c \in Allocated
      PROVE  Cardinality(Occurrences(D, <<"decRef", c>>)) = Cardinality(From(c, {b}))
  <2>1. Cardinality(From(c, {b})) = Cardinality(Occurrences(DecRefs(s), <<"decRef", c>>))
    BY <1>1, <1>3, FromOne
  <2>. QED  BY <1>4, <2>1
<1>8. DropCalls(b, {b}, D)
  <2>1. Len(D) \in DOMAIN D /\ D[Len(D)] = <<"free", b>>
    BY <1>4
  <2>. QED  BY <1>6, <1>7, <2>1 DEF DropCalls
<1>. QED  BY <1>4, <1>5, <1>8

(* An array gives up its elements, its data's flag, and its data. *)
LEMMA DropsArray ==
  ASSUME MemoryInv, todo # <<>>, NEW b \in Allocated, b # Null, todo[1] = <<"decRef", b>>,
         heap[b].ref_count = 1, heap[b].kind = "array", NEW d, Len(heap[b].fields) = 1,
         heap[b].fields[1] = d, Is(d, {"data"}),
         NEW s, s = heap[d].fields, NEW D, D = ArrayCalls(s, d, b)
  PROVE  D \in Seq(Entry) /\ EmptiedTyped(b, {b, d}, D) /\ DropCalls(b, {b, d}, D)
<1>1. /\ Typed /\ TodoTyped /\ todo \in Seq(Entry) /\ 1 \in DOMAIN todo
      /\ d \in Allocated /\ heap[d].kind = "data" /\ d \in Blocks /\ b \in Blocks /\ d # b
      /\ s \in Seq(Pointers) /\ d \in Pointers
      /\ heap[b].fields \in Seq(Pointers) /\ heap[b].fields = <<d>>
  <2>1. Typed /\ TodoTyped /\ todo \in Seq(Entry)
    BY DEF MemoryInv, TodoTyped
  <2>2. d \in Allocated /\ heap[d].kind = "data" /\ d # b
    BY DEF Is
  <2>3. /\ 1 \in DOMAIN todo /\ d \in Blocks /\ b \in Blocks /\ d \in Pointers
        /\ s \in Seq(Pointers) /\ heap[b].fields \in Seq(Pointers)
    BY SMTT(30), <2>1, <2>2, AllocatedIs DEF Block, Pointers
  <2>4. heap[b].fields = <<d>>
    BY <2>3
  <2>. QED  BY <2>1, <2>2, <2>3, <2>4
<1>2. FieldsTo(b) = {}
  <2>1. 1 \in Dropping(b)
    BY <1>1 DEF Dropping, Occurrences
  <2>. QED  BY <1>1, <2>1, FewReferences DEF MemoryInv
<1>3. Rank(heap[b].kind) = 4 /\ Rank(heap[d].kind) = 3
  BY <1>1 DEF Rank
<1>4. (\A i : ~ Overwritten(<<b, i>>)) /\ (\A i : ~ Overwritten(<<d, i>>))
  <2>1. TodoTyped /\ Rank(heap[b].kind) <= Rank(heap[b].kind)
          /\ Rank(heap[d].kind) <= Rank(heap[b].kind) /\ d \in Allocated
    BY <1>1, <1>3
  <2>2. ASSUME NEW i
        PROVE  ~ Overwritten(<<b, i>>)
    BY <2>1, EmptiedKept
  <2>3. ASSUME NEW i
        PROVE  ~ Overwritten(<<d, i>>)
    BY <2>1, EmptiedKept
  <2>. QED  BY <2>2, <2>3
<1>5. \A p \in FieldsTo(d) : p[1] = b
  <2>1. <<b, 1>> \in FieldsTo(d)
    <3>1. 1 \in DOMAIN heap[b].fields
      BY <1>1
    <3>. QED  BY <1>1, <1>4, <3>1, FieldRefers
  <2>2. heap[d].ref_count <= 1
    BY <1>1 DEF Typed, BlockTyped
  <2>3. \A p \in FieldsTo(d) : p = <<b, 1>>
    BY <1>1, <2>1, <2>2, FewReferences DEF MemoryInv
  <2>. QED  BY <2>3
<1>6. /\ D \in Seq(Entry) /\ Len(s) \in Nat /\ DOMAIN s = 1..Len(s)
      /\ Len(D) = Len(s) + 3 /\ DOMAIN D = 1..(Len(s) + 3)
      /\ \A k \in 1..Len(s) : D[k] = <<"decRef", s[k]>>
      /\ D[Len(s) + 1] = <<"clear", d>>
      /\ D[Len(s) + 2] = <<"decRef", d>>
      /\ D[Len(s) + 3] = <<"free", b>>
      /\ \A c : Cardinality(Occurrences(D, <<"decRef", c>>))
                  = Cardinality(Occurrences(DecRefs(s), <<"decRef", c>>))
                      + (IF c = d THEN 1 ELSE 0)
  BY SMTT(30), <1>1, ArrayCallsAre
<1>7. EmptiedTyped(b, {b, d}, D)
  <2>1. Len(s) + 1 \in DOMAIN D /\ D[Len(s) + 1] = <<"clear", d>>
    BY <1>6
  <2>. QED  BY <1>1, <1>2, <1>3, <1>5, <2>1 DEF EmptiedTyped
<1>8. ASSUME NEW k \in DOMAIN D
      PROVE  CallTyped(k, b, {b, d}, D)
  <2>1. CASE k \in 1..Len(s)
    <3>1. D[k][1] = "decRef" /\ D[k][2] = s[k] /\ k \in DOMAIN heap[d].fields
      BY SMTT(30), <1>6, <2>1
    <3>2. s[k] # Null => /\ s[k] \in Allocated /\ Rank(heap[s[k]].kind) < Rank(heap[d].kind)
                         /\ heap[s[k]].kind # "data"
      BY <1>1, <1>4, <3>1, FieldBelow
    <3>3. s[k] # Null => Rank(heap[s[k]].kind) < Rank(heap[b].kind)
      <4>1. \A kind : Rank(kind) \in Nat
        BY DEF Rank
      <4>. QED  BY <1>3, <3>2, <4>1
    <3>. QED  BY <3>1, <3>2, <3>3 DEF CallTyped
  <2>2. CASE k = Len(s) + 1
    <3>1. k + 1 = Len(s) + 2 /\ k < Len(D)
      BY <1>6, <2>2
    <3>2. D[k][1] = "clear" /\ D[k][2] = d /\ D[k + 1] = <<"decRef", d>>
      BY <1>6, <2>2, <3>1
    <3>. QED  BY <1>1, <1>3, <3>1, <3>2 DEF CallTyped
  <2>3. CASE k = Len(s) + 2
    <3>1. k - 1 = Len(s) + 1 /\ k > 1
      BY <1>6, <2>3
    <3>2. D[k][1] = "decRef" /\ D[k][2] = d /\ D[k - 1] = <<"clear", d>>
      BY <1>6, <2>3, <3>1
    <3>. QED  BY <1>1, <1>3, <3>1, <3>2 DEF CallTyped
  <2>4. CASE k = Len(s) + 3
    <3>1. D[k][1] = "free" /\ D[k][2] = b /\ k = Len(D)
      BY <1>6, <2>4
    <3>. QED  BY <3>1 DEF CallTyped
  <2>5. k \in 1..Len(s) \/ k = Len(s) + 1 \/ k = Len(s) + 2 \/ k = Len(s) + 3
    <3>1. PICK n \in Nat : n = Len(s)
      BY <1>6
    <3>2. k \in 1..(n + 3)
      BY <1>6, <3>1, Zenon
    <3>3. k \in 1..n \/ k = n + 1 \/ k = n + 2 \/ k = n + 3
      BY <3>2
    <3>. QED  BY <3>1, <3>3
  <2>. QED  BY <2>1, <2>2, <2>3, <2>4, <2>5
<1>9. ASSUME NEW c \in Allocated
       PROVE  Cardinality(Occurrences(D, <<"decRef", c>>)) = Cardinality(From(c, {b, d}))
  <2>1. Cardinality(From(c, {d})) = Cardinality(Occurrences(DecRefs(s), <<"decRef", c>>))
    BY <1>1, <1>4, FromOne
  <2>2. Cardinality(From(c, {b})) = IF c = d THEN 1 ELSE 0
    <3>1. Cardinality(From(c, {b}))
            = Cardinality(Occurrences(DecRefs(<<d>>), <<"decRef", c>>))
      BY <1>1, <1>4, FromOne
    <3>2. DecRefs(<<d>>) = <<<<"decRef", d>>>>
      BY DEF DecRefs
    <3>3. <<"decRef", d>> = <<"decRef", c>> <=> c = d
      OBVIOUS
    <3>4. Cardinality(Occurrences(<<<<"decRef", d>>>>, <<"decRef", c>>))
            = IF <<"decRef", d>> = <<"decRef", c>> THEN 1 ELSE 0
      BY OccurrencesOne
    <3>. QED  BY <3>1, <3>2, <3>3, <3>4
  <2>3. /\ From(c, {b, d}) = From(c, {b}) \cup From(c, {d})
        /\ From(c, {b}) \cap From(c, {d}) = {}
        /\ From(c, {b}) \subseteq FieldsTo(c) /\ From(c, {d}) \subseteq FieldsTo(c)
    BY <1>1 DEF From
  <2>4. IsFiniteSet(FieldsTo(c))
    BY <1>1, ReferencesFinite
  <2>5. /\ IsFiniteSet(From(c, {b})) /\ IsFiniteSet(From(c, {d}))
        /\ Cardinality(From(c, {b})) \in Nat /\ Cardinality(From(c, {d})) \in Nat
    BY <2>3, <2>4, FS_Subset, FS_CardinalityType
  <2>6. Cardinality(From(c, {b}) \cap From(c, {d})) = 0
    BY <2>3, FS_EmptySet
  <2>7. Cardinality(From(c, {b}) \cup From(c, {d}))
          = Cardinality(From(c, {b})) + Cardinality(From(c, {d}))
              - Cardinality(From(c, {b}) \cap From(c, {d}))
    BY <2>5, FS_Union
  <2>8. Cardinality(From(c, {b, d})) = Cardinality(From(c, {b})) + Cardinality(From(c, {d}))
    <3>1. PICK n, m, k, l :
            /\ n = Cardinality(From(c, {b, d})) /\ m = Cardinality(From(c, {b}))
            /\ k = Cardinality(From(c, {d}))
            /\ l = Cardinality(From(c, {b}) \cap From(c, {d}))
      OBVIOUS
    <3>2. n = m + k - l /\ l = 0 /\ m \in Nat /\ k \in Nat
      BY <2>3, <2>5, <2>6, <2>7, <3>1, Zenon
    <3>3. n = m + k
      BY <3>2
    <3>. QED  BY <3>1, <3>3, Zenon
  <2>9. Cardinality(Occurrences(D, <<"decRef", c>>))
          = Cardinality(From(c, {d})) + (IF c = d THEN 1 ELSE 0)
    BY <1>6, <2>1
  <2>. QED  BY <2>2, <2>5, <2>8, <2>9
<1>10. DropCalls(b, {b, d}, D)
  <2>1. Len(D) \in DOMAIN D /\ D[Len(D)] = <<"free", b>>
    BY <1>6
  <2>. QED  BY <1>8, <1>9, <2>1 DEF DropCalls
<1>. QED  BY <1>6, <1>7, <1>10

(* What is called for a block whose last reference is dropped gives up the  *)
(* references it had.                                                       *)
LEMMA DecRefCalls ==
  ASSUME MemoryInv, todo # <<>>, NEW b, b # Null, todo[1] = <<"decRef", b>>,
         heap[b].ref_count = 1, NEW D, D = decRef(b) \o <<<<"free", b>>>>
  PROVE  /\ D \in Seq(Entry) /\ EmptiedTyped(b, Emptied(b), D)
         /\ DropCalls(b, Emptied(b), D)
<1>1. /\ Typed /\ TodoTyped /\ todo \in Seq(Entry) /\ 1 \in DOMAIN todo
      /\ todo[1][1] = "decRef" /\ todo[1][2] = b
  <2>1. Typed /\ TodoTyped /\ todo \in Seq(Entry)
    BY DEF MemoryInv, TodoTyped
  <2>. QED  BY <2>1
<1>2. DropTyped(1)
  BY <1>1 DEF TodoTyped
<1>3. /\ b \in Allocated /\ b \in Blocks /\ heap[b] \in Block
      /\ heap[b].kind = "data" => ~ heap[b].contains_pointers
  <2>1. b \in Allocated /\ (heap[b].kind = "data" => ~ heap[b].contains_pointers)
    BY <1>1, <1>2 DEF DropTyped
  <2>. QED  BY <1>1, <2>1, AllocatedIs
<1>4. BlockTyped(b)
  BY <1>1, <1>3 DEF Typed
<1>5. DecRefs(<<>>) = <<>>
  BY DEF DecRefs
<1>6. CASE heap[b].kind # "array"
  <2>1. Emptied(b) = {b}
    BY <1>6 DEF Emptied
  <2>2. decRef(b) = DecRefs(heap[b].fields)
    <3>1. CASE heap[b].contains_pointers
      BY <1>6, <3>1 DEF decRef
    <3>2. CASE ~ heap[b].contains_pointers
      <4>1. decRef(b) = <<>>
        BY <1>6, <3>2 DEF decRef
      <4>2. heap[b].fields = <<>>
        BY <1>3, <1>4, <1>6, <3>2 DEF BlockTyped, DataTyped, Block
      <4>. QED  BY <1>5, <4>1, <4>2
    <3>. QED  BY <3>1, <3>2
  <2>3. PICK s : s = heap[b].fields
    OBVIOUS
  <2>4. D = PlainCalls(s, b)
    BY <2>2, <2>3 DEF PlainCalls
  <2>5. D \in Seq(Entry) /\ EmptiedTyped(b, {b}, D) /\ DropCalls(b, {b}, D)
    BY <1>3, <1>6, <2>3, <2>4, DropsOne
  <2>. QED  BY <2>1, <2>5
<1>7. CASE heap[b].kind = "array"
  <2>1. ArrayTyped(b)
    BY <1>4, <1>7 DEF BlockTyped
  <2>2. ~ Freeing(b) /\ b \notin lost
    <3>1. ASSUME NEW k \in DOMAIN todo, todo[k] = <<"free", b>>
          PROVE  FALSE
      <4>1. todo[k][1] = "free" /\ todo[k][2] = b
        BY <3>1
      <4>. QED  BY <1>1, <4>1 DEF TodoTyped, FreeTyped
    <3>2. \A c \in lost : heap[c].ref_count = 0
      BY DEF MemoryInv, Unused
    <3>. QED  BY <3>1, <3>2 DEF Freeing
  <2>3. PICK d : d = heap[b].fields[1]
    OBVIOUS
  <2>4. /\ Len(heap[b].fields) = 1 /\ DataOf(b) = d /\ Is(d, {"data"})
        /\ OfPointers(b) => Len(heap[d].fields) = ElementsDropped(b)
    BY <2>1, <2>2, <2>3 DEF ArrayTyped, DataOf
  <2>5. PICK s : s = heap[d].fields
    OBVIOUS
  <2>6. /\ d \in Allocated /\ d \in Blocks /\ heap[d] \in Block /\ s \in Seq(Pointers)
        /\ heap[d].kind = "data"
    <3>1. d \in Allocated /\ heap[d].kind = "data"
      BY <2>4 DEF Is
    <3>2. d \in Blocks /\ heap[d] \in Block
      BY <1>1, <3>1, AllocatedIs
    <3>. QED  BY <2>5, <3>1, <3>2 DEF Block
  <2>7. (IF OfPointers(b) THEN DecRefs(SubSeq(s, 1, ElementsDropped(b))) ELSE <<>>)
          = DecRefs(s)
    <3>1. CASE OfPointers(b)
      <4>1. ElementsDropped(b) = Len(s)
        BY <2>4, <2>5, <3>1
      <4>2. SubSeq(s, 1, Len(s)) = s
        BY <2>6
      <4>. QED  BY <3>1, <4>1, <4>2
    <3>2. CASE ~ OfPointers(b)
      <4>1. DataTyped(d)
        BY <1>1, <2>6 DEF Typed, BlockTyped
      <4>2. s = <<>>
        BY <2>4, <2>5, <3>2, <4>1 DEF DataTyped, OfPointers
      <4>. QED  BY <1>5, <3>2, <4>2
    <3>. QED  BY <3>1, <3>2
  <2>8. decRef(b) = IArray_decRef(b)
    BY <1>4, <1>7 DEF decRef, BlockTyped
  <2>9. IArray_decRef(b) = DecRefs(s) \o <<<<"clear", d>>, <<"decRef", d>>>>
    BY ZenonT(30), <2>4, <2>5, <2>7 DEF IArray_decRef
  <2>10. D = ArrayCalls(s, d, b)
    BY SMTT(30), <2>8, <2>9 DEF ArrayCalls
  <2>11. D \in Seq(Entry) /\ EmptiedTyped(b, {b, d}, D) /\ DropCalls(b, {b, d}, D)
    BY <1>3, <1>7, <2>3, <2>4, <2>5, <2>10, DropsArray
  <2>12. Emptied(b) = {b, d}
    BY <1>7, <2>4 DEF Emptied
  <2>. QED  BY <2>11, <2>12
<1>. QED  BY <1>6, <1>7

(* What setting a count does to the heap. *)
LEMMA SetCount ==
  ASSUME NEW b \in Blocks, heap \in [Blocks -> Block \cup {Free}], heap[b] \in Block,
         NEW n \in 0..(CountMod - 1), NEW h, h = [heap EXCEPT ![b].ref_count = n]
  PROVE  /\ h \in [Blocks -> Block \cup {Free}]
         /\ \A c \in Blocks : c # b => h[c] = heap[c]
         /\ h[b] \in Block
         /\ h[b].kind = heap[b].kind
         /\ h[b].contains_pointers = heap[b].contains_pointers
         /\ h[b].fields = heap[b].fields
         /\ h[b].length = heap[b].length
         /\ h[b].ref_count = n
<1>1. PICK block : block = [heap[b] EXCEPT !.ref_count = n]
  OBVIOUS
<1>2. /\ block \in Block /\ block.kind = heap[b].kind /\ block.fields = heap[b].fields
      /\ block.contains_pointers = heap[b].contains_pointers
      /\ block.length = heap[b].length /\ block.ref_count = n
  BY <1>1 DEF Block
<1>3. h = [heap EXCEPT ![b] = block]
  BY <1>1
<1>. QED  BY <1>2, <1>3

ZeroCount(b) == [heap EXCEPT ![b].ref_count = 0]

(* The last reference to a block is dropped: what it gives up is still to   *)
(* be dropped, and it is to be freed.                                       *)
LEMMA LastDropStep ==
  ASSUME MemoryInv, todo # <<>>, NEW b, b # Null, todo[1] = <<"decRef", b>>,
         heap[b].ref_count = 1,
         NEW D, D = decRef(b) \o <<<<"free", b>>>>, todo' = D \o Tail(todo),
         NEW h, h = ZeroCount(b), NEW E, E = Emptied(b), heap' = Without(h, E),
         var' = var, temp' = temp, lost' = lost
  PROVE  MemoryInv'
<1>4. D \in Seq(Entry) /\ EmptiedTyped(b, E, D) /\ DropCalls(b, E, D)
  BY DecRefCalls
<1>6. /\ Typed /\ b \in Allocated /\ E \in SUBSET Allocated /\ E \in SUBSET Blocks
      /\ b \in E /\ heap \in [Blocks -> Block \cup {Free}]
  BY <1>4 DEF MemoryInv, EmptiedTyped, Allocated, Typed
<1>7. \A c \in Allocated : c \in Blocks /\ heap[c] \in Block
  BY <1>6, AllocatedIs
<1>8. /\ h \in [Blocks -> Block \cup {Free}]
      /\ \A c \in Blocks : c # b => h[c] = heap[c]
      /\ h[b] \in Block
      /\ h[b].kind = heap[b].kind
      /\ h[b].contains_pointers = heap[b].contains_pointers
      /\ h[b].fields = heap[b].fields
      /\ h[b].length = heap[b].length
      /\ h[b].ref_count = 0
  <2>1. 0 \in 0..(CountMod - 1)
    BY OneFits, MemoryAssumption
  <2>2. h = [heap EXCEPT ![b].ref_count = 0]
    BY DEF ZeroCount
  <2>. QED  BY SMTT(30), <1>6, <1>7, <2>1, <2>2, SetCount
<1>9. \A c \in E : h[c] \in Block
  BY <1>6, <1>7, <1>8
<1>10. /\ heap' \in [Blocks -> Block \cup {Free}]
       /\ \A c \in Blocks : c \notin E => heap'[c] = h[c]
       /\ \A c \in E :
            /\ heap'[c] \in Block
            /\ heap'[c].kind = h[c].kind /\ heap'[c].length = h[c].length
            /\ heap'[c].contains_pointers = h[c].contains_pointers
            /\ heap'[c].ref_count = h[c].ref_count
            /\ heap'[c].fields = <<>>
  BY <1>6, <1>8, <1>9, WithoutTyped
<1>11. Allocated' = Allocated
  <2>1. ASSUME NEW c \in Blocks
        PROVE  heap'[c] # Free <=> heap[c] # Free
    <3>1. CASE c \in E
      BY <1>6, <1>7, <1>10, <3>1, MemoryAssumption
    <3>2. CASE c \notin E
      BY <1>6, <1>8, <1>10, <3>2
    <3>. QED  BY <3>1, <3>2
  <2>. QED  BY <2>1 DEF Allocated
<1>12. ASSUME NEW c \in Allocated
       PROVE  /\ heap'[c].kind = heap[c].kind /\ heap'[c].length = heap[c].length
              /\ heap'[c].contains_pointers = heap[c].contains_pointers
              /\ heap'[c].fields = IF c \in E THEN <<>> ELSE heap[c].fields
              /\ heap'[c].ref_count = IF c = b THEN 0 ELSE heap[c].ref_count
  BY <1>6, <1>7, <1>8, <1>10
<1>13. AsDropped(b, E)
  BY <1>12 DEF AsDropped
<1>14. heap' \in [Blocks -> Block \cup {Free}]
  BY <1>10
<1>. QED  BY <1>4, <1>11, <1>13, <1>14, LastDrop, Zenon

(* DAL_decRef, whatever the count.                                          *)
LEMMA DecRefStep ==
  ASSUME MemoryInv, DAL_decRef
  PROVE  MemoryInv'
<1>1. /\ todo # <<>> /\ todo[1][1] = "decRef"
      /\ var' = var /\ temp' = temp /\ lost' = lost
  BY DEF DAL_decRef
<1>2. /\ Typed /\ TodoTyped /\ todo \in Seq(Entry) /\ 1 \in DOMAIN todo
      /\ todo[1] \in Entry
  <2>1. Typed /\ TodoTyped /\ todo \in Seq(Entry)
    BY DEF MemoryInv, TodoTyped
  <2>2. 1 \in DOMAIN todo
    BY <1>1, <2>1
  <2>. QED  BY <2>1, <2>2
<1>3. PICK b \in Pointers : todo[1] = <<"decRef", b>>
  BY <1>1, <1>2 DEF Entry
<1>4. todo[1][2] = b
  BY <1>3
<1>5. heap \in [Blocks -> Block \cup {Free}]
  BY <1>2 DEF Typed
<1>6. CASE b = Null
  <2>1. todo' = Tail(todo) /\ heap' = heap
    BY <1>4, <1>6 DEF DAL_decRef
  <2>2. Allocated' = Allocated
    BY <2>1 DEF Allocated
  <2>3. \A c \in Allocated : c # b
    BY <1>6, MemoryAssumption DEF Allocated
  <2>4. ASSUME NEW c \in Allocated
        PROVE  heap'[c].ref_count = heap[c].ref_count - (IF c = b THEN 1 ELSE 0)
    <3>1. heap[c].ref_count \in Nat
      BY <1>2, AllocatedIs DEF Block
    <3>. QED  BY <2>1, <2>3, <3>1
  <2>. QED  BY <1>1, <1>3, <1>5, <1>6, <2>1, <2>2, <2>4, DropStep
<1>7. CASE b # Null
  <2>1. b \in Allocated
    BY <1>1, <1>2, <1>4, <1>7 DEF TodoTyped, DropTyped
  <2>2. b \in Blocks /\ heap[b] \in Block
    BY <1>2, <2>1, AllocatedIs
  <2>3. PICK n : n = heap[b].ref_count
    OBVIOUS
  <2>4. n \in Nat /\ n # 0 /\ n <= MaxReferences
    <3>1. 1 \in Dropping(b)
      BY <1>2, <1>3 DEF Dropping, Occurrences
    <3>. QED  BY <1>2, <2>1, <2>3, <3>1, FewReferences DEF MemoryInv, Counted
  <2>5. PICK m : m = n - 1
    OBVIOUS
  <2>6. m \in Nat /\ m = n - 1 /\ m % CountMod = m /\ m \in 0..(CountMod - 1)
    <3>1. m \in Nat /\ m <= MaxReferences
      BY <2>4, <2>5, OneFits
    <3>. QED  BY <2>5, <3>1, CountFits
  <2>7. (heap[b].ref_count - 1) % CountMod = m
    BY <2>3, <2>5, <2>6
  <2>8. PICK h : h = [heap EXCEPT ![b].ref_count = m]
    OBVIOUS
  <2>9. IF Unreferenced(m)
        THEN /\ todo' = decRef(b) \o <<<<"free", b>>>> \o Tail(todo)
             /\ heap' = Without(h, Emptied(b))
        ELSE /\ todo' = Tail(todo)
             /\ heap' = h
    BY <1>4, <1>7, <2>7, <2>8, Zenon DEF DAL_decRef
  <2>10. CASE m = 0
    <3>1. Unreferenced(m) /\ n = 1
      BY <2>4, <2>6, <2>10 DEF Unreferenced
    <3>2. PICK D : D = decRef(b) \o <<<<"free", b>>>>
      OBVIOUS
    <3>3. PICK E : E = Emptied(b)
      OBVIOUS
    <3>4. h = ZeroCount(b)
      BY <2>8, <2>10 DEF ZeroCount
    <3>5. todo' = D \o Tail(todo) /\ heap' = Without(h, E)
      BY <2>9, <3>1, <3>2, <3>3, Zenon
    <3>. QED  BY <1>1, <1>3, <1>7, <2>3, <3>1, <3>2, <3>3, <3>4, <3>5, LastDropStep
  <2>11. CASE m # 0
    <3>1. ~ Unreferenced(m) /\ n > 1
      BY <2>4, <2>6, <2>11 DEF Unreferenced
    <3>2. todo' = Tail(todo) /\ heap' = h
      BY <2>9, <3>1
    <3>3. /\ h \in [Blocks -> Block \cup {Free}]
          /\ \A c \in Blocks : c # b => h[c] = heap[c]
          /\ h[b] \in Block
          /\ h[b].kind = heap[b].kind
          /\ h[b].contains_pointers = heap[b].contains_pointers
          /\ h[b].fields = heap[b].fields
          /\ h[b].length = heap[b].length
          /\ h[b].ref_count = m
      BY <1>5, <2>2, <2>6, <2>8, SetCount
    <3>4. Allocated' = Allocated
      BY <2>2, <3>2, <3>3, MemoryAssumption DEF Allocated
    <3>5. ASSUME NEW c \in Allocated
          PROVE  /\ heap'[c].kind = heap[c].kind /\ heap'[c].length = heap[c].length
                 /\ heap'[c].contains_pointers = heap[c].contains_pointers
                 /\ heap'[c].fields = heap[c].fields
                 /\ heap'[c].ref_count = heap[c].ref_count - (IF c = b THEN 1 ELSE 0)
      <4>1. c \in Blocks /\ heap[c].ref_count \in Nat
        BY <1>2, AllocatedIs DEF Block
      <4>. QED  BY <2>3, <2>6, <3>2, <3>3, <4>1
    <3>6. heap' \in [Blocks -> Block \cup {Free}]
      BY <3>2, <3>3
    <3>. QED  BY <1>1, <1>3, <2>3, <3>1, <3>2, <3>4, <3>5, <3>6, DropStep
  <2>. QED  BY <2>10, <2>11
<1>. QED  BY <1>6, <1>7

(* ClearContainsPointers.                                                   *)
LEMMA ClearContainsPointersStep ==
  ASSUME MemoryInv, ClearContainsPointers
  PROVE  MemoryInv'
<1>1. /\ todo # <<>> /\ todo[1][1] = "clear" /\ todo' = Tail(todo)
      /\ var' = var /\ temp' = temp /\ lost' = lost
      /\ heap' = [heap EXCEPT ![todo[1][2]].contains_pointers = FALSE]
  BY DEF ClearContainsPointers, Cleared
<1>2. todo[1] \in Entry
  <2>1. todo \in Seq(Entry)
    BY DEF MemoryInv, TodoTyped
  <2>. QED  BY <1>1, <2>1
<1>3. PICK d : todo[1] = <<"clear", d>>
  BY <1>1, <1>2 DEF Entry
<1>4. todo[1][2] = d
  BY <1>3
<1>5. heap' = [heap EXCEPT ![d].contains_pointers = FALSE]
  BY <1>1, <1>4
<1>. QED  BY <1>1, <1>3, <1>5, ClearStep

(* DAL_free: the count is 0.                                                *)
LEMMA DALFreeStep ==
  ASSUME MemoryInv, DAL_free
  PROVE  MemoryInv'
<1>1. /\ todo # <<>> /\ todo[1][1] = "free" /\ todo' = Tail(todo)
      /\ var' = var /\ temp' = temp /\ lost' = lost
  BY DEF DAL_free
<1>2. todo[1] \in Entry /\ 1 \in DOMAIN todo
  <2>1. todo \in Seq(Entry)
    BY DEF MemoryInv, TodoTyped
  <2>2. 1 \in DOMAIN todo
    BY <1>1, <2>1
  <2>. QED  BY <2>1, <2>2
<1>3. PICK b : todo[1] = <<"free", b>>
  BY <1>1, <1>2 DEF Entry
<1>4. todo[1][2] = b
  BY <1>3
<1>5. heap[b].ref_count = 0
  BY <1>1, <1>2, <1>4 DEF MemoryInv, TodoTyped, FreeTyped
<1>6. heap' = [heap EXCEPT ![b] = Free]
  <2>1. ~ heap[b].ref_count > 0
    BY <1>5
  <2>. QED  BY <1>4, <2>1 DEF DAL_free
<1>. QED  BY <1>1, <1>3, <1>6, FreeStep

(* The values of the program's expressions are pointers.                    *)
LEMMA ValuesArePointers ==
  ASSUME MemoryInv, ShortArrays, todo = <<>>
  PROVE  /\ \A p \in Strings : p \in Pointers
         /\ \A p \in Arrays : p \in Pointers
         /\ \A p \in Anys : p \in Pointers
<1>1. \A p, kinds : Is(p, kinds) => p \in Pointers
  BY DEF Is, Allocated, Pointers
<1>2. Null \in Pointers
  BY DEF Pointers
<1>. QED  BY <1>1, <1>2, ValuesHold

(* Variables and elements are assigned values of their own type.            *)
LEMMA VarAssignTyped ==
  ASSUME MemoryInv, todo = <<>>, NEW v \in Vars, NEW new \in Pointers,
         new # Null => Is(new, VarKinds(v)) /\ new \notin lost
  PROVE  AssignTyped(<<v>>, new)
<1>1. /\ PlaceKinds(<<v>>) = VarKinds(v) /\ At(<<v>>) = var[v]
      /\ Len(<<v>>) = 1 /\ <<v>>[1] = v
  BY DEF PlaceKinds, At
<1>2. <<v>> \in Places /\ var[v] \in Pointers
  BY DEF Places, MemoryInv, Typed
<1>3. var[v] # Null => Is(var[v], VarKinds(v))
  BY VarsHold
<1>4. VarKinds(v) \in {{"literal", "string"}, {"array"}, {"any"}}
  BY DEF VarKinds
<1>. QED  BY <1>1, <1>2, <1>3, <1>4 DEF AssignTyped

(* And elements, of strings. *)
LEMMA ElementAssignTyped ==
  ASSUME MemoryInv, ShortArrays, todo = <<>>, NEW e \in ElementPlaces, NEW new \in Pointers,
         new # Null => Is(new, {"literal", "string"}) /\ new \notin lost
  PROVE  AssignTyped(e, new)
<1>1. /\ e = <<e[1], e[2]>> /\ Len(e) = 2
      /\ Is(e[1], {"data"}) /\ heap[e[1]].contains_pointers
      /\ e[2] \in DOMAIN heap[e[1]].fields /\ e[2] \in 1..(MaxLength + 1)
      /\ e[1] \in Blocks
      /\ heap[e[1]].fields[e[2]] # Null =>
           Is(heap[e[1]].fields[e[2]], {"literal", "string"})
  BY ElementsHold
<1>2. PlaceKinds(e) = {"literal", "string"} /\ At(e) = heap[e[1]].fields[e[2]]
  BY <1>1 DEF PlaceKinds, At
<1>3. e \in Places
  <2>1. e[2] \in Nat \ {0}
    BY <1>1, MemoryAssumption
  <2>. QED  BY <1>1, <2>1 DEF Places
<1>4. heap[e[1]].fields[e[2]] \in Pointers
  <2>1. heap[e[1]] \in Block
    BY <1>1, AllocatedIs DEF Is, MemoryInv
  <2>. QED  BY <1>1, <2>1 DEF Block
<1>. QED  BY <1>1, <1>2, <1>3, <1>4 DEF AssignTyped

(* A statement of the program.                                              *)
LEMMA ProgramStep ==
  ASSUME MemoryInv, ShortArrays, Program
  PROVE  MemoryInv'
<1>1. todo = <<>> /\ Null \in Pointers
  BY DEF Program, Pointers
<1>2. /\ \A p \in Strings : p # Null => Is(p, {"literal", "string"}) /\ p \notin lost
      /\ \A p \in Arrays : p # Null => Is(p, {"array"}) /\ p \notin lost
      /\ \A p \in Anys : p # Null => Is(p, {"any"}) /\ p \notin lost
  BY <1>1, ValuesHold
<1>3. /\ \A p \in Strings : p \in Pointers
      /\ \A p \in Arrays : p \in Pointers
      /\ \A p \in Anys : p \in Pointers
  BY <1>1, ValuesArePointers
<1>4. /\ \A p : Is(p, {"literal", "string"}) => Is(p, Values)
      /\ \A p : Is(p, {"any"}) => Is(p, Values)
      /\ \A p : Is(p, {"literal", "string"}) \/ Is(p, {"array"})
                  => Is(p, {"literal", "string", "array"})
  BY DEF Is, Values
<1>5. /\ \A v \in StringVars : v \in Vars /\ VarKinds(v) = {"literal", "string"}
      /\ \A v \in ArrayVars : v \in Vars /\ VarKinds(v) = {"array"}
      /\ \A v \in AnyVars : v \in Vars /\ VarKinds(v) = {"any"}
  BY MemoryAssumption DEF Vars, VarKinds
<1>6. CASE Construct_String0
  BY <1>1, <1>6, String0Step DEF Construct_String0
<1>7. CASE Construct_String1
  <2>1. todo' = <<>>
    BY <1>1, <1>7 DEF Construct_String1, SecondFails
  <2>. QED  BY <1>1, <1>7, <2>1, String1Step
<1>8. ASSUME NEW length \in 0..MaxLength, NEW contains_pointers \in BOOLEAN,
             NEW init, (contains_pointers /\ init \in Strings) \/ init = Null,
             Construct_Array(length, contains_pointers, init)
      PROVE  MemoryInv'
  <2>1. todo' = <<>>
    BY <1>1, <1>8 DEF Construct_Array, FirstFails, SecondFails
  <2>2. /\ init \in Pointers /\ (contains_pointers \/ init = Null)
        /\ init # Null => Is(init, {"literal", "string"}) /\ init \notin lost
    BY <1>1, <1>2, <1>3, <1>8
  <2>. QED  BY <1>1, <1>8, <2>1, <2>2, ArrayStep
<1>9. ASSUME NEW value \in Strings \cup Arrays, Construct_AnyType(value)
      PROVE  MemoryInv'
  <2>1. todo' = <<>>
    BY <1>1, <1>9 DEF Construct_AnyType, FirstFails
  <2>2. /\ value \in Pointers
        /\ value # Null => Is(value, {"literal", "string", "array"}) /\ value \notin lost
    BY <1>2, <1>3, <1>4, <1>9
  <2>. QED  BY <1>1, <1>9, <2>1, <2>2, AnyTypeStep
<1>10. ASSUME NEW v \in StringVars, NEW new \in Strings, DAL_assign(<<v>>, new)
       PROVE  MemoryInv'
  <2>1. AssignTyped(<<v>>, new)
    BY <1>1, <1>2, <1>3, <1>5, <1>10, VarAssignTyped
  <2>. QED  BY <1>1, <1>10, <2>1, AssignStep
<1>11. ASSUME NEW v \in ArrayVars, NEW new \in Arrays, DAL_assign(<<v>>, new)
       PROVE  MemoryInv'
  <2>1. AssignTyped(<<v>>, new)
    BY <1>1, <1>2, <1>3, <1>5, <1>11, VarAssignTyped
  <2>. QED  BY <1>1, <1>11, <2>1, AssignStep
<1>12. ASSUME NEW v \in AnyVars, NEW new \in Anys, DAL_assign(<<v>>, new)
       PROVE  MemoryInv'
  <2>1. AssignTyped(<<v>>, new)
    BY <1>1, <1>2, <1>3, <1>5, <1>12, VarAssignTyped
  <2>. QED  BY <1>1, <1>12, <2>1, AssignStep
<1>13. ASSUME NEW e \in ElementPlaces, NEW new \in Strings, DAL_assign(e, new)
       PROVE  MemoryInv'
  <2>1. AssignTyped(e, new)
    BY <1>1, <1>2, <1>3, <1>13, ElementAssignTyped
  <2>. QED  BY <1>1, <1>13, <2>1, AssignStep
<1>14. ASSUME NEW p \in Strings, NEW q \in Strings, HoldForAWhile(p, q)
       PROVE  MemoryInv'
  BY <1>1, <1>2, <1>3, <1>4, <1>14, HoldStep
<1>15. ASSUME NEW p \in Anys, HoldForAWhile(p, Null)
       PROVE  MemoryInv'
  BY <1>1, <1>2, <1>3, <1>4, <1>15, HoldStep
<1>. QED
  <2>1. TRUE \in BOOLEAN /\ FALSE \in BOOLEAN
    OBVIOUS
  <2>. QED  BY <1>6, <1>7, <1>8, <1>9, <1>10, <1>11, <1>12, <1>13, <1>14, <1>15, <2>1
            DEF Program

(* Nothing changes. *)
LEMMA MemoryStutter ==
  ASSUME MemoryInv, UNCHANGED vars
  PROVE  MemoryInv'
<1>1. heap' = heap /\ var' = var /\ temp' = temp /\ todo' = todo /\ lost' = lost
  BY DEF vars
<1>2. Allocated' = Allocated
  BY <1>1 DEF Allocated
<1>3. /\ \A b, kinds : Is(b, kinds)' <=> Is(b, kinds)
      /\ \A place : Overwritten(place)' <=> Overwritten(place)
      /\ \A b : (Freeing(b)' <=> Freeing(b)) /\ (Clearing(b)' <=> Clearing(b))
  BY <1>1, <1>2 DEF Is, Overwritten, Freeing, Clearing
<1>4. Typed'
  <2>1. ASSUME NEW b \in Allocated
        PROVE  BlockTyped(b)'
    <3>1. BlockTyped(b)
      BY DEF MemoryInv, Typed
    <3>2. (ArrayTyped(b)' <=> ArrayTyped(b)) /\ (DataTyped(b)' <=> DataTyped(b))
      BY <1>1, <1>3 DEF ArrayTyped, DataTyped, DataOf, OfPointers, ElementsDropped
    <3>. QED  BY <1>1, <3>1, <3>2 DEF BlockTyped
  <2>2. ASSUME NEW b \in Allocated, NEW i \in DOMAIN heap[b].fields
        PROVE  FieldTyped(b, i)'
    <3>1. FieldTyped(b, i)
      BY DEF MemoryInv, Typed
    <3>. QED  BY <1>1, <1>3, <3>1 DEF FieldTyped
  <2>3. ASSUME NEW v \in Vars
        PROVE  VarTyped(v)'
    <3>1. VarTyped(v)
      BY DEF MemoryInv, Typed
    <3>. QED  BY <1>1, <1>3, <3>1 DEF VarTyped
  <2>. QED  BY <1>1, <1>2, <2>1, <2>2, <2>3 DEF MemoryInv, Typed
<1>5. Unused'
  BY <1>1, <1>2, <1>3 DEF MemoryInv, Unused
<1>6. TodoTyped'
  <2>1. ASSUME NEW k \in DOMAIN todo
        PROVE  /\ DropTyped(k)' <=> DropTyped(k)
               /\ ClearTyped(k)' <=> ClearTyped(k)
               /\ FreeTyped(k)' <=> FreeTyped(k)
               /\ StoreTyped(k)' <=> StoreTyped(k)
    <3>1. DropTyped(k)' <=> DropTyped(k)
      BY <1>1, <1>2 DEF DropTyped
    <3>2. ClearTyped(k)' <=> ClearTyped(k)
      BY <1>1, <1>3 DEF ClearTyped
    <3>3. FreeTyped(k)' <=> FreeTyped(k)
      BY <1>1, <1>2 DEF FreeTyped
    <3>4. StoreTyped(k)' <=> StoreTyped(k)
      BY <1>1, <1>3 DEF StoreTyped
    <3>. QED  BY <3>1, <3>2, <3>3, <3>4
  <2>. QED  BY <1>1, <2>1 DEF MemoryInv, TodoTyped
<1>7. Remembered'
  BY <1>1, <1>2, <1>3 DEF MemoryInv, Remembered, InHand
<1>8. Counted'
  <2>1. ASSUME NEW b
        PROVE  References(b)' = References(b)
    BY <1>1, <1>2, <1>3 DEF References, VarsTo, FieldsTo, Dropping
  <2>. QED  BY <1>1, <1>2, <2>1 DEF MemoryInv, Counted
<1>. QED  BY <1>4, <1>5, <1>6, <1>7, <1>8 DEF MemoryInv

(* The invariant holds at first.                                            *)
LEMMA MemoryInit ==
  ASSUME Init
  PROVE  MemoryInv
<1>1. /\ heap = [b \in Blocks |-> Free] /\ var = [v \in Vars |-> Null]
      /\ temp = Null /\ todo = <<>> /\ lost = {}
  BY DEF Init
<1>2. Allocated = {}
  BY <1>1 DEF Allocated
<1>3. Null \in Pointers
  BY DEF Pointers
<1>4. Typed
  BY <1>1, <1>2, <1>3 DEF Typed, VarTyped
<1>5. Unused /\ Remembered /\ Counted
  BY <1>1, <1>2 DEF Unused, Remembered, Counted
<1>. QED  BY <1>1, <1>4, <1>5, Quiet DEF MemoryInv

(* The invariant: DAL_assign, DAL_decRef and the decRef functions keep the  *)
(* counts of typed blocks, and the references still to be dropped.          *)
THEOREM MemoryInvariance ==
  ASSUME ShortArrays
  PROVE  Spec => []MemoryInv
<1>1. Init => MemoryInv
  BY MemoryInit
<1>2. MemoryInv /\ [Next]_vars => MemoryInv'
  <2>1. SUFFICES ASSUME MemoryInv, [Next]_vars
                 PROVE  MemoryInv'
    OBVIOUS
  <2>. QED
    BY <2>1, ProgramStep, DecRefStep, ClearContainsPointersStep, DALFreeStep, StoreStep,
       MemoryStutter
    DEF Next
<1>. QED  BY <1>1, <1>2, PTL DEF Spec

-----------------------------------------------------------------------------
(* Theorems *)

(* TypeOK: the heap and the calls have their types, and array data that     *)
(* holds pointers has at least one element, so that index 0 can be read.    *)
THEOREM MemoryTypeOK ==
  ASSUME ShortArrays
  PROVE  Spec => []TypeOK
<1>1. MemoryInv => TypeOK
  <2>1. SUFFICES ASSUME MemoryInv
                 PROVE  TypeOK
    OBVIOUS
  <2>2. /\ heap \in [Blocks -> Block \cup {Free}] /\ var \in [Vars -> Pointers]
        /\ lost \subseteq Allocated /\ Allocated \subseteq Blocks
        /\ todo \in Seq(Entry)
    BY <2>1 DEF MemoryInv, Typed, Unused, TodoTyped, Allocated
  <2>3. temp \in Pointers
    BY <2>1, <2>2 DEF MemoryInv, Unused, Is, Pointers
  <2>4. ASSUME NEW b \in Allocated, heap[b].kind = "data", heap[b].contains_pointers,
               todo = <<>>
        PROVE  Len(heap[b].fields) > 0
    <3>1. heap[b].fields # <<>>
      BY <2>1, <2>4, Quiet DEF MemoryInv, Typed, BlockTyped, DataTyped, Clearing
    <3>2. heap[b].fields \in Seq(Pointers)
      BY <2>1, AllocatedIs DEF MemoryInv, Block
    <3>. QED  BY <3>1, <3>2
  <2>5. ASSUME NEW k \in DOMAIN todo, todo[k][1] \in {"decRef", "clear", "free"}
        PROVE  todo[k][2] \in Pointers
    <3>1. todo[k] \in Entry
      BY <2>2
    <3>. QED  BY <2>5, <3>1 DEF Entry, Pointers
  <2>. QED  BY <2>2, <2>3, <2>4, <2>5 DEF TypeOK
<1>. QED  BY <1>1, MemoryInvariance, PTL

(* CallsDecRefFunction: when the last reference to an array's data is       *)
(* dropped its contains_pointers has been cleared, so that no element is    *)
(* taken for a decRef function.                                             *)
THEOREM CallsOnlyDecRefFunctions ==
  ASSUME ShortArrays
  PROVE  Spec => []CallsDecRefFunction
<1>1. MemoryInv => CallsDecRefFunction
  <2>1. SUFFICES ASSUME MemoryInv, todo # <<>>, todo[1][1] = "decRef", todo[1][2] # Null,
                        heap[todo[1][2]].contains_pointers
                 PROVE  heap[todo[1][2]].kind \in {"string", "array", "any"}
    BY DEF CallsDecRefFunction
  <2>2. todo \in Seq(Entry)
    BY <2>1 DEF MemoryInv, TodoTyped
  <2>3. 1 \in DOMAIN todo
    BY <2>1, <2>2
  <2>4. DropTyped(1)
    BY <2>1, <2>3 DEF MemoryInv, TodoTyped
  <2>5. PICK b : b = todo[1][2]
    OBVIOUS
  <2>6. b \in Allocated /\ heap[b].kind # "data"
    BY <2>1, <2>4, <2>5 DEF DropTyped
  <2>7. heap[b] \in Block /\ BlockTyped(b)
    BY <2>1, <2>6, AllocatedIs DEF MemoryInv, Typed
  <2>. QED  BY <2>1, <2>5, <2>6, <2>7 DEF BlockTyped, Block
<1>. QED  BY <1>1, MemoryInvariance, PTL

(* NoDangling: what variables, blocks, and calls to be made refer to has    *)
(* not been freed.                                                          *)
THEOREM MemoryNoDangling ==
  ASSUME ShortArrays
  PROVE  Spec => []NoDangling
<1>1. MemoryInv => NoDangling
  <2>1. SUFFICES ASSUME MemoryInv
                 PROVE  NoDangling
    OBVIOUS
  <2>. DEFINE overwritten == {todo[k][2] : k \in {j \in DOMAIN todo : todo[j][1] = "store"}}
              ok(p) == p = Null \/ p \in Allocated
  <2>2. \A place : Overwritten(place) => place \in overwritten
    BY DEF Overwritten
  <2>3. \A p, kinds : Is(p, kinds) => ok(p)
    BY DEF Is
  <2>4. ASSUME NEW v \in Vars, <<v>> \notin overwritten
        PROVE  ok(var[v])
    <3>1. VarTyped(v)
      BY <2>1 DEF MemoryInv, Typed
    <3>. QED  BY <2>2, <2>3, <2>4, <3>1 DEF VarTyped
  <2>5. ASSUME NEW b \in Allocated, NEW i \in DOMAIN heap[b].fields,
               <<b, i>> \notin overwritten
        PROVE  ok(heap[b].fields[i])
    <3>1. FieldTyped(b, i)
      BY <2>1 DEF MemoryInv, Typed
    <3>. QED  BY <2>2, <2>3, <2>5, <3>1 DEF FieldTyped
  <2>6. ok(temp)
    BY <2>1, <2>3 DEF MemoryInv, Unused
  <2>7. ASSUME NEW k \in DOMAIN todo
        PROVE  IF todo[k][1] = "store"
               THEN ok(todo[k][3]) /\ (Len(todo[k][2]) = 2 => ok(todo[k][2][1]))
               ELSE ok(todo[k][2])
    <3>1. todo[k] \in Entry
      BY <2>1 DEF MemoryInv, TodoTyped
    <3>2. todo[k][1] \in {"decRef", "clear", "free", "store"}
      BY <3>1 DEF Entry
    <3>3. /\ todo[k][1] = "decRef" => DropTyped(k)
          /\ todo[k][1] = "clear" => ClearTyped(k)
          /\ todo[k][1] = "free" => FreeTyped(k)
          /\ todo[k][1] = "store" => StoreTyped(k)
      BY <2>1 DEF MemoryInv, TodoTyped
    <3>4. CASE todo[k][1] = "store"
      <4>1. ok(todo[k][3])
        BY <2>3, <3>3, <3>4 DEF StoreTyped
      <4>2. Len(todo[k][2]) = 2 => ok(todo[k][2][1])
        BY <2>3, <3>3, <3>4 DEF StoreTyped
      <4>. QED  BY <3>4, <4>1, <4>2
    <3>5. CASE todo[k][1] # "store"
      BY <2>3, <3>2, <3>3, <3>5 DEF DropTyped, ClearTyped, FreeTyped
    <3>. QED  BY <3>4, <3>5
  <2>. QED  BY <2>4, <2>5, <2>6, <2>7 DEF NoDangling
<1>. QED  BY <1>1, MemoryInvariance, PTL

(* Between statements a block that is not in hand has a referrer: a         *)
(* variable, or a block of a higher kind.                                   *)
LEMMA HasReferrer ==
  ASSUME MemoryInv, todo = <<>>, NEW b \in Allocated
  PROVE  \/ b = temp \/ b \in lost
         \/ \E v \in Vars : var[v] = b
         \/ \E c \in Allocated : /\ Rank(heap[b].kind) < Rank(heap[c].kind)
                                 /\ \E i \in DOMAIN heap[c].fields : heap[c].fields[i] = b
<1>1. CASE heap[b].ref_count = 0
  BY <1>1, Quiet DEF MemoryInv, Remembered
<1>2. CASE heap[b].ref_count # 0
  <2>1. VarsTo(b) # {} \/ FieldsTo(b) # {}
    <3>1. Dropping(b) = {} /\ TodoTyped
      BY Quiet
    <3>2. VarsTo(b) = {} /\ FieldsTo(b) = {} => References(b) = 0
      BY <3>1, FS_EmptySet DEF References
    <3>3. References(b) = heap[b].ref_count
      BY DEF MemoryInv, Counted
    <3>. QED  BY <1>2, <3>2, <3>3
  <2>2. CASE VarsTo(b) # {}
    BY <2>2 DEF VarsTo
  <2>3. CASE FieldsTo(b) # {}
    <3>1. PICK p \in FieldsTo(b) : TRUE
      BY <2>3
    <3>2. PICK c, i : c = p[1] /\ i = p[2]
      OBVIOUS
    <3>3. c \in Allocated /\ i \in DOMAIN heap[c].fields /\ heap[c].fields[i] = b
      BY <3>1, <3>2 DEF FieldsTo
    <3>4. \A j : ~ Overwritten(<<c, j>>)
      BY Quiet
    <3>5. b # Null
      BY MemoryAssumption DEF Allocated
    <3>6. Typed
      BY DEF MemoryInv
    <3>7. Rank(heap[b].kind) < Rank(heap[c].kind)
      BY <3>3, <3>4, <3>5, <3>6, FieldBelow
    <3>. QED  BY <3>3, <3>7
  <2>. QED  BY <2>1, <2>2, <2>3
<1>. QED  BY <1>1, <1>2

(* What is referred to from a set of blocks. *)
LEMMA ReferredFrom ==
  ASSUME NEW S, NEW c \in S, NEW i \in DOMAIN heap[c].fields, heap[c].fields[i] # Null
  PROVE  heap[c].fields[i] \in Referred(S)
BY DEF Referred

(* NothingForgotten: between statements every block is reached from a       *)
(* variable, is the constructor's, or was lost when a constructor failed.   *)
THEOREM MemoryNothingForgotten ==
  ASSUME ShortArrays
  PROVE  Spec => []NothingForgotten
<1>1. MemoryInv => NothingForgotten
  <2>1. SUFFICES ASSUME MemoryInv, todo = <<>>, NEW b \in Allocated
                 PROVE  b \in Reached
    BY DEF NothingForgotten
  <2>2. PICK from, second, third, fourth, fifth :
          /\ from = ({var[v] : v \in Vars} \cup {temp} \cup lost) \ {Null}
          /\ second = from \cup Referred(from)
          /\ third = second \cup Referred(second)
          /\ fourth = third \cup Referred(third)
          /\ fifth = fourth \cup Referred(fourth)
    OBVIOUS
  <2>3. Reached = fifth
    BY <2>2, Zenon DEF Reached
  <2>4. /\ from \subseteq second /\ second \subseteq third /\ third \subseteq fourth
        /\ fourth \subseteq fifth
    BY <2>2
  <2>5. \A c \in Allocated : c # Null
    BY MemoryAssumption DEF Allocated
  <2>6. ASSUME NEW c \in Allocated
        PROVE  \/ c \in from
               \/ \E d \in Allocated : /\ Rank(heap[c].kind) < Rank(heap[d].kind)
                                       /\ \E i \in DOMAIN heap[d].fields : heap[d].fields[i] = c
    <3>1. c # Null
      BY <2>5
    <3>. QED  BY <2>1, <2>2, <3>1, HasReferrer
  <2>7. ASSUME NEW c \in Allocated, NEW S, NEW i \in DOMAIN heap[c].fields, c \in S,
               heap[c].fields[i] \in Allocated
        PROVE  heap[c].fields[i] \in Referred(S)
    BY <2>5, <2>7, ReferredFrom
  <2>8. \A kind : Rank(kind) \in 1..5
    BY DEF Rank
  <2>9. \A c \in Allocated : Rank(heap[c].kind) >= 5 => c \in from
    BY <2>6, <2>8
  <2>10. ASSUME NEW S, NEW n \in 2..5, from \subseteq S,
                \A c \in Allocated : Rank(heap[c].kind) >= n => c \in S
         PROVE  \A c \in Allocated : Rank(heap[c].kind) >= n - 1 => c \in S \cup Referred(S)
    BY <2>6, <2>7, <2>8, <2>10
  <2>11. \A c \in Allocated : Rank(heap[c].kind) >= 4 => c \in second
    <3>1. \A c \in Allocated : Rank(heap[c].kind) >= 5 - 1 => c \in from \cup Referred(from)
      BY <2>9, <2>10
    <3>. QED  BY <2>2, <3>1
  <2>12. \A c \in Allocated : Rank(heap[c].kind) >= 3 => c \in third
    <3>1. \A c \in Allocated : Rank(heap[c].kind) >= 4 - 1 => c \in second \cup Referred(second)
      BY <2>4, <2>10, <2>11
    <3>2. third = second \cup Referred(second)
      BY <2>2
    <3>. QED  BY <3>1, <3>2
  <2>13. \A c \in Allocated : Rank(heap[c].kind) >= 2 => c \in fourth
    <3>1. \A c \in Allocated : Rank(heap[c].kind) >= 3 - 1 => c \in third \cup Referred(third)
      BY <2>4, <2>10, <2>12
    <3>2. fourth = third \cup Referred(third)
      BY <2>2
    <3>. QED  BY <3>1, <3>2
  <2>14. \A c \in Allocated : Rank(heap[c].kind) >= 1 => c \in fifth
    <3>1. \A c \in Allocated : Rank(heap[c].kind) >= 2 - 1 => c \in fourth \cup Referred(fourth)
      BY <2>4, <2>10, <2>13
    <3>2. fifth = fourth \cup Referred(fourth)
      BY <2>2
    <3>. QED  BY <3>1, <3>2
  <2>. QED  BY <2>1, <2>3, <2>8, <2>14
<1>. QED  BY <1>1, MemoryInvariance, PTL

(* References to b are in blocks at places FieldPlaces has.                 *)
LEMMA BlockPlaces ==
  ASSUME Typed, NEW b
  PROVE  FromBlocks(b) = {p \in FieldPlaces :
                            /\ p[1] \in Allocated /\ p[2] \in DOMAIN heap[p[1]].fields
                            /\ heap[p[1]].fields[p[2]] = b}
<1>1. ASSUME NEW c \in Allocated, NEW i \in DOMAIN heap[c].fields
      PROVE  <<c, i>> \in FieldPlaces
  <2>1. i \in 1..(MaxLength + 1)
    BY FieldIndex
  <2>. QED  BY <2>1 DEF FieldPlaces, Allocated
<1>2. \A p \in FieldPlaces : p = <<p[1], p[2]>>
  BY DEF FieldPlaces
<1>. QED  BY <1>1, <1>2 DEF FromBlocks

(* The place to be overwritten is the one reference that was given up.      *)
LEMMA CountedExactly ==
  ASSUME MemoryInv, NEW b \in Allocated
  PROVE  /\ Cardinality(FromVars(b)) \in Nat /\ Cardinality(FromBlocks(b)) \in Nat
         /\ Cardinality(GivenUp(b)) \in Nat
         /\ Cardinality(FromVars(b)) + Cardinality(FromBlocks(b)) - Cardinality(GivenUp(b))
              = Cardinality(VarsTo(b)) + Cardinality(FieldsTo(b))
<1>1. /\ Typed /\ TodoTyped /\ todo \in Seq(Entry) /\ Len(todo) \in Nat
  BY DEF MemoryInv, TodoTyped
<1>2. FromBlocks(b) = {p \in FieldPlaces :
                         /\ p[1] \in Allocated /\ p[2] \in DOMAIN heap[p[1]].fields
                         /\ heap[p[1]].fields[p[2]] = b}
  BY <1>1, BlockPlaces
<1>3. /\ FromVars(b) \in SUBSET Vars /\ FromBlocks(b) \in SUBSET FieldPlaces
      /\ VarsTo(b) \in SUBSET Vars /\ FieldsTo(b) \in SUBSET FieldPlaces
  BY <1>2 DEF FromVars, VarsTo, FieldsTo
<1>4. /\ IsFiniteSet(VarsTo(b)) /\ IsFiniteSet(FieldsTo(b))
      /\ Cardinality(VarsTo(b)) \in Nat /\ Cardinality(FieldsTo(b)) \in Nat
      /\ Cardinality(FromVars(b)) \in Nat /\ Cardinality(FromBlocks(b)) \in Nat
  BY <1>3, PlacesFinite
<1>5. CASE \A k \in DOMAIN todo : todo[k][1] # "store"
  <2>1. \A place : ~ Overwritten(place)
    BY <1>5 DEF Overwritten
  <2>2. FromVars(b) = VarsTo(b) /\ FromBlocks(b) = FieldsTo(b)
    BY <1>2, <2>1 DEF FromVars, VarsTo, FieldsTo
  <2>3. GivenUp(b) = {}
    BY <1>5 DEF GivenUp
  <2>4. Cardinality(GivenUp(b)) = 0
    BY <2>3, FS_EmptySet
  <2>. QED  BY <1>4, <2>2, <2>4
<1>6. ASSUME NEW k \in DOMAIN todo, todo[k][1] = "store"
      PROVE  /\ Cardinality(GivenUp(b)) \in Nat
             /\ Cardinality(FromVars(b)) + Cardinality(FromBlocks(b))
                  - Cardinality(GivenUp(b))
                  = Cardinality(VarsTo(b)) + Cardinality(FieldsTo(b))
  <2>1. \A j \in DOMAIN todo : todo[j][1] = "store" => j = k
    BY <1>1, <1>6 DEF TodoTyped, StoreTyped
  <2>2. PICK place : place = todo[k][2]
    OBVIOUS
  <2>3. \A p : Overwritten(p) <=> p = place
    BY <1>6, <2>1, <2>2 DEF Overwritten
  <2>4. \/ Len(place) = 1 /\ place = <<place[1]>> /\ place[1] \in Vars
        \/ Len(place) = 2 /\ place = <<place[1], place[2]>>
    <3>1. todo[k] \in Entry
      BY <1>1
    <3>2. place \in Places
      BY <1>6, <2>2, <3>1 DEF Entry
    <3>. QED  BY <3>2 DEF Places
  <2>5. At(place) # b => GivenUp(b) = {}
    BY <2>1, <2>2 DEF GivenUp
  <2>6. At(place) = b => GivenUp(b) = {k}
    BY <1>6, <2>1, <2>2 DEF GivenUp
  <2>7. Cardinality(GivenUp(b)) = IF At(place) = b THEN 1 ELSE 0
    <3>1. CASE At(place) = b
      BY <2>6, <3>1, FS_Singleton
    <3>2. CASE At(place) # b
      BY <2>5, <3>2, FS_EmptySet
    <3>. QED  BY <3>1, <3>2
  <2>8. CASE Len(place) = 1
    <3>1. place = <<place[1]>> /\ place[1] \in Vars /\ At(place) = var[place[1]]
      BY <2>4, <2>8 DEF At
    <3>2. PICK v : v = place[1]
      OBVIOUS
    <3>3. \A w : <<w>> = place <=> w = v
      BY <3>1, <3>2
    <3>4. \A p \in FieldPlaces : p # place
      <4>1. \A p \in FieldPlaces : Len(p) = 2
        BY DEF FieldPlaces
      <4>. QED  BY <2>8, <4>1
    <3>5. FromBlocks(b) = FieldsTo(b)
      BY <1>2, <2>3, <3>4 DEF FieldsTo
    <3>6. VarsTo(b) = {w \in Vars : var[w] = b /\ w # v}
      BY <2>3, <3>3 DEF VarsTo
    <3>7. CASE At(place) = b
      <4>1. FromVars(b) = VarsTo(b) \cup {v} /\ v \notin VarsTo(b)
        BY <3>1, <3>2, <3>6, <3>7 DEF FromVars
      <4>2. Cardinality(FromVars(b)) = Cardinality(VarsTo(b)) + 1
        BY <1>4, <4>1, FS_AddElement
      <4>. QED  BY <1>4, <2>7, <3>5, <3>7, <4>2
    <3>8. CASE At(place) # b
      <4>1. FromVars(b) = VarsTo(b)
        BY <3>1, <3>2, <3>6, <3>8 DEF FromVars
      <4>. QED  BY <1>4, <2>7, <3>5, <3>8, <4>1
    <3>. QED  BY <3>7, <3>8
  <2>9. CASE Len(place) = 2
    <3>1. /\ place = <<place[1], place[2]>> /\ At(place) = heap[place[1]].fields[place[2]]
          /\ place[1] \in Allocated /\ place[2] \in DOMAIN heap[place[1]].fields
      <4>1. StoreTyped(k)
        BY <1>1, <1>6 DEF TodoTyped
      <4>. QED  BY <2>2, <2>4, <2>9, <4>1 DEF At, StoreTyped, Is
    <3>2. place \in FieldPlaces
      <4>1. place[2] \in 1..(MaxLength + 1) /\ place[1] \in Blocks
        BY <1>1, <3>1, FieldIndex DEF Allocated
      <4>. QED  BY <3>1, <4>1 DEF FieldPlaces
    <3>3. \A w : <<w>> # place
      BY <2>9
    <3>4. FromVars(b) = VarsTo(b)
      BY <2>3, <3>3 DEF FromVars, VarsTo
    <3>5. FieldsTo(b) = {p \in FromBlocks(b) : p # place}
      BY <1>2, <2>3 DEF FieldsTo
    <3>6. place \in FromBlocks(b) <=> At(place) = b
      BY <1>2, <3>1, <3>2
    <3>7. CASE At(place) = b
      <4>1. FromBlocks(b) = FieldsTo(b) \cup {place} /\ place \notin FieldsTo(b)
        BY <3>5, <3>6, <3>7
      <4>2. Cardinality(FromBlocks(b)) = Cardinality(FieldsTo(b)) + 1
        BY <1>4, <4>1, FS_AddElement
      <4>. QED  BY <1>4, <2>7, <3>4, <3>7, <4>2
    <3>8. CASE At(place) # b
      <4>1. FromBlocks(b) = FieldsTo(b)
        BY <3>5, <3>6, <3>8
      <4>. QED  BY <1>4, <2>7, <3>4, <3>8, <4>1
    <3>. QED  BY <3>7, <3>8
  <2>. QED  BY <2>4, <2>8, <2>9
<1>. QED  BY <1>4, <1>5, <1>6

(* CountExact: at every step of every operation a block's count is the      *)
(* number of references to it, those still to be dropped included, less     *)
(* that of the place DAL_assign is about to overwrite.                      *)
THEOREM MemoryCountExact ==
  ASSUME ShortArrays
  PROVE  Spec => []CountExact
<1>1. MemoryInv => CountExact
  <2>1. SUFFICES ASSUME MemoryInv, NEW b \in Allocated
                 PROVE  heap[b].ref_count =
                          (Cardinality(FromVars(b)) + Cardinality(FromBlocks(b))
                             + Cardinality(FromTodo(b)) - Cardinality(GivenUp(b))) % CountMod
    BY DEF CountExact
  <2>2. FromTodo(b) = Dropping(b)
    BY DEF FromTodo, Dropping, Occurrences
  <2>3. PICK v, f, t, g, m, n :
          /\ v = Cardinality(FromVars(b)) /\ f = Cardinality(FromBlocks(b))
          /\ t = Cardinality(FromTodo(b)) /\ g = Cardinality(GivenUp(b))
          /\ m = Cardinality(VarsTo(b)) /\ n = Cardinality(FieldsTo(b))
    OBVIOUS
  <2>4. /\ v \in Nat /\ f \in Nat /\ t \in Nat /\ g \in Nat /\ m \in Nat /\ n \in Nat
        /\ v + f - g = m + n
    <3>1. TodoTyped
      BY <2>1 DEF MemoryInv
    <3>2. v \in Nat /\ f \in Nat /\ g \in Nat /\ v + f - g = m + n
      BY <2>1, <2>3, CountedExactly, Zenon
    <3>3. t \in Nat /\ m \in Nat /\ n \in Nat
      BY <2>2, <2>3, <3>1, ReferencesFinite
    <3>. QED  BY <3>2, <3>3
  <2>5. v + f + t - g = m + n + t
    BY <2>4
  <2>6. References(b) = m + n + t
    BY <2>2, <2>3, Zenon DEF References
  <2>7. PICK r : r = m + n + t
    OBVIOUS
  <2>8. r \in Nat /\ heap[b].ref_count = r /\ r <= MaxReferences
    BY <2>1, <2>4, <2>6, <2>7 DEF MemoryInv, Counted
  <2>9. r % CountMod = r
    BY <2>8, CountFits
  <2>10. heap[b].ref_count = (v + f + t - g) % CountMod
    BY <2>5, <2>7, <2>8, <2>9
  <2>. QED  BY <2>3, <2>10, Zenon
<1>. QED  BY <1>1, MemoryInvariance, PTL
=============================================================================
