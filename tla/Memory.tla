------------------------------- MODULE Memory -------------------------------
(***************************************************************************)
(* Reference counting: DAL_mem_common.c, and the containers whose decRef   *)
(* functions it calls, strings (String.c), arrays (IArray.c) and values of *)
(* type any (AnyType*.c).                                                  *)
(*                                                                         *)
(* One thread runs a program that builds objects, assigns them with        *)
(* DAL_assign to variables and array elements, and passes them to library  *)
(* functions that hold them for a while.  The program is typed: variables  *)
(* hold strings, arrays of strings or of numbers, or any, and an any holds *)
(* a string, an array or a number.  What a constructor has returned is     *)
(* used at once, by one assignment, call or constructor.                   *)
(*                                                                         *)
(* DAL_decRef calls an object's decRef function, which calls DAL_decRef    *)
(* for what the object refers to: todo is the stack of calls still to be   *)
(* made, and the references an object being dropped gives up are counted   *)
(* there.                                                                  *)
(***************************************************************************)
EXTENDS Integers, Sequences, FiniteSets

CONSTANTS
  Blocks,       (* the addresses DAL_alloc can return                      *)
  Null,
  Free,         (* the content of a block that is not allocated            *)
  StringVars,
  ArrayVars,
  AnyVars,
  MaxLength,    (* arrays have up to so many elements                      *)
  LengthMod,    (* IArray length is a bit-field: modulo 2^10               *)
  CountMod      (* and so is ref_count: modulo 2^63                        *)

Vars == StringVars \cup ArrayVars \cup AnyVars

Pointers == Blocks \cup {Null}

(* The header of a block, and what its constructor keeps in it.             *)
Block ==
  [kind : {"literal", "chars", "string", "array", "data", "any"},
   ref_count : 0..(CountMod - 1), contains_pointers : BOOLEAN,
   fields : Seq(Pointers), length : 0..(LengthMod - 1)]

(* Pointers there can be at a time: the variables, an element more than an  *)
(* array has in each block, and two parameters.                             *)
MaxReferences ==
  Cardinality(Vars) + Cardinality(Blocks) * (MaxLength + 1) + 2

(* Memory is finite, and has no room for as many pointers as ref_count can  *)
(* count.                                                                   *)
ASSUME MemoryAssumption ==
  /\ Null \notin Blocks
  /\ Free \notin Block
  /\ IsFiniteSet(Blocks) /\ IsFiniteSet(Vars)
  /\ StringVars \cap ArrayVars = {}
  /\ StringVars \cap AnyVars = {}
  /\ ArrayVars \cap AnyVars = {}
  /\ MaxLength \in Nat
  /\ LengthMod \in Nat \ {0}
  /\ CountMod \in Nat /\ MaxReferences < CountMod

VARIABLES
  heap,         (* the blocks                                              *)
  var,          (* the program's variables                                 *)
  temp,         (* what a constructor returned, not used yet               *)
  todo,         (* the calls to be made, the next one first                *)
  lost          (* what no one can free any more                           *)

vars == <<heap, var, temp, todo, lost>>

Allocated == {b \in Blocks : heap[b] # Free}

(* A block as DAL_alloc returns it, with the pointers and the length its    *)
(* constructor stores.                                                      *)
DAL_alloc(kind, contains_pointers, fields) ==
  [kind |-> kind, ref_count |-> 0, contains_pointers |-> contains_pointers,
   fields |-> fields, length |-> 0]

DAL_modRef_by_n(h, b, n) == [h EXCEPT ![b].ref_count = (@ + n) % CountMod]

DAL_incRef(h, b) == IF b = Null THEN h ELSE DAL_modRef_by_n(h, b, 1)

-----------------------------------------------------------------------------
(* Values the program's expressions have *)

(* array_loc: the element's place in the data, the first if i is no index.  *)
Location(a, i) == IF i >= heap[a].length THEN 1 ELSE i + 1

DataOf(a) == heap[a].fields[1]

ArraysHeld == {var[v] : v \in ArrayVars} \ {Null}

OfPointers(a) == heap[DataOf(a)].contains_pointers

ElementPlaces ==
  {<<DataOf(a), Location(a, i)>> :
     a \in {b \in ArraysHeld : OfPointers(b)}, i \in 0..MaxLength}

(* What is projected from the any a variable holds. *)
Projected ==
  {heap[var[v]].fields[1] :
     v \in {w \in AnyVars : var[w] # Null /\ heap[var[w]].fields # <<>>}} \ {Null}

IsString(b) == b # Null /\ heap[b].kind \in {"literal", "string"}

IsArray(b) == b # Null /\ heap[b].kind = "array"

IsAny(b) == b # Null /\ heap[b].kind = "any"

Strings ==
  {var[v] : v \in StringVars} \cup {heap[e[1]].fields[e[2]] : e \in ElementPlaces}
    \cup {p \in Projected \cup {temp} : IsString(p)} \cup {Null}

Arrays == ArraysHeld \cup {p \in Projected \cup {temp} : IsArray(p)} \cup {Null}

Anys == {var[v] : v \in AnyVars} \cup {t \in {temp} : IsAny(t)} \cup {Null}

(* What the constructor returned is used by what comes next. *)
Uses(values) == temp = Null \/ temp \in values

-----------------------------------------------------------------------------
(* Constructors *)

(* A string in the program's text. *)
Construct_String0 ==
  /\ Uses({})
  /\ \E b \in Blocks \ Allocated :
       /\ heap' = [heap EXCEPT ![b] = DAL_alloc("literal", FALSE, <<>>)]
       /\ temp' = b
  /\ UNCHANGED <<var, todo, lost>>

(* A constructor's first allocation fails: it returns NULL, and a temporary *)
(* it was to use is forgotten.                                              *)
FirstFails(used) ==
  /\ lost' = lost \cup (({used} \cap {temp}) \ {Null})
  /\ temp' = Null
  /\ UNCHANGED <<heap, var, todo>>

(* Its second allocation fails: it also forgets the first block.            *)
SecondFails(kind, used) ==
  /\ \E b \in Blocks \ Allocated :
       /\ heap' = [heap EXCEPT ![b] = DAL_alloc(kind, TRUE, <<Null>>)]
       /\ lost' = lost \cup {b} \cup (({used} \cap {temp}) \ {Null})
  /\ temp' = Null
  /\ UNCHANGED <<var, todo>>

Construct_String1 ==
  /\ Uses({})
  /\ \/ \E b, data \in Blocks \ Allocated :
          /\ b # data
          /\ heap' = DAL_incRef([heap EXCEPT
                                   ![b] = DAL_alloc("string", TRUE, <<data>>),
                                   ![data] = DAL_alloc("chars", FALSE, <<>>)], data)
          /\ temp' = b
          /\ UNCHANGED <<var, todo, lost>>
     \/ SecondFails("string", Null)

(* Mutant: an array of length 0 has no element. *)
NoElementOfNone(length) == length

(* An array of length 0 has one element all the same. *)
ElementsCreated(length) == IF length = 0 THEN 1 ELSE length

(* An array of strings, all of them init, or of numbers. *)
Construct_Array(length, contains_pointers, init) ==
  LET n == ElementsCreated(length) IN
  /\ Uses({init})
  /\ \/ \E b, data \in Blocks \ Allocated :
          LET block == [DAL_alloc("array", TRUE, <<data>>)
                          EXCEPT !.length = length % LengthMod]
              elements == IF contains_pointers THEN [i \in 1..n |-> init] ELSE <<>>
              made == DAL_incRef([heap EXCEPT
                         ![b] = block,
                         ![data] = DAL_alloc("data", contains_pointers, elements)], data)
          IN /\ b # data
             /\ heap' = IF init = Null THEN made ELSE DAL_modRef_by_n(made, init, n)
             /\ temp' = b
             /\ UNCHANGED <<var, todo, lost>>
     \/ FirstFails(init)
     \/ SecondFails("array", init)

(* An any that holds a string or an array, or (NULL here) a number. *)
Construct_AnyType(value) ==
  /\ Uses({value})
  /\ \/ \E b \in Blocks \ Allocated :
          LET fields == IF value = Null THEN <<>> ELSE <<value>> IN
          /\ heap' = DAL_incRef([heap EXCEPT ![b] = DAL_alloc("any", TRUE, fields)], value)
          /\ temp' = b
          /\ UNCHANGED <<var, todo, lost>>
     \/ FirstFails(value)

-----------------------------------------------------------------------------
(* DAL_assign, and functions that hold their parameters for a while *)

(* A place is a variable, <<v>>, or a pointer in a block, <<b, i>>. *)
At(place) ==
  IF Len(place) = 1 THEN var[place[1]] ELSE heap[place[1]].fields[place[2]]

(* Mutant: assigning what is already there is not noticed. *)
NeverSame(old, new) == FALSE

Same(old, new) == old = new

DAL_assign(place, new) ==
  LET old == At(place) IN
  /\ Uses({new})
  /\ ~Same(old, new)
  /\ todo' = (IF old = Null THEN <<>> ELSE <<<<"decRef", old>>>>)
               \o <<<<"store", place, new>>>>
  /\ temp' = Null
  /\ UNCHANGED <<heap, var, lost>>

(* stringCompare, printString_proc, printAny_proc: assign their parameters  *)
(* to local variables, and drop these at the end.                           *)
HoldForAWhile(p, q) ==
  /\ Uses({p, q})
  /\ heap' = DAL_incRef(DAL_incRef(heap, p), q)
  /\ todo' = <<<<"decRef", p>>, <<"decRef", q>>>>
  /\ temp' = Null
  /\ UNCHANGED <<var, lost>>

-----------------------------------------------------------------------------
(* Calls *)

DecRefs(blocks) == [i \in DOMAIN blocks |-> <<"decRef", blocks[i]>>]

(* Mutant: an array of length 0 gives nothing back. *)
NoneDroppedOfNone(a) == heap[a].length

ElementsDropped(a) == IF heap[a].length = 0 THEN 1 ELSE heap[a].length

(* IArray_decRef *)
IArray_decRef(a) ==
  LET data == DataOf(a) IN
  (IF OfPointers(a)
   THEN DecRefs(SubSeq(heap[data].fields, 1, ElementsDropped(a))) ELSE <<>>)
    \o <<<<"clear", data>>, <<"decRef", data>>>>

(* The decRef function of a block: strings and anys drop their pointer. *)
decRef(b) ==
  CASE ~heap[b].contains_pointers -> <<>>
    [] heap[b].kind = "array" -> IArray_decRef(b)
    [] OTHER -> DecRefs(heap[b].fields)

(* The references b's decRef function gives up are not b's any more. *)
Emptied(b) ==
  {b} \cup (IF heap[b].kind = "array" THEN {DataOf(b)} ELSE {})

Without(h, emptied) ==
  [c \in Blocks |-> IF c \in emptied THEN [h[c] EXCEPT !.fields = <<>>] ELSE h[c]]

(* Mutant: a count of 0 does not free. *)
BelowZero(count) == count < 0

Unreferenced(count) == count <= 0

DAL_decRef ==
  /\ todo # <<>> /\ todo[1][1] = "decRef"
  /\ LET b == todo[1][2]
         count == (heap[b].ref_count - 1) % CountMod
         dropped == [heap EXCEPT ![b].ref_count = count]
     IN IF b = Null
        THEN /\ todo' = Tail(todo)
             /\ UNCHANGED heap
        ELSE IF Unreferenced(count)
        THEN /\ todo' = decRef(b) \o <<<<"free", b>>>> \o Tail(todo)
             /\ heap' = Without(dropped, Emptied(b))
        ELSE /\ todo' = Tail(todo)
             /\ heap' = dropped
  /\ UNCHANGED <<var, temp, lost>>

(* Mutant: the array's data keeps its flag. *)
NotCleared == TRUE

Cleared == FALSE

(* Array data has no decRef function: it must not be called for it. *)
ClearContainsPointers ==
  /\ todo # <<>> /\ todo[1][1] = "clear"
  /\ heap' = [heap EXCEPT ![todo[1][2]].contains_pointers = Cleared]
  /\ todo' = Tail(todo)
  /\ UNCHANGED <<var, temp, lost>>

DAL_free ==
  /\ todo # <<>> /\ todo[1][1] = "free"
  /\ heap' = IF heap[todo[1][2]].ref_count > 0 THEN heap
             ELSE [heap EXCEPT ![todo[1][2]] = Free]
  /\ todo' = Tail(todo)
  /\ UNCHANGED <<var, temp, lost>>

(* DAL_assign goes on. *)
Store ==
  /\ todo # <<>> /\ todo[1][1] = "store"
  /\ LET place == todo[1][2]
         new == todo[1][3]
         counted == DAL_incRef(heap, new)
     IN IF Len(place) = 1
        THEN /\ var' = [var EXCEPT ![place[1]] = new]
             /\ heap' = counted
        ELSE /\ heap' = [counted EXCEPT ![place[1]].fields[place[2]] = new]
             /\ UNCHANGED var
  /\ todo' = Tail(todo)
  /\ UNCHANGED <<temp, lost>>

-----------------------------------------------------------------------------
Init ==
  /\ heap = [b \in Blocks |-> Free]
  /\ var = [v \in Vars |-> Null]
  /\ temp = Null
  /\ todo = <<>>
  /\ lost = {}

(* A statement begins when the one before it is done. *)
Program ==
  /\ todo = <<>>
  /\ \/ Construct_String0 \/ Construct_String1
     \/ \E length \in 0..MaxLength :
          \/ \E init \in Strings : Construct_Array(length, TRUE, init)
          \/ Construct_Array(length, FALSE, Null)
     \/ \E value \in Strings \cup Arrays : Construct_AnyType(value)
     \/ \E v \in StringVars, new \in Strings : DAL_assign(<<v>>, new)
     \/ \E v \in ArrayVars, new \in Arrays : DAL_assign(<<v>>, new)
     \/ \E v \in AnyVars, new \in Anys : DAL_assign(<<v>>, new)
     \/ \E e \in ElementPlaces, new \in Strings : DAL_assign(e, new)
     \/ \E p, q \in Strings : HoldForAWhile(p, q)
     \/ \E p \in Anys : HoldForAWhile(p, Null)

Next ==
  Program \/ DAL_decRef \/ ClearContainsPointers \/ DAL_free \/ Store

Spec == Init /\ [][Next]_vars

-----------------------------------------------------------------------------
(* Properties *)

(* Types; and an array has at least one element, so that index 0 can always *)
(* be read.                                                                 *)
TypeOK ==
  /\ heap \in [Blocks -> Block \cup {Free}]
  /\ \A b \in Allocated :
       heap[b].kind = "data" /\ heap[b].contains_pointers /\ todo = <<>> =>
         Len(heap[b].fields) > 0
  /\ var \in [Vars -> Pointers]
  /\ temp \in Pointers
  /\ lost \subseteq Blocks
  /\ \A k \in DOMAIN todo :
       todo[k][1] \in {"decRef", "clear", "free"} => todo[k][2] \in Pointers

(* The references to a block: from variables, from other blocks, and those  *)
(* that are to be dropped.                                                  *)
FromVars(b) == {v \in Vars : var[v] = b}

FromBlocks(b) ==
  UNION {{<<c, i>> : i \in {j \in DOMAIN heap[c].fields : heap[c].fields[j] = b}} :
           c \in Allocated}

FromTodo(b) == {k \in DOMAIN todo : todo[k] = <<"decRef", b>>}

(* A variable that DAL_assign will overwrite has given its reference up. *)
GivenUp(b) ==
  {k \in DOMAIN todo : todo[k][1] = "store" /\ At(todo[k][2]) = b}

(* The count of a block is the number of references to it, at every step of *)
(* every operation.                                                         *)
CountExact ==
  \A b \in Allocated :
    heap[b].ref_count =
      (Cardinality(FromVars(b)) + Cardinality(FromBlocks(b))
         + Cardinality(FromTodo(b)) - Cardinality(GivenUp(b))) % CountMod

(* Nobody refers to freed memory, but for the place DAL_assign is about to  *)
(* overwrite: not a variable, a block, a call to be made, what is about to  *)
(* be stored, or the place itself.                                          *)
NoDangling ==
  LET overwritten == {todo[k][2] : k \in {j \in DOMAIN todo : todo[j][1] = "store"}}
      ok(p) == p = Null \/ p \in Allocated
  IN /\ \A v \in Vars : <<v>> \notin overwritten => ok(var[v])
     /\ \A b \in Allocated : \A i \in DOMAIN heap[b].fields :
          <<b, i>> \notin overwritten => ok(heap[b].fields[i])
     /\ ok(temp)
     /\ \A k \in DOMAIN todo :
          IF todo[k][1] = "store"
          THEN ok(todo[k][3]) /\ (Len(todo[k][2]) = 2 => ok(todo[k][2][1]))
          ELSE ok(todo[k][2])

(* Between operations every block can be reached from a variable, through   *)
(* strings, arrays and anys, or has just been made; but for what            *)
(* constructors that failed have forgotten.                                 *)
Referred(S) ==
  (UNION {{heap[b].fields[i] : i \in DOMAIN heap[b].fields} : b \in S}) \ {Null}

Reached ==
  LET from == ({var[v] : v \in Vars} \cup {temp} \cup lost) \ {Null}
      second == from \cup Referred(from)
      third == second \cup Referred(second)
      fourth == third \cup Referred(third)
  IN fourth \cup Referred(fourth)

NothingForgotten == todo = <<>> => Allocated \subseteq Reached

(* A decRef function is called only for blocks that have one: the first     *)
(* word of an array's data is an element.                                   *)
CallsDecRefFunction ==
  todo # <<>> /\ todo[1][1] = "decRef" /\ todo[1][2] # Null =>
    LET b == heap[todo[1][2]] IN
    b.ref_count = 1 /\ b.contains_pointers => b.kind \in {"string", "array", "any"}
=============================================================================
