------------------------------- MODULE StrMap -------------------------------
(***************************************************************************)
(* strmap.c: a table of buckets, each an array of pairs that is enlarged   *)
(* by one for every new key.                                               *)
(*                                                                         *)
(* A call runs alone, except that sm_put of a new key is a step for each   *)
(* of its three allocations, any of which can fail.  A string is a model   *)
(* value; of a value the length counts, and of the memory it is in the     *)
(* size.  mem counts the blocks that have been allocated and not freed.    *)
(* hash is any function: it is fixed at the start.                         *)
(***************************************************************************)
EXTENDS Integers, Sequences, FiniteSets

CONSTANTS
  Keys, Values,
  Length(_),    (* strlen of a value                                       *)
  Rooms,        (* n_out_buf                                               *)
  Absent,
  Capacity      (* of the map                                              *)

ASSUME StrMapAssumption ==
  /\ Capacity \in Nat \ {0}
  /\ \A v \in Values : Length(v) \in Nat
  /\ Rooms \subseteq Nat
  /\ Absent \notin Values
  /\ IsFiniteSet(Keys)

Indices == 0 .. Capacity - 1

VARIABLES
  hash,         (* hash(key) % map->count                                  *)
  map,          (* there is a map                                          *)
  buckets,      (* the pairs of each bucket                                *)
  mem,
  put,          (* where sm_put is, and its parameters                     *)
  answer        (* what the last call returned and wrote                   *)

strMapVars == <<hash, map, buckets, mem, put, answer>>

Idle == [at |-> "idle"]

Returned(n, out) == answer' = [ret |-> n, out |-> out]

(* Mutant: the last pair is not compared. *)
AllButLast(k) == {i \in DOMAIN buckets[hash[k]] :
  i < Len(buckets[hash[k]]) /\ buckets[hash[k]][i].key = k}

Matching(k) == {i \in DOMAIN buckets[hash[k]] : buckets[hash[k]][i].key = k}

(* get_pair: the first pair with the key, as an index; 0 for NULL.          *)
get_pair(k) ==
  IF Matching(k) = {} THEN 0
  ELSE CHOOSE i \in Matching(k) : \A j \in Matching(k) : i <= j

ValueOf(k) ==
  IF get_pair(k) = 0 THEN Absent ELSE buckets[hash[k]][get_pair(k)].value

-----------------------------------------------------------------------------
Calling == map /\ put = Idle

(* Two allocations; if the second fails the first is freed. *)
sm_new ==
  /\ ~ map
  /\ \/ map' = TRUE /\ mem' = mem + 2 /\ Returned(1, {})
     \/ UNCHANGED <<map, mem>> /\ Returned(0, {})
  /\ UNCHANGED <<hash, buckets, put>>

(* How many blocks a bucket is in: each pair's two strings, and the array.  *)
BlocksOf(b) == 2 * Len(b) + (IF b = <<>> THEN 0 ELSE 1)

(* The blocks of the buckets before the i-th. *)
BlocksBefore[i \in Nat] ==
  IF i = 0 THEN 0 ELSE BlocksBefore[i - 1] + BlocksOf(buckets[i - 1])

sm_delete ==
  /\ Calling
  /\ map' = FALSE
  /\ buckets' = [i \in Indices |-> <<>>]
  /\ mem' = mem - BlocksBefore[Capacity] - 2
  /\ Returned(0, {})
  /\ UNCHANGED <<hash, put>>

(* sm_get into a buffer of some size. *)
sm_get(k, room) ==
  /\ Calling
  /\ IF ValueOf(k) = Absent \/ Length(ValueOf(k)) >= room THEN Returned(0, {})
     ELSE Returned(1, {<<k, ValueOf(k)>>})
  /\ UNCHANGED <<hash, map, buckets, mem, put>>

(* sm_get without a buffer. *)
sm_get_size(k) ==
  /\ Calling
  /\ Returned(IF ValueOf(k) = Absent THEN 0 ELSE Length(ValueOf(k)) + 1, {})
  /\ UNCHANGED <<hash, map, buckets, mem, put>>

sm_exists(k) ==
  /\ Calling
  /\ Returned(IF get_pair(k) = 0 THEN 0 ELSE 1, {})
  /\ UNCHANGED <<hash, map, buckets, mem, put>>

(* The pairs of the buckets before the i-th. *)
PairsBefore[i \in Nat] ==
  IF i = 0 THEN 0 ELSE PairsBefore[i - 1] + Len(buckets[i - 1])

sm_get_count ==
  /\ Calling
  /\ Returned(PairsBefore[Capacity], {})
  /\ UNCHANGED <<hash, map, buckets, mem, put>>

(* enum_func is called with each pair. *)
sm_enum ==
  /\ Calling
  /\ Returned(1, UNION {{<<buckets[i][j].key, buckets[i][j].value>> :
                           j \in DOMAIN buckets[i]} : i \in Indices})
  /\ UNCHANGED <<hash, map, buckets, mem, put>>

-----------------------------------------------------------------------------
(* sm_put *)

(* Mutant: the terminator is forgotten. *)
GrowsIfLonger(p, v) == Length(p.value) + 1 < Length(v)

Grows(p, v) == Length(p.value) < Length(v)

(* The key has a pair: its value is replaced, in more memory if need be.    *)
PutReplace(k, v) ==
  /\ Calling
  /\ get_pair(k) # 0
  /\ LET i == get_pair(k)
         p == buckets[hash[k]][i]
         written == [p EXCEPT !.value = v,
                              !.size = IF Grows(p, v) THEN Length(v) + 1 ELSE @]
     IN \/ /\ buckets' = [buckets EXCEPT ![hash[k]][i] = written]
           /\ Returned(1, {})
        \/ /\ Grows(p, v)
           /\ UNCHANGED buckets
           /\ Returned(0, {})
  /\ UNCHANGED <<hash, map, mem, put>>

PutFails ==
  /\ put' = Idle
  /\ Returned(0, {})

(* new_key is allocated. *)
PutKey(k, v) ==
  /\ Calling
  /\ get_pair(k) = 0
  /\ \/ /\ put' = [at |-> "value", key |-> k, value |-> v]
        /\ mem' = mem + 1
        /\ UNCHANGED answer
     \/ /\ PutFails
        /\ UNCHANGED mem
  /\ UNCHANGED <<hash, map, buckets>>

(* new_value is allocated; if it fails, new_key is freed. *)
PutValue ==
  /\ put.at = "value"
  /\ \/ /\ put' = [put EXCEPT !.at = "pair"]
        /\ mem' = mem + 1
        /\ UNCHANGED answer
     \/ /\ PutFails
        /\ mem' = mem - 1
  /\ UNCHANGED <<hash, map, buckets>>

(* Mutant: the key is not freed. *)
NoPairKeyKept ==
  /\ put.at = "pair"
  /\ PutFails
  /\ mem' = mem - 1
  /\ UNCHANGED <<hash, map, buckets>>

(* The array cannot be enlarged, and both strings are freed. *)
NoPair ==
  /\ put.at = "pair"
  /\ PutFails
  /\ mem' = mem - 2
  /\ UNCHANGED <<hash, map, buckets>>

(* The array is made, or enlarged, and the pair becomes its last. *)
PutPair ==
  /\ put.at = "pair"
  /\ LET h == hash[put.key]
     IN /\ mem' = IF buckets[h] = <<>> THEN mem + 1 ELSE mem
        /\ buckets' = [buckets EXCEPT ![h] =
             Append(@, [key |-> put.key, value |-> put.value,
                        size |-> Length(put.value) + 1])]
  /\ put' = Idle
  /\ Returned(1, {})
  /\ UNCHANGED <<hash, map>>

-----------------------------------------------------------------------------
StrMapInit ==
  /\ hash \in [Keys -> Indices]
  /\ map = FALSE
  /\ buckets = [i \in Indices |-> <<>>]
  /\ mem = 0
  /\ put = Idle
  /\ answer = [ret |-> 0, out |-> {}]

StrMapNext ==
  \/ sm_new \/ sm_delete \/ sm_get_count \/ sm_enum
  \/ \E k \in Keys :
       \/ sm_exists(k) \/ sm_get_size(k)
       \/ \E room \in Rooms : sm_get(k, room)
       \/ \E v \in Values : PutReplace(k, v) \/ PutKey(k, v)
  \/ PutValue \/ NoPair \/ PutPair

StrMapSpec == StrMapInit /\ [][StrMapNext]_strMapVars

-----------------------------------------------------------------------------
(* Properties *)

(* The memory in use is what the map can reach and what a call in progress  *)
(* holds: a call that fails half way gives back what it took, and after     *)
(* sm_delete nothing is left.                                               *)
MemoryExact ==
  mem = (IF map THEN 2 + BlocksBefore[Capacity] ELSE 0)
      + (IF put.at = "value" THEN 1 ELSE IF put.at = "pair" THEN 2 ELSE 0)

(* A key is found in one place or nowhere: its pair is in the bucket of its *)
(* hash, and is the only one; and every value fits into its memory, however *)
(* often longer and shorter ones have been put in its place.                *)
PairsSound ==
  \A h \in Indices : \A i \in DOMAIN buckets[h] :
    /\ hash[buckets[h][i].key] = h
    /\ \A j \in DOMAIN buckets[h] : buckets[h][j].key = buckets[h][i].key => j = i
    /\ Length(buckets[h][i].value) < buckets[h][i].size

(* The map is the map of strmap.h: whatever keys collide and whatever       *)
(* allocations fail, every call answers as it would.                        *)
Promised == INSTANCE StringMap WITH
  exists <- map,
  assoc <- [k \in Keys |-> ValueOf(k)],
  result <- answer

IsStringMap == Promised!Spec
=============================================================================
