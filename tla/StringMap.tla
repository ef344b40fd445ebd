----------------------------- MODULE StringMap -----------------------------
(***************************************************************************)
(* What strmap.h promises: a map from keys to values.  A call answers with *)
(* its result; one that needs memory may fail, and then changes nothing:   *)
(* a new map, a new key, and a value longer than the one it replaces.      *)
(***************************************************************************)
EXTENDS Integers, FiniteSets

CONSTANTS
  Keys, Values,
  Length(_),    (* of a value                                              *)
  Rooms,        (* sizes of output buffers                                 *)
  Absent        (* no value                                                *)

VARIABLES
  exists,       (* there is a map                                          *)
  assoc,        (* the value of every key                                  *)
  result        (* what the last call returned, and wrote                  *)

mapVars == <<exists, assoc, result>>

Empty == [k \in Keys |-> Absent]

Answer(n, out) == result' = [ret |-> n, out |-> out]

Known == {k \in Keys : assoc[k] # Absent}

New ==
  /\ ~ exists
  /\ \/ exists' = TRUE /\ Answer(1, {})
     \/ UNCHANGED exists /\ Answer(0, {})
  /\ assoc' = Empty

Delete ==
  /\ exists
  /\ exists' = FALSE
  /\ assoc' = Empty
  /\ Answer(0, {})

NeedsMemory(k, v) == assoc[k] = Absent \/ Length(assoc[k]) < Length(v)

Put(k, v) ==
  /\ exists
  /\ \/ assoc' = [assoc EXCEPT ![k] = v] /\ Answer(1, {})
     \/ NeedsMemory(k, v) /\ UNCHANGED assoc /\ Answer(0, {})
  /\ UNCHANGED exists

(* The value, if there is room for it and for its terminator. *)
Get(k, room) ==
  /\ exists
  /\ IF assoc[k] # Absent /\ Length(assoc[k]) < room
     THEN Answer(1, {<<k, assoc[k]>>})
     ELSE Answer(0, {})
  /\ UNCHANGED <<exists, assoc>>

(* The room a value needs, or 0. *)
Size(k) ==
  /\ exists
  /\ Answer(IF assoc[k] = Absent THEN 0 ELSE Length(assoc[k]) + 1, {})
  /\ UNCHANGED <<exists, assoc>>

Exists(k) ==
  /\ exists
  /\ Answer(IF assoc[k] = Absent THEN 0 ELSE 1, {})
  /\ UNCHANGED <<exists, assoc>>

Count ==
  /\ exists
  /\ Answer(Cardinality(Known), {})
  /\ UNCHANGED <<exists, assoc>>

(* Every association. *)
Enumerate ==
  /\ exists
  /\ Answer(1, {<<k, assoc[k]>> : k \in Known})
  /\ UNCHANGED <<exists, assoc>>

Init ==
  /\ exists = FALSE
  /\ assoc = Empty
  /\ result = [ret |-> 0, out |-> {}]

Next ==
  \/ New \/ Delete \/ Count \/ Enumerate
  \/ \E k \in Keys :
       \/ Size(k) \/ Exists(k)
       \/ \E v \in Values : Put(k, v)
       \/ \E room \in Rooms : Get(k, room)

Spec == Init /\ [][Next]_mapVars
=============================================================================
