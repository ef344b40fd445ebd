----------------------------- MODULE MCLibrary -----------------------------
(***************************************************************************)
(* What one thread does alone, for TLC: the string map, the functions of   *)
(* the library, and the memory of a program.  The library and the memory   *)
(* share no variable, so that one moves only while the other is where it   *)
(* started.                                                                *)
(***************************************************************************)
EXTENDS Library, Memory, TLC

mcVars == <<libraryVars, vars>>

LibraryAtRest == LibraryInit /\ \A k \in Keys : hash[k] = 0

MCInit == LibraryInit /\ Init

MCNext ==
  \/ /\ Init
     /\ LibraryNext
     /\ UNCHANGED vars
  \/ /\ LibraryAtRest
     /\ Next
     /\ UNCHANGED libraryVars

MCSpec == MCInit /\ [][MCNext]_mcVars

(* Blocks and variables of one type are alike. *)
Alike == Permutations(Blocks) \cup Permutations(StringVars)
=============================================================================
