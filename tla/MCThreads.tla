----------------------------- MODULE MCThreads -----------------------------
(***************************************************************************)
(* What threads share, for TLC: channels that are bound and unbound, the   *)
(* list of malloc's addresses, and the placement on cores.  The three have *)
(* no variable in common, so that one moves only while the others are      *)
(* where they started.                                                     *)
(***************************************************************************)
EXTENDS MCChannel, MallocList, Placement, TLC

mcVars == <<allVars, mallocListVars, placementVars>>

ChannelsAtRest == ConnInit
ListAtRest == MallocListInit
PlacementAtRest == PlacementInit /\ AFFINITY_ALGO = 0

(* One build: HEAPS is the same for all. *)
MCInit == ConnInit /\ MallocListInit /\ PlacementInit /\ small_heaps = heaps

(* HEAPS is nothing to channels. *)
MCNext ==
  \/ /\ ListAtRest /\ PlacementAtRest /\ heaps
     /\ ConnNext
     /\ UNCHANGED <<mallocListVars, placementVars>>
  \/ /\ ChannelsAtRest /\ PlacementAtRest
     /\ MallocListNext
     /\ UNCHANGED <<allVars, placementVars>>
  \/ /\ ChannelsAtRest /\ ListAtRest
     /\ PlacementNext
     /\ UNCHANGED <<allVars, mallocListVars>>

MCSpec == MCInit /\ [][MCNext]_mcVars

(* Threads that connect and threads that allocate are alike, blocks are,    *)
(* and items and components are.  As one part moves at a time, two parts    *)
(* can use the same names, which one permutation renames in both.           *)
Alike ==
  Permutations(Threads \ {Main}) \cup Permutations(Blocks) \cup Permutations(Items)
=============================================================================
