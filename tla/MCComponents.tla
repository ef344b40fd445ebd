---------------------------- MODULE MCComponents ----------------------------
(***************************************************************************)
(* The life of components and, apart from it, the small heap of one: what  *)
(* runs on under fairness.  They share no variable, so that one moves only *)
(* while the other is where it started.                                    *)
(***************************************************************************)
EXTENDS Lifecycle, SmallHeap

mcVars == <<vars, smallHeapVars>>

(* The life of components starts twice, with HEAPS and without; the heap is *)
(* explored beside one of the two.                                          *)
NothingCreated == Init /\ heaps

MCInit == Init /\ SmallHeapInit

MCNext ==
  \/ Next /\ SmallHeapInit /\ UNCHANGED smallHeapVars
  \/ SmallHeapNext /\ NothingCreated /\ UNCHANGED vars

(* Each with its own fairness: while one stands, no step of its own that    *)
(* would have to be taken is possible.                                      *)
MCSpec == MCInit /\ [][MCNext]_mcVars /\ Fairness /\ WF_smallHeapVars(Operation)
=============================================================================
