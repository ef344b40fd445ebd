---------------------------- MODULE IteratedList ----------------------------
(***************************************************************************)
(* The singly linked list with a cursor of IteratedList.h, as operators on *)
(* records [elems, next]: elems is the sequence of payloads from l->first  *)
(* on, and next is the index of the node l->next points to, 0 when the     *)
(* pointer is NULL (the list is empty).  The cursor keeps its place across *)
(* calls of getNextElement.  Payloads are channels, never NULL.            *)
(***************************************************************************)
EXTENDS Naturals, Sequences

CONSTANT NULL

(* Construct_List: DAL_alloc zeroes the object, so first = next = NULL. *)
EmptyList == [elems |-> <<>>, next |-> 0]

isEmpty(l) == l.elems = <<>>

getListLength(l) == Len(l.elems)

(* The elements of the list, as a set. *)
Elements(l) == {l.elems[k] : k \in 1..Len(l.elems)}

containsElement(l, e) == e \in Elements(l)

(* getElementN: elements are numbered from 0, NULL beyond the end. *)
getElementN(l, n) ==
  IF n < getListLength(l) THEN l.elems[n + 1] ELSE NULL

(* What getNextElement returns. *)
getNextElement(l) == IF isEmpty(l) THEN NULL ELSE l.elems[l.next]

(* Mutant: the cursor runs off the end. *)
AfterGetNextPastEnd(l) ==
  IF isEmpty(l) THEN l ELSE [l EXCEPT !.next = @ + 1]

(* The list it leaves: the cursor moves on and wraps round to the first. *)
AfterGetNext(l) ==
  IF isEmpty(l) THEN l
  ELSE [l EXCEPT !.next = IF @ = Len(l.elems) THEN 1 ELSE @ + 1]

(* insertElement adds a node at the head.  The cursor keeps pointing at its *)
(* node, which is now one place further on; the first node inserted becomes *)
(* the cursor's.                                                            *)
insertElement(l, e) ==
  [elems |-> <<e>> \o l.elems, next |-> l.next + 1]

(* removeElement unlinks the first node whose payload is e.  A cursor on    *)
(* that node moves to the node after it, or round to the first.            *)
removeElement(l, e) ==
  IF ~containsElement(l, e) THEN l
  ELSE LET p == CHOOSE k \in 1..Len(l.elems) :
                  /\ l.elems[k] = e
                  /\ \A j \in 1..(k - 1) : l.elems[j] # e
           rest == SubSeq(l.elems, 1, p - 1)
                     \o SubSeq(l.elems, p + 1, Len(l.elems))
       IN  [elems |-> rest,
            next  |-> IF rest = <<>> THEN 0
                      ELSE IF l.next > p THEN l.next - 1
                      ELSE IF l.next > Len(rest) THEN 1 ELSE l.next]

(* The cursor points into the list, and is NULL exactly when it is empty. *)
WellFormed(l) ==
  IF isEmpty(l) THEN l.next = 0 ELSE l.next \in 1..Len(l.elems)
=============================================================================
