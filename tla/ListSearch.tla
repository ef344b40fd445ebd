----------------------------- MODULE ListSearch -----------------------------
(***************************************************************************)
(* searchList and getRandomElement of IteratedList.h, which no part of the *)
(* runtime calls.  A search uses the list's own cursor: it begins where    *)
(* the last call left it and stops where it meets the first payload again. *)
(***************************************************************************)
EXTENDS IteratedList, FiniteSetsExt

(* What the n-th of a number of getNextElement calls returns. *)
NthNext(l, n) == l.elems[((l.next + n - 2) % Len(l.elems)) + 1]

(* The list after n calls. *)
AfterNext(l, n) ==
  IF isEmpty(l) THEN l ELSE [l EXCEPT !.next = ((l.next + n - 1) % Len(l.elems)) + 1]

(* Mutant: the search stops at the end of the list. *)
RoundToEnd(l) == Len(l.elems) + 1 - l.next

(* The calls before the one that returns the first payload again. *)
Round(l) ==
  Min({n \in 1 .. Len(l.elems) : NthNext(l, n + 1) = NthNext(l, 1)})

Hits(l, keys) == {n \in 1 .. Round(l) : NthNext(l, n) \in keys}

(* searchList for an element that f accepts: keys is the set of those.      *)
searchList(l, keys) ==
  IF isEmpty(l) \/ Hits(l, keys) = {} THEN NULL
  ELSE NthNext(l, Min(Hits(l, keys)))

AfterSearch(l, keys) ==
  IF isEmpty(l) THEN l
  ELSE IF Hits(l, keys) = {} THEN AfterNext(l, Round(l) + 1)
  ELSE AfterNext(l, Min(Hits(l, keys)))

(* getRandomElement: the number is from 0 to the length - 1.                *)
RandomElements(l) ==
  IF isEmpty(l) THEN {NULL}
  ELSE {getElementN(l, r) : r \in 0 .. getListLength(l) - 1}

-----------------------------------------------------------------------------
(* A list in which the element the search begins with is there once.        *)
StartsUnique(l) ==
  isEmpty(l) \/ \A i \in DOMAIN l.elems : l.elems[i] = l.elems[l.next] => i = l.next

(* The list with the cursor behind its i-th item.                           *)
Behind(l, i) == AfterGetNext([l EXCEPT !.next = i])

(* The search finds what there is to find, unless the first payload is in   *)
(* the list twice; it leaves the cursor behind what it found, and one place *)
(* further than before if it found nothing.                                 *)
SearchAgrees(l, keys) ==
  /\ searchList(l, keys) \in (Elements(l) \cap keys) \cup {NULL}
  /\ searchList(l, keys) # NULL =>
       \E i \in DOMAIN l.elems : /\ l.elems[i] = searchList(l, keys)
                                 /\ AfterSearch(l, keys) = Behind(l, i)
  /\ StartsUnique(l) =>
       /\ searchList(l, keys) = NULL <=> Elements(l) \cap keys = {}
       /\ searchList(l, keys) = NULL => AfterSearch(l, keys) = AfterGetNext(l)
  /\ WellFormed(AfterSearch(l, keys))
  /\ RandomElements(l) = IF isEmpty(l) THEN {NULL} ELSE Elements(l)
=============================================================================
