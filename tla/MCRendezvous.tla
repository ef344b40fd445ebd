--------------------------- MODULE MCRendezvous ----------------------------
(* Small instances of Rendezvous: who is connected to whom. *)
EXTENDS Rendezvous

(* The list primordial_main leaves when it binds c to the half-channels of *)
(* bound, in that order: each goes in at the head, the cursor stays on the *)
(* first.                                                                  *)
ListOf(bound) ==
  [elems |-> [k \in 1..Len(bound) |-> bound[Len(bound) + 1 - k]],
   next  |-> Len(bound)]

(* The ends in ends, as the order their channels were bound in. *)
SomeOrder(ends) ==
  CHOOSE q \in [1..Cardinality(ends) -> ends] : {q[k] : k \in DOMAIN q} = ends

Topology(links) ==
  [c \in Channels |->
    ListOf(SomeOrder({d \in Channels : <<c, d>> \in links \/ <<d, c>> \in links}))]

(* Every sender is connected to every receiver. *)
Mesh == {Topology(Outs \X Ins)}

(* Every connection but one: the smallest net in which a sender has two    *)
(* receivers, a receiver two senders, and they are each other's.           *)
Chain ==
  {Topology((Outs \X Ins) \ {CHOOSE l \in Outs \X Ins : TRUE})}

(* Every set of connections in which no receiver has two senders. *)
OneSenderEach ==
  {Topology(links) : links \in
    {l \in SUBSET (Outs \X Ins) :
       \A r \in Ins : Cardinality({s \in Outs : <<s, r>> \in l}) <= 1}}
=============================================================================
