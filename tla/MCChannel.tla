----------------------------- MODULE MCChannel ------------------------------
(* Small instances of Channel. *)
EXTENDS Channel

(* The list primordial_main leaves when it binds c to the half-channels of *)
(* bound, in that order: each goes in at the head, the cursor stays on the *)
(* first.                                                                  *)
ListOf(bound) ==
  [elems |-> [k \in 1..Len(bound) |-> bound[Len(bound) + 1 - k]],
   next  |-> Len(bound)]

(* The ends in ends, as the order their channels were bound in. *)
SomeOrder(ends) ==
  CHOOSE q \in [1..Cardinality(ends) -> ends] : {q[k] : k \in DOMAIN q} = ends

Topology(links) ==
  [c \in Channels |->
    ListOf(SomeOrder({d \in Channels : <<c, d>> \in links \/ <<d, c>> \in links}))]

AllConnected == {Topology(Outs \X Ins)}

(* The first connection made, the others still to come. *)
OneConnected == {Topology({l}) : l \in Outs \X Ins}

SameSize == [c \in Channels |-> 1]

(* A program that disconnects and never connects, and drops receivers. *)
DisconnectNext ==
  \/ Call
  \/ \E s \in Outs : Send(s) /\ UNCHANGED connVars
  \/ \E r \in Ins : Receive(r) /\ UNCHANGED connVars
  \/ \E k \in Connectors : CallUnbind(k) \/ Unbind(k)
  \/ \E r \in Ins : Drop(r) \/ Channel_decRef(r)

DisconnectFairSpec == ConnInit /\ [][DisconnectNext]_allVars /\ ConnFairness
=============================================================================
