---------------------------- MODULE SyncChannel -----------------------------
(***************************************************************************)
(* What channel_send and channel_receive promise: a synchronous channel.   *)
(* A component offers an item or asks for one, waits, and one atomic step  *)
(* takes a waiting sender and a waiting receiver that are linked out of    *)
(* their wait and gives the receiver the sender's item.                    *)
(***************************************************************************)
EXTENDS Naturals

CONSTANTS Outs, Ins, Values, NULL

VARIABLES
  status,   (* idle, waiting or matched, per half-channel                  *)
  item,     (* what a sender offers, what a receiver got                   *)
  links     (* the connected pairs <<sender, receiver>>                    *)

vars == <<status, item, links>>

Init ==
  /\ links \in SUBSET (Outs \X Ins)
  /\ status = [c \in Outs \cup Ins |-> "idle"]
  /\ item = [c \in Outs \cup Ins |-> NULL]

Offer(s) ==
  /\ status[s] = "idle"
  /\ status' = [status EXCEPT ![s] = "waiting"]
  /\ \E v \in Values : item' = [item EXCEPT ![s] = v]
  /\ UNCHANGED links

(* What the receiver's variable held before is of no interest. *)
Ask(r) ==
  /\ status[r] = "idle"
  /\ status' = [status EXCEPT ![r] = "waiting"]
  /\ item' = [item EXCEPT ![r] = NULL]
  /\ UNCHANGED links

Transfer(s, r) ==
  /\ <<s, r>> \in links
  /\ status[s] = "waiting" /\ status[r] = "waiting"
  /\ status' = [status EXCEPT ![s] = "matched", ![r] = "matched"]
  /\ item' = [item EXCEPT ![r] = item[s]]
  /\ UNCHANGED links

Return(c) ==
  /\ status[c] = "matched"
  /\ status' = [status EXCEPT ![c] = "idle"]
  /\ UNCHANGED <<item, links>>

Next ==
  \/ \E s \in Outs : Offer(s)
  \/ \E r \in Ins : Ask(r)
  \/ \E s \in Outs, r \in Ins : Transfer(s, r)
  \/ \E c \in Outs \cup Ins : Return(c)

Spec == Init /\ [][Next]_vars
=============================================================================
