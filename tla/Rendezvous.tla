----------------------------- MODULE Rendezvous -----------------------------
(***************************************************************************)
(* channel_send and channel_receive of channel.c over a fixed set of       *)
(* connections: half-channels (Outs are CHAN_OUT, Ins are CHAN_IN) joined  *)
(* before the components start, each used by the thread of the component   *)
(* that owns it.  The flag nd_received, which channel_send sets and        *)
(* nothing reads, is left out.                                             *)
(*                                                                         *)
(* Both functions announce the caller (ready), then poll the connected     *)
(* half-channels once round, and park on the semaphore blocked if none was *)
(* ready.  One step of the model is one semaphore operation, one mutex     *)
(* acquisition, one read of unprotected state, or one stretch of code that *)
(* runs under the mutexes it needs; releasing a mutex is part of the step  *)
(* before it.  A pointer to the sender's variable is the sender itself:    *)
(* what a dereference yields is what data holds at that moment.            *)
(***************************************************************************)
EXTENDS IteratedList, FiniteSets

CONSTANTS
  Outs,        (* half-channels that send                                  *)
  Ins,         (* half-channels that receive                               *)
  Values,      (* what a component can send                                *)
  Topologies   (* the connection lists primordial_main may have built      *)

Channels == Outs \cup Ins

(* One end of every connection sends and the other receives, and both ends *)
(* list it: channel_bind adds to both lists.                               *)
Paired(conns) ==
  \A c \in Channels :
    /\ conns[c].elems \in Seq(IF c \in Outs THEN Ins ELSE Outs)
    /\ WellFormed(conns[c])
    /\ \A d \in Elements(conns[c]) : c \in Elements(conns[d])

ASSUME ChannelsAssumption ==
  /\ Outs \cap Ins = {}
  /\ NULL \notin Channels \cup Values

ASSUME TopologiesAssumption ==
  \A conns \in Topologies :
    /\ conns \in [Channels -> [elems : Seq(Channels), next : Nat]]
    /\ Paired(conns)

VARIABLES
  (* struct Channel, per half-channel *)
  ready,             (* the half-channel is offering or asking            *)
  buffer,            (* the sender whose variable the pointer points to   *)
  connections,       (* list of connected half-channels, with its cursor  *)
  conns_sem,         (* semaphore "connections available"                 *)
  mutex,             (* thread holding the half-channel's mutex, or NULL  *)
  blocked,           (* semaphore the caller parks on                     *)
  actually_received, (* semaphore acknowledging the copy                  *)
  (* the call in progress on each half-channel *)
  pc, match, iter, length, val,
  active,            (* this call made the transfer itself                *)
  data               (* the caller's variable that data points to         *)

chanVars == <<ready, buffer, connections, conns_sem, mutex,
              blocked, actually_received>>
callVars == <<pc, match, iter, length, val, active, data>>
vars == <<chanVars, callVars>>

Connected(s, r) == r \in Elements(connections[s])

(* The two ends of the connection being tried; both functions lock the     *)
(* CHAN_IN end first.                                                      *)
InEnd(c)  == IF c \in Ins THEN c ELSE match[c]
OutEnd(c) == IF c \in Ins THEN match[c] ELSE c

(* Mutant: only the mutexes of receiving ends exclude. *)
UnlockedIn(h) == h \in Ins => mutex[h] = NULL

(* A mutex can be taken. *)
Unlocked(h) == mutex[h] = NULL

(* Mutant: the last connection is not tried. *)
MoreButOne(c) == iter[c] + 1 < length[c]

(* The condition of the for loop. *)
MoreToTry(c) == iter[c] < length[c]

(* Mutant: the caller does not look whether it is itself still ready. *)
MatchReady(c) == ready[match[c]]

(* match->ready && id->ready *)
BothReady(c) == ready[match[c]] /\ ready[c]

(* Mutant: the caller stays on offer. *)
MatchWithdrawn(c) == [ready EXCEPT ![match[c]] = FALSE]

(* A transfer takes both ends off offer. *)
BothWithdrawn(c) == [ready EXCEPT ![match[c]] = FALSE, ![c] = FALSE]

(* Mutant: the other end is left asleep. *)
NoWakeUp(h) == blocked

(* sem_post(blocked) *)
WakeUp(h) == [blocked EXCEPT ![h] = @ + 1]

(* Mutant: the test of the value is inverted. *)
PostedIfSet(c) == [conns_sem EXCEPT ![c] = IF val[c] = 0 THEN @ ELSE @ + 1]

(* sem_post(conns_sem) if the value read was 0 *)
PostedIfZero(c) == [conns_sem EXCEPT ![c] = IF val[c] = 0 THEN @ + 1 ELSE @]

(* sem_wait(match->actually_received) can return. *)
AckPosted(s) == actually_received[match[s]] > 0

(* Mutant: the copy is not acknowledged. *)
NoAck(r) == actually_received

(* sem_post(actually_received) *)
PostAck(r) == [actually_received EXCEPT ![r] = @ + 1]

Goto(c, label) == pc' = [pc EXCEPT ![c] = label]

(* The call returns; its locals are dead and forgotten. *)
Return(c) ==
  /\ Goto(c, "idle")
  /\ match' = [match EXCEPT ![c] = NULL]
  /\ iter' = [iter EXCEPT ![c] = 0]
  /\ length' = [length EXCEPT ![c] = 0]
  /\ val' = [val EXCEPT ![c] = 0]
  /\ active' = [active EXCEPT ![c] = FALSE]

-----------------------------------------------------------------------------
(* The components call send and receive. *)

CallSend(s) ==
  /\ pc[s] = "idle"
  /\ \E v \in Values : data' = [data EXCEPT ![s] = v]
  /\ Goto(s, "wait_conns")
  /\ UNCHANGED <<chanVars, match, iter, length, val, active>>

CallReceive(r) ==
  /\ pc[r] = "idle"
  /\ data' = [data EXCEPT ![r] = NULL]
  /\ Goto(r, "wait_conns")
  /\ UNCHANGED <<chanVars, match, iter, length, val, active>>

-----------------------------------------------------------------------------
(* Steps that channel_send and channel_receive share. *)

(* sem_wait(conns_sem): wait until there is a connection. *)
AwaitConnections(c) ==
  /\ pc[c] = "wait_conns"
  /\ conns_sem[c] > 0
  /\ conns_sem' = [conns_sem EXCEPT ![c] = @ - 1]
  /\ Goto(c, "publish")
  /\ UNCHANGED <<ready, buffer, connections, mutex, blocked,
                 actually_received, match, iter, length, val, active, data>>

(* length = getListLength(id->connections) and i = 0, with no mutex held. *)
TakeLength(c) ==
  /\ pc[c] = "get_length"
  /\ length' = [length EXCEPT ![c] = getListLength(connections[c])]
  /\ iter' = [iter EXCEPT ![c] = 0]
  /\ Goto(c, "next")
  /\ UNCHANGED <<chanVars, match, val, active, data>>

NextMatch(c) ==
  /\ pc[c] = "next"
  /\ MoreToTry(c)
  /\ match' = [match EXCEPT ![c] = getNextElement(connections[c])]
  /\ connections' = [connections EXCEPT ![c] = AfterGetNext(@)]
  /\ Goto(c, "lock_in")
  /\ UNCHANGED <<ready, buffer, conns_sem, mutex, blocked,
                 actually_received, iter, length, val, active, data>>

EndOfLoop(c) ==
  /\ pc[c] = "next"
  /\ ~MoreToTry(c)
  /\ Goto(c, "get_value")
  /\ UNCHANGED <<chanVars, match, iter, length, val, active, data>>

(* A NULL match, from a list emptied meanwhile, is a crash: no step. *)
LockIn(c) ==
  /\ pc[c] = "lock_in"
  /\ match[c] # NULL
  /\ Unlocked(InEnd(c))
  /\ mutex' = [mutex EXCEPT ![InEnd(c)] = c]
  /\ Goto(c, "lock_out")
  /\ UNCHANGED <<ready, buffer, connections, conns_sem, blocked,
                 actually_received, match, iter, length, val, active, data>>

LockOut(c) ==
  /\ pc[c] = "lock_out"
  /\ Unlocked(OutEnd(c))
  /\ mutex' = [mutex EXCEPT ![OutEnd(c)] = c]
  /\ Goto(c, "test")
  /\ UNCHANGED <<ready, buffer, connections, conns_sem, blocked,
                 actually_received, match, iter, length, val, active, data>>

(* if(match->ready && id->ready), under both mutexes *)
FindReady(c) ==
  /\ pc[c] = "test"
  /\ BothReady(c)
  /\ Goto(c, "transfer")
  /\ UNCHANGED <<chanVars, match, iter, length, val, active, data>>

FindNotReady(c) ==
  /\ pc[c] = "test"
  /\ ~BothReady(c)
  /\ mutex' = [mutex EXCEPT ![c] = NULL, ![match[c]] = NULL]
  /\ iter' = [iter EXCEPT ![c] = @ + 1]
  /\ Goto(c, "next")
  /\ UNCHANGED <<ready, buffer, connections, conns_sem, blocked,
                 actually_received, match, length, val, active, data>>

(* sem_getvalue(conns_sem), then sem_post if the value read was 0 *)
ReadConnsSem(c) ==
  /\ pc[c] = "get_value"
  /\ val' = [val EXCEPT ![c] = conns_sem[c]]
  /\ Goto(c, "post_conns")
  /\ UNCHANGED <<chanVars, match, iter, length, active, data>>

RepostConnsSem(c) ==
  /\ pc[c] = "post_conns"
  /\ conns_sem' = PostedIfZero(c)
  /\ \/ /\ active[c]
        /\ Return(c)
     \/ /\ ~active[c]
        /\ Goto(c, "wait_blocked")
        /\ UNCHANGED <<match, iter, length, val, active>>
  /\ UNCHANGED <<ready, buffer, connections, mutex, blocked,
                 actually_received, data>>

-----------------------------------------------------------------------------
(* channel_send *)

(* The pointer to the data and the flag are written under the mutex. *)
PublishSend(s) ==
  /\ pc[s] = "publish"
  /\ Unlocked(s)
  /\ buffer' = [buffer EXCEPT ![s] = s]
  /\ ready' = [ready EXCEPT ![s] = TRUE]
  /\ Goto(s, "get_length")
  /\ UNCHANGED <<connections, conns_sem, mutex, blocked,
                 actually_received, match, iter, length, val, active, data>>

(* The receiver was ready: hand it the pointer, wake it, and go on to wait *)
(* until it has copied the data.                                           *)
TransferSend(s) ==
  LET r == match[s] IN
  /\ pc[s] = "transfer"
  /\ buffer' = [buffer EXCEPT ![r] = buffer[s]]
  /\ ready' = BothWithdrawn(s)
  /\ blocked' = WakeUp(r)
  /\ mutex' = [mutex EXCEPT ![s] = NULL, ![r] = NULL]
  /\ active' = [active EXCEPT ![s] = TRUE]
  /\ Goto(s, "wait_ack")
  /\ UNCHANGED <<connections, conns_sem, actually_received, match, iter,
                 length, val, data>>

(* sem_wait(match->actually_received) *)
AwaitAck(s) ==
  /\ pc[s] = "wait_ack"
  /\ AckPosted(s)
  /\ actually_received' = [actually_received EXCEPT ![match[s]] = @ - 1]
  /\ Goto(s, "get_value")
  /\ UNCHANGED <<ready, buffer, connections, conns_sem, mutex,
                 blocked, match, iter, length, val, active, data>>

(* A parked sender is woken by the receiver that took its data. *)
AwaitTaken(s) ==
  /\ pc[s] = "wait_blocked"
  /\ blocked[s] > 0
  /\ blocked' = [blocked EXCEPT ![s] = @ - 1]
  /\ Return(s)
  /\ UNCHANGED <<ready, buffer, connections, conns_sem, mutex,
                 actually_received, data>>

Send(s) ==
  \/ AwaitConnections(s) \/ PublishSend(s) \/ TakeLength(s) \/ NextMatch(s)
  \/ EndOfLoop(s) \/ LockIn(s) \/ LockOut(s) \/ FindReady(s)
  \/ FindNotReady(s) \/ TransferSend(s) \/ AwaitAck(s) \/ ReadConnsSem(s)
  \/ RepostConnsSem(s) \/ AwaitTaken(s)

-----------------------------------------------------------------------------
(* channel_receive *)

PublishReceive(r) ==
  /\ pc[r] = "publish"
  /\ Unlocked(r)
  /\ ready' = [ready EXCEPT ![r] = TRUE]
  /\ Goto(r, "get_length")
  /\ UNCHANGED <<buffer, connections, conns_sem, mutex, blocked,
                 actually_received, match, iter, length, val, active, data>>

(* The sender was ready: copy its data now and wake it. *)
TransferReceive(r) ==
  LET s == match[r] IN
  /\ pc[r] = "transfer"
  /\ buffer' = [buffer EXCEPT ![r] = buffer[s]]
  /\ data' = [data EXCEPT ![r] = data[buffer[s]]]
  /\ ready' = BothWithdrawn(r)
  /\ blocked' = WakeUp(s)
  /\ mutex' = [mutex EXCEPT ![s] = NULL, ![r] = NULL]
  /\ active' = [active EXCEPT ![r] = TRUE]
  /\ Goto(r, "get_value")
  /\ UNCHANGED <<connections, conns_sem, actually_received,
                 match, iter, length, val>>

(* A parked receiver is woken by the sender that left it a pointer. *)
AwaitData(r) ==
  /\ pc[r] = "wait_blocked"
  /\ blocked[r] > 0
  /\ blocked' = [blocked EXCEPT ![r] = @ - 1]
  /\ Goto(r, "copy")
  /\ UNCHANGED <<ready, buffer, connections, conns_sem, mutex,
                 actually_received, match, iter, length, val, active, data>>

(* memcpy through the pointer, then sem_post(actually_received) *)
CopyData(r) ==
  /\ pc[r] = "copy"
  /\ data' = [data EXCEPT ![r] = data[buffer[r]]]
  /\ actually_received' = PostAck(r)
  /\ Return(r)
  /\ UNCHANGED <<ready, buffer, connections, conns_sem, mutex,
                 blocked>>

Receive(r) ==
  \/ AwaitConnections(r) \/ PublishReceive(r) \/ TakeLength(r)
  \/ NextMatch(r) \/ EndOfLoop(r) \/ LockIn(r) \/ LockOut(r)
  \/ FindReady(r) \/ FindNotReady(r) \/ TransferReceive(r)
  \/ ReadConnsSem(r) \/ RepostConnsSem(r) \/ AwaitData(r) \/ CopyData(r)

-----------------------------------------------------------------------------
(* channel_create: DAL_alloc zeroes the struct, every semaphore is 0.  Then *)
(* channel_bind posts conns_sem once when it adds the first connection.     *)
Init ==
  /\ connections \in Topologies
  /\ conns_sem = [c \in Channels |-> IF isEmpty(connections[c]) THEN 0 ELSE 1]
  /\ ready = [c \in Channels |-> FALSE]
  /\ buffer = [c \in Channels |-> NULL]
  /\ mutex = [c \in Channels |-> NULL]
  /\ blocked = [c \in Channels |-> 0]
  /\ actually_received = [c \in Channels |-> 0]
  /\ pc = [c \in Channels |-> "idle"]
  /\ match = [c \in Channels |-> NULL]
  /\ iter = [c \in Channels |-> 0]
  /\ length = [c \in Channels |-> 0]
  /\ val = [c \in Channels |-> 0]
  /\ active = [c \in Channels |-> FALSE]
  /\ data = [c \in Channels |-> NULL]

Next ==
  \/ \E s \in Outs : CallSend(s) \/ Send(s)
  \/ \E r \in Ins : CallReceive(r) \/ Receive(r)

Spec == Init /\ [][Next]_vars

(* Every thread inside a call keeps running.  Nothing more is assumed: the  *)
(* mutexes and semaphores promise no order among the threads that want      *)
(* them, and a component need not call again.                               *)
Fairness ==
  /\ \A s \in Outs : WF_vars(Send(s))
  /\ \A r \in Ins : WF_vars(Receive(r))

FairSpec == Spec /\ Fairness

-----------------------------------------------------------------------------
(* Properties *)

PCs == {"idle", "wait_conns", "publish", "get_length", "next", "lock_in",
        "lock_out", "test", "transfer", "wait_ack", "get_value",
        "post_conns", "wait_blocked", "copy"}

(* Trying one connection; polling the connections. *)
Trying  == {"lock_in", "lock_out", "test", "transfer"}
Polling == {"next"} \cup Trying

(* A call that is on offer, or was until another one took it, is here. *)
Announced == {"get_length", "get_value", "post_conns", "wait_blocked"}
               \cup Polling

(* The state is well typed: the semaphores that act as mutexes and wake-ups *)
(* are binary, the lists keep their pairing and their cursors stay on them. *)
TypeOK ==
  /\ ready \in [Channels -> BOOLEAN]
  /\ buffer \in [Channels -> Outs \cup {NULL}]
  /\ connections \in [Channels -> [elems : Seq(Channels), next : Nat]]
  /\ Paired(connections)
  /\ conns_sem \in [Channels -> {0, 1}]
  /\ mutex \in [Channels -> Channels \cup {NULL}]
  /\ blocked \in [Channels -> {0, 1}]
  /\ actually_received \in [Channels -> Nat]
  /\ pc \in [Channels -> PCs]
  /\ match \in [Channels -> Channels \cup {NULL}]
  /\ iter \in [Channels -> Nat]
  /\ length \in [Channels -> Nat]
  /\ val \in [Channels -> {0, 1}]
  /\ active \in [Channels -> BOOLEAN]
  /\ data \in [Channels -> Values \cup {NULL}]

Parked(c) == pc[c] = "wait_blocked" /\ ready[c]

(* No lost rendezvous: a sender and a receiver that are connected are never *)
(* both parked with nobody left to wake them.  Each announces itself before *)
(* it polls, so whichever polls the other second must find it.              *)
NoLostRendezvous ==
  \A s \in Outs, r \in Ins :
    Connected(s, r) => ~(Parked(s) /\ Parked(r))

(* Somebody else's call completed this one, which has not noticed yet. *)
Taken(c) ==
  /\ pc[c] \in Announced
  /\ ~ready[c]
  /\ ~active[c]

(* Every transfer is announced exactly once: the semaphore a half-channel   *)
(* parks on is 1 from the moment another call takes it out of its own call  *)
(* until it notices, and 0 at every other time, so no later call on the     *)
(* half-channel can return on a wake-up that was meant for this one.        *)
WakeupMatchesTransfer ==
  \A c \in Channels : blocked[c] = IF Taken(c) THEN 1 ELSE 0

(* What was tested under the two mutexes still holds when it is acted upon: *)
(* at the transfer both ends are ready, and nobody else is at a transfer    *)
(* with either of them.                                                     *)
TransferExclusive ==
  \A c \in Channels :
    pc[c] = "transfer" =>
      /\ ready[c] /\ ready[match[c]]
      /\ \A d \in Channels \ {c} :
           pc[d] = "transfer" => {d, match[d]} \cap {c, match[c]} = {}

(* The copy a passive receiver has still to make. *)
CopyPending(r) == pc[r] = "copy" \/ Taken(r)

AckWaiters(r) == {s \in Outs : pc[s] = "wait_ack" /\ match[s] = r}

(* Acknowledgements are neither lost nor invented: those posted and not yet *)
(* consumed, and the one a receiver still owes, are as many as the senders  *)
(* waiting for them, whichever of them takes which.                         *)
AckConservation ==
  \A r \in Ins :
    Cardinality(AckWaiters(r))
      = actually_received[r] + (IF CopyPending(r) THEN 1 ELSE 0)

(* channel.h: actually_received is there to make sure the data cannot be    *)
(* changed until the receive has completed.  A receiver that has still to   *)
(* copy finds the sender whose variable it was pointed to waiting for it.   *)
BufferHeld ==
  \A r \in Ins : CopyPending(r) => buffer[r] \in AckWaiters(r)

-----------------------------------------------------------------------------
(* Implementation of the abstract synchronous channel. *)

Waiting(c) == pc[c] \in {"wait_conns", "publish"} \/ ready[c]

StatusBar ==
  [c \in Channels |-> IF pc[c] = "idle" THEN "idle"
                      ELSE IF Waiting(c) THEN "waiting" ELSE "matched"]

(* A receiver has the item once its sender has handed it the pointer. *)
ItemBar ==
  [c \in Channels |-> IF c \in Ins /\ CopyPending(c) THEN data[buffer[c]]
                                                     ELSE data[c]]

LinksBar == {l \in Outs \X Ins : Connected(l[1], l[2])}

Sync == INSTANCE SyncChannel
          WITH status <- StatusBar, item <- ItemBar, links <- LinksBar

(* Sends and receives are synchronous: each transfer takes one waiting      *)
(* sender and one waiting receiver that are connected, atomically, and the  *)
(* receiver gets the value its sender offered.                              *)
SynchronousTransfer == Sync!Spec

(* A connected sender and receiver that both wait do not wait for ever. *)
RendezvousHappens ==
  \A s \in Outs, r \in Ins :
    (Waiting(s) /\ Waiting(r) /\ Connected(s, r)) ~> ~(Waiting(s) /\ Waiting(r))

(* A call whose transfer was made returns: the sender gets its              *)
(* acknowledgement, the parked caller its wake-up.                          *)
MatchedReturns ==
  \A c \in Channels : (pc[c] # "idle" /\ ~Waiting(c)) ~> pc[c] = "idle"
=============================================================================
