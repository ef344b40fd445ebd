-------------------------- MODULE RendezvousProofs ---------------------------
(***************************************************************************)
(* Proofs about Rendezvous for any half-channels, any connections and any  *)
(* values: the invariant Inv is inductive and implies the properties.      *)
(***************************************************************************)
EXTENDS Rendezvous, FiniteSetTheorems, TLAPS

(* Where the call on c stands. *)
ControlAt(c) ==
  /\ pc[c] \in Polling => length[c] = Len(connections[c].elems)
  /\ pc[c] \in Trying \cup {"wait_ack"} =>
       match[c] \in Elements(connections[c])
  /\ ready[c] => pc[c] \in Announced /\ ~active[c]
  /\ pc[c] = "wait_ack" => active[c] /\ c \in Outs
  /\ pc[c] = "copy" => c \in Ins
  /\ active[c] => pc[c] \in {"wait_ack", "get_value", "post_conns"}
  /\ pc[c] = "post_conns" => val[c] = 0
  /\ pc[c] \in PCs \ {"idle", "wait_conns", "wait_blocked", "copy"} =>
       conns_sem[c] = 0

ControlInv == \A c \in Channels : ControlAt(c)

(* The mutexes a call has taken are its own, and under both of them what it *)
(* found stays true.                                                        *)
LockAt(c) ==
  /\ pc[c] = "lock_out" => mutex[InEnd(c)] = c
  /\ pc[c] \in {"test", "transfer"} => mutex[c] = c /\ mutex[match[c]] = c
  /\ pc[c] = "transfer" => ready[c] /\ ready[match[c]]

LockInv == \A c \in Channels : LockAt(c)

(* A sender on offer points to its own variable; a receiver that has still  *)
(* to copy has been given a pointer.                                        *)
BufferInv ==
  /\ \A s \in Outs : ready[s] => buffer[s] = s
  /\ \A r \in Ins : CopyPending(r) => buffer[r] \in Outs

(* The connections a call has still to try: in the loop, the one in hand    *)
(* and those at the positions the cursor has not passed yet.                *)
Fetched(c) == IF pc[c] = "next" THEN iter[c] ELSE iter[c] + 1

Passed(c, p) ==
  LET l == connections[c] IN
  \/ p < l.next /\ p + Fetched(c) >= l.next
  \/ p + Fetched(c) >= l.next + Len(l.elems)

Pending(c) ==
  {d \in Elements(connections[c]) :
     \/ pc[c] = "get_length"
     \/ pc[c] \in Trying /\ d = match[c]
     \/ /\ pc[c] \in Polling
        /\ \E p \in 1..Len(connections[c].elems) :
             connections[c].elems[p] = d /\ ~Passed(c, p)}

(* When both ends of a connection are ready, one of them has still to try   *)
(* the other.                                                               *)
PendingInv ==
  \A s \in Outs, r \in Ins :
    Connected(s, r) /\ ready[s] /\ ready[r] =>
      r \in Pending(s) \/ s \in Pending(r)

Inv ==
  /\ TypeOK
  /\ ControlInv
  /\ LockInv
  /\ BufferInv
  /\ WakeupMatchesTransfer
  /\ PendingInv

-----------------------------------------------------------------------------
(* The steps of one thread: those send and receive share, and their own. *)

SharedStep(c) ==
  \/ AwaitConnections(c) \/ TakeLength(c) \/ NextMatch(c) \/ EndOfLoop(c)
  \/ LockIn(c) \/ LockOut(c) \/ FindReady(c) \/ FindNotReady(c)
  \/ ReadConnsSem(c) \/ RepostConnsSem(c)

SendStep(s) ==
  CallSend(s) \/ PublishSend(s) \/ TransferSend(s) \/ AwaitAck(s) \/ AwaitTaken(s)

ReceiveStep(r) ==
  \/ CallReceive(r) \/ PublishReceive(r) \/ TransferReceive(r) \/ AwaitData(r)
  \/ CopyData(r)

(* Next, with the steps grouped that way.                                   *)
LEMMA NextSteps ==
  ASSUME Next
  PROVE  \/ \E c \in Channels : SharedStep(c)
         \/ \E s \in Outs : SendStep(s)
         \/ \E r \in Ins : ReceiveStep(r)
BY Zenon DEF Next, Send, Receive, SharedStep, SendStep, ReceiveStep, Channels

-----------------------------------------------------------------------------
(* Connections *)

(* Moving the cursor keeps the list well formed and its elements.           *)
LEMMA CursorMoves ==
  ASSUME NEW S, NEW l \in [elems : Seq(S), next : Nat], WellFormed(l)
  PROVE  /\ AfterGetNext(l) \in [elems : Seq(S), next : Nat]
         /\ AfterGetNext(l).elems = l.elems
         /\ WellFormed(AfterGetNext(l))
         /\ ~isEmpty(l) => /\ l.next \in 1..Len(l.elems)
                           /\ AfterGetNext(l).next =
                                IF l.next = Len(l.elems) THEN 1 ELSE l.next + 1
                           /\ getNextElement(l) = l.elems[l.next]
                           /\ getNextElement(l) \in Elements(l)
<1>1. CASE isEmpty(l)
  BY <1>1 DEF AfterGetNext
<1>2. CASE ~isEmpty(l)
  <2>1. l.next \in 1..Len(l.elems)  BY <1>2 DEF WellFormed
  <2>2. AfterGetNext(l) = [elems |-> l.elems, next |-> IF l.next = Len(l.elems) THEN 1 ELSE l.next + 1]
    BY <1>2 DEF AfterGetNext
  <2>3. Len(l.elems) \in Nat  OBVIOUS
  <2>4. (IF l.next = Len(l.elems) THEN 1 ELSE l.next + 1) \in 1..Len(l.elems)
    BY <2>1, <2>3
  <2>5. getNextElement(l) = l.elems[l.next]  BY <1>2 DEF getNextElement
  <2>. QED  BY <1>2, <2>1, <2>2, <2>3, <2>4, <2>5 DEF WellFormed, isEmpty, Elements
<1>. QED  BY <1>1, <1>2

(* The two ends of a connection point opposite ways and list each other.    *)
LEMMA ConnectionEnds ==
  ASSUME TypeOK, NEW c \in Channels, NEW d \in Elements(connections[c])
  PROVE  /\ d \in Channels
         /\ c \in Outs => d \in Ins
         /\ c \in Ins => d \in Outs
         /\ c # d
         /\ c \in Elements(connections[d])
<1>1. d \in (IF c \in Outs THEN Ins ELSE Outs)
  <2>. DEFINE ends == IF c \in Outs THEN Ins ELSE Outs
              q == connections[c].elems
  <2>1. q \in Seq(ends)  BY DEF TypeOK, Paired
  <2>2. PICK k \in 1..Len(q) : d = q[k]  BY DEF Elements
  <2>. HIDE DEF ends, q
  <2>3. q[k] \in ends  BY <2>1
  <2>. QED  BY <2>2, <2>3 DEF ends
<1>2. c \in Elements(connections[d])
  BY DEF TypeOK, Paired
<1>. QED  BY <1>1, <1>2, ChannelsAssumption DEF Channels

(* The connections never change, only the cursors move.                     *)
LEMMA ListsStay ==
  ASSUME TypeOK, [Next]_vars
  PROVE  /\ connections' \in [Channels -> [elems : Seq(Channels), next : Nat]]
         /\ Paired(connections')
         /\ \A c \in Channels :
              /\ connections'[c].elems = connections[c].elems
              /\ Elements(connections'[c]) = Elements(connections[c])
<1>1. CASE connections' = connections
  BY <1>1 DEF TypeOK
<1>2. ASSUME NEW c \in Channels, NextMatch(c)
      PROVE  /\ connections' \in [Channels -> [elems : Seq(Channels), next : Nat]]
             /\ Paired(connections')
             /\ \A d \in Channels :
                  /\ connections'[d].elems = connections[d].elems
                  /\ Elements(connections'[d]) = Elements(connections[d])
  <2>. DEFINE l == connections[c]
  <2>1. l \in [elems : Seq(Channels), next : Nat] /\ WellFormed(l)
    BY DEF TypeOK, Paired
  <2>2. /\ AfterGetNext(l) \in [elems : Seq(Channels), next : Nat]
        /\ AfterGetNext(l).elems = l.elems
        /\ WellFormed(AfterGetNext(l))
    BY <2>1, CursorMoves
  <2>3. connections' = [connections EXCEPT ![c] = AfterGetNext(l)]
    BY <1>2 DEF NextMatch
  <2>. HIDE DEF l
  <2>4. connections' \in [Channels -> [elems : Seq(Channels), next : Nat]]
    BY <2>2, <2>3 DEF TypeOK
  <2>5. \A d \in Channels : connections'[d].elems = connections[d].elems
    BY <2>2, <2>3 DEF TypeOK, l
  <2>6. \A d \in Channels : Elements(connections'[d]) = Elements(connections[d])
    BY <2>5 DEF Elements
  <2>7. \A d \in Channels : WellFormed(connections'[d])
    BY <2>2, <2>3 DEF TypeOK, Paired
  <2>8. Paired(connections')
    <3>. SUFFICES ASSUME NEW d \in Channels
                  PROVE  /\ connections'[d].elems \in Seq(IF d \in Outs THEN Ins ELSE Outs)
                         /\ WellFormed(connections'[d])
                         /\ \A e \in Elements(connections'[d]) :
                              d \in Elements(connections'[e])
      BY DEF Paired
    <3>1. connections[d].elems \in Seq(IF d \in Outs THEN Ins ELSE Outs)
      BY DEF TypeOK, Paired
    <3>2. \A e \in Elements(connections[d]) :
             e \in Channels /\ d \in Elements(connections[e])
      BY ConnectionEnds
    <3>. QED  BY <2>5, <2>6, <2>7, <3>1, <3>2
  <2>. QED  BY <2>4, <2>5, <2>6, <2>8
<1>3. ASSUME NEW c \in Channels, SharedStep(c), ~NextMatch(c)
      PROVE  connections' = connections
  BY <1>3 DEF SharedStep, chanVars, AwaitConnections, TakeLength, EndOfLoop,
              LockIn, LockOut, FindReady, FindNotReady, ReadConnsSem,
              RepostConnsSem
<1>4. ASSUME NEW s \in Outs, SendStep(s)
      PROVE  connections' = connections
  BY <1>4 DEF SendStep, chanVars, CallSend, PublishSend, TransferSend,
              AwaitAck, AwaitTaken
<1>5. ASSUME NEW r \in Ins, ReceiveStep(r)
      PROVE  connections' = connections
  BY <1>5 DEF ReceiveStep, chanVars, CallReceive, PublishReceive,
              TransferReceive, AwaitData, CopyData
<1>6. CASE UNCHANGED vars
  BY <1>1, <1>6 DEF vars, chanVars
<1>. QED  BY <1>1, <1>2, <1>3, <1>4, <1>5, <1>6, NextSteps

-----------------------------------------------------------------------------
(* Types *)

(* What a call has in hand is the other end of one of its connections.      *)
LEMMA MatchEnds ==
  ASSUME TypeOK, ControlInv, NEW c \in Channels,
         pc[c] \in Trying \cup {"wait_ack"}
  PROVE  /\ match[c] \in Channels
         /\ c \in Outs => match[c] \in Ins
         /\ c \in Ins => match[c] \in Outs
         /\ c # match[c]
         /\ InEnd(c) \in Channels /\ OutEnd(c) \in Channels
         /\ {InEnd(c), OutEnd(c)} = {c, match[c]}
<1>1. match[c] \in Elements(connections[c])
  BY DEF ControlInv, ControlAt
<1>2. /\ match[c] \in Channels
      /\ c \in Outs => match[c] \in Ins
      /\ c \in Ins => match[c] \in Outs
      /\ c # match[c]
  BY <1>1, ConnectionEnds
<1>. QED  BY <1>2 DEF InEnd, OutEnd

(* At a transfer both ends have been found ready, so nobody has woken them. *)
LEMMA TransferEnds ==
  ASSUME Inv, NEW c \in Channels, pc[c] = "transfer"
  PROVE  /\ match[c] \in Channels
         /\ c \in Outs => match[c] \in Ins
         /\ c \in Ins => match[c] \in Outs
         /\ c # match[c]
         /\ ready[c] /\ ready[match[c]]
         /\ blocked[match[c]] = 0
         /\ mutex[c] = c /\ mutex[match[c]] = c
         /\ c \in Outs => buffer[c] = c
         /\ c \in Ins => buffer[match[c]] = match[c]
<1>1. /\ match[c] \in Channels
      /\ c \in Outs => match[c] \in Ins
      /\ c \in Ins => match[c] \in Outs
      /\ c # match[c]
  BY MatchEnds DEF Inv, Trying
<1>2. /\ ready[c] /\ ready[match[c]]
      /\ mutex[c] = c /\ mutex[match[c]] = c
  BY DEF Inv, LockInv, LockAt
<1>3. blocked[match[c]] = 0
  BY <1>1, <1>2 DEF Inv, WakeupMatchesTransfer, Taken
<1>. QED  BY <1>1, <1>2, <1>3 DEF Inv, BufferInv

(* A step keeps the state well typed.                                      *)
LEMMA TypeStep ==
  ASSUME Inv, [Next]_vars
  PROVE  TypeOK'
<1>. USE DEF PCs, Polling, Trying
<1>1. CASE UNCHANGED vars
  BY <1>1 DEF Inv, TypeOK, vars, chanVars, callVars, Paired
<1>2. /\ connections' \in [Channels -> [elems : Seq(Channels), next : Nat]]
      /\ Paired(connections')
  BY ListsStay DEF Inv
<1>3. ASSUME NEW c \in Channels, SharedStep(c)
      PROVE  TypeOK'
  <2>1. CASE AwaitConnections(c)
    BY <1>2, <2>1 DEF Inv, TypeOK, AwaitConnections, Goto
  <2>2. CASE TakeLength(c)
    <3>1. getListLength(connections[c]) \in Nat
      BY DEF Inv, TypeOK, getListLength
    <3>. QED  BY <1>2, <2>2, <3>1 DEF Inv, TypeOK, TakeLength, Goto, chanVars
  <2>3. CASE NextMatch(c)
    <3>1. getNextElement(connections[c]) \in Channels \cup {NULL}
      <4>. DEFINE l == connections[c]
      <4>1. l \in [elems : Seq(Channels), next : Nat] /\ WellFormed(l)
        BY DEF Inv, TypeOK, Paired
      <4>2. CASE isEmpty(l)
        BY <4>2 DEF getNextElement
      <4>3. CASE ~isEmpty(l)
        <5>1. l.next \in 1..Len(l.elems) /\ getNextElement(l) = l.elems[l.next]
          BY <4>1, <4>3, CursorMoves
        <5>. QED  BY <4>1, <5>1
      <4>. QED  BY <4>2, <4>3
    <3>. QED  BY <1>2, <2>3, <3>1 DEF Inv, TypeOK, NextMatch, Goto
  <2>4. CASE EndOfLoop(c)
    BY <1>2, <2>4 DEF Inv, TypeOK, EndOfLoop, Goto, chanVars
  <2>5. CASE LockIn(c)
    BY <1>2, <2>5 DEF Inv, TypeOK, LockIn, Goto
  <2>6. CASE LockOut(c)
    BY <1>2, <2>6 DEF Inv, TypeOK, LockOut, Goto
  <2>7. CASE FindReady(c)
    BY <1>2, <2>7 DEF Inv, TypeOK, FindReady, Goto, chanVars
  <2>8. CASE FindNotReady(c)
    <3>1. mutex' \in [Channels -> Channels \cup {NULL}]
      BY <2>8 DEF Inv, TypeOK, FindNotReady
    <3>2. iter' \in [Channels -> Nat]
      BY <2>8 DEF Inv, TypeOK, FindNotReady
    <3>. QED  BY <1>2, <2>8, <3>1, <3>2 DEF Inv, TypeOK, FindNotReady, Goto
  <2>9. CASE ReadConnsSem(c)
    BY <1>2, <2>9 DEF Inv, TypeOK, ReadConnsSem, Goto, chanVars
  <2>10. CASE RepostConnsSem(c)
    <3>1. conns_sem[c] = 0
      BY <2>10 DEF Inv, ControlInv, ControlAt, RepostConnsSem
    <3>2. conns_sem' \in [Channels -> {0, 1}]
      BY <2>10, <3>1 DEF Inv, TypeOK, RepostConnsSem, PostedIfZero
    <3>3. CASE Return(c)
      BY <1>2, <2>10, <3>2, <3>3 DEF Inv, TypeOK, RepostConnsSem, Return, Goto
    <3>4. CASE Goto(c, "wait_blocked") /\ UNCHANGED <<match, iter, length, val, active>>
      BY <1>2, <2>10, <3>2, <3>4 DEF Inv, TypeOK, RepostConnsSem, Goto
    <3>. QED  BY <2>10, <3>3, <3>4 DEF RepostConnsSem
  <2>. QED  BY <1>3, <2>1, <2>2, <2>3, <2>4, <2>5, <2>6, <2>7, <2>8, <2>9,
               <2>10 DEF SharedStep
<1>4. ASSUME NEW s \in Outs, SendStep(s)
      PROVE  TypeOK'
  <2>. s \in Channels  BY DEF Channels
  <2>1. CASE CallSend(s)
    BY <1>2, <2>1 DEF Inv, TypeOK, CallSend, Goto, chanVars
  <2>2. CASE PublishSend(s)
    BY <1>2, <2>2 DEF Inv, TypeOK, PublishSend, Goto
  <2>3. CASE TransferSend(s)
    <3>1. /\ match[s] \in Channels
          /\ blocked[match[s]] = 0
          /\ buffer[s] \in Outs
      BY <2>3, TransferEnds DEF TransferSend
    <3>2. /\ buffer' \in [Channels -> Outs \cup {NULL}]
          /\ ready' \in [Channels -> BOOLEAN]
          /\ blocked' \in [Channels -> {0, 1}]
          /\ mutex' \in [Channels -> Channels \cup {NULL}]
      <4>1. buffer' \in [Channels -> Outs \cup {NULL}]
        BY <2>3, <3>1 DEF Inv, TypeOK, TransferSend
      <4>2. ready' \in [Channels -> BOOLEAN]
        BY <2>3, <3>1 DEF Inv, TypeOK, TransferSend, BothWithdrawn
      <4>3. blocked' \in [Channels -> {0, 1}]
        BY <2>3, <3>1 DEF Inv, TypeOK, TransferSend, WakeUp
      <4>4. mutex' \in [Channels -> Channels \cup {NULL}]
        BY <2>3, <3>1 DEF Inv, TypeOK, TransferSend
      <4>. QED  BY <4>1, <4>2, <4>3, <4>4
    <3>. QED  BY <1>2, <2>3, <3>2 DEF Inv, TypeOK, TransferSend, Goto
  <2>4. CASE AwaitAck(s)
    <3>1. match[s] \in Channels
      BY <2>4, MatchEnds DEF Inv, AwaitAck
    <3>2. actually_received' \in [Channels -> Nat]
      BY <2>4, <3>1 DEF Inv, TypeOK, AwaitAck, AckPosted
    <3>. QED  BY <1>2, <2>4, <3>2 DEF Inv, TypeOK, AwaitAck, Goto
  <2>5. CASE AwaitTaken(s)
    BY SMTT(30), <1>2, <2>5 DEF Inv, TypeOK, AwaitTaken, Return, Goto
  <2>. QED  BY <1>4, <2>1, <2>2, <2>3, <2>4, <2>5 DEF SendStep
<1>5. ASSUME NEW r \in Ins, ReceiveStep(r)
      PROVE  TypeOK'
  <2>. r \in Channels  BY DEF Channels
  <2>1. CASE CallReceive(r)
    BY <1>2, <2>1 DEF Inv, TypeOK, CallReceive, Goto, chanVars
  <2>2. CASE PublishReceive(r)
    BY <1>2, <2>2 DEF Inv, TypeOK, PublishReceive, Goto
  <2>3. CASE TransferReceive(r)
    <3>1. /\ match[r] \in Channels
          /\ blocked[match[r]] = 0
          /\ buffer[match[r]] \in Outs
      BY <2>3, TransferEnds DEF TransferReceive
    <3>2. data[buffer[match[r]]] \in Values \cup {NULL}
      BY <3>1 DEF Inv, TypeOK, Channels
    <3>3. /\ buffer' \in [Channels -> Outs \cup {NULL}]
          /\ ready' \in [Channels -> BOOLEAN]
          /\ blocked' \in [Channels -> {0, 1}]
          /\ mutex' \in [Channels -> Channels \cup {NULL}]
      <4>1. buffer' \in [Channels -> Outs \cup {NULL}]
        BY <2>3, <3>1 DEF Inv, TypeOK, TransferReceive
      <4>2. ready' \in [Channels -> BOOLEAN]
        BY <2>3, <3>1 DEF Inv, TypeOK, TransferReceive, BothWithdrawn
      <4>3. blocked' \in [Channels -> {0, 1}]
        BY <2>3, <3>1 DEF Inv, TypeOK, TransferReceive, WakeUp
      <4>4. mutex' \in [Channels -> Channels \cup {NULL}]
        BY <2>3, <3>1 DEF Inv, TypeOK, TransferReceive
      <4>. QED  BY <4>1, <4>2, <4>3, <4>4
    <3>4. data' \in [Channels -> Values \cup {NULL}]
      BY <2>3, <3>2 DEF Inv, TypeOK, TransferReceive
    <3>. QED  BY <1>2, <2>3, <3>3, <3>4 DEF Inv, TypeOK, TransferReceive, Goto
  <2>4. CASE AwaitData(r)
    BY <1>2, <2>4 DEF Inv, TypeOK, AwaitData, Goto
  <2>5. CASE CopyData(r)
    <3>1. buffer[r] \in Outs
      BY <2>5 DEF CopyData, Inv, BufferInv, CopyPending
    <3>2. data[buffer[r]] \in Values \cup {NULL}
      BY <3>1 DEF Inv, TypeOK, Channels
    <3>. QED  BY SMTT(30), <1>2, <2>5, <3>2 DEF Inv, TypeOK, CopyData, Return, Goto, PostAck
  <2>. QED  BY <1>5, <2>1, <2>2, <2>3, <2>4, <2>5 DEF ReceiveStep
<1>. QED  BY <1>1, <1>3, <1>4, <1>5, NextSteps

-----------------------------------------------------------------------------
(* Control *)

(* A step keeps every call where its locals and flags say it is.            *)
LEMMA ControlStep ==
  ASSUME Inv, [Next]_vars
  PROVE  ControlInv'
<1>. USE DEF PCs, Polling, Trying, Announced
<1>. SUFFICES ASSUME NEW d \in Channels
              PROVE  ControlAt(d)'
  BY DEF ControlInv
<1>1. CASE UNCHANGED vars
  BY <1>1 DEF Inv, ControlInv, ControlAt, vars, chanVars, callVars
<1>2. ControlAt(d) /\ \A c \in Channels : ControlAt(c)
  BY DEF Inv, ControlInv
<1>3. /\ connections'[d].elems = connections[d].elems
      /\ Elements(connections'[d]) = Elements(connections[d])
  BY ListsStay DEF Inv
<1>4. ASSUME NEW c \in Channels, SharedStep(c)
      PROVE  ControlAt(d)'
  <2>1. CASE AwaitConnections(c)
    BY <1>2, <1>3, <2>1 DEF Inv, TypeOK, ControlAt, AwaitConnections, Goto
  <2>2. CASE TakeLength(c)
    BY <1>2, <1>3, <2>2 DEF Inv, TypeOK, ControlAt, TakeLength, Goto, getListLength, chanVars
  <2>3. CASE NextMatch(c)
    <3>. DEFINE l == connections[c]
    <3>1. l \in [elems : Seq(Channels), next : Nat] /\ WellFormed(l)
      BY DEF Inv, TypeOK, Paired
    <3>2. ~isEmpty(l)
      <4>1. iter[c] < Len(l.elems) /\ iter[c] \in Nat
        BY <2>3, <1>2 DEF NextMatch, MoreToTry, ControlInv, ControlAt, Inv, TypeOK
      <4>. QED  BY <4>1 DEF isEmpty
    <3>3. getNextElement(l) \in Elements(l)
      BY <3>1, <3>2, CursorMoves
    <3>. QED  BY <1>2, <1>3, <2>3, <3>3 DEF Inv, TypeOK, ControlAt, NextMatch, Goto
  <2>4. CASE EndOfLoop(c)
    BY <1>2, <1>3, <2>4 DEF Inv, TypeOK, ControlAt, EndOfLoop, Goto, chanVars
  <2>5. CASE LockIn(c)
    BY <1>2, <1>3, <2>5 DEF Inv, TypeOK, ControlAt, LockIn, Goto
  <2>6. CASE LockOut(c)
    BY <1>2, <1>3, <2>6 DEF Inv, TypeOK, ControlAt, LockOut, Goto
  <2>7. CASE FindReady(c)
    BY <1>2, <1>3, <2>7 DEF Inv, TypeOK, ControlAt, FindReady, Goto, chanVars
  <2>8. CASE FindNotReady(c)
    BY <1>2, <1>3, <2>8 DEF Inv, TypeOK, ControlAt, FindNotReady, Goto
  <2>9. CASE ReadConnsSem(c)
    BY <1>2, <1>3, <2>9 DEF Inv, TypeOK, ControlAt, ReadConnsSem, Goto, chanVars
  <2>10. CASE RepostConnsSem(c)
    <3>1. CASE Return(c)
      BY <1>2, <1>3, <2>10, <3>1
         DEF Inv, TypeOK, ControlAt, RepostConnsSem, PostedIfZero, Return, Goto
    <3>2. CASE ~active[c] /\ Goto(c, "wait_blocked") /\ UNCHANGED <<match, iter, length, val, active>>
      BY <1>2, <1>3, <2>10, <3>2
         DEF Inv, TypeOK, ControlAt, RepostConnsSem, PostedIfZero, Goto
    <3>. QED  BY <2>10, <3>1, <3>2 DEF RepostConnsSem
  <2>. QED  BY <1>4, <2>1, <2>2, <2>3, <2>4, <2>5, <2>6, <2>7, <2>8, <2>9,
               <2>10 DEF SharedStep
<1>5. ASSUME NEW s \in Outs, SendStep(s)
      PROVE  ControlAt(d)'
  <2>. s \in Channels  BY DEF Channels
  <2>1. CASE CallSend(s)
    BY <1>2, <1>3, <2>1 DEF Inv, TypeOK, ControlAt, CallSend, Goto, chanVars
  <2>2. CASE PublishSend(s)
    BY <1>2, <1>3, <2>2 DEF Inv, TypeOK, ControlAt, PublishSend, Goto
  <2>3. CASE TransferSend(s)
    <3>1. match[s] \in Channels /\ match[s] # s
      BY <2>3, TransferEnds DEF TransferSend
    <3>2. /\ pc[s] = "transfer"
          /\ ready' = [ready EXCEPT ![match[s]] = FALSE, ![s] = FALSE]
          /\ active' = [active EXCEPT ![s] = TRUE]
          /\ pc' = [pc EXCEPT ![s] = "wait_ack"]
          /\ UNCHANGED <<conns_sem, match, length, val>>
      BY <2>3 DEF TransferSend, BothWithdrawn, Goto
    <3>. QED  BY <1>2, <1>3, <3>1, <3>2 DEF Inv, TypeOK, ControlAt
  <2>4. CASE AwaitAck(s)
    BY <1>2, <1>3, <2>4 DEF Inv, TypeOK, ControlAt, AwaitAck, Goto
  <2>5. CASE AwaitTaken(s)
    <3>1. ~ready[s]
      BY <2>5 DEF AwaitTaken, Inv, WakeupMatchesTransfer, Taken
    <3>. QED  BY <1>2, <1>3, <2>5, <3>1 DEF Inv, TypeOK, ControlAt, AwaitTaken, Goto, Return
  <2>. QED  BY <1>5, <2>1, <2>2, <2>3, <2>4, <2>5 DEF SendStep
<1>6. ASSUME NEW r \in Ins, ReceiveStep(r)
      PROVE  ControlAt(d)'
  <2>. r \in Channels  BY DEF Channels
  <2>1. CASE CallReceive(r)
    BY <1>2, <1>3, <2>1 DEF Inv, TypeOK, ControlAt, CallReceive, Goto, chanVars
  <2>2. CASE PublishReceive(r)
    BY <1>2, <1>3, <2>2 DEF Inv, TypeOK, ControlAt, PublishReceive, Goto
  <2>3. CASE TransferReceive(r)
    <3>1. match[r] \in Channels /\ match[r] # r
      BY <2>3, TransferEnds DEF TransferReceive
    <3>2. /\ pc[r] = "transfer"
          /\ ready' = [ready EXCEPT ![match[r]] = FALSE, ![r] = FALSE]
          /\ active' = [active EXCEPT ![r] = TRUE]
          /\ pc' = [pc EXCEPT ![r] = "get_value"]
          /\ UNCHANGED <<conns_sem, match, length, val>>
      BY <2>3 DEF TransferReceive, BothWithdrawn, Goto
    <3>. QED  BY <1>2, <1>3, <3>1, <3>2 DEF Inv, TypeOK, ControlAt
  <2>4. CASE AwaitData(r)
    <3>1. ~ready[r]
      BY <2>4 DEF AwaitData, Inv, WakeupMatchesTransfer, Taken
    <3>. QED  BY <1>2, <1>3, <2>4, <3>1 DEF Inv, TypeOK, ControlAt, AwaitData, Goto
  <2>5. CASE CopyData(r)
    BY <1>2, <1>3, <2>5 DEF Inv, TypeOK, ControlAt, CopyData, Goto, Return
  <2>. QED  BY <1>6, <2>1, <2>2, <2>3, <2>4, <2>5 DEF ReceiveStep
<1>. QED  BY <1>1, <1>4, <1>5, <1>6, NextSteps

-----------------------------------------------------------------------------
(* Mutual exclusion *)

(* A step keeps the mutexes with the calls that took them, and what a call *)
(* tested under both of them true.                                         *)
LEMMA LockStep ==
  ASSUME Inv, [Next]_vars
  PROVE  LockInv'
<1>. USE DEF PCs, Polling, Trying
<1>. SUFFICES ASSUME NEW d \in Channels
              PROVE  LockAt(d)'
  BY DEF LockInv
<1>1. CASE UNCHANGED vars
  BY <1>1 DEF Inv, LockInv, LockAt, InEnd, vars, chanVars, callVars
<1>2. LockAt(d) /\ d # NULL
  BY ChannelsAssumption DEF Inv, LockInv
<1>3. pc[d] \in Trying =>
        /\ match[d] \in Channels /\ match[d] # d
        /\ InEnd(d) \in Channels /\ OutEnd(d) \in Channels
        /\ {InEnd(d), OutEnd(d)} = {d, match[d]}
  BY MatchEnds DEF Inv
<1>4. ASSUME NEW c \in Channels, SharedStep(c)
      PROVE  LockAt(d)'
  <2>1. CASE AwaitConnections(c)
    BY <1>2, <1>3, <2>1 DEF Inv, TypeOK, LockAt, InEnd, AwaitConnections, Goto
  <2>2. CASE TakeLength(c)
    BY <1>2, <1>3, <2>2 DEF Inv, TypeOK, LockAt, InEnd, TakeLength, Goto, chanVars
  <2>3. CASE NextMatch(c)
    BY <1>2, <1>3, <2>3 DEF Inv, TypeOK, LockAt, InEnd, NextMatch, Goto
  <2>4. CASE EndOfLoop(c)
    BY <1>2, <1>3, <2>4 DEF Inv, TypeOK, LockAt, InEnd, EndOfLoop, Goto, chanVars
  <2>5. CASE LockIn(c)
    BY <1>2, <1>3, <2>5 DEF Inv, TypeOK, LockAt, InEnd, LockIn, Goto, Unlocked
  <2>6. CASE LockOut(c)
    BY ZenonT(30), <1>2, <1>3, <2>6 DEF Inv, TypeOK, LockAt, InEnd, LockOut, Goto, Unlocked
  <2>7. CASE FindReady(c)
    BY <1>2, <1>3, <2>7 DEF Inv, TypeOK, LockAt, InEnd, FindReady, Goto, BothReady, chanVars
  <2>8. CASE FindNotReady(c)
    <3>1. mutex[c] = c /\ mutex[match[c]] = c
      BY <2>8 DEF FindNotReady, Inv, LockInv, LockAt
    <3>. QED  BY ZenonT(30), <1>2, <1>3, <2>8, <3>1
                DEF Inv, TypeOK, LockAt, InEnd, FindNotReady, Goto
  <2>9. CASE ReadConnsSem(c)
    BY <1>2, <1>3, <2>9 DEF Inv, TypeOK, LockAt, InEnd, ReadConnsSem, Goto, chanVars
  <2>10. CASE RepostConnsSem(c)
    <3>1. \/ pc' = [pc EXCEPT ![c] = "idle"]
          \/ pc' = [pc EXCEPT ![c] = "wait_blocked"]
      BY <2>10 DEF RepostConnsSem, Return, Goto
    <3>2. d # c => match'[d] = match[d]
      BY <2>10 DEF RepostConnsSem, Return, Inv, TypeOK
    <3>3. UNCHANGED <<mutex, ready>>
      BY <2>10 DEF RepostConnsSem
    <3>4. CASE d = c
      BY <3>1, <3>4 DEF LockAt, Inv, TypeOK
    <3>5. CASE d # c
      BY <1>2, <3>1, <3>2, <3>3, <3>5 DEF LockAt, InEnd, Inv, TypeOK
    <3>. QED  BY <3>4, <3>5
  <2>. QED  BY <1>4, <2>1, <2>2, <2>3, <2>4, <2>5, <2>6, <2>7, <2>8, <2>9,
               <2>10 DEF SharedStep
<1>5. ASSUME NEW s \in Outs, SendStep(s)
      PROVE  LockAt(d)'
  <2>. s \in Channels  BY DEF Channels
  <2>1. CASE CallSend(s)
    BY <1>2, <1>3, <2>1 DEF Inv, TypeOK, LockAt, InEnd, CallSend, Goto, chanVars
  <2>2. CASE PublishSend(s)
    BY <1>2, <1>3, <2>2 DEF Inv, TypeOK, LockAt, InEnd, PublishSend, Goto
  <2>3. CASE TransferSend(s)
    <3>1. /\ match[s] \in Channels /\ match[s] # s
          /\ mutex[s] = s /\ mutex[match[s]] = s
      BY <2>3, TransferEnds DEF TransferSend
    <3>2. /\ ready' = [ready EXCEPT ![match[s]] = FALSE, ![s] = FALSE]
          /\ \A h \in Channels : mutex'[h] = IF h \in {s, match[s]} THEN NULL ELSE mutex[h]
          /\ pc' = [pc EXCEPT ![s] = "wait_ack"]
          /\ UNCHANGED match
      BY <2>3, <3>1 DEF TransferSend, BothWithdrawn, Goto, Inv, TypeOK
    <3>. QED  BY ZenonT(30), <1>2, <1>3, <2>3, <3>1, <3>2 DEF Inv, TypeOK, LockAt, InEnd
  <2>4. CASE AwaitAck(s)
    BY <1>2, <1>3, <2>4 DEF Inv, TypeOK, LockAt, InEnd, AwaitAck, Goto
  <2>5. CASE AwaitTaken(s)
    BY <1>2, <1>3, <2>5 DEF Inv, TypeOK, LockAt, InEnd, AwaitTaken, Goto, Return
  <2>. QED  BY <1>5, <2>1, <2>2, <2>3, <2>4, <2>5 DEF SendStep
<1>6. ASSUME NEW r \in Ins, ReceiveStep(r)
      PROVE  LockAt(d)'
  <2>. r \in Channels  BY DEF Channels
  <2>1. CASE CallReceive(r)
    BY <1>2, <1>3, <2>1 DEF Inv, TypeOK, LockAt, InEnd, CallReceive, Goto, chanVars
  <2>2. CASE PublishReceive(r)
    BY <1>2, <1>3, <2>2 DEF Inv, TypeOK, LockAt, InEnd, PublishReceive, Goto
  <2>3. CASE TransferReceive(r)
    <3>1. /\ match[r] \in Channels /\ match[r] # r
          /\ mutex[r] = r /\ mutex[match[r]] = r
      BY <2>3, TransferEnds DEF TransferReceive
    <3>2. /\ ready' = [ready EXCEPT ![match[r]] = FALSE, ![r] = FALSE]
          /\ \A h \in Channels : mutex'[h] = IF h \in {r, match[r]} THEN NULL ELSE mutex[h]
          /\ pc' = [pc EXCEPT ![r] = "get_value"]
          /\ UNCHANGED match
      BY <2>3, <3>1 DEF TransferReceive, BothWithdrawn, Goto, Inv, TypeOK
    <3>. QED  BY ZenonT(30), <1>2, <1>3, <2>3, <3>1, <3>2 DEF Inv, TypeOK, LockAt, InEnd
  <2>4. CASE AwaitData(r)
    BY <1>2, <1>3, <2>4 DEF Inv, TypeOK, LockAt, InEnd, AwaitData, Goto
  <2>5. CASE CopyData(r)
    BY <1>2, <1>3, <2>5 DEF Inv, TypeOK, LockAt, InEnd, CopyData, Goto, Return
  <2>. QED  BY <1>6, <2>1, <2>2, <2>3, <2>4, <2>5 DEF ReceiveStep
<1>. QED  BY <1>1, <1>4, <1>5, <1>6, NextSteps

-----------------------------------------------------------------------------
(* Wake-ups *)

(* A step keeps wake-ups matching transfers.                                *)
LEMMA WakeStep ==
  ASSUME Inv, [Next]_vars
  PROVE  WakeupMatchesTransfer'
<1>. USE DEF PCs, Polling, Trying, Announced
<1>. DEFINE WakeAt(d) == blocked[d] = IF Taken(d) THEN 1 ELSE 0
<1>. SUFFICES ASSUME NEW d \in Channels
              PROVE  WakeAt(d)'
  BY DEF WakeupMatchesTransfer
<1>1. CASE UNCHANGED vars
  BY <1>1 DEF Inv, WakeupMatchesTransfer, Taken, vars, chanVars, callVars
<1>2. /\ WakeAt(d)
      /\ pc[d] = "wait_ack" => active[d]
      /\ active[d] => pc[d] \in {"wait_ack", "get_value", "post_conns"}
  BY DEF Inv, WakeupMatchesTransfer, ControlInv, ControlAt
<1>3. ASSUME NEW c \in Channels, SharedStep(c)
      PROVE  WakeAt(d)'
  <2>1. CASE AwaitConnections(c)
    BY <1>2, <2>1 DEF Inv, TypeOK, Taken, AwaitConnections, Goto
  <2>2. CASE TakeLength(c)
    BY <1>2, <2>2 DEF Inv, TypeOK, Taken, TakeLength, Goto, chanVars
  <2>3. CASE NextMatch(c)
    BY <1>2, <2>3 DEF Inv, TypeOK, Taken, NextMatch, Goto
  <2>4. CASE EndOfLoop(c)
    BY <1>2, <2>4 DEF Inv, TypeOK, Taken, EndOfLoop, Goto, chanVars
  <2>5. CASE LockIn(c)
    BY <1>2, <2>5 DEF Inv, TypeOK, Taken, LockIn, Goto
  <2>6. CASE LockOut(c)
    BY <1>2, <2>6 DEF Inv, TypeOK, Taken, LockOut, Goto
  <2>7. CASE FindReady(c)
    BY <1>2, <2>7 DEF Inv, TypeOK, Taken, FindReady, Goto, chanVars
  <2>8. CASE FindNotReady(c)
    BY <1>2, <2>8 DEF Inv, TypeOK, Taken, FindNotReady, Goto
  <2>9. CASE ReadConnsSem(c)
    BY <1>2, <2>9 DEF Inv, TypeOK, Taken, ReadConnsSem, Goto, chanVars
  <2>10. CASE RepostConnsSem(c)
    <3>1. \/ active[c] /\ pc' = [pc EXCEPT ![c] = "idle"]
             /\ active' = [active EXCEPT ![c] = FALSE]
          \/ ~active[c] /\ pc' = [pc EXCEPT ![c] = "wait_blocked"] /\ UNCHANGED active
      BY <2>10 DEF RepostConnsSem, Return, Goto
    <3>2. pc[c] = "post_conns" /\ UNCHANGED <<ready, blocked, buffer>>
      BY <2>10 DEF RepostConnsSem
    <3>3. CASE active[c] /\ pc' = [pc EXCEPT ![c] = "idle"]
               /\ active' = [active EXCEPT ![c] = FALSE]
      BY <1>2, <3>2, <3>3 DEF Inv, TypeOK, Taken
    <3>4. CASE ~active[c] /\ pc' = [pc EXCEPT ![c] = "wait_blocked"] /\ UNCHANGED active
      BY <1>2, <3>2, <3>4 DEF Inv, TypeOK, Taken
    <3>. QED  BY <3>1, <3>3, <3>4
  <2>. QED  BY <1>3, <2>1, <2>2, <2>3, <2>4, <2>5, <2>6, <2>7, <2>8, <2>9,
               <2>10 DEF SharedStep
<1>4. ASSUME NEW s \in Outs, SendStep(s)
      PROVE  WakeAt(d)'
  <2>. s \in Channels  BY DEF Channels
  <2>1. CASE CallSend(s)
    BY <1>2, <2>1 DEF Inv, TypeOK, Taken, CallSend, Goto, chanVars
  <2>2. CASE PublishSend(s)
    BY <1>2, <2>2 DEF Inv, TypeOK, Taken, PublishSend, Goto
  <2>3. CASE TransferSend(s)
    <3>1. /\ match[s] \in Channels /\ match[s] # s
          /\ ready[s] /\ ready[match[s]] /\ blocked[match[s]] = 0
      BY <2>3, TransferEnds DEF TransferSend
    <3>2. /\ pc[match[s]] \in Announced /\ ~active[match[s]]
      BY <3>1 DEF Inv, ControlInv, ControlAt
    <3>3. /\ ready' = [ready EXCEPT ![match[s]] = FALSE, ![s] = FALSE]
          /\ active' = [active EXCEPT ![s] = TRUE]
          /\ blocked' = [blocked EXCEPT ![match[s]] = @ + 1]
          /\ pc' = [pc EXCEPT ![s] = "wait_ack"]
      BY <2>3 DEF TransferSend, BothWithdrawn, WakeUp, Goto
    <3>. QED  BY SMTT(30), <1>2, <3>1, <3>2, <3>3 DEF Inv, TypeOK, Taken
  <2>4. CASE AwaitAck(s)
    BY <1>2, <2>4 DEF Inv, TypeOK, Taken, AwaitAck, Goto
  <2>5. CASE AwaitTaken(s)
    BY <1>2, <2>5 DEF Inv, TypeOK, Taken, AwaitTaken, Goto, Return
  <2>. QED  BY <1>4, <2>1, <2>2, <2>3, <2>4, <2>5 DEF SendStep
<1>5. ASSUME NEW r \in Ins, ReceiveStep(r)
      PROVE  WakeAt(d)'
  <2>. r \in Channels  BY DEF Channels
  <2>1. CASE CallReceive(r)
    BY <1>2, <2>1 DEF Inv, TypeOK, Taken, CallReceive, Goto, chanVars
  <2>2. CASE PublishReceive(r)
    BY <1>2, <2>2 DEF Inv, TypeOK, Taken, PublishReceive, Goto
  <2>3. CASE TransferReceive(r)
    <3>1. /\ match[r] \in Channels /\ match[r] # r
          /\ ready[r] /\ ready[match[r]] /\ blocked[match[r]] = 0
      BY <2>3, TransferEnds DEF TransferReceive
    <3>2. /\ pc[match[r]] \in Announced /\ ~active[match[r]]
      BY <3>1 DEF Inv, ControlInv, ControlAt
    <3>3. /\ ready' = [ready EXCEPT ![match[r]] = FALSE, ![r] = FALSE]
          /\ active' = [active EXCEPT ![r] = TRUE]
          /\ blocked' = [blocked EXCEPT ![match[r]] = @ + 1]
          /\ pc' = [pc EXCEPT ![r] = "get_value"]
      BY <2>3 DEF TransferReceive, BothWithdrawn, WakeUp, Goto
    <3>. QED  BY SMTT(30), <1>2, <3>1, <3>2, <3>3 DEF Inv, TypeOK, Taken
  <2>4. CASE AwaitData(r)
    BY <1>2, <2>4 DEF Inv, TypeOK, Taken, AwaitData, Goto
  <2>5. CASE CopyData(r)
    BY <1>2, <2>5 DEF Inv, TypeOK, Taken, CopyData, Goto, Return
  <2>. QED  BY <1>5, <2>1, <2>2, <2>3, <2>4, <2>5 DEF ReceiveStep
<1>. QED  BY <1>1, <1>3, <1>4, <1>5, NextSteps

-----------------------------------------------------------------------------
(* Pointers *)

(* A step keeps the pointers of those on offer and of those with a copy to  *)
(* make valid.                                                              *)
LEMMA BufferStep ==
  ASSUME Inv, [Next]_vars
  PROVE  BufferInv'
<1>. USE DEF PCs, Polling, Trying, Announced
<1>. DEFINE BufferAt(d) ==
              /\ d \in Outs /\ ready[d] => buffer[d] = d
              /\ d \in Ins /\ CopyPending(d) => buffer[d] \in Outs
<1>. SUFFICES ASSUME NEW d \in Channels
              PROVE  BufferAt(d)'
  BY DEF BufferInv, Channels, CopyPending, Taken
<1>1. CASE UNCHANGED vars
  BY <1>1 DEF Inv, BufferInv, CopyPending, Taken, vars, chanVars, callVars
<1>2. /\ BufferAt(d)
      /\ d \notin Outs \cap Ins
      /\ pc[d] = "copy" => d \in Ins
      /\ active[d] => pc[d] \in {"wait_ack", "get_value", "post_conns"}
  BY ChannelsAssumption DEF Inv, BufferInv, ControlInv, ControlAt
<1>3. ASSUME NEW c \in Channels, SharedStep(c)
      PROVE  BufferAt(d)'
  <2>1. CASE AwaitConnections(c)
    BY <1>2, <2>1 DEF Inv, TypeOK, CopyPending, Taken, AwaitConnections, Goto
  <2>2. CASE TakeLength(c)
    BY <1>2, <2>2 DEF Inv, TypeOK, CopyPending, Taken, TakeLength, Goto, chanVars
  <2>3. CASE NextMatch(c)
    BY <1>2, <2>3 DEF Inv, TypeOK, CopyPending, Taken, NextMatch, Goto
  <2>4. CASE EndOfLoop(c)
    BY <1>2, <2>4 DEF Inv, TypeOK, CopyPending, Taken, EndOfLoop, Goto, chanVars
  <2>5. CASE LockIn(c)
    BY <1>2, <2>5 DEF Inv, TypeOK, CopyPending, Taken, LockIn, Goto
  <2>6. CASE LockOut(c)
    BY <1>2, <2>6 DEF Inv, TypeOK, CopyPending, Taken, LockOut, Goto
  <2>7. CASE FindReady(c)
    BY <1>2, <2>7 DEF Inv, TypeOK, CopyPending, Taken, FindReady, Goto, chanVars
  <2>8. CASE FindNotReady(c)
    BY <1>2, <2>8 DEF Inv, TypeOK, CopyPending, Taken, FindNotReady, Goto
  <2>9. CASE ReadConnsSem(c)
    BY <1>2, <2>9 DEF Inv, TypeOK, CopyPending, Taken, ReadConnsSem, Goto, chanVars
  <2>10. CASE RepostConnsSem(c)
    <3>1. \/ active[c] /\ pc' = [pc EXCEPT ![c] = "idle"]
             /\ active' = [active EXCEPT ![c] = FALSE]
          \/ ~active[c] /\ pc' = [pc EXCEPT ![c] = "wait_blocked"] /\ UNCHANGED active
      BY <2>10 DEF RepostConnsSem, Return, Goto
    <3>2. pc[c] = "post_conns" /\ UNCHANGED <<ready, buffer>>
      BY <2>10 DEF RepostConnsSem
    <3>. QED  BY <1>2, <3>1, <3>2 DEF Inv, TypeOK, CopyPending, Taken
  <2>. QED  BY <1>3, <2>1, <2>2, <2>3, <2>4, <2>5, <2>6, <2>7, <2>8, <2>9,
               <2>10 DEF SharedStep
<1>4. ASSUME NEW s \in Outs, SendStep(s)
      PROVE  BufferAt(d)'
  <2>. s \in Channels  BY DEF Channels
  <2>1. CASE CallSend(s)
    BY <1>2, <2>1 DEF Inv, TypeOK, CopyPending, Taken, CallSend, Goto, chanVars
  <2>2. CASE PublishSend(s)
    BY <1>2, <2>2 DEF Inv, TypeOK, CopyPending, Taken, PublishSend, Goto
  <2>3. CASE TransferSend(s)
    <3>1. /\ match[s] \in Ins /\ match[s] # s
          /\ buffer[s] = s
      BY <2>3, TransferEnds DEF TransferSend
    <3>2. /\ ready' = [ready EXCEPT ![match[s]] = FALSE, ![s] = FALSE]
          /\ active' = [active EXCEPT ![s] = TRUE]
          /\ buffer' = [buffer EXCEPT ![match[s]] = s]
          /\ pc' = [pc EXCEPT ![s] = "wait_ack"]
      BY <2>3, <3>1 DEF TransferSend, BothWithdrawn, Goto
    <3>. QED  BY <1>2, <3>1, <3>2 DEF Inv, TypeOK, CopyPending, Taken
  <2>4. CASE AwaitAck(s)
    BY <1>2, <2>4 DEF Inv, TypeOK, CopyPending, Taken, AwaitAck, Goto
  <2>5. CASE AwaitTaken(s)
    BY <1>2, <2>5 DEF Inv, TypeOK, CopyPending, Taken, AwaitTaken, Goto, Return
  <2>. QED  BY <1>4, <2>1, <2>2, <2>3, <2>4, <2>5 DEF SendStep
<1>5. ASSUME NEW r \in Ins, ReceiveStep(r)
      PROVE  BufferAt(d)'
  <2>. r \in Channels  BY DEF Channels
  <2>1. CASE CallReceive(r)
    BY <1>2, <2>1 DEF Inv, TypeOK, CopyPending, Taken, CallReceive, Goto, chanVars
  <2>2. CASE PublishReceive(r)
    BY <1>2, <2>2 DEF Inv, TypeOK, CopyPending, Taken, PublishReceive, Goto
  <2>3. CASE TransferReceive(r)
    <3>1. match[r] \in Outs /\ match[r] # r
      BY <2>3, TransferEnds DEF TransferReceive
    <3>2. /\ ready' = [ready EXCEPT ![match[r]] = FALSE, ![r] = FALSE]
          /\ active' = [active EXCEPT ![r] = TRUE]
          /\ buffer' = [buffer EXCEPT ![r] = buffer[match[r]]]
          /\ pc' = [pc EXCEPT ![r] = "get_value"]
      BY <2>3 DEF TransferReceive, BothWithdrawn, Goto
    <3>. QED  BY <1>2, <3>1, <3>2 DEF Inv, TypeOK, CopyPending, Taken
  <2>4. CASE AwaitData(r)
    <3>1. CopyPending(r)
      BY <2>4 DEF AwaitData, Inv, WakeupMatchesTransfer, CopyPending
    <3>. QED  BY <1>2, <2>4, <3>1 DEF Inv, TypeOK, CopyPending, Taken, AwaitData, Goto
  <2>5. CASE CopyData(r)
    BY <1>2, <2>5 DEF Inv, TypeOK, CopyPending, Taken, CopyData, Goto, Return
  <2>. QED  BY <1>5, <2>1, <2>2, <2>3, <2>4, <2>5 DEF ReceiveStep
<1>. QED  BY <1>1, <1>3, <1>4, <1>5, NextSteps

-----------------------------------------------------------------------------
(* Pending connections *)

(* A step of one thread leaves the place and the locals of another alone.   *)
OwnCall(c) == <<pc[c], match[c], iter[c], connections[c]>>

(* ... the steps send and receive share.                                   *)
LEMMA SharedFrame ==
  ASSUME TypeOK, NEW t \in Channels, NEW c \in Channels \ {t}, SharedStep(t)
  PROVE  UNCHANGED OwnCall(c)
<1>1. CASE AwaitConnections(t)
  BY <1>1 DEF TypeOK, OwnCall, AwaitConnections, Goto
<1>2. CASE TakeLength(t)
  BY <1>2 DEF TypeOK, OwnCall, TakeLength, Goto, chanVars
<1>3. CASE NextMatch(t)
  BY <1>3 DEF TypeOK, OwnCall, NextMatch, Goto
<1>4. CASE EndOfLoop(t)
  BY <1>4 DEF TypeOK, OwnCall, EndOfLoop, Goto, chanVars
<1>5. CASE LockIn(t)
  BY <1>5 DEF TypeOK, OwnCall, LockIn, Goto
<1>6. CASE LockOut(t)
  BY <1>6 DEF TypeOK, OwnCall, LockOut, Goto
<1>7. CASE FindReady(t)
  BY <1>7 DEF TypeOK, OwnCall, FindReady, Goto, chanVars
<1>8. CASE FindNotReady(t)
  BY <1>8 DEF TypeOK, OwnCall, FindNotReady, Goto
<1>9. CASE ReadConnsSem(t)
  BY <1>9 DEF TypeOK, OwnCall, ReadConnsSem, Goto, chanVars
<1>10. CASE RepostConnsSem(t)
  <2>1. /\ pc' = [pc EXCEPT ![t] = "idle"]
           \/ pc' = [pc EXCEPT ![t] = "wait_blocked"]
        /\ match' = match \/ match' = [match EXCEPT ![t] = NULL]
        /\ iter' = iter \/ iter' = [iter EXCEPT ![t] = 0]
        /\ UNCHANGED connections
    BY <1>10 DEF RepostConnsSem, Return, Goto
  <2>. QED  BY <2>1 DEF TypeOK, OwnCall
<1>. QED  BY <1>1, <1>2, <1>3, <1>4, <1>5, <1>6, <1>7, <1>8, <1>9, <1>10
          DEF SharedStep

(* ... the steps of a sender.                                              *)
LEMMA SendFrame ==
  ASSUME TypeOK, NEW t \in Outs, NEW c \in Channels \ {t}, SendStep(t)
  PROVE  UNCHANGED OwnCall(c)
<1>1. CASE CallSend(t)
  BY <1>1 DEF TypeOK, OwnCall, CallSend, Goto, chanVars
<1>2. CASE PublishSend(t)
  BY <1>2 DEF TypeOK, OwnCall, PublishSend, Goto
<1>3. CASE TransferSend(t)
  BY <1>3 DEF TypeOK, OwnCall, TransferSend, Goto
<1>4. CASE AwaitAck(t)
  BY <1>4 DEF TypeOK, OwnCall, AwaitAck, Goto
<1>5. CASE AwaitTaken(t)
  BY <1>5 DEF TypeOK, OwnCall, AwaitTaken, Goto, Return
<1>. QED  BY <1>1, <1>2, <1>3, <1>4, <1>5 DEF SendStep

(* ... the steps of a receiver.                                            *)
LEMMA ReceiveFrame ==
  ASSUME TypeOK, NEW t \in Ins, NEW c \in Channels \ {t}, ReceiveStep(t)
  PROVE  UNCHANGED OwnCall(c)
<1>1. CASE CallReceive(t)
  BY <1>1 DEF TypeOK, OwnCall, CallReceive, Goto, chanVars
<1>2. CASE PublishReceive(t)
  BY <1>2 DEF TypeOK, OwnCall, PublishReceive, Goto
<1>3. CASE TransferReceive(t)
  BY <1>3 DEF TypeOK, OwnCall, TransferReceive, Goto
<1>4. CASE AwaitData(t)
  BY <1>4 DEF TypeOK, OwnCall, AwaitData, Goto
<1>5. CASE CopyData(t)
  BY <1>5 DEF TypeOK, OwnCall, CopyData, Goto, Return
<1>. QED  BY <1>1, <1>2, <1>3, <1>4, <1>5 DEF ReceiveStep

(* When the cursor n, of a list of L, moves on, no position is passed but n. *)
LEMMA CursorPasses ==
  ASSUME NEW L \in Nat, NEW n \in 1..L, NEW p \in 1..L, NEW k \in Nat,
         NEW m \in Nat, m = IF n = L THEN 1 ELSE n + 1,
         p # n, ~(p < n /\ p + k >= n), ~(p + k >= n + L)
  PROVE  ~(p < m /\ p + (k + 1) >= m) /\ ~(p + (k + 1) >= m + L)
OBVIOUS

(* A call that announces itself has all its connections to try.             *)
LEMMA NewlyReady ==
  ASSUME Inv, [Next]_vars, NEW c \in Channels, ready'[c], ~ready[c]
  PROVE  pc'[c] = "get_length"
<1>1. ASSUME NEW t \in Channels, SharedStep(t)
      PROVE  FALSE
  BY <1>1 DEF SharedStep, chanVars, AwaitConnections, TakeLength, NextMatch,
              EndOfLoop, LockIn, LockOut, FindReady, FindNotReady,
              ReadConnsSem, RepostConnsSem
<1>2. ASSUME NEW s \in Outs, SendStep(s)
      PROVE  pc'[c] = "get_length"
  <2>1. CASE PublishSend(s)
    BY <2>1 DEF PublishSend, Goto, Inv, TypeOK, Channels
  <2>2. CASE TransferSend(s)
    BY <2>2 DEF TransferSend, BothWithdrawn, Inv, TypeOK
  <2>3. CASE CallSend(s) \/ AwaitAck(s) \/ AwaitTaken(s)
    BY <2>3 DEF CallSend, AwaitAck, AwaitTaken, chanVars
  <2>. QED  BY <1>2, <2>1, <2>2, <2>3 DEF SendStep
<1>3. ASSUME NEW r \in Ins, ReceiveStep(r)
      PROVE  pc'[c] = "get_length"
  <2>1. CASE PublishReceive(r)
    BY <2>1 DEF PublishReceive, Goto, Inv, TypeOK, Channels
  <2>2. CASE TransferReceive(r)
    BY <2>2 DEF TransferReceive, BothWithdrawn, Inv, TypeOK
  <2>3. CASE CallReceive(r) \/ AwaitData(r) \/ CopyData(r)
    BY <2>3 DEF CallReceive, AwaitData, CopyData, chanVars
  <2>. QED  BY <1>3, <2>1, <2>2, <2>3 DEF ReceiveStep
<1>4. CASE UNCHANGED vars
  BY <1>4 DEF vars, chanVars
<1>. QED  BY <1>1, <1>2, <1>3, <1>4, NextSteps

(* A step of another thread leaves what a call has still to try alone.      *)
LEMMA PendingFrame ==
  ASSUME NEW c \in Channels, UNCHANGED OwnCall(c)
  PROVE  Pending(c)' = Pending(c)
BY DEF OwnCall, Pending, Fetched, Passed

(* A connection a call has still to try stays so, as long as both its ends  *)
(* stay on offer, until the call has tried it: and then the other end was   *)
(* not on offer.                                                            *)
LEMMA KeepPending ==
  ASSUME Inv, [Next]_vars, NEW c \in Channels, NEW d \in Pending(c),
         ready'[c], ready'[d]
  PROVE  d \in Pending(c)'
<1>. USE DEF PCs, Polling, Trying
<1>. DEFINE l == connections[c]
            L == Len(l.elems)
            n == l.next
<1>1. /\ d \in Elements(l)
      /\ d \in Elements(connections'[c])
      /\ connections'[c].elems = l.elems
  BY ListsStay DEF Inv, Pending
<1>2. /\ d \in Channels
      /\ l \in [elems : Seq(Channels), next : Nat] /\ WellFormed(l)
      /\ L \in Nat /\ iter[c] \in Nat
  BY <1>1, ConnectionEnds DEF Inv, TypeOK, Paired
<1>3. /\ ~isEmpty(l)
      /\ n \in 1..L
      /\ AfterGetNext(l).next = IF n = L THEN 1 ELSE n + 1
      /\ getNextElement(l) = l.elems[n]
  <2>1. ~isEmpty(l)
    BY <1>1, <1>2 DEF isEmpty, Elements
  <2>. QED  BY <1>2, <2>1, CursorMoves
<1>4. PICK q \in 1..L : l.elems[q] = d
  BY <1>1 DEF Elements
<1>5. CASE pc'[c] = "get_length"
  BY <1>1, <1>5 DEF Pending
<1>6. CASE UNCHANGED OwnCall(c)
  BY <1>6, PendingFrame
<1>7. ASSUME SharedStep(c)
      PROVE  d \in Pending(c)'
  <2>1. CASE AwaitConnections(c)
    BY <2>1 DEF Pending, AwaitConnections
  <2>2. CASE TakeLength(c)
    <3>1. pc'[c] = "next" /\ iter'[c] = 0 /\ connections'[c] = l
      BY <2>2 DEF TakeLength, Goto, chanVars, Inv, TypeOK
    <3>2. ~Passed(c, q)'
      <4>1. ~(q < n /\ q + 0 >= n) /\ ~(q + 0 >= n + L)
        BY <1>2, <1>3
      <4>. QED  BY <3>1, <4>1 DEF Passed, Fetched
    <3>. QED  BY <1>1, <1>4, <3>1, <3>2 DEF Pending
  <2>3. CASE NextMatch(c)
    <3>1. /\ pc[c] = "next" /\ pc'[c] = "lock_in"
          /\ match'[c] = l.elems[n]
          /\ connections'[c].next = IF n = L THEN 1 ELSE n + 1
          /\ iter'[c] = iter[c]
      BY <1>3, <2>3 DEF NextMatch, Goto, Inv, TypeOK
    <3>2. PICK p \in 1..L : l.elems[p] = d /\ ~Passed(c, p)
      BY <3>1 DEF Pending
    <3>3. CASE p = n
      BY <1>1, <3>1, <3>2, <3>3 DEF Pending
    <3>4. CASE p # n
      <4>1. ~(p < n /\ p + iter[c] >= n) /\ ~(p + iter[c] >= n + L)
        BY <3>1, <3>2 DEF Passed, Fetched
      <4>. DEFINE m == connections'[c].next
      <4>2. m = (IF n = L THEN 1 ELSE n + 1) /\ m \in Nat
        BY <1>2, <1>3, <3>1
      <4>. HIDE DEF m, l, L, n
      <4>3. ~(p < m /\ p + (iter[c] + 1) >= m) /\ ~(p + (iter[c] + 1) >= m + L)
        BY <1>2, <1>3, <3>4, <4>1, <4>2, CursorPasses
      <4>4. ~Passed(c, p)'
        BY <1>1, <3>1, <4>3 DEF Passed, Fetched, m, L, l
      <4>. QED  BY <1>1, <3>1, <3>2, <4>4 DEF Pending, l, L
    <3>. QED  BY <3>3, <3>4
  <2>4. CASE EndOfLoop(c)
    <3>1. pc[c] = "next" /\ length[c] = L /\ ~(iter[c] < L)
      BY <2>4 DEF EndOfLoop, MoreToTry, Inv, ControlInv, ControlAt
    <3>2. \A p \in 1..L : Passed(c, p)
      <4>. SUFFICES ASSUME NEW p \in 1..L  PROVE Passed(c, p)
        OBVIOUS
      <4>1. (p < n /\ p + iter[c] >= n) \/ p + iter[c] >= n + L
        BY <1>2, <1>3, <3>1
      <4>. QED  BY <3>1, <4>1 DEF Passed, Fetched
    <3>. QED  BY <3>1, <3>2 DEF Pending
  <2>5. ASSUME pc[c] \in Trying, pc'[c] \in Trying,
               UNCHANGED <<match, iter, connections>>
        PROVE  d \in Pending(c)'
    BY <2>5 DEF Pending, Passed, Fetched
  <2>6. CASE LockIn(c)
    <3>1. pc[c] = "lock_in" /\ pc'[c] = "lock_out"
          /\ UNCHANGED <<match, iter, connections>>
      BY <2>6 DEF LockIn, Goto, Inv, TypeOK
    <3>. QED  BY <2>5, <3>1
  <2>7. CASE LockOut(c)
    <3>1. pc[c] = "lock_out" /\ pc'[c] = "test"
          /\ UNCHANGED <<match, iter, connections>>
      BY <2>7 DEF LockOut, Goto, Inv, TypeOK
    <3>. QED  BY <2>5, <3>1
  <2>8. CASE FindReady(c)
    <3>1. pc[c] = "test" /\ pc'[c] = "transfer"
          /\ UNCHANGED <<match, iter, connections>>
      BY <2>8 DEF FindReady, Goto, chanVars, Inv, TypeOK
    <3>. QED  BY <2>5, <3>1
  <2>9. CASE FindNotReady(c)
    <3>1. /\ pc[c] = "test" /\ pc'[c] = "next"
          /\ iter'[c] = iter[c] + 1
          /\ UNCHANGED <<match, connections, ready>>
      BY <2>9 DEF FindNotReady, Goto, Inv, TypeOK
    <3>2. d # match[c]
      BY <2>9, <3>1 DEF FindNotReady, BothReady
    <3>3. PICK p \in 1..L : l.elems[p] = d /\ ~Passed(c, p)
      BY <3>1, <3>2 DEF Pending
    <3>4. ~Passed(c, p)'
      BY <3>1, <3>3 DEF Passed, Fetched
    <3>. QED  BY <1>1, <3>1, <3>3, <3>4 DEF Pending
  <2>10. CASE ReadConnsSem(c)
    BY <2>10 DEF Pending, ReadConnsSem
  <2>11. CASE RepostConnsSem(c)
    BY <2>11 DEF Pending, RepostConnsSem
  <2>. QED  BY <1>7, <2>1, <2>2, <2>3, <2>4, <2>6, <2>7, <2>8, <2>9, <2>10,
               <2>11 DEF SharedStep
<1>8. ASSUME c \in Outs, SendStep(c)
      PROVE  d \in Pending(c)'
  <2>1. CASE TransferSend(c)
    <3>1. ~ready'[c]
      BY <1>8, <2>1, MatchEnds DEF TransferSend, BothWithdrawn, Inv, TypeOK
    <3>. QED  BY <3>1
  <2>2. CASE CallSend(c) \/ PublishSend(c) \/ AwaitAck(c) \/ AwaitTaken(c)
    BY <2>2 DEF Pending, CallSend, PublishSend, AwaitAck, AwaitTaken
  <2>. QED  BY <1>8, <2>1, <2>2 DEF SendStep
<1>9. ASSUME c \in Ins, ReceiveStep(c)
      PROVE  d \in Pending(c)'
  <2>1. CASE TransferReceive(c)
    <3>1. ~ready'[c]
      BY <1>9, <2>1, MatchEnds DEF TransferReceive, BothWithdrawn, Inv, TypeOK
    <3>. QED  BY <3>1
  <2>2. CASE CallReceive(c) \/ PublishReceive(c) \/ AwaitData(c) \/ CopyData(c)
    BY <2>2 DEF Pending, CallReceive, PublishReceive, AwaitData, CopyData
  <2>. QED  BY <1>9, <2>1, <2>2 DEF ReceiveStep
<1>10. CASE UNCHANGED vars
  BY <1>6, <1>10 DEF vars, chanVars, callVars, OwnCall
<1>11. CASE \E t \in Channels : t # c /\ SharedStep(t)
  BY <1>6, <1>11, SharedFrame DEF Inv
<1>12. CASE \E t \in Outs : t # c /\ SendStep(t)
  BY <1>6, <1>12, SendFrame DEF Inv
<1>13. CASE \E t \in Ins : t # c /\ ReceiveStep(t)
  BY <1>6, <1>13, ReceiveFrame DEF Inv
<1>. QED  BY <1>7, <1>8, <1>9, <1>10, <1>11, <1>12, <1>13, NextSteps

(* A step leaves no two connected half-channels on offer with neither of     *)
(* them still to try the other.                                             *)
LEMMA PendingStep ==
  ASSUME Inv, [Next]_vars
  PROVE  PendingInv'
<1>. SUFFICES ASSUME NEW s \in Outs, NEW r \in Ins,
                     Connected(s, r)', ready'[s], ready'[r]
              PROVE  (r \in Pending(s) \/ s \in Pending(r))'
  BY DEF PendingInv
<1>. s \in Channels /\ r \in Channels
  BY DEF Channels
<1>1. /\ r \in Elements(connections[s]) /\ r \in Elements(connections'[s])
      /\ s \in Elements(connections[r]) /\ s \in Elements(connections'[r])
  BY ListsStay, ConnectionEnds DEF Connected, Inv
<1>2. CASE ~ready[s]
  BY <1>1, <1>2, NewlyReady DEF Pending
<1>3. CASE ~ready[r]
  BY <1>1, <1>3, NewlyReady DEF Pending
<1>4. CASE ready[s] /\ ready[r]
  <2>1. r \in Pending(s) \/ s \in Pending(r)
    BY <1>1, <1>4 DEF Inv, PendingInv, Connected
  <2>. QED  BY <2>1, KeepPending
<1>. QED  BY <1>2, <1>3, <1>4

-----------------------------------------------------------------------------
(* The theorems *)

(* The invariant holds before the first call.                               *)
LEMMA InitInv ==
  ASSUME Init
  PROVE  Inv
<1>1. TypeOK
  BY TopologiesAssumption DEF Init, TypeOK, PCs, Polling, Trying
<1>2. ControlInv
  BY DEF Init, ControlInv, ControlAt, PCs, Polling, Trying
<1>3. LockInv /\ BufferInv /\ PendingInv
  BY DEF Init, LockInv, LockAt, BufferInv, CopyPending, Taken, Announced,
         Polling, Trying, PendingInv, Channels
<1>4. WakeupMatchesTransfer
  BY DEF Init, WakeupMatchesTransfer, Taken, Announced, Polling, Trying
<1>. QED  BY <1>1, <1>2, <1>3, <1>4 DEF Inv

(* Inv is an inductive invariant of the specification.                      *)
THEOREM Invariance == Spec => []Inv
<1>1. Init => Inv
  BY InitInv
<1>2. Inv /\ [Next]_vars => Inv'
  BY TypeStep, ControlStep, LockStep, BufferStep, WakeStep, PendingStep
     DEF Inv
<1>. QED  BY <1>1, <1>2, PTL DEF Spec

(* Every reachable state is well typed: however many half-channels there    *)
(* are and however they are connected, the semaphores conns_sem and blocked *)
(* never exceed 1, and the cursors never leave the lists.                   *)
THEOREM TypeCorrect == Spec => []TypeOK
<1>1. Inv => TypeOK
  BY DEF Inv
<1>. QED  BY <1>1, Invariance, PTL

(* The semaphore a half-channel parks on is posted once for every transfer  *)
(* another call makes with it, and consumed before the call returns.        *)
THEOREM WakeupsMatch == Spec => []WakeupMatchesTransfer
<1>1. Inv => WakeupMatchesTransfer
  BY DEF Inv
<1>. QED  BY <1>1, Invariance, PTL

(* Two connected half-channels never both park while they wait for each     *)
(* other: were both on offer, one of them would have still to try the other *)
(* and so not be parked.                                                    *)
THEOREM NoRendezvousLost == Spec => []NoLostRendezvous
<1>1. Inv => NoLostRendezvous
  <2>. SUFFICES ASSUME Inv, NEW s \in Outs, NEW r \in Ins, Connected(s, r),
                       Parked(s), Parked(r)
                PROVE  FALSE
    BY DEF NoLostRendezvous
  <2>1. Pending(s) = {} /\ Pending(r) = {}
    BY DEF Parked, Pending, Polling, Trying
  <2>2. r \in Pending(s) \/ s \in Pending(r)
    BY DEF Inv, PendingInv, Parked
  <2>. QED  BY <2>1, <2>2
<1>. QED  BY <1>1, Invariance, PTL

(* Under the mutexes of both ends what a call tested still holds when it    *)
(* transfers, and no two transfers share an end.                            *)
THEOREM TransfersExclude == Spec => []TransferExclusive
<1>1. Inv => TransferExclusive
  <2>. SUFFICES ASSUME Inv, NEW c \in Channels, pc[c] = "transfer"
                PROVE  /\ ready[c] /\ ready[match[c]]
                       /\ \A d \in Channels \ {c} :
                            pc[d] = "transfer" =>
                              {d, match[d]} \cap {c, match[c]} = {}
    BY DEF TransferExclusive
  <2>1. mutex[c] = c /\ mutex[match[c]] = c
    BY TransferEnds
  <2>2. \A d \in Channels : pc[d] = "transfer" =>
          mutex[d] = d /\ mutex[match[d]] = d
    BY TransferEnds
  <2>. QED  BY <2>1, <2>2, TransferEnds
<1>. QED  BY <1>1, Invariance, PTL

-----------------------------------------------------------------------------
(* Acknowledgements *)

(* What the count of acknowledgements rests on: wake-ups match transfers, a *)
(* call on offer is where it can be taken, and a transfer is between a      *)
(* sender and a receiver that are on offer.  It is all that is needed of a  *)
(* net whose connections change, too.                                       *)
CallsAgree ==
  /\ pc \in [Channels -> PCs]
  /\ match \in [Channels -> Channels \cup {NULL}]
  /\ blocked \in [Channels -> {0, 1}]
  /\ WakeupMatchesTransfer
  /\ \A c \in Channels :
       /\ ready[c] => pc[c] \in Announced
       /\ pc[c] = "transfer" =>
            /\ ready[match[c]]
            /\ match[c] \in IF c \in Outs THEN Ins ELSE Outs

AcksAt(r) ==
  /\ IsFiniteSet(AckWaiters(r))
  /\ Cardinality(AckWaiters(r))
       = actually_received[r] + (IF CopyPending(r) THEN 1 ELSE 0)

AckInv ==
  /\ actually_received \in [Channels -> Nat]
  /\ \A r \in Ins : AcksAt(r)

(* While connections stay as they are, Inv says all this.                   *)
LEMMA AgreedCalls ==
  ASSUME Inv
  PROVE  CallsAgree
<1>1. \A c \in Channels : pc[c] = "transfer" =>
        ready[match[c]] /\ match[c] \in IF c \in Outs THEN Ins ELSE Outs
  BY TransferEnds DEF Channels
<1>. QED  BY <1>1 DEF Inv, TypeOK, ControlInv, ControlAt, CallsAgree

(* A receiver has a copy to make from the moment it is woken up for one.    *)
LEMMA CopiesOwed ==
  ASSUME CallsAgree, NEW r \in Ins
  PROVE  CopyPending(r) <=> pc[r] = "copy" \/ blocked[r] = 1
BY DEF CallsAgree, WakeupMatchesTransfer, CopyPending, Channels

(* Steps of other kinds.                                                    *)
LEMMA AckFrame ==
  ASSUME NEW r \in Ins, AcksAt(r), AckWaiters(r)' = AckWaiters(r),
         actually_received'[r] = actually_received[r],
         CopyPending(r)' <=> CopyPending(r)
  PROVE  AcksAt(r)'
<1>1. Cardinality(AckWaiters(r))' = Cardinality(AckWaiters(r))
  OBVIOUS
<1>. QED  BY <1>1 DEF AcksAt

(* A step that neither posts nor takes an acknowledgement or a wake-up, and *)
(* neither reaches nor leaves one of the two waits.                         *)
LEMMA AckElsewhere ==
  ASSUME CallsAgree, CallsAgree', AckInv, NEW c \in Channels,
         UNCHANGED <<actually_received, blocked>>,
         \A d \in Channels \ {c} : pc'[d] = pc[d] /\ match'[d] = match[d],
         pc[c] \notin {"wait_ack", "copy"}, pc'[c] \notin {"wait_ack", "copy"}
  PROVE  AckInv'
<1>0. actually_received' \in [Channels -> Nat]
  BY DEF AckInv
<1>. SUFFICES ASSUME NEW r \in Ins
              PROVE  AcksAt(r)'
  BY <1>0 DEF AckInv
<1>. Outs \subseteq Channels /\ r \in Channels  BY DEF Channels
<1>1. AckWaiters(r)' = AckWaiters(r)
  BY DEF AckWaiters
<1>2. CopyPending(r)' <=> pc'[r] = "copy" \/ blocked'[r] = 1
  BY DEF CallsAgree, WakeupMatchesTransfer, CopyPending
<1>3. CopyPending(r)' <=> CopyPending(r)
  BY <1>2, CopiesOwed
<1>. QED  BY <1>1, <1>3, AckFrame DEF AckInv

(* A sender hands its pointer to a receiver: one more waits, for the copy   *)
(* that the receiver now owes.                                              *)
LEMMA AckTransfer ==
  ASSUME CallsAgree, CallsAgree', AckInv, NEW s \in Outs, TransferSend(s)
  PROVE  AckInv'
<1>0. actually_received' \in [Channels -> Nat]
  BY DEF AckInv, TransferSend
<1>. SUFFICES ASSUME NEW r \in Ins
              PROVE  AcksAt(r)'
  BY <1>0 DEF AckInv
<1>. s \in Channels /\ r \in Channels /\ Outs \subseteq Channels  BY DEF Channels
<1>1. /\ pc[s] = "transfer" /\ pc' = [pc EXCEPT ![s] = "wait_ack"]
      /\ blocked' = [blocked EXCEPT ![match[s]] = @ + 1]
      /\ UNCHANGED <<match, actually_received>>
  BY DEF TransferSend, WakeUp, Goto
<1>2. s # r /\ s \notin AckWaiters(r)
  BY <1>1, ChannelsAssumption DEF AckWaiters
<1>3. CopyPending(r)' <=> pc'[r] = "copy" \/ blocked'[r] = 1
  BY DEF CallsAgree, WakeupMatchesTransfer, CopyPending
<1>4. /\ pc \in [Channels -> PCs] /\ blocked \in [Channels -> {0, 1}]
      /\ actually_received \in [Channels -> Nat]
  BY DEF CallsAgree, AckInv
<1>5. CASE match[s] = r
  <2>1. AckWaiters(r)' = AckWaiters(r) \cup {s}
    BY <1>1, <1>4, <1>5 DEF AckWaiters
  <2>2. ready[r] /\ blocked[r] = 0
    BY <1>1, <1>5 DEF CallsAgree, WakeupMatchesTransfer, Taken
  <2>3. ~ CopyPending(r) /\ CopyPending(r)'
    BY SMTT(30), <1>1, <1>2, <1>3, <1>4, <1>5, <2>2, CopiesOwed
       DEF CallsAgree, Announced, Polling, Trying
  <2>4. /\ IsFiniteSet(AckWaiters(r)')
        /\ Cardinality(AckWaiters(r)') = Cardinality(AckWaiters(r)) + 1
    BY <1>2, <2>1, FS_AddElement DEF AckInv, AcksAt
  <2>. QED  BY <1>1, <1>4, <2>3, <2>4 DEF AckInv, AcksAt
<1>6. CASE match[s] # r
  <2>1. AckWaiters(r)' = AckWaiters(r)
    BY <1>1, <1>4, <1>6 DEF AckWaiters
  <2>2. CopyPending(r)' <=> CopyPending(r)
    BY <1>1, <1>2, <1>3, <1>4, <1>6, CopiesOwed
  <2>. QED  BY <1>1, <2>1, <2>2, AckFrame DEF AckInv
<1>. QED  BY <1>5, <1>6

(* A sender takes an acknowledgement: one fewer waits.                      *)
LEMMA AckTaken ==
  ASSUME CallsAgree, CallsAgree', AckInv, NEW s \in Outs, AwaitAck(s)
  PROVE  AckInv'
<1>0. actually_received' \in [Channels -> Nat]
  <2>1. /\ actually_received \in [Channels -> Nat]
        /\ actually_received' = [actually_received EXCEPT ![match[s]] = @ - 1]
        /\ actually_received[match[s]] > 0
    BY DEF AckInv, AwaitAck, AckPosted
  <2>2. CASE match[s] \in Channels
    BY <2>1, <2>2
  <2>3. CASE match[s] \notin Channels
    BY <2>1, <2>3
  <2>. QED  BY <2>2, <2>3
<1>. SUFFICES ASSUME NEW r \in Ins
              PROVE  AcksAt(r)'
  BY <1>0 DEF AckInv
<1>. s \in Channels /\ r \in Channels /\ Outs \subseteq Channels  BY DEF Channels
<1>1. /\ pc[s] = "wait_ack" /\ pc' = [pc EXCEPT ![s] = "get_value"]
      /\ actually_received' = [actually_received EXCEPT ![match[s]] = @ - 1]
      /\ actually_received[match[s]] > 0
      /\ UNCHANGED <<match, blocked>>
  BY DEF AwaitAck, AckPosted, Goto
<1>2. /\ pc \in [Channels -> PCs] /\ actually_received \in [Channels -> Nat]
  BY DEF CallsAgree, AckInv
<1>3. CopyPending(r)' <=> pc'[r] = "copy" \/ blocked'[r] = 1
  BY DEF CallsAgree, WakeupMatchesTransfer, CopyPending
<1>4. CopyPending(r)' <=> CopyPending(r)
  BY <1>1, <1>2, <1>3, CopiesOwed, ChannelsAssumption
<1>5. CASE match[s] = r
  <2>1. AckWaiters(r)' = AckWaiters(r) \ {s} /\ s \in AckWaiters(r)
    BY <1>1, <1>2, <1>5 DEF AckWaiters
  <2>2. /\ IsFiniteSet(AckWaiters(r)')
        /\ Cardinality(AckWaiters(r)') = Cardinality(AckWaiters(r)) - 1
    BY <2>1, FS_RemoveElement DEF AckInv, AcksAt
  <2>. QED  BY <1>1, <1>2, <1>4, <1>5, <2>2 DEF AckInv, AcksAt
<1>6. CASE match[s] # r
  <2>1. AckWaiters(r)' = AckWaiters(r)
    BY <1>1, <1>2, <1>6 DEF AckWaiters
  <2>. QED  BY <1>1, <1>2, <1>4, <1>6, <2>1, AckFrame DEF AckInv
<1>. QED  BY <1>5, <1>6

(* A woken receiver copies and acknowledges: what it owed it has posted.    *)
LEMMA AckCopied ==
  ASSUME CallsAgree, CallsAgree', AckInv, NEW c \in Ins, AwaitData(c) \/ CopyData(c)
  PROVE  AckInv'
<1>0. actually_received' \in [Channels -> Nat]
  BY DEF AckInv, AwaitData, CopyData, PostAck
<1>. SUFFICES ASSUME NEW r \in Ins
              PROVE  AcksAt(r)'
  BY <1>0 DEF AckInv
<1>. c \in Channels /\ r \in Channels /\ Outs \subseteq Channels  BY DEF Channels
<1>1. /\ pc \in [Channels -> PCs] /\ actually_received \in [Channels -> Nat]
      /\ blocked \in [Channels -> {0, 1}]
      /\ match \in [Channels -> Channels \cup {NULL}]
  BY DEF CallsAgree, AckInv
<1>2. CopyPending(r)' <=> pc'[r] = "copy" \/ blocked'[r] = 1
  BY DEF CallsAgree, WakeupMatchesTransfer, CopyPending
<1>3. CASE AwaitData(c)
  <2>1. /\ pc[c] = "wait_blocked" /\ pc' = [pc EXCEPT ![c] = "copy"]
        /\ blocked' = [blocked EXCEPT ![c] = @ - 1] /\ blocked[c] > 0
        /\ UNCHANGED <<match, actually_received>>
    BY <1>3 DEF AwaitData, Goto
  <2>2. AckWaiters(r)' = AckWaiters(r)
    BY <1>1, <2>1 DEF AckWaiters
  <2>3. CopyPending(r)' <=> CopyPending(r)
    BY <1>1, <1>2, <2>1, CopiesOwed
  <2>. QED  BY <2>1, <2>2, <2>3, AckFrame DEF AckInv
<1>4. CASE CopyData(c)
  <2>1. /\ pc[c] = "copy" /\ pc' = [pc EXCEPT ![c] = "idle"]
        /\ match' = [match EXCEPT ![c] = NULL]
        /\ actually_received' = [actually_received EXCEPT ![c] = @ + 1]
        /\ UNCHANGED blocked
    BY <1>4 DEF CopyData, Return, PostAck, Goto
  <2>2. AckWaiters(r)' = AckWaiters(r)
    BY <1>1, <2>1 DEF AckWaiters
  <2>3. CASE c = r
    <3>1. CopyPending(r) /\ blocked[r] = 0
      BY <2>1, <2>3, CopiesOwed
         DEF CallsAgree, WakeupMatchesTransfer, Taken, Announced, Polling, Trying
    <3>2. ~ CopyPending(r)'
      BY <1>1, <1>2, <2>1, <2>3, <3>1
    <3>3. Cardinality(AckWaiters(r))' = Cardinality(AckWaiters(r))
      BY <2>2
    <3>. QED  BY <1>1, <2>1, <2>2, <2>3, <3>1, <3>2, <3>3 DEF AckInv, AcksAt
  <2>4. CASE c # r
    <3>1. CopyPending(r)' <=> CopyPending(r)
      BY <1>1, <1>2, <2>1, <2>4, CopiesOwed
    <3>. QED  BY <1>1, <2>1, <2>2, <2>4, <3>1, AckFrame DEF AckInv
  <2>. QED  BY <2>3, <2>4
<1>. QED  BY <1>3, <1>4

(* A wake-up that a sender is given or takes is no acknowledgement.         *)
LEMMA AckSenderWoken ==
  ASSUME CallsAgree, CallsAgree', AckInv,
         (\E c \in Ins : TransferReceive(c)) \/ (\E s \in Outs : AwaitTaken(s))
  PROVE  AckInv'
<1>0. actually_received' \in [Channels -> Nat]
  BY DEF AckInv, TransferReceive, AwaitTaken
<1>. SUFFICES ASSUME NEW r \in Ins
              PROVE  AcksAt(r)'
  BY <1>0 DEF AckInv
<1>. r \in Channels /\ Outs \subseteq Channels /\ Ins \subseteq Channels /\ r \notin Outs
  BY ChannelsAssumption DEF Channels
<1>1. /\ pc \in [Channels -> PCs] /\ blocked \in [Channels -> {0, 1}]
      /\ match \in [Channels -> Channels \cup {NULL}]
  BY DEF CallsAgree, AckInv
<1>2. CopyPending(r)' <=> pc'[r] = "copy" \/ blocked'[r] = 1
  BY DEF CallsAgree, WakeupMatchesTransfer, CopyPending
<1>3. ASSUME NEW c \in Ins, TransferReceive(c)
      PROVE  AcksAt(r)'
  <2>1. /\ pc[c] = "transfer" /\ pc' = [pc EXCEPT ![c] = "get_value"]
        /\ blocked' = [blocked EXCEPT ![match[c]] = @ + 1]
        /\ UNCHANGED <<match, actually_received>>
    BY <1>3 DEF TransferReceive, WakeUp, Goto
  <2>2. match[c] \in Outs
    BY <2>1, ChannelsAssumption DEF CallsAgree, Channels
  <2>3. AckWaiters(r)' = AckWaiters(r)
    BY <1>1, <2>1 DEF AckWaiters
  <2>4. CopyPending(r)' <=> CopyPending(r)
    BY <1>1, <1>2, <2>1, <2>2, CopiesOwed
  <2>. QED  BY <2>1, <2>3, <2>4, AckFrame DEF AckInv
<1>4. ASSUME NEW s \in Outs, AwaitTaken(s)
      PROVE  AcksAt(r)'
  <2>1. /\ pc[s] = "wait_blocked" /\ pc' = [pc EXCEPT ![s] = "idle"]
        /\ blocked' = [blocked EXCEPT ![s] = @ - 1]
        /\ match' = [match EXCEPT ![s] = NULL]
        /\ UNCHANGED actually_received
    BY <1>4 DEF AwaitTaken, Return, Goto
  <2>2. AckWaiters(r)' = AckWaiters(r)
    BY <1>1, <2>1 DEF AckWaiters
  <2>3. CopyPending(r)' <=> CopyPending(r)
    BY <1>1, <1>2, <2>1, CopiesOwed
  <2>. QED  BY <2>1, <2>2, <2>3, AckFrame DEF AckInv
<1>. QED  BY <1>3, <1>4

(* Standing still keeps the count.                                          *)
LEMMA AckStutters ==
  ASSUME AckInv, UNCHANGED <<actually_received, pc, match, ready, active>>
  PROVE  AckInv'
<1>. SUFFICES ASSUME NEW r \in Ins
              PROVE  AcksAt(r)'
  BY DEF AckInv
<1>. QED  BY AckFrame DEF AckInv, AckWaiters, CopyPending, Taken

(* A step of a call keeps acknowledgements matching the senders that wait   *)
(* for them.                                                                *)
LEMMA AckStep ==
  ASSUME CallsAgree, CallsAgree', AckInv,
         \/ \E c \in Channels : SharedStep(c)
         \/ \E s \in Outs : SendStep(s)
         \/ \E r \in Ins : ReceiveStep(r)
  PROVE  AckInv'
<1>0. pc \in [Channels -> PCs] /\ match \in [Channels -> Channels \cup {NULL}]
  BY DEF CallsAgree
<1>2. ASSUME NEW c \in Channels, SharedStep(c)
      PROVE  AckInv'
  <2>1. /\ UNCHANGED <<actually_received, blocked>>
        /\ \A d \in Channels \ {c} : pc'[d] = pc[d] /\ match'[d] = match[d]
        /\ pc[c] \notin {"wait_ack", "copy"} /\ pc'[c] \notin {"wait_ack", "copy"}
    BY <1>0, <1>2 DEF SharedStep, AwaitConnections, TakeLength, NextMatch, EndOfLoop,
       LockIn, LockOut, FindReady, FindNotReady, ReadConnsSem, RepostConnsSem, Goto,
       Return, chanVars
  <2>. QED  BY <2>1, AckElsewhere
<1>3. ASSUME NEW c \in Channels,
             \/ c \in Outs /\ (CallSend(c) \/ PublishSend(c))
             \/ c \in Ins /\ (CallReceive(c) \/ PublishReceive(c))
      PROVE  AckInv'
  <2>1. /\ UNCHANGED <<actually_received, blocked>>
        /\ \A d \in Channels \ {c} : pc'[d] = pc[d] /\ match'[d] = match[d]
        /\ pc[c] \notin {"wait_ack", "copy"} /\ pc'[c] \notin {"wait_ack", "copy"}
    BY <1>0, <1>3 DEF CallSend, PublishSend, CallReceive, PublishReceive, Goto, chanVars
  <2>. QED  BY <2>1, AckElsewhere
<1>4. ASSUME NEW s \in Outs, SendStep(s)
      PROVE  AckInv'
  BY <1>3, <1>4, AckTransfer, AckTaken, AckSenderWoken DEF SendStep, Channels
<1>5. ASSUME NEW r \in Ins, ReceiveStep(r)
      PROVE  AckInv'
  BY <1>3, <1>5, AckCopied, AckSenderWoken DEF ReceiveStep, Channels
<1>. QED  BY <1>2, <1>4, <1>5

(* Nobody waits before the first call.                                      *)
LEMMA InitAck ==
  ASSUME Init
  PROVE  AckInv
<1>. SUFFICES ASSUME NEW r \in Ins
              PROVE  AcksAt(r)
  BY DEF Init, AckInv
<1>1. AckWaiters(r) = {}
  BY DEF Init, AckWaiters, Channels
<1>2. ~ CopyPending(r)
  BY DEF Init, CopyPending, Taken, Announced, Polling, Trying, Channels
<1>. QED  BY <1>1, <1>2, FS_EmptySet DEF AcksAt, Init, Channels

(* The count of acknowledgements holds in every reachable state.            *)
LEMMA AckInvariance == Spec => []AckInv
<1>1. Init => AckInv
  BY InitAck
<1>2. Inv => CallsAgree
  BY AgreedCalls
<1>3. CallsAgree /\ CallsAgree' /\ AckInv /\ [Next]_vars => AckInv'
  <2>1. UNCHANGED vars /\ AckInv => AckInv'
    BY AckStutters DEF vars, chanVars, callVars
  <2>. QED  BY <2>1, AckStep, NextSteps
<1>. QED  BY <1>1, <1>2, <1>3, Invariance, PTL DEF Spec

(* Acknowledgements are neither lost nor invented, for any number of        *)
(* senders on a receiver: those posted and not taken and the one a receiver *)
(* owes are as many as the senders that wait for one.                       *)
THEOREM AcksConserved == Spec => []AckConservation
<1>1. AckInv => AckConservation
  BY DEF AckInv, AcksAt, AckConservation
<1>. QED  BY <1>1, AckInvariance, PTL

-----------------------------------------------------------------------------
(* The sender's variable *)

(* No receiver is connected to two senders.                                 *)
NoRivalSenders ==
  \A conns \in Topologies : \A s, t \in Outs :
    Elements(conns[s]) \cap Elements(conns[t]) # {} => s = t

Unrivalled ==
  \A s, t \in Outs, r \in Ins : Connected(s, r) /\ Connected(t, r) => s = t

HeldInv == Unrivalled /\ BufferHeld

(* The connections stay as they were made.                                  *)
LEMMA UnrivalledStep ==
  ASSUME TypeOK, Unrivalled, [Next]_vars
  PROVE  Unrivalled'
BY ListsStay DEF Unrivalled, Connected, Channels

(* While a receiver owes a copy its only sender is not acknowledged: there  *)
(* would be one acknowledgement and one copy to come, and two waiting.      *)
LEMMA NoAckBeforeCopy ==
  ASSUME Inv, AckInv, Unrivalled, NEW s \in Outs, pc[s] = "wait_ack",
         CopyPending(match[s])
  PROVE  ~ AckPosted(s)
<1>. DEFINE r == match[s]
<1>. s \in Channels  BY DEF Channels
<1>1. r \in Ins /\ Connected(s, r)
  BY MatchEnds DEF Inv, ControlInv, ControlAt, Connected
<1>2. AckWaiters(r) = {s}
  <2>1. \A t \in AckWaiters(r) : Connected(t, r)
    BY DEF AckWaiters, Channels, Inv, ControlInv, ControlAt, Connected
  <2>. QED  BY <1>1, <2>1 DEF AckWaiters, Unrivalled
<1>. HIDE DEF r
<1>3. Cardinality(AckWaiters(r)) = 1
  BY <1>2, FS_Singleton
<1>4. actually_received[r] + 1 = 1 /\ actually_received[r] \in Nat
  BY <1>1, <1>3 DEF AckInv, AcksAt, r, Inv, TypeOK, Channels
<1>. QED  BY <1>4 DEF AckPosted, r

(* A step that neither wakes a receiver nor ends the wait of a sender.      *)
LEMMA HeldFrame ==
  ASSUME Inv, Inv', BufferHeld, NEW c \in Channels, pc[c] # "wait_ack",
         pc'[c] # "copy", \A r \in Ins : buffer'[r] = buffer[r],
         \A r \in Ins : blocked'[r] = blocked[r],
         \A d \in Channels \ {c} : pc'[d] = pc[d] /\ match'[d] = match[d]
  PROVE  BufferHeld'
<1>. SUFFICES ASSUME NEW r \in Ins, CopyPending(r)'
              PROVE  (buffer[r] \in AckWaiters(r))'
  BY DEF BufferHeld
<1>. r \in Channels  BY DEF Channels
<1>1. pc'[r] = "copy" \/ blocked'[r] = 1
  BY DEF Inv, WakeupMatchesTransfer, CopyPending
<1>2. CopyPending(r)
  BY <1>1, AgreedCalls, CopiesOwed
<1>. QED  BY <1>2 DEF BufferHeld, AckWaiters, Channels

(* A step keeps the variable of the sender that a receiver was pointed to.  *)
LEMMA HeldStep ==
  ASSUME Inv, Inv', AckInv, HeldInv, [Next]_vars
  PROVE  HeldInv'
<1>0. /\ pc \in [Channels -> PCs] /\ match \in [Channels -> Channels \cup {NULL}]
      /\ blocked \in [Channels -> {0, 1}]
      /\ buffer \in [Channels -> Outs \cup {NULL}]
      /\ Outs \cap Ins = {} /\ Outs \subseteq Channels /\ Ins \subseteq Channels
  BY ChannelsAssumption DEF Inv, TypeOK, Channels
<1>. SUFFICES BufferHeld'
  BY UnrivalledStep DEF HeldInv, Inv
<1>1. CASE UNCHANGED vars
  BY <1>1 DEF HeldInv, BufferHeld, AckWaiters, CopyPending, Taken, vars, chanVars,
              callVars
<1>2. ASSUME NEW c \in Channels, SharedStep(c)
      PROVE  BufferHeld'
  <2>1. /\ UNCHANGED <<buffer, blocked>>
        /\ \A d \in Channels \ {c} : pc'[d] = pc[d] /\ match'[d] = match[d]
        /\ pc[c] # "wait_ack" /\ pc'[c] # "copy"
    BY <1>0, <1>2 DEF SharedStep, AwaitConnections, TakeLength, NextMatch, EndOfLoop,
       LockIn, LockOut, FindReady, FindNotReady, ReadConnsSem, RepostConnsSem, Goto,
       Return, chanVars
  <2>. QED  BY <2>1, HeldFrame DEF HeldInv
<1>3. ASSUME NEW s \in Outs, SendStep(s)
      PROVE  BufferHeld'
  <2>1. CASE CallSend(s) \/ PublishSend(s) \/ AwaitTaken(s)
    <3>1. /\ \A r \in Ins : buffer'[r] = buffer[r] /\ blocked'[r] = blocked[r]
          /\ \A d \in Channels \ {s} : pc'[d] = pc[d] /\ match'[d] = match[d]
          /\ pc[s] # "wait_ack" /\ pc'[s] # "copy"
      BY <1>0, <2>1 DEF CallSend, PublishSend, AwaitTaken, Return, Goto, chanVars
    <3>. QED  BY <1>0, <3>1, HeldFrame DEF HeldInv
  <2>2. CASE TransferSend(s)
    <3>1. /\ pc[s] = "transfer" /\ pc' = [pc EXCEPT ![s] = "wait_ack"]
          /\ buffer' = [buffer EXCEPT ![match[s]] = buffer[s]]
          /\ blocked' = [blocked EXCEPT ![match[s]] = @ + 1]
          /\ UNCHANGED match
      BY <2>2 DEF TransferSend, WakeUp, Goto
    <3>2. match[s] \in Ins /\ buffer[s] = s
      BY <1>0, <3>1, TransferEnds
    <3>. SUFFICES ASSUME NEW r \in Ins, CopyPending(r)'
                  PROVE  (buffer[r] \in AckWaiters(r))'
      BY DEF BufferHeld
    <3>3. CASE r = match[s]
      BY <1>0, <3>1, <3>2, <3>3 DEF AckWaiters
    <3>4. CASE r # match[s]
      <4>1. pc'[r] = "copy" \/ blocked'[r] = 1
        BY <1>0 DEF Inv, WakeupMatchesTransfer, CopyPending
      <4>2. CopyPending(r)
        BY <1>0, <3>1, <3>2, <3>4, <4>1, AgreedCalls, CopiesOwed
      <4>. QED  BY <1>0, <3>1, <3>2, <3>4, <4>2 DEF HeldInv, BufferHeld, AckWaiters
    <3>. QED  BY <3>3, <3>4
  <2>3. CASE AwaitAck(s)
    <3>1. /\ pc[s] = "wait_ack" /\ pc' = [pc EXCEPT ![s] = "get_value"]
          /\ AckPosted(s) /\ UNCHANGED <<buffer, blocked, match>>
      BY <2>3 DEF AwaitAck, Goto
    <3>2. ~ CopyPending(match[s])
      BY <3>1, NoAckBeforeCopy DEF HeldInv
    <3>. SUFFICES ASSUME NEW r \in Ins, CopyPending(r)'
                  PROVE  (buffer[r] \in AckWaiters(r))'
      BY DEF BufferHeld
    <3>3. pc'[r] = "copy" \/ blocked'[r] = 1
      BY <1>0 DEF Inv, WakeupMatchesTransfer, CopyPending
    <3>4. CopyPending(r)
      BY <1>0, <3>1, <3>3, AgreedCalls, CopiesOwed
    <3>. QED  BY <1>0, <3>1, <3>2, <3>4 DEF HeldInv, BufferHeld, AckWaiters
  <2>. QED  BY <1>3, <2>1, <2>2, <2>3 DEF SendStep
<1>4. ASSUME NEW r \in Ins, ReceiveStep(r)
      PROVE  BufferHeld'
  <2>1. CASE CallReceive(r) \/ PublishReceive(r) \/ CopyData(r)
    <3>1. /\ \A q \in Ins : buffer'[q] = buffer[q] /\ blocked'[q] = blocked[q]
          /\ \A d \in Channels \ {r} : pc'[d] = pc[d] /\ match'[d] = match[d]
          /\ pc[r] # "wait_ack" /\ pc'[r] # "copy"
      BY <1>0, <2>1 DEF CallReceive, PublishReceive, CopyData, Return, Goto, chanVars
    <3>. QED  BY <1>0, <3>1, HeldFrame DEF HeldInv
  <2>2. CASE TransferReceive(r)
    <3>1. /\ pc[r] = "transfer" /\ pc' = [pc EXCEPT ![r] = "get_value"]
          /\ buffer' = [buffer EXCEPT ![r] = buffer[match[r]]]
          /\ blocked' = [blocked EXCEPT ![match[r]] = @ + 1]
          /\ active' = [active EXCEPT ![r] = TRUE]
          /\ UNCHANGED match
      BY <2>2 DEF TransferReceive, WakeUp, Goto
    <3>2. match[r] \in Outs
      BY <1>0, <3>1, TransferEnds
    <3>3. ~ CopyPending(r)'
      BY <1>0, <3>1 DEF CopyPending, Taken, Inv, TypeOK
    <3>. SUFFICES ASSUME NEW q \in Ins, CopyPending(q)'
                  PROVE  (buffer[q] \in AckWaiters(q))'
      BY DEF BufferHeld
    <3>4. pc'[q] = "copy" \/ blocked'[q] = 1
      BY <1>0 DEF Inv, WakeupMatchesTransfer, CopyPending
    <3>5. CopyPending(q) /\ q # r
      BY <1>0, <3>1, <3>2, <3>3, <3>4, AgreedCalls, CopiesOwed
    <3>. QED  BY <1>0, <3>1, <3>5 DEF HeldInv, BufferHeld, AckWaiters
  <2>3. CASE AwaitData(r)
    <3>1. /\ pc[r] = "wait_blocked" /\ pc' = [pc EXCEPT ![r] = "copy"]
          /\ blocked' = [blocked EXCEPT ![r] = @ - 1] /\ blocked[r] > 0
          /\ UNCHANGED <<match, buffer>>
      BY <2>3 DEF AwaitData, Goto
    <3>. SUFFICES ASSUME NEW q \in Ins, CopyPending(q)'
                  PROVE  (buffer[q] \in AckWaiters(q))'
      BY DEF BufferHeld
    <3>2. pc'[q] = "copy" \/ blocked'[q] = 1
      BY <1>0 DEF Inv, WakeupMatchesTransfer, CopyPending
    <3>3. CopyPending(q)
      BY <1>0, <3>1, <3>2, AgreedCalls, CopiesOwed
    <3>. QED  BY <1>0, <3>1, <3>3 DEF HeldInv, BufferHeld, AckWaiters
  <2>. QED  BY <1>4, <2>1, <2>2, <2>3 DEF ReceiveStep
<1>. QED  BY <1>1, <1>2, <1>3, <1>4, NextSteps

(* Nobody owes a copy before the first call.                                *)
LEMMA InitHeld ==
  ASSUME NoRivalSenders, Init
  PROVE  HeldInv
<1>1. Unrivalled
  BY DEF Init, Unrivalled, NoRivalSenders, Connected
<1>2. BufferHeld
  BY DEF Init, BufferHeld, CopyPending, Taken, Announced, Polling, Trying, Channels
<1>. QED  BY <1>1, <1>2 DEF HeldInv

(* Held through any history, together with the invariants it rests on.      *)
LEMMA HeldInvariance ==
  ASSUME NoRivalSenders
  PROVE  Spec => [](Inv /\ AckInv /\ HeldInv)
<1>1. Init => HeldInv
  BY InitHeld
<1>2. Inv /\ Inv' /\ AckInv /\ HeldInv /\ [Next]_vars => HeldInv'
  BY HeldStep
<1>. QED  BY <1>1, <1>2, Invariance, AckInvariance, PTL DEF Spec

(* Where no receiver has two senders, a sender does not get its variable    *)
(* back before the receiver that was pointed to it has copied it: the       *)
(* acknowledgement it waits for cannot be one for another sender's copy.    *)
THEOREM BuffersHeld == ASSUME NoRivalSenders PROVE Spec => []BufferHeld
<1>1. Inv /\ AckInv /\ HeldInv => BufferHeld
  BY DEF HeldInv
<1>. QED  BY <1>1, HeldInvariance, PTL

-----------------------------------------------------------------------------
(* The synchronous channel *)

StatusOf(c) ==
  IF pc[c] = "idle" THEN "idle" ELSE IF Waiting(c) THEN "waiting" ELSE "matched"

ItemOf(c) ==
  IF c \in Ins /\ CopyPending(c) THEN data[buffer[c]] ELSE data[c]

(* What the abstract channel sees of a half-channel.                        *)
LEMMA BarsOf ==
  /\ StatusBar = [c \in Channels |-> StatusOf(c)]
  /\ ItemBar = [c \in Channels |-> ItemOf(c)]
  /\ StatusBar' = [c \in Channels |-> StatusOf(c)']
  /\ ItemBar' = [c \in Channels |-> ItemOf(c)']
BY DEF StatusBar, ItemBar, StatusOf, ItemOf

Seen(c) == <<StatusOf(c), ItemOf(c)>>

(* A step that changes only what is seen of c.                              *)
OnlySeenAt(c) == \A d \in Channels \ {c} : UNCHANGED Seen(d)

(* A step that nothing is seen of is a stutter.                             *)
LEMMA StutterSeen ==
  ASSUME UNCHANGED LinksBar, \A c \in Channels : UNCHANGED Seen(c)
  PROVE  UNCHANGED Sync!vars
<1>1. \A c \in Channels : StatusOf(c)' = StatusOf(c) /\ ItemOf(c)' = ItemOf(c)
  BY DEF Seen
<1>2. StatusBar' = StatusBar /\ ItemBar' = ItemBar
  BY <1>1, BarsOf
<1>. QED  BY <1>2 DEF Sync!vars

(* A sender calls.                                                          *)
LEMMA OfferSeen ==
  ASSUME UNCHANGED LinksBar, NEW s \in Outs, OnlySeenAt(s), NEW v \in Values,
         StatusOf(s) = "idle", StatusOf(s)' = "waiting", ItemOf(s)' = v
  PROVE  Sync!Next
<1>. s \in Channels  BY DEF Channels
<1>1. \A c \in Channels \ {s} : StatusOf(c)' = StatusOf(c) /\ ItemOf(c)' = ItemOf(c)
  BY DEF OnlySeenAt, Seen
<1>2. StatusBar[s] = "idle" /\ StatusBar' = [StatusBar EXCEPT ![s] = "waiting"]
  BY <1>1, BarsOf
<1>3. ItemBar' = [ItemBar EXCEPT ![s] = v]
  BY <1>1, BarsOf
<1>. QED  BY <1>2, <1>3 DEF Sync!Next, Sync!Offer

(* A receiver calls.                                                        *)
LEMMA AskSeen ==
  ASSUME UNCHANGED LinksBar, NEW r \in Ins, OnlySeenAt(r),
         StatusOf(r) = "idle", StatusOf(r)' = "waiting", ItemOf(r)' = NULL
  PROVE  Sync!Next
<1>. r \in Channels  BY DEF Channels
<1>1. \A c \in Channels \ {r} : StatusOf(c)' = StatusOf(c) /\ ItemOf(c)' = ItemOf(c)
  BY DEF OnlySeenAt, Seen
<1>2. StatusBar[r] = "idle" /\ StatusBar' = [StatusBar EXCEPT ![r] = "waiting"]
  BY <1>1, BarsOf
<1>3. ItemBar' = [ItemBar EXCEPT ![r] = NULL]
  BY <1>1, BarsOf
<1>. QED  BY <1>2, <1>3 DEF Sync!Next, Sync!Ask

(* A call returns.                                                          *)
LEMMA ReturnSeen ==
  ASSUME UNCHANGED LinksBar, NEW c \in Channels, OnlySeenAt(c),
         StatusOf(c) = "matched", StatusOf(c)' = "idle", ItemOf(c)' = ItemOf(c)
  PROVE  Sync!Next
<1>1. \A d \in Channels \ {c} : StatusOf(d)' = StatusOf(d) /\ ItemOf(d)' = ItemOf(d)
  BY DEF OnlySeenAt, Seen
<1>2. StatusBar[c] = "matched" /\ StatusBar' = [StatusBar EXCEPT ![c] = "idle"]
  BY <1>1, BarsOf
<1>3. ItemBar' = ItemBar
  BY <1>1, BarsOf
<1>. QED  BY <1>2, <1>3 DEF Sync!Next, Sync!Return, Channels

(* A transfer is made, by either end.                                       *)
LEMMA TransferSeen ==
  ASSUME UNCHANGED LinksBar, NEW s \in Outs, NEW r \in Ins, Connected(s, r),
         \A c \in Channels \ {s, r} : UNCHANGED Seen(c),
         StatusOf(s) = "waiting", StatusOf(s)' = "matched", ItemOf(s)' = ItemOf(s),
         StatusOf(r) = "waiting", StatusOf(r)' = "matched", ItemOf(r)' = ItemOf(s)
  PROVE  Sync!Next
<1>. s \in Channels /\ r \in Channels /\ s # r
  BY ChannelsAssumption DEF Channels
<1>1. \A c \in Channels \ {s, r} :
        StatusOf(c)' = StatusOf(c) /\ ItemOf(c)' = ItemOf(c)
  BY DEF Seen
<1>2. /\ StatusBar[s] = "waiting" /\ StatusBar[r] = "waiting"
      /\ StatusBar' = [StatusBar EXCEPT ![s] = "matched", ![r] = "matched"]
  BY <1>1, BarsOf
<1>3. ItemBar' = [ItemBar EXCEPT ![r] = ItemBar[s]]
  BY <1>1, BarsOf
<1>4. <<s, r>> \in LinksBar
  BY DEF LinksBar
<1>. QED  BY <1>2, <1>3, <1>4 DEF Sync!Next, Sync!Transfer

(* The connections stay, so the abstract links do.                          *)
LEMMA LinksStay ==
  ASSUME TypeOK, [Next]_vars
  PROVE  UNCHANGED LinksBar
<1>1. \A s \in Outs : Elements(connections'[s]) = Elements(connections[s])
  BY ListsStay DEF Channels
<1>. QED  BY <1>1 DEF LinksBar, Connected

(* A call on offer, or taken out of it, is not idle.                        *)
LEMMA SeenStatus ==
  ASSUME Inv, NEW c \in Channels
  PROVE  /\ ready[c] => StatusOf(c) = "waiting"
         /\ blocked[c] = 1 => StatusOf(c) = "matched"
         /\ active[c] => StatusOf(c) = "matched"
         /\ pc[c] = "copy" => StatusOf(c) = "matched"
<1>1. /\ ready[c] => pc[c] \in Announced /\ ~active[c]
      /\ active[c] => pc[c] \in {"wait_ack", "get_value", "post_conns"}
      /\ blocked[c] = 1 => pc[c] \in Announced /\ ~ready[c]
  BY DEF Inv, ControlInv, ControlAt, WakeupMatchesTransfer, Taken
<1>. QED  BY <1>1 DEF StatusOf, Waiting, Announced, Polling, Trying

(* What is seen of a half-channel whose call and variable a step leaves.    *)
LEMMA SeenFrame ==
  ASSUME Inv, Inv', NEW d \in Channels, UNCHANGED <<pc[d], ready[d], data[d]>>,
         d \in Ins => UNCHANGED blocked[d],
         d \in Ins /\ CopyPending(d) =>
           buffer'[d] = buffer[d] /\ data'[buffer[d]] = data[buffer[d]]
  PROVE  UNCHANGED Seen(d)
<1>1. StatusOf(d)' = StatusOf(d)
  BY DEF StatusOf, Waiting
<1>2. d \in Ins => (CopyPending(d)' <=> CopyPending(d))
  <2>. SUFFICES ASSUME d \in Ins
                PROVE  CopyPending(d)' <=> CopyPending(d)
    OBVIOUS
  <2>1. CopyPending(d)' <=> pc'[d] = "copy" \/ blocked'[d] = 1
    BY DEF Inv, WakeupMatchesTransfer, CopyPending
  <2>. QED  BY <2>1, AgreedCalls, CopiesOwed
<1>3. ItemOf(d)' = ItemOf(d)
  BY <1>2 DEF ItemOf
<1>. QED  BY <1>1, <1>3 DEF Seen

(* The steps of polling and waiting are not seen, but for the return of a   *)
(* call that made the transfer itself.                                      *)
LEMMA SharedSeen ==
  ASSUME Inv, Inv', UNCHANGED LinksBar, NEW c \in Channels, SharedStep(c)
  PROVE  Sync!Next \/ UNCHANGED Sync!vars
<1>0. /\ pc \in [Channels -> PCs] /\ ready \in [Channels -> BOOLEAN]
      /\ active \in [Channels -> BOOLEAN]
  BY DEF Inv, TypeOK
<1>1. /\ UNCHANGED <<ready, blocked, data, buffer>>
      /\ \A d \in Channels \ {c} : pc'[d] = pc[d]
  BY <1>0 DEF SharedStep, AwaitConnections, TakeLength, NextMatch, EndOfLoop,
     LockIn, LockOut, FindReady, FindNotReady, ReadConnsSem, RepostConnsSem, Goto,
     Return, chanVars
<1>2. OnlySeenAt(c)
  BY <1>1, SeenFrame DEF OnlySeenAt
<1>3. pc[c] # "copy" /\ pc'[c] # "copy"
  BY <1>0 DEF SharedStep, AwaitConnections, TakeLength, NextMatch, EndOfLoop,
     LockIn, LockOut, FindReady, FindNotReady, ReadConnsSem, RepostConnsSem, Goto,
     Return
<1>4. ItemOf(c)' = ItemOf(c)
  <2>1. c \in Ins => (CopyPending(c)' <=> pc'[c] = "copy" \/ blocked'[c] = 1)
    BY DEF Inv, WakeupMatchesTransfer, CopyPending
  <2>. QED  BY <1>1, <1>3, <2>1, AgreedCalls, CopiesOwed DEF ItemOf
<1>5. CASE RepostConnsSem(c) /\ active[c]
  <2>1. StatusOf(c) = "matched"
    BY <1>5, SeenStatus
  <2>2. StatusOf(c)' = "idle"
    BY <1>0, <1>5 DEF RepostConnsSem, Return, Goto, StatusOf
  <2>. QED  BY <1>2, <1>4, <2>1, <2>2, ReturnSeen
<1>6. CASE ~ (RepostConnsSem(c) /\ active[c])
  <2>1. \/ pc[c] = "wait_conns" /\ pc'[c] = "publish"
        \/ /\ pc[c] \notin {"idle", "wait_conns", "publish"}
           /\ pc'[c] \notin {"idle", "wait_conns", "publish"}
    BY <1>0, <1>6 DEF SharedStep, AwaitConnections, TakeLength, NextMatch, EndOfLoop,
       LockIn, LockOut, FindReady, FindNotReady, ReadConnsSem, RepostConnsSem, Goto
  <2>2. StatusOf(c)' = StatusOf(c)
    BY <1>1, <2>1 DEF StatusOf, Waiting
  <2>3. \A d \in Channels : UNCHANGED Seen(d)
    BY <1>2, <1>4, <2>2 DEF OnlySeenAt, Seen
  <2>. QED  BY <2>3, StutterSeen
<1>. QED  BY <1>5, <1>6

(* A receiver that owes a copy keeps what it is to copy: its sender waits,  *)
(* so that neither it nor a receiver is the one that changes the variable.  *)
LEMMA CopyKept ==
  ASSUME HeldInv, NEW c \in Channels, pc[c] # "wait_ack",
         \A d \in Channels \ {c} : data'[d] = data[d],
         NEW r \in Ins, CopyPending(r)
  PROVE  data'[buffer[r]] = data[buffer[r]]
BY DEF HeldInv, BufferHeld, AckWaiters, Channels

(* The steps of a sender are a step of the abstract channel or not seen.    *)
LEMMA SendSeen ==
  ASSUME Inv, Inv', HeldInv, UNCHANGED LinksBar, NEW s \in Outs, SendStep(s)
  PROVE  Sync!Next \/ UNCHANGED Sync!vars
<1>0. /\ pc \in [Channels -> PCs] /\ ready \in [Channels -> BOOLEAN]
      /\ buffer \in [Channels -> Outs \cup {NULL}]
      /\ blocked \in [Channels -> {0, 1}]
      /\ data \in [Channels -> Values \cup {NULL}]
  BY DEF Inv, TypeOK
<1>. s \in Channels /\ s \notin Ins /\ Ins \subseteq Channels
  BY ChannelsAssumption DEF Channels
<1>1. CASE CallSend(s)
  <2>1. PICK v \in Values : data' = [data EXCEPT ![s] = v]
    BY <1>1 DEF CallSend
  <2>2. /\ pc[s] = "idle" /\ pc' = [pc EXCEPT ![s] = "wait_conns"]
        /\ UNCHANGED <<ready, blocked, buffer>>
    BY <1>1 DEF CallSend, Goto, chanVars
  <2>3. OnlySeenAt(s)
    <3>. SUFFICES ASSUME NEW d \in Channels \ {s}
                  PROVE  UNCHANGED Seen(d)
      BY DEF OnlySeenAt
    <3>1. d \in Ins /\ CopyPending(d) => data'[buffer[d]] = data[buffer[d]]
      BY <1>0, <2>1, <2>2, CopyKept
    <3>2. UNCHANGED <<pc[d], ready[d], data[d], blocked[d], buffer[d]>>
      BY <1>0, <2>1, <2>2
    <3>. QED  BY <3>1, <3>2, SeenFrame
  <2>4. StatusOf(s) = "idle" /\ StatusOf(s)' = "waiting"
    BY <1>0, <2>2 DEF StatusOf, Waiting
  <2>5. ItemOf(s)' = v
    BY <1>0, <2>1 DEF ItemOf
  <2>. QED  BY <2>3, <2>4, <2>5, OfferSeen
<1>2. CASE PublishSend(s)
  <2>1. /\ pc[s] = "publish" /\ pc' = [pc EXCEPT ![s] = "get_length"]
        /\ ready' = [ready EXCEPT ![s] = TRUE]
        /\ buffer' = [buffer EXCEPT ![s] = s] /\ UNCHANGED <<blocked, data>>
    BY <1>2 DEF PublishSend, Goto
  <2>2. OnlySeenAt(s)
    BY <1>0, <2>1, SeenFrame DEF OnlySeenAt
  <2>3. StatusOf(s)' = StatusOf(s) /\ ItemOf(s)' = ItemOf(s)
    BY <1>0, <2>1 DEF StatusOf, ItemOf, Waiting
  <2>. QED  BY <2>2, <2>3, StutterSeen DEF OnlySeenAt, Seen
<1>3. CASE TransferSend(s)
  <2>0. PICK r \in Ins : r = match[s]
    BY <1>3, TransferEnds DEF TransferSend
  <2>1. /\ pc[s] = "transfer" /\ pc' = [pc EXCEPT ![s] = "wait_ack"]
        /\ ready' = [ready EXCEPT ![r] = FALSE, ![s] = FALSE]
        /\ buffer' = [buffer EXCEPT ![r] = buffer[s]]
        /\ blocked' = [blocked EXCEPT ![r] = @ + 1] /\ UNCHANGED data
    BY <1>3, <2>0 DEF TransferSend, BothWithdrawn, WakeUp, Goto
  <2>2. /\ r # s /\ ready[s] /\ ready[r] /\ blocked[r] = 0
        /\ buffer[s] = s
    BY <2>0, <2>1, TransferEnds
  <2>3. Connected(s, r)
    BY <2>0, <2>1 DEF Inv, ControlInv, ControlAt, Connected, Trying
  <2>4. \A d \in Channels \ {s, r} : UNCHANGED Seen(d)
    BY <1>0, <2>1, <2>2, SeenFrame
  <2>5. StatusOf(s) = "waiting" /\ StatusOf(r) = "waiting"
    BY <2>2, SeenStatus
  <2>6. StatusOf(s)' = "matched" /\ ItemOf(s)' = ItemOf(s)
    BY <1>0, <2>1, <2>2 DEF StatusOf, Waiting, ItemOf
  <2>7. blocked'[r] = 1
    BY <1>0, <2>1, <2>2
  <2>8. CopyPending(r)' /\ StatusOf(r)' = "matched"
    <3>1. (CopyPending(r) /\ pc[r] \in Announced /\ ~ready[r])'
      BY <2>2, <2>7 DEF Inv, WakeupMatchesTransfer, CopyPending, Taken
    <3>. QED  BY <3>1 DEF StatusOf, Waiting, Announced, Polling, Trying
  <2>9. ItemOf(r)' = ItemOf(s)
    BY <1>0, <2>1, <2>2, <2>8 DEF ItemOf
  <2>. QED  BY <2>2, <2>3, <2>4, <2>5, <2>6, <2>8, <2>9, TransferSeen
<1>4. CASE AwaitAck(s)
  <2>1. /\ pc[s] = "wait_ack" /\ pc' = [pc EXCEPT ![s] = "get_value"]
        /\ UNCHANGED <<ready, buffer, blocked, data>>
    BY <1>4 DEF AwaitAck, Goto
  <2>2. OnlySeenAt(s)
    BY <1>0, <2>1, SeenFrame DEF OnlySeenAt
  <2>3. StatusOf(s)' = StatusOf(s) /\ ItemOf(s)' = ItemOf(s)
    BY <1>0, <2>1 DEF StatusOf, ItemOf, Waiting
  <2>. QED  BY <2>2, <2>3, StutterSeen DEF OnlySeenAt, Seen
<1>5. CASE AwaitTaken(s)
  <2>1. /\ pc[s] = "wait_blocked" /\ pc' = [pc EXCEPT ![s] = "idle"]
        /\ blocked[s] = 1 /\ blocked' = [blocked EXCEPT ![s] = @ - 1]
        /\ UNCHANGED <<ready, buffer, data>>
    BY <1>0, <1>5 DEF AwaitTaken, Return, Goto
  <2>2. OnlySeenAt(s)
    BY <1>0, <2>1, SeenFrame DEF OnlySeenAt
  <2>3. StatusOf(s) = "matched"
    BY <2>1, SeenStatus
  <2>4. StatusOf(s)' = "idle" /\ ItemOf(s)' = ItemOf(s)
    BY <1>0, <2>1 DEF StatusOf, ItemOf
  <2>. QED  BY <2>2, <2>3, <2>4, ReturnSeen
<1>. QED  BY <1>1, <1>2, <1>3, <1>4, <1>5 DEF SendStep

(* So are the steps of a receiver.                                          *)
LEMMA ReceiveSeen ==
  ASSUME Inv, Inv', HeldInv, UNCHANGED LinksBar, NEW r \in Ins, ReceiveStep(r)
  PROVE  Sync!Next \/ UNCHANGED Sync!vars
<1>0. /\ pc \in [Channels -> PCs] /\ ready \in [Channels -> BOOLEAN]
      /\ buffer \in [Channels -> Outs \cup {NULL}]
      /\ blocked \in [Channels -> {0, 1}]
      /\ active \in [Channels -> BOOLEAN]
      /\ data \in [Channels -> Values \cup {NULL}]
  BY DEF Inv, TypeOK
<1>. r \in Channels /\ r \notin Outs /\ Outs \subseteq Channels /\ Ins \subseteq Channels
  BY ChannelsAssumption DEF Channels
<1>. DEFINE Owed(d) == pc[d] = "copy" \/ blocked[d] = 1
<1>6. (CopyPending(r) <=> Owed(r)) /\ (CopyPending(r)' <=> Owed(r)')
  BY AgreedCalls, CopiesOwed DEF Inv, WakeupMatchesTransfer, CopyPending
<1>1. CASE CallReceive(r)
  <2>1. /\ pc[r] = "idle" /\ pc' = [pc EXCEPT ![r] = "wait_conns"]
        /\ data' = [data EXCEPT ![r] = NULL]
        /\ UNCHANGED <<ready, blocked, buffer>>
    BY <1>1 DEF CallReceive, Goto, chanVars
  <2>2. blocked[r] = 0
    BY <2>1 DEF Inv, WakeupMatchesTransfer, Taken, Announced, Polling, Trying
  <2>3. OnlySeenAt(r)
    <3>. SUFFICES ASSUME NEW d \in Channels \ {r}
                  PROVE  UNCHANGED Seen(d)
      BY DEF OnlySeenAt
    <3>1. d \in Ins /\ CopyPending(d) => data'[buffer[d]] = data[buffer[d]]
      BY <1>0, <2>1, CopyKept
    <3>2. UNCHANGED <<pc[d], ready[d], data[d], blocked[d], buffer[d]>>
      BY <1>0, <2>1
    <3>. QED  BY <3>1, <3>2, SeenFrame
  <2>4. StatusOf(r) = "idle" /\ StatusOf(r)' = "waiting"
    BY <1>0, <2>1 DEF StatusOf, Waiting
  <2>5. ItemOf(r)' = NULL
    BY <1>0, <1>6, <2>1, <2>2 DEF ItemOf
  <2>. QED  BY <2>3, <2>4, <2>5, AskSeen
<1>2. CASE PublishReceive(r)
  <2>1. /\ pc[r] = "publish" /\ pc' = [pc EXCEPT ![r] = "get_length"]
        /\ ready' = [ready EXCEPT ![r] = TRUE]
        /\ UNCHANGED <<blocked, data, buffer>>
    BY <1>2 DEF PublishReceive, Goto
  <2>2. OnlySeenAt(r)
    BY <1>0, <2>1, SeenFrame DEF OnlySeenAt
  <2>3. StatusOf(r)' = StatusOf(r) /\ ItemOf(r)' = ItemOf(r)
    BY <1>0, <1>6, <2>1 DEF StatusOf, ItemOf, Waiting
  <2>. QED  BY <2>2, <2>3, StutterSeen DEF OnlySeenAt, Seen
<1>3. CASE TransferReceive(r)
  <2>0. PICK s \in Outs : s = match[r]
    BY <1>3, TransferEnds DEF TransferReceive
  <2>1. /\ pc[r] = "transfer" /\ pc' = [pc EXCEPT ![r] = "get_value"]
        /\ ready' = [ready EXCEPT ![s] = FALSE, ![r] = FALSE]
        /\ buffer' = [buffer EXCEPT ![r] = buffer[s]]
        /\ data' = [data EXCEPT ![r] = data[buffer[s]]]
        /\ active' = [active EXCEPT ![r] = TRUE]
        /\ blocked' = [blocked EXCEPT ![s] = @ + 1]
    BY <1>3, <2>0 DEF TransferReceive, BothWithdrawn, WakeUp, Goto
  <2>2. /\ r # s /\ ready[s] /\ ready[r] /\ blocked[s] = 0
        /\ buffer[s] = s
    BY <2>0, <2>1, TransferEnds
  <2>3. Connected(s, r)
    <3>1. match[r] \in Elements(connections[r])
      BY <2>1 DEF Inv, ControlInv, ControlAt, Trying
    <3>. QED  BY <2>0, <3>1, ConnectionEnds DEF Connected, Inv
  <2>4. \A d \in Channels \ {s, r} : UNCHANGED Seen(d)
    <3>. SUFFICES ASSUME NEW d \in Channels \ {s, r}
                  PROVE  UNCHANGED Seen(d)
      OBVIOUS
    <3>1. d \in Ins /\ CopyPending(d) => data'[buffer[d]] = data[buffer[d]]
      BY <1>0, <2>1, CopyKept
    <3>2. UNCHANGED <<pc[d], ready[d], data[d], blocked[d], buffer[d]>>
      BY <1>0, <2>1, <2>2
    <3>. QED  BY <3>1, <3>2, SeenFrame
  <2>5. StatusOf(s) = "waiting" /\ StatusOf(r) = "waiting"
    BY <2>2, SeenStatus
  <2>6. StatusOf(r)' = "matched"
    BY <1>0, <2>1, <2>2 DEF StatusOf, Waiting
  <2>7. StatusOf(s)' = "matched"
    <3>1. pc'[s] = pc[s] /\ ~ready'[s] /\ pc[s] \in Announced
      BY <1>0, <2>1, <2>2 DEF Inv, ControlInv, ControlAt
    <3>. QED  BY <3>1 DEF StatusOf, Waiting, Announced, Polling, Trying
  <2>8. ItemOf(s)' = ItemOf(s) /\ ItemOf(s) = data[s]
    BY <1>0, <2>1, <2>2, ChannelsAssumption DEF ItemOf
  <2>9. ~ CopyPending(r)'
    BY <1>0, <2>1 DEF CopyPending, Taken
  <2>10. ItemOf(r)' = ItemOf(s)
    BY <1>0, <2>1, <2>2, <2>8, <2>9 DEF ItemOf
  <2>. QED  BY <2>2, <2>3, <2>4, <2>5, <2>6, <2>7, <2>8, <2>10, TransferSeen
<1>4. CASE AwaitData(r)
  <2>1. /\ pc[r] = "wait_blocked" /\ pc' = [pc EXCEPT ![r] = "copy"]
        /\ blocked[r] = 1 /\ blocked' = [blocked EXCEPT ![r] = @ - 1]
        /\ UNCHANGED <<ready, buffer, data>>
    BY <1>0, <1>4 DEF AwaitData, Goto
  <2>2. OnlySeenAt(r)
    BY <1>0, <2>1, SeenFrame DEF OnlySeenAt
  <2>3. StatusOf(r)' = StatusOf(r)
    BY <1>0, <2>1 DEF StatusOf, Waiting
  <2>4. ItemOf(r)' = ItemOf(r)
    BY <1>0, <1>6, <2>1 DEF ItemOf
  <2>. QED  BY <2>2, <2>3, <2>4, StutterSeen DEF OnlySeenAt, Seen
<1>5. CASE CopyData(r)
  <2>1. /\ pc[r] = "copy" /\ pc' = [pc EXCEPT ![r] = "idle"]
        /\ data' = [data EXCEPT ![r] = data[buffer[r]]]
        /\ UNCHANGED <<ready, buffer, blocked>>
    BY <1>5 DEF CopyData, Return, Goto
  <2>2. blocked[r] = 0
    BY <2>1 DEF Inv, WakeupMatchesTransfer, Taken, Announced, Polling, Trying
  <2>3. OnlySeenAt(r)
    <3>. SUFFICES ASSUME NEW d \in Channels \ {r}
                  PROVE  UNCHANGED Seen(d)
      BY DEF OnlySeenAt
    <3>1. d \in Ins /\ CopyPending(d) => data'[buffer[d]] = data[buffer[d]]
      BY <1>0, <2>1, CopyKept
    <3>2. UNCHANGED <<pc[d], ready[d], data[d], blocked[d], buffer[d]>>
      BY <1>0, <2>1
    <3>. QED  BY <3>1, <3>2, SeenFrame
  <2>4. StatusOf(r) = "matched"
    BY <2>1, SeenStatus
  <2>5. StatusOf(r)' = "idle"
    BY <1>0, <2>1 DEF StatusOf
  <2>6. ItemOf(r)' = ItemOf(r)
    BY <1>0, <1>6, <2>1, <2>2 DEF ItemOf
  <2>. QED  BY <2>3, <2>4, <2>5, <2>6, ReturnSeen
<1>. QED  BY <1>1, <1>2, <1>3, <1>4, <1>5 DEF ReceiveStep

(* Sends and receives implement a synchronous channel, in any net whose     *)
(* connections stay as they are and in which no receiver has two senders:   *)
(* however the threads interleave, a transfer takes a waiting sender and a  *)
(* waiting receiver that are connected at once, the receiver ends up with   *)
(* the value its sender offered, and nobody returns from a call that was    *)
(* not matched.                                                             *)
THEOREM TransfersSynchronous ==
  ASSUME NoRivalSenders PROVE Spec => SynchronousTransfer
<1>1. Init => Sync!Init
  <2>. SUFFICES ASSUME Init
                PROVE  Sync!Init
    OBVIOUS
  <2>1. StatusBar = [c \in Outs \cup Ins |-> "idle"]
    BY DEF Init, StatusBar, Channels
  <2>2. \A c \in Channels : ItemOf(c) = NULL
    BY DEF Init, ItemOf, CopyPending, Taken, Announced, Polling, Trying, Channels
  <2>3. ItemBar = [c \in Outs \cup Ins |-> NULL]
    BY <2>2, BarsOf DEF Channels
  <2>. QED  BY <2>1, <2>3 DEF Sync!Init, LinksBar
<1>2. /\ Inv /\ AckInv /\ HeldInv
      /\ (Inv /\ AckInv /\ HeldInv)'
      /\ [Next]_vars
      => [Sync!Next]_(Sync!vars)
  <2>. SUFFICES ASSUME Inv, Inv', HeldInv, [Next]_vars
                PROVE  Sync!Next \/ UNCHANGED Sync!vars
    OBVIOUS
  <2>1. UNCHANGED LinksBar
    BY LinksStay DEF Inv
  <2>2. CASE UNCHANGED vars
    <3>1. \A c \in Channels : UNCHANGED Seen(c)
      BY <2>2, SeenFrame DEF vars, chanVars, callVars
    <3>. QED  BY <2>1, <3>1, StutterSeen
  <2>. QED  BY <2>1, <2>2, SharedSeen, SendSeen, ReceiveSeen, NextSteps
<1>. QED  BY <1>1, <1>2, HeldInvariance, PTL DEF Spec, SynchronousTransfer, Sync!Spec
-----------------------------------------------------------------------------
(* Standstill *)

(* The call that has a mutex is between taking it and releasing it.         *)
OwnerAt(h, o) ==
  \/ pc[o] = "lock_out" /\ h = InEnd(o)
  \/ pc[o] \in {"test", "transfer"} /\ h \in {o, match[o]}

Owned == \A h \in Channels : mutex[h] \in Channels => OwnerAt(h, mutex[h])

(* A call has conns_sem from its first wait until it posts it again.        *)
Holding == PCs \ {"idle", "wait_conns", "wait_blocked", "copy"}

SemsInv ==
  \A c \in Channels :
    ~ isEmpty(connections[c]) /\ pc[c] \notin Holding => conns_sem[c] = 1

StandInv == Owned /\ SemsInv

(* The call on c can make its next step: it waits for nothing.              *)
CanGo(c) ==
  /\ pc[c] # "idle"
  /\ pc[c] = "wait_conns" => conns_sem[c] > 0
  /\ pc[c] = "publish" => Unlocked(c)
  /\ pc[c] = "lock_in" => match[c] # NULL /\ Unlocked(InEnd(c))
  /\ pc[c] = "lock_out" => Unlocked(OutEnd(c))
  /\ pc[c] = "wait_ack" => AckPosted(c)
  /\ pc[c] = "wait_blocked" => blocked[c] > 0

(* When nobody can go on, nobody has anything to do: a call that is not     *)
(* over waits for connections it does not have or is parked on offer, and   *)
(* no sender and receiver that are connected both wait.                     *)
StandsOnlyIfDone ==
  (\A c \in Channels : ~ CanGo(c)) =>
    /\ \A c \in Channels :
         \/ pc[c] = "idle"
         \/ pc[c] = "wait_conns" /\ isEmpty(connections[c])
         \/ Parked(c)
    /\ \A s \in Outs, r \in Ins : Connected(s, r) => ~ (Waiting(s) /\ Waiting(r))

(* A step of the call on c leaves the owner of a mutex right if it does not *)
(* take it, and gives it back when it is done with it.                      *)
LEMMA OwnerKept ==
  ASSUME Owned, NEW c \in Channels,
         \A d \in Channels \ {c} : pc'[d] = pc[d] /\ match'[d] = match[d],
         NEW h \in Channels, mutex'[h] = mutex[h], mutex[h] \in Channels,
         \/ pc[c] \notin {"lock_out", "test", "transfer"}
         \/ /\ pc[c] = "lock_out" /\ pc'[c] = "test" /\ match'[c] = match[c]
         \/ /\ pc[c] = "test" /\ pc'[c] = "transfer" /\ match'[c] = match[c]
         \/ h \notin {c, match[c]}
  PROVE  OwnerAt(h, mutex[h])'
<1>. DEFINE o == mutex[h]
<1>1. o \in Channels /\ OwnerAt(h, o)
  BY DEF Owned
<1>2. CASE o # c
  BY <1>1, <1>2 DEF OwnerAt, InEnd
<1>3. CASE o = c
  <2>1. pc[c] \in {"lock_out", "test", "transfer"} /\ h \in {c, match[c]}
    BY <1>1, <1>3 DEF OwnerAt, InEnd
  <2>. QED  BY <1>1, <1>3, <2>1 DEF OwnerAt
<1>. QED  BY <1>2, <1>3

(* The steps of a call: it owns what it takes, and is done with what it     *)
(* gives back.  M is who may have a mutex.                                  *)
LEMMA OwnersStep ==
  ASSUME Owned, NEW c \in Channels,
         \/ SharedStep(c)
         \/ c \in Outs /\ SendStep(c)
         \/ c \in Ins /\ ReceiveStep(c),
         \A d \in Channels \ {c} : pc'[d] = pc[d] /\ match'[d] = match[d],
         pc \in [Channels -> PCs], NEW M, mutex \in [Channels -> M],
         match \in [Channels -> Channels \cup {NULL}],
         pc[c] \in {"test", "transfer"} => match[c] \in Channels \ {c}
  PROVE  Owned'
<1>. SUFFICES ASSUME NEW h \in Channels, mutex'[h] \in Channels
              PROVE  OwnerAt(h, mutex[h])'
  BY DEF Owned
<1>1. CASE LockIn(c)
  <2>1. CASE h = InEnd(c)
    BY <1>1, <2>1 DEF LockIn, Goto, OwnerAt, InEnd
  <2>2. CASE h # InEnd(c)
    <3>1. mutex'[h] = mutex[h] /\ pc[c] = "lock_in"
      BY <1>1, <2>2 DEF LockIn
    <3>. QED  BY <3>1, OwnerKept
  <2>. QED  BY <2>1, <2>2
<1>2. CASE LockOut(c)
  <2>1. pc[c] = "lock_out" /\ pc'[c] = "test" /\ match'[c] = match[c]
    BY <1>2 DEF LockOut, Goto
  <2>2. CASE h = OutEnd(c)
    BY <1>2, <2>1, <2>2 DEF LockOut, OwnerAt, OutEnd
  <2>3. CASE h # OutEnd(c)
    <3>1. mutex'[h] = mutex[h]
      BY <1>2, <2>3 DEF LockOut
    <3>. QED  BY <2>1, <3>1, OwnerKept
  <2>. QED  BY <2>2, <2>3
<1>3. CASE FindReady(c)
  <2>1. pc[c] = "test" /\ pc'[c] = "transfer" /\ match'[c] = match[c] /\ mutex' = mutex
    BY <1>3 DEF FindReady, Goto, chanVars
  <2>. QED  BY <2>1, OwnerKept
<1>4. CASE FindNotReady(c) \/ TransferSend(c) \/ TransferReceive(c)
  <2>1. match[c] \in Channels \ {c}
    BY <1>4 DEF FindNotReady, TransferSend, TransferReceive
  <2>2. \/ mutex' = [mutex EXCEPT ![c] = NULL, ![match[c]] = NULL]
        \/ mutex' = [mutex EXCEPT ![match[c]] = NULL, ![c] = NULL]
    BY <1>4 DEF FindNotReady, TransferSend, TransferReceive
  <2>3. h \notin {c, match[c]} /\ mutex'[h] = mutex[h]
    BY <2>1, <2>2, ChannelsAssumption
  <2>. QED  BY <2>3, OwnerKept
<1>5. CASE /\ ~ LockIn(c) /\ ~ LockOut(c) /\ ~ FindReady(c) /\ ~ FindNotReady(c)
           /\ ~ TransferSend(c) /\ ~ TransferReceive(c)
  <2>1. mutex' = mutex /\ pc[c] \notin {"lock_out", "test", "transfer"}
    BY <1>5 DEF SharedStep, AwaitConnections, TakeLength, NextMatch, EndOfLoop,
       ReadConnsSem, RepostConnsSem, SendStep, CallSend, PublishSend, AwaitAck,
       AwaitTaken, ReceiveStep, CallReceive, PublishReceive, AwaitData, CopyData, chanVars
  <2>. QED  BY <2>1, OwnerKept
<1>. QED  BY <1>1, <1>2, <1>3, <1>4, <1>5

(* While connections stay as they are a call that gives up conns_sem has    *)
(* posted it.                                                               *)
LEMMA SemsStep ==
  ASSUME Inv, SemsInv, NEW c \in Channels,
         \/ SharedStep(c)
         \/ c \in Outs /\ SendStep(c)
         \/ c \in Ins /\ ReceiveStep(c),
         \A d \in Channels \ {c} : pc'[d] = pc[d],
         \A d \in Channels : connections'[d].elems = connections[d].elems
  PROVE  SemsInv'
<1>0. pc \in [Channels -> PCs] /\ conns_sem \in [Channels -> {0, 1}]
  BY DEF Inv, TypeOK
<1>1. /\ \A d \in Channels \ {c} : conns_sem'[d] = conns_sem[d]
      /\ \/ pc'[c] \in Holding
         \/ pc[c] \notin Holding /\ conns_sem'[c] = conns_sem[c]
         \/ conns_sem'[c] = 1
  <2>1. CASE AwaitConnections(c)
    BY <1>0, <2>1 DEF AwaitConnections, Goto, Holding, PCs
  <2>2. CASE RepostConnsSem(c)
    <3>1. val[c] = 0 /\ conns_sem[c] = 0
      BY <2>2 DEF RepostConnsSem, Inv, ControlInv, ControlAt, PCs
    <3>. QED  BY <1>0, <2>2, <3>1 DEF RepostConnsSem, PostedIfZero
  <2>3. CASE SharedStep(c) /\ ~ AwaitConnections(c) /\ ~ RepostConnsSem(c)
    <3>1. conns_sem' = conns_sem /\ pc'[c] \in Holding
      BY <1>0, <2>3 DEF SharedStep, TakeLength, NextMatch, EndOfLoop, LockIn, LockOut,
         FindReady, FindNotReady, ReadConnsSem, Goto, chanVars, Holding, PCs
    <3>. QED  BY <3>1
  <2>4. CASE SendStep(c) \/ ReceiveStep(c)
    <3>1. conns_sem' = conns_sem /\ (pc'[c] \in Holding \/ pc[c] \notin Holding)
      BY <1>0, <2>4 DEF SendStep, CallSend, PublishSend, TransferSend, AwaitAck,
         AwaitTaken, ReceiveStep, CallReceive, PublishReceive, TransferReceive,
         AwaitData, CopyData, Goto, Return, chanVars, Holding, PCs
    <3>. QED  BY <3>1
  <2>. QED  BY <2>1, <2>2, <2>3, <2>4
<1>. QED  BY <1>1 DEF SemsInv, isEmpty

(* When nobody can go on, no mutex is taken: its owner could.               *)
LEMMA NoneLocks ==
  ASSUME Inv, StandInv, \A c \in Channels : ~ CanGo(c)
  PROVE  \A c \in Channels :
           pc[c] \in {"idle", "wait_conns", "wait_ack", "wait_blocked"}
<1>1. \A c \in Channels : pc[c] \in PCs
  BY DEF Inv, TypeOK
<1>2. \A c \in Channels :
        pc[c] \in {"idle", "wait_conns", "publish", "lock_in", "lock_out",
                  "wait_ack", "wait_blocked"}
  BY <1>1 DEF CanGo, PCs
<1>3. ASSUME NEW h \in Channels, mutex[h] # NULL
      PROVE  /\ mutex[h] \in Channels
             /\ pc[mutex[h]] = "lock_out" /\ h = InEnd(mutex[h])
  <2>1. mutex[h] \in Channels
    BY <1>3 DEF Inv, TypeOK
  <2>. QED  BY <1>2, <2>1 DEF StandInv, Owned, OwnerAt
<1>4. \A c \in Channels : pc[c] # "lock_out"
  <2>. SUFFICES ASSUME NEW c \in Channels, pc[c] = "lock_out"
                PROVE  FALSE
    OBVIOUS
  <2>1. OutEnd(c) \in Outs /\ OutEnd(c) \in Channels
    BY MatchEnds DEF Inv, Trying, OutEnd, Channels
  <2>2. mutex[OutEnd(c)] # NULL
    BY <2>1 DEF CanGo, Unlocked
  <2>3. PICK o \in Channels : pc[o] = "lock_out" /\ OutEnd(c) = InEnd(o)
    BY <1>3, <2>1, <2>2
  <2>4. InEnd(o) \in Ins
    BY <2>3, MatchEnds DEF Inv, Trying, InEnd, Channels
  <2>. QED  BY <2>1, <2>3, <2>4, ChannelsAssumption
<1>5. \A h \in Channels : Unlocked(h)
  BY <1>3, <1>4 DEF Unlocked
<1>6. \A c \in Channels : pc[c] # "lock_in"
  <2>. SUFFICES ASSUME NEW c \in Channels, pc[c] = "lock_in"
                PROVE  FALSE
    OBVIOUS
  <2>1. match[c] \in Channels /\ InEnd(c) \in Channels
    BY MatchEnds DEF Inv, Trying
  <2>2. match[c] # NULL
    BY <2>1, ChannelsAssumption
  <2>. QED  BY <1>5, <2>1, <2>2 DEF CanGo
<1>7. \A c \in Channels : pc[c] # "publish"
  BY <1>5 DEF CanGo
<1>. QED  BY <1>2, <1>4, <1>6, <1>7

(* Nor does a sender wait for an acknowledgement: its receiver could go on  *)
(* to copy.                                                                 *)
LEMMA NoneAwaitsAck ==
  ASSUME CallsAgree, AckInv, \A c \in Channels : ~ CanGo(c),
         \A c \in Channels : pc[c] \in {"idle", "wait_conns", "wait_ack", "wait_blocked"},
         \A s \in Outs : pc[s] = "wait_ack" => match[s] \in Ins
  PROVE  \A s \in Outs : pc[s] # "wait_ack"
<1>. SUFFICES ASSUME NEW s \in Outs, pc[s] = "wait_ack"
              PROVE  FALSE
  OBVIOUS
<1>. DEFINE r == match[s]
<1>1. s \in Channels /\ r \in Ins /\ r \in Channels
  BY DEF Channels
<1>2. s \in AckWaiters(r) /\ IsFiniteSet(AckWaiters(r))
  BY <1>1 DEF AckWaiters, AckInv, AcksAt
<1>3. Cardinality(AckWaiters(r)) \in Nat /\ Cardinality(AckWaiters(r)) # 0
  BY <1>2, FS_CardinalityType, FS_EmptySet
<1>4. ~ AckPosted(s)
  BY <1>1 DEF CanGo
<1>5. actually_received[r] = 0
  BY <1>1, <1>4 DEF AckPosted, AckInv
<1>6. CopyPending(r)
  BY <1>1, <1>3, <1>5 DEF AckInv, AcksAt
<1>7. pc[r] # "copy"
  BY <1>1
<1>8. Taken(r) /\ blocked[r] = 1
  BY <1>1, <1>6, <1>7 DEF CopyPending, CallsAgree, WakeupMatchesTransfer
<1>9. pc[r] = "wait_blocked"
  BY <1>1, <1>8 DEF Taken, Announced, Polling, Trying
<1>. QED  BY <1>1, <1>8, <1>9 DEF CanGo

(* Every step keeps the owners and the semaphores right.                    *)
LEMMA StandStep ==
  ASSUME Inv, StandInv, [Next]_vars
  PROVE  StandInv'
<1>1. \A d \in Channels : connections'[d].elems = connections[d].elems
  BY ListsStay DEF Inv
<1>2. CASE UNCHANGED vars
  BY <1>2 DEF vars, chanVars, callVars, StandInv, Owned, SemsInv, OwnerAt, InEnd, isEmpty
<1>3. ASSUME NEW c \in Channels,
             \/ SharedStep(c)
             \/ c \in Outs /\ SendStep(c)
             \/ c \in Ins /\ ReceiveStep(c)
      PROVE  StandInv'
  <2>1. \A d \in Channels \ {c} : pc'[d] = pc[d] /\ match'[d] = match[d]
    BY <1>3, SharedFrame, SendFrame, ReceiveFrame DEF Inv, OwnCall
  <2>2. pc[c] \in {"test", "transfer"} => match[c] \in Channels \ {c}
    BY MatchEnds DEF Inv, Trying
  <2>3. /\ pc \in [Channels -> PCs] /\ match \in [Channels -> Channels \cup {NULL}]
        /\ mutex \in [Channels -> Channels \cup {NULL}]
    BY DEF Inv, TypeOK
  <2>4. Owned'
    BY <1>3, <2>1, <2>2, <2>3, OwnersStep DEF StandInv
  <2>5. SemsInv'
    BY <1>1, <1>3, <2>1, SemsStep DEF StandInv
  <2>. QED  BY <2>4, <2>5 DEF StandInv
<1>. QED  BY <1>2, <1>3, NextSteps DEF Channels

(* A sender and a receiver that are connected do not both wait on offer:    *)
(* one has the other still to try, and then it is not parked.               *)
LEMMA StandsDone ==
  ASSUME Inv, AckInv, StandInv, NoLostRendezvous
  PROVE  StandsOnlyIfDone
<1>. SUFFICES ASSUME \A c \in Channels : ~ CanGo(c)
              PROVE  /\ \A c \in Channels :
                          \/ pc[c] = "idle"
                          \/ pc[c] = "wait_conns" /\ isEmpty(connections[c])
                          \/ Parked(c)
                     /\ \A s \in Outs, r \in Ins :
                          Connected(s, r) => ~ (Waiting(s) /\ Waiting(r))
  BY DEF StandsOnlyIfDone
<1>1. ASSUME NEW c \in Channels
      PROVE  \/ pc[c] = "idle"
             \/ pc[c] = "wait_conns" /\ isEmpty(connections[c])
             \/ Parked(c)
  <2>1. pc[c] \in {"idle", "wait_conns", "wait_ack", "wait_blocked"}
    BY NoneLocks
  <2>2. pc[c] # "wait_ack"
    <3>1. \A s \in Outs : pc[s] = "wait_ack" => match[s] \in Ins
      BY MatchEnds DEF Inv, Channels
    <3>. QED  BY <3>1, NoneLocks, NoneAwaitsAck, AgreedCalls DEF Inv, ControlInv, ControlAt
  <2>3. CASE pc[c] = "wait_conns"
    <3>1. conns_sem[c] = 0
      <4>1. ~ (conns_sem[c] > 0)
        BY <2>3 DEF CanGo
      <4>2. conns_sem[c] \in {0, 1}
        BY DEF Inv, TypeOK
      <4>. QED  BY <4>1, <4>2
    <3>. QED  BY <2>3, <3>1 DEF StandInv, SemsInv, Holding
  <2>4. CASE pc[c] = "wait_blocked"
    <3>1. blocked[c] = 0
      <4>1. ~ (blocked[c] > 0)
        BY <2>4 DEF CanGo
      <4>2. blocked[c] \in {0, 1}
        BY DEF Inv, TypeOK
      <4>. QED  BY <4>1, <4>2
    <3>2. ~ Taken(c)
      BY <3>1 DEF Inv, WakeupMatchesTransfer
    <3>3. ~ active[c] /\ pc[c] \in Announced
      BY <2>4 DEF Inv, ControlInv, ControlAt, Announced
    <3>. QED  BY <2>4, <3>2, <3>3 DEF Parked, Taken, Inv, TypeOK
  <2>. QED  BY <2>1, <2>2, <2>3, <2>4
<1>2. ASSUME NEW s \in Outs, NEW r \in Ins, Connected(s, r)
      PROVE  ~ (Waiting(s) /\ Waiting(r))
  <2>1. s \in Channels /\ r \in Channels /\ s \in Elements(connections[r])
    BY <1>2, ConnectionEnds DEF Inv, Connected, Channels
  <2>2. ~ isEmpty(connections[s]) /\ ~ isEmpty(connections[r])
    BY <1>2, <2>1 DEF Connected, isEmpty, Elements
  <2>3. \A c \in {s, r} : Waiting(c) => Parked(c)
    <3>. SUFFICES ASSUME NEW c \in {s, r}, Waiting(c)
                  PROVE  Parked(c)
      OBVIOUS
    <3>1. ready[c] => pc[c] # "idle"
      BY <2>1 DEF Inv, ControlInv, ControlAt, Announced, Polling, Trying
    <3>. QED  BY <1>1, <2>1, <2>2, <3>1 DEF Waiting
  <2>. QED  BY <1>2, <2>3 DEF NoLostRendezvous
<1>. QED  BY <1>1, <1>2

(* The calls never stand still with work left: whenever none can make its   *)
(* next step, each waits for connections it does not have or is parked on   *)
(* offer, and no two that are connected wait for each other.                *)
THEOREM NoStandstill == Spec => []StandsOnlyIfDone
<1>1. Init => StandInv
  <2>. SUFFICES ASSUME Init
                PROVE  Owned /\ SemsInv
    BY DEF StandInv
  <2>1. Owned
    BY ChannelsAssumption DEF Init, Owned
  <2>2. SemsInv
    BY DEF Init, SemsInv
  <2>. QED  BY <2>1, <2>2
<1>2. StandInv /\ Inv /\ [Next]_vars => StandInv'
  BY StandStep
<1>. QED  BY <1>1, <1>2, Invariance, AckInvariance, NoRendezvousLost, StandsDone, PTL DEF Spec
=============================================================================
