------------------------------ MODULE Channel -------------------------------
(***************************************************************************)
(* channel_bind and channel_unbind of channel.c, called by the connect and *)
(* disconnect statements of any component while other components send and *)
(* receive: the threads of Rendezvous and, beside them, connectors.  All   *)
(* of a bind or unbind runs under conn_op_mutex; it shares the semaphores  *)
(* conns_sem and the channel mutexes with the calls of Rendezvous.         *)
(*                                                                         *)
(* A half-channel is counted by what refers to it: the object of the       *)
(* component it belongs to, and each list it is in.  While somebody uses   *)
(* it the object keeps it; then the object may drop it, and Channel_decRef *)
(* runs when nothing else refers to it.  What has been dropped but is      *)
(* connected still exists, and can be connected and disconnected.          *)
(***************************************************************************)
EXTENDS Rendezvous

CONSTANTS
  Connectors,  (* threads that connect and disconnect                      *)
  TypeSize,    (* size of the values of each half-channel                  *)
  Operations   (* which of "bind" and "unbind" they use, and whether "drop" *)
               (* occurs                                                   *)

ASSUME ConnectorsAssumption ==
  /\ Connectors \cap (Channels \cup {NULL}) = {}
  /\ TypeSize \in [Channels -> Nat]
  /\ Operations \subseteq {"bind", "unbind", "drop"}

(* primordial_main connects with channel_bind, which refuses a connection   *)
(* that exists: no list has a half-channel twice.                           *)
ASSUME TopologiesDistinct ==
  \A conns \in Topologies, c \in Channels :
    \A i, j \in 1..Len(conns[c].elems) :
      conns[c].elems[i] = conns[c].elems[j] => i = j

VARIABLES
  conn_op_mutex,  (* the connector at work, or NULL                        *)
  cpc,            (* where each connector is                               *)
  id1,            (* id1 of channel_bind, id of channel_unbind             *)
  id2,            (* id2 of channel_bind, opposite of channel_unbind       *)
  cval,           (* val of channel_bind                                   *)
  citer, clength, (* i and length of channel_unbind                        *)
  refs,           (* ref_count of each half-channel                        *)
  life            (* kept by its component's object, left to the lists it  *)
                  (* is in, in Channel_decRef, or freed                    *)

argVars == <<id1, id2>>
localVars == <<cval, citer, clength>>
lifeVars == <<refs, life>>
connVars == <<conn_op_mutex, cpc, argVars, localVars, lifeVars>>
allVars == <<vars, connVars>>

(* The receiving end and the sending end of the pair being worked on. *)
ReceivingEnd(k) == IF id1[k] \in Ins THEN id1[k] ELSE id2[k]
SendingEnd(k)   == IF id1[k] \in Ins THEN id2[k] ELSE id1[k]

Kept == {c \in Channels : life[c] = "kept"}

(* Those that exist: something refers to them. *)
Referenced == {c \in Channels : refs[c] > 0}

Compatible(c, d) ==
  /\ c \in Outs <=> d \in Ins
  /\ TypeSize[c] = TypeSize[d]

CGoto(k, label) == cpc' = [cpc EXCEPT ![k] = label]

(* The call returns and forgets its locals. *)
CReturn(k) ==
  /\ CGoto(k, "idle")
  /\ conn_op_mutex' = NULL
  /\ id1' = [id1 EXCEPT ![k] = NULL]
  /\ id2' = [id2 EXCEPT ![k] = NULL]
  /\ cval' = [cval EXCEPT ![k] = 0]
  /\ citer' = [citer EXCEPT ![k] = 0]
  /\ clength' = [clength EXCEPT ![k] = 0]
  /\ UNCHANGED lifeVars

-----------------------------------------------------------------------------
(* channel_bind *)

CallBind(k) ==
  /\ cpc[k] = "idle"
  /\ "bind" \in Operations
  /\ \E c, d \in Referenced : id1' = [id1 EXCEPT ![k] = c] /\ id2' = [id2 EXCEPT ![k] = d]
  /\ CGoto(k, "bind")
  /\ UNCHANGED <<vars, conn_op_mutex, localVars, lifeVars>>

(* Two half-channels of one direction or of different sizes. *)
RefuseIncompatible(k) ==
  /\ cpc[k] = "bind"
  /\ conn_op_mutex = NULL
  /\ ~Compatible(id1[k], id2[k])
  /\ CReturn(k)
  /\ UNCHANGED vars

BeginBind(k) ==
  /\ cpc[k] = "bind"
  /\ conn_op_mutex = NULL
  /\ Compatible(id1[k], id2[k])
  /\ conn_op_mutex' = k
  /\ CGoto(k, "bind_in")
  /\ UNCHANGED <<vars, argVars, localVars, lifeVars>>

BindLockIn(k) ==
  /\ cpc[k] = "bind_in"
  /\ Unlocked(ReceivingEnd(k))
  /\ mutex' = [mutex EXCEPT ![ReceivingEnd(k)] = k]
  /\ CGoto(k, "bind_out")
  /\ UNCHANGED <<ready, buffer, connections, conns_sem, blocked,
                 actually_received, callVars, conn_op_mutex, argVars,
                 localVars, lifeVars>>

(* Already connected: conn_op_mutex is unlocked, the two mutexes are not. *)
RefuseConnected(k) ==
  /\ cpc[k] = "bind_out"
  /\ Unlocked(SendingEnd(k))
  /\ containsElement(connections[id1[k]], id2[k])
  /\ mutex' = [mutex EXCEPT ![SendingEnd(k)] = k]
  /\ CReturn(k)
  /\ UNCHANGED <<ready, buffer, connections, conns_sem, blocked,
                 actually_received, callVars>>

Connect(k) ==
  /\ cpc[k] = "bind_out"
  /\ Unlocked(SendingEnd(k))
  /\ ~containsElement(connections[id1[k]], id2[k])
  /\ mutex' = [mutex EXCEPT ![SendingEnd(k)] = k]
  /\ connections' = [connections EXCEPT ![id1[k]] = insertElement(@, id2[k]),
                                        ![id2[k]] = insertElement(@, id1[k])]
  /\ refs' = [refs EXCEPT ![id1[k]] = @ + 1, ![id2[k]] = @ + 1]
  /\ CGoto(k, "bind_value1")
  /\ UNCHANGED <<ready, buffer, conns_sem, blocked, actually_received,
                 callVars, conn_op_mutex, argVars, localVars, life>>

(* sem_getvalue(conns_sem) on id1, later on id2 *)
BindReadSem(k, id, from, to) ==
  /\ cpc[k] = from
  /\ cval' = [cval EXCEPT ![k] = conns_sem[id[k]]]
  /\ CGoto(k, to)
  /\ UNCHANGED <<vars, conn_op_mutex, argVars, citer, clength, lifeVars>>

BindPosted(k, id) ==
  [conns_sem EXCEPT ![id[k]] = IF cval[k] = 0 THEN @ + 1 ELSE @]

BindPostFirst(k) ==
  /\ cpc[k] = "bind_post1"
  /\ conns_sem' = BindPosted(k, id1)
  /\ CGoto(k, "bind_value2")
  /\ UNCHANGED <<ready, buffer, connections, mutex, blocked,
                 actually_received, callVars, conn_op_mutex, argVars,
                 localVars, lifeVars>>

(* The second post; then all three mutexes are unlocked. *)
BindPostSecond(k) ==
  /\ cpc[k] = "bind_post2"
  /\ conns_sem' = BindPosted(k, id2)
  /\ mutex' = [mutex EXCEPT ![id1[k]] = NULL, ![id2[k]] = NULL]
  /\ CReturn(k)
  /\ UNCHANGED <<ready, buffer, connections, blocked, actually_received,
                 callVars>>

Bind(k) ==
  \/ RefuseIncompatible(k) \/ BeginBind(k) \/ BindLockIn(k)
  \/ RefuseConnected(k) \/ Connect(k)
  \/ BindReadSem(k, id1, "bind_value1", "bind_post1") \/ BindPostFirst(k)
  \/ BindReadSem(k, id2, "bind_value2", "bind_post2") \/ BindPostSecond(k)

-----------------------------------------------------------------------------
(* channel_unbind *)

CallUnbind(k) ==
  /\ cpc[k] = "idle"
  /\ "unbind" \in Operations
  /\ \E c \in Referenced : id1' = [id1 EXCEPT ![k] = c]
  /\ CGoto(k, "unbind")
  /\ UNCHANGED <<vars, conn_op_mutex, id2, localVars, lifeVars>>

BeginUnbind(k) ==
  /\ cpc[k] = "unbind"
  /\ conn_op_mutex = NULL
  /\ conn_op_mutex' = k
  /\ clength' = [clength EXCEPT ![k] = getListLength(connections[id1[k]])]
  /\ citer' = [citer EXCEPT ![k] = 0]
  /\ CGoto(k, "unbind_loop")
  /\ UNCHANGED <<vars, argVars, cval, lifeVars>>

MoreToPart(k) == citer[k] < clength[k]

UnbindNext(k) ==
  /\ cpc[k] = "unbind_loop"
  /\ MoreToPart(k)
  /\ id2' = [id2 EXCEPT ![k] = getElementN(connections[id1[k]], citer[k])]
  /\ CGoto(k, "unbind_wait_in")
  /\ UNCHANGED <<vars, conn_op_mutex, id1, localVars, lifeVars>>

UnbindReturn(k) ==
  /\ cpc[k] = "unbind_loop"
  /\ ~MoreToPart(k)
  /\ CReturn(k)
  /\ UNCHANGED vars

(* Mutant: the list is changed without waiting for the calls that use it. *)
UnbindBarge(k, end, from, to) ==
  /\ cpc[k] = from
  /\ conns_sem' = [conns_sem EXCEPT ![end] = IF @ = 0 THEN 0 ELSE @ - 1]
  /\ CGoto(k, to)
  /\ UNCHANGED <<ready, buffer, connections, mutex, blocked,
                 actually_received, callVars, conn_op_mutex, argVars,
                 localVars, lifeVars>>

(* sem_wait(conns_sem) on the receiving end, then on the sending end *)
UnbindWait(k, end, from, to) ==
  /\ cpc[k] = from
  /\ conns_sem[end] > 0
  /\ conns_sem' = [conns_sem EXCEPT ![end] = @ - 1]
  /\ CGoto(k, to)
  /\ UNCHANGED <<ready, buffer, connections, mutex, blocked,
                 actually_received, callVars, conn_op_mutex, argVars,
                 localVars, lifeVars>>

UnbindLockIn(k) ==
  /\ cpc[k] = "unbind_in"
  /\ Unlocked(ReceivingEnd(k))
  /\ mutex' = [mutex EXCEPT ![ReceivingEnd(k)] = k]
  /\ CGoto(k, "unbind_out")
  /\ UNCHANGED <<ready, buffer, connections, conns_sem, blocked,
                 actually_received, callVars, conn_op_mutex, argVars,
                 localVars, lifeVars>>

(* Mutant: only the half-channel's own list is changed. *)
HalfParted(c, d) == [connections EXCEPT ![c] = removeElement(@, d)]

(* Each end leaves the other's list. *)
Parted(c, d) ==
  [connections EXCEPT ![c] = removeElement(@, d), ![d] = removeElement(@, c)]

(* Mutant: only the opposite loses a reference. *)
ReleasedOne(c, d) == [refs EXCEPT ![d] = @ - 1]

(* Both lose a reference. *)
Released(c, d) == [refs EXCEPT ![c] = @ - 1, ![d] = @ - 1]

(* With both mutexes held; something else refers to each end. *)
Disconnect(k) ==
  /\ cpc[k] = "unbind_out"
  /\ Unlocked(SendingEnd(k))
  /\ refs[id1[k]] > 1 /\ refs[id2[k]] > 1
  /\ connections' = Parted(id1[k], id2[k])
  /\ refs' = Released(id1[k], id2[k])
  /\ mutex' = [mutex EXCEPT ![ReceivingEnd(k)] = NULL]
  /\ CGoto(k, "unbind_post1")
  /\ UNCHANGED <<ready, buffer, conns_sem, blocked, actually_received,
                 callVars, conn_op_mutex, argVars, localVars, life>>

(* The list of id held the last reference to opposite: its Channel_decRef   *)
(* runs inside removeElement and locks conn_op_mutex, which k holds.        *)
DisconnectLast(k) ==
  /\ cpc[k] = "unbind_out"
  /\ Unlocked(SendingEnd(k))
  /\ refs[id2[k]] = 1
  /\ connections' = [connections EXCEPT ![id1[k]] = removeElement(@, id2[k])]
  /\ refs' = [refs EXCEPT ![id2[k]] = 0]
  /\ mutex' = [mutex EXCEPT ![SendingEnd(k)] = k]
  /\ CGoto(k, "self_lock")
  /\ UNCHANGED <<ready, buffer, conns_sem, blocked, actually_received,
                 callVars, conn_op_mutex, argVars, localVars, life>>

(* The list of opposite held the last reference to id, whose component has  *)
(* dropped it: its Channel_decRef, in the second removeElement, likewise.   *)
DisconnectOwn(k) ==
  /\ cpc[k] = "unbind_out"
  /\ Unlocked(SendingEnd(k))
  /\ refs[id1[k]] = 1 /\ refs[id2[k]] > 1
  /\ connections' = Parted(id1[k], id2[k])
  /\ refs' = Released(id1[k], id2[k])
  /\ mutex' = [mutex EXCEPT ![SendingEnd(k)] = k]
  /\ CGoto(k, "self_lock")
  /\ UNCHANGED <<ready, buffer, conns_sem, blocked, actually_received,
                 callVars, conn_op_mutex, argVars, localVars, life>>

(* Mutant: the semaphore of a list that became empty is posted too. *)
PostedAlways(c) == [conns_sem EXCEPT ![c] = @ + 1]

(* Mutant: the semaphores are not posted again. *)
NeverPosted(c) == conns_sem

(* sem_post(conns_sem) if the list is not empty *)
PostedIfConnected(c) ==
  [conns_sem EXCEPT ![c] = IF isEmpty(connections[c]) THEN @ ELSE @ + 1]

UnbindPostFirst(k) ==
  /\ cpc[k] = "unbind_post1"
  /\ conns_sem' = PostedIfConnected(id1[k])
  /\ CGoto(k, "unbind_post2")
  /\ UNCHANGED <<ready, buffer, connections, mutex, blocked,
                 actually_received, callVars, conn_op_mutex, argVars,
                 localVars, lifeVars>>

UnbindPostSecond(k) ==
  /\ cpc[k] = "unbind_post2"
  /\ conns_sem' = PostedIfConnected(id2[k])
  /\ clength' = [clength EXCEPT ![k] = getListLength(connections[id1[k]])]
  /\ citer' = [citer EXCEPT ![k] = @ + 1]
  /\ CGoto(k, "unbind_loop")
  /\ UNCHANGED <<ready, buffer, connections, mutex, blocked,
                 actually_received, callVars, conn_op_mutex, argVars, cval, lifeVars>>

Unbind(k) ==
  \/ BeginUnbind(k) \/ UnbindNext(k) \/ UnbindReturn(k)
  \/ UnbindWait(k, ReceivingEnd(k), "unbind_wait_in", "unbind_wait_out")
  \/ UnbindWait(k, SendingEnd(k), "unbind_wait_out", "unbind_in")
  \/ UnbindLockIn(k) \/ Disconnect(k) \/ DisconnectLast(k) \/ DisconnectOwn(k)
  \/ UnbindPostFirst(k) \/ UnbindPostSecond(k)

-----------------------------------------------------------------------------
(* The component's object drops the half-channel: not while somebody uses   *)
(* it, for then somebody holds the object.                                  *)

InUse(c) ==
  \/ pc[c] # "idle"
  \/ \E k \in Connectors :
       \/ c = id1[k]
       \/ c = id2[k] /\ cpc[k] \in {"bind", "bind_in", "bind_out", "bind_value1",
                                   "bind_post1", "bind_value2", "bind_post2"}

Drop(c) ==
  /\ "drop" \in Operations
  /\ life[c] = "kept"
  /\ ~InUse(c)
  /\ refs' = [refs EXCEPT ![c] = @ - 1]
  /\ life' = [life EXCEPT ![c] = IF refs[c] = 1 THEN "decRef" ELSE "left"]
  /\ UNCHANGED <<vars, conn_op_mutex, cpc, argVars, localVars>>

(* Its channel_unbind finds nothing to disconnect: the lists the            *)
(* half-channel would be in count as references.                            *)
Channel_decRef(c) ==
  /\ life[c] = "decRef"
  /\ conn_op_mutex = NULL
  /\ isEmpty(connections[c])
  /\ life' = [life EXCEPT ![c] = "freed"]
  /\ UNCHANGED <<vars, conn_op_mutex, cpc, argVars, localVars, refs>>

-----------------------------------------------------------------------------
ConnInit ==
  /\ Init
  /\ conn_op_mutex = NULL
  /\ cpc = [k \in Connectors |-> "idle"]
  /\ id1 = [k \in Connectors |-> NULL]
  /\ id2 = [k \in Connectors |-> NULL]
  /\ cval = [k \in Connectors |-> 0]
  /\ citer = [k \in Connectors |-> 0]
  /\ clength = [k \in Connectors |-> 0]
  /\ refs = [c \in Channels |-> 1 + getListLength(connections[c])]
  /\ life = [c \in Channels |-> "kept"]

Call == /\ \/ \E s \in Outs \cap Kept : CallSend(s)
           \/ \E r \in Ins \cap Kept : CallReceive(r)
        /\ UNCHANGED connVars

ConnNext ==
  \/ Call
  \/ \E s \in Outs : Send(s) /\ UNCHANGED connVars
  \/ \E r \in Ins : Receive(r) /\ UNCHANGED connVars
  \/ \E k \in Connectors : CallBind(k) \/ Bind(k) \/ CallUnbind(k) \/ Unbind(k)
  \/ \E c \in Channels : Drop(c) \/ Channel_decRef(c)

ConnSpec == ConnInit /\ [][ConnNext]_allVars

(* As in Rendezvous: a thread inside a call keeps running, no more. *)
ConnFairness ==
  /\ \A s \in Outs : WF_allVars(Send(s) /\ UNCHANGED connVars)
  /\ \A r \in Ins : WF_allVars(Receive(r) /\ UNCHANGED connVars)
  /\ \A k \in Connectors : WF_allVars(Bind(k) \/ Unbind(k))

-----------------------------------------------------------------------------
(* Properties *)

CPCs == {"idle", "bind", "bind_in", "bind_out", "bind_value1", "bind_post1",
         "bind_value2", "bind_post2", "unbind", "unbind_loop",
         "unbind_wait_in", "unbind_wait_out", "unbind_in", "unbind_out",
         "unbind_post1", "unbind_post2", "self_lock"}

(* A call on c uses its list: from its first line until it posts again.     *)
CallHolds(c) ==
  pc[c] \in PCs \ {"idle", "wait_conns", "wait_blocked", "copy"}

(* Well typed; and unless an unbind is stuck within its two removeElement   *)
(* calls both ends of every connection list each other, once, and the       *)
(* cursors stay on their lists while elements come and go.                  *)
ConnTypeOK ==
  /\ connections \in [Channels -> [elems : Seq(Channels), next : Nat]]
  /\ (\A k \in Connectors : cpc[k] # "self_lock") => Paired(connections)
  /\ \A c \in Channels :
       Len(connections[c].elems) = Cardinality(Elements(connections[c]))
  /\ mutex \in [Channels -> Channels \cup Connectors \cup {NULL}]
  /\ conns_sem \in [Channels -> Nat]
  /\ blocked \in [Channels -> {0, 1}]
  /\ conn_op_mutex \in Connectors \cup {NULL}
  /\ cpc \in [Connectors -> CPCs]
  /\ id1 \in [Connectors -> Channels \cup {NULL}]
  /\ id2 \in [Connectors -> Channels \cup {NULL}]
  /\ cval \in [Connectors -> Nat]
  /\ citer \in [Connectors -> Nat]
  /\ clength \in [Connectors -> Nat]
  /\ refs \in [Channels -> Nat]
  /\ life \in [Channels -> {"kept", "left", "decRef", "freed"}]

(* A half-channel counts exactly what refers to it; Channel_decRef runs for *)
(* one that is in no list and that no call or connector will touch again,   *)
(* so that it has nothing to disconnect; and one that its component has     *)
(* dropped while it is connected stays in memory for as long as it is, and  *)
(* the unbind that would part it from its last partner locks itself out.    *)
ChannelLifetime ==
  \A c \in Channels :
    /\ refs[c] = (IF life[c] = "kept" THEN 1 ELSE 0)
                   + Cardinality({d \in Channels : Connected(d, c)})
    /\ life[c] \in {"decRef", "freed"} =>
         /\ isEmpty(connections[c])
         /\ ~InUse(c)
         /\ \A d \in Channels : match[d] = c => ~CallHolds(d)
    /\ life[c] = "left" =>
         refs[c] > 0
           \/ \E k \in Connectors : cpc[k] = "self_lock" /\ c \in {id1[k], id2[k]}
    /\ \A k \in Connectors :
         cpc[k] = "self_lock" =>
           \E d \in {id1[k], id2[k]} : life[d] = "left" /\ refs[d] = 0

(* What conns_sem stands for: the right to use the list of c.  A call on c  *)
(* has it from its first line until it posts again, an unbind from its      *)
(* sem_wait to its sem_post; an unbind that empties the list destroys it,   *)
(* and the bind that fills an empty list makes it.                          *)
UnbindHolds(c) ==
  \E k \in Connectors :
    \/ cpc[k] = "unbind_wait_out" /\ c = ReceivingEnd(k)
    \/ cpc[k] \in {"unbind_in", "unbind_out"} /\ c \in {id1[k], id2[k]}
    \/ /\ ~isEmpty(connections[c])
       /\ \/ cpc[k] \in {"unbind_post1", "self_lock"} /\ c \in {id1[k], id2[k]}
          \/ cpc[k] = "unbind_post2" /\ c = id2[k]

BindOwes(c) ==
  /\ getListLength(connections[c]) = 1
  /\ \E k \in Connectors :
       \/ cpc[k] \in {"bind_value1", "bind_post1"} /\ c \in {id1[k], id2[k]}
       \/ cpc[k] \in {"bind_value2", "bind_post2"} /\ c = id2[k]

(* There is exactly one right to use a list that is not empty, none to an   *)
(* empty one: conns_sem acts like the mutex the comments call it, so no     *)
(* list shrinks while a call polls it.                                      *)
OneRightPerList ==
  \A c \in Channels :
    conns_sem[c] + (IF CallHolds(c) THEN 1 ELSE 0)
                 + (IF UnbindHolds(c) THEN 1 ELSE 0)
      = IF isEmpty(connections[c]) \/ BindOwes(c) THEN 0 ELSE 1

(* The half-channel a call is trying is still connected to it. *)
MatchConnected ==
  \A c \in Channels :
    pc[c] \in Trying => match[c] \in Elements(connections[c])

(* An unbind returns, unless components go on for ever calling send and     *)
(* receive, which may overtake it at conns_sem for ever, or an unbind has   *)
(* dropped the last reference to a half-channel, whose Channel_decRef waits *)
(* for the conn_op_mutex that its own thread holds.                         *)
UnbindReturns ==
  \/ []<><<Call>>_allVars
  \/ \A k \in Connectors :
       cpc[k] # "idle" ~> cpc[k] = "idle" \/ \E j \in Connectors : cpc[j] = "self_lock"

(* channel.c says of conns_sem: never allow it to go above 1.               *)
ConnsSemNeverAboveOne == \A c \in Channels : conns_sem[c] <= 1

(* channel_bind refuses, returning false, a pair that is already connected; *)
(* having returned it holds none of the mutexes it locked.                  *)
ReturnedHoldsNoMutex ==
  \A k \in Connectors, c \in Channels : cpc[k] = "idle" => mutex[c] # k

(* channel.c says of the loop of channel_unbind: iterate through list,      *)
(* locking then disconnecting; and of the call in Channel_decRef:           *)
(* disconnect from all other chans.  An unbind whose loop has ended has     *)
(* left no connection.                                                      *)
UnbindRemovesAll ==
  \A k \in Connectors :
    cpc[k] = "unbind_loop" /\ ~MoreToPart(k) => isEmpty(connections[id1[k]])
=============================================================================
