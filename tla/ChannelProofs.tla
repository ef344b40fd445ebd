---------------------------- MODULE ChannelProofs ----------------------------
(***************************************************************************)
(* Proofs about Channel for any half-channels, any connectors and any      *)
(* connections to begin with.  General holds whatever is bound, unbound    *)
(* and dropped; Rights, which says who may use a list, needs that no bind  *)
(* adds to a list that has an element (FewBinds).                          *)
(***************************************************************************)
EXTENDS Channel, RendezvousProofs

(* The ends a half-channel can be connected to.                             *)
Opposite(c) == IF c \in Outs THEN Ins ELSE Outs

(* In channel_bind with conn_op_mutex; from there on with both mutexes; in  *)
(* channel_unbind with an opposite in hand, before and after it is removed. *)
BindBoth  == {"bind_value1", "bind_post1", "bind_value2", "bind_post2"}
Binding   == {"bind_in", "bind_out"} \cup BindBoth
Parting   == {"unbind_wait_in", "unbind_wait_out", "unbind_in", "unbind_out"}
Reposting == {"unbind_post1", "unbind_post2"}
Working   == CPCs \ {"idle", "bind", "unbind"}

(* The list of c has still d, which has lost c: its unbind is stuck.        *)
HalfPartedAt(c, d) == \E k \in Connectors : cpc[k] = "self_lock" /\ id2[k] = c /\ id1[k] = d

Distinct(l) == \A i, j \in 1..Len(l.elems) : l.elems[i] = l.elems[j] => i = j

(* The half-channels whose lists c is in.                                   *)
Listing(c) == {d \in Channels : Connected(d, c)}

-----------------------------------------------------------------------------
(* The invariant, whatever is bound, unbound and dropped. *)

CallTypes ==
  /\ ready \in [Channels -> BOOLEAN]
  /\ connections \in [Channels -> [elems : Seq(Channels), next : Nat]]
  /\ conns_sem \in [Channels -> Nat]
  /\ mutex \in [Channels -> Channels \cup Connectors \cup {NULL}]
  /\ blocked \in [Channels -> Nat]
  /\ pc \in [Channels -> PCs]
  /\ match \in [Channels -> Channels \cup {NULL}]
  /\ iter \in [Channels -> Nat]
  /\ length \in [Channels -> Nat]
  /\ val \in [Channels -> Nat]
  /\ active \in [Channels -> BOOLEAN]

ConnTypes ==
  /\ conn_op_mutex \in Connectors \cup {NULL}
  /\ cpc \in [Connectors -> CPCs]
  /\ id1 \in [Connectors -> Channels \cup {NULL}]
  /\ id2 \in [Connectors -> Channels \cup {NULL}]
  /\ cval \in [Connectors -> Nat]
  /\ citer \in [Connectors -> Nat]
  /\ clength \in [Connectors -> Nat]
  /\ refs \in [Channels -> Nat]
  /\ life \in [Channels -> {"kept", "left", "decRef", "freed"}]

(* Where the call on c stands: what it has in hand may be gone from its     *)
(* list, but is an end of the other kind.                                   *)
CallAt(c) ==
  /\ pc[c] \in {"lock_out", "test", "transfer", "wait_ack"} => match[c] \in Opposite(c)
  /\ pc[c] = "lock_in" => match[c] \in Opposite(c) \cup {NULL}
  /\ pc[c] \in {"idle", "wait_conns"} => match[c] = NULL
  /\ ready[c] => pc[c] \in Announced /\ ~active[c]
  /\ pc[c] = "wait_ack" => active[c] /\ c \in Outs
  /\ pc[c] = "copy" => c \in Ins
  /\ active[c] => pc[c] \in {"wait_ack", "get_value", "post_conns"}

(* The lists: ends of the other kind, once each, that list it too.          *)
ListAt(c) ==
  /\ connections[c].elems \in Seq(Opposite(c))
  /\ Distinct(connections[c])
  /\ WellFormed(connections[c])
  /\ \A d \in Elements(connections[c]) : c \in Elements(connections[d]) \/ HalfPartedAt(c, d)

(* Its component keeps it, or has left it to the lists it is in. *)
NotFreed(c) == life[c] \in {"kept", "left"}

(* Where a connector stands: what it was called with is not freed, the loop *)
(* of an unbind knows the length, and an unbind that has locked itself out  *)
(* has taken the last reference to one end.                                 *)
ConnectorAt(k) ==
  /\ cpc[k] \in Working <=> conn_op_mutex = k
  /\ cpc[k] # "idle" => id1[k] \in Channels /\ NotFreed(id1[k])
  /\ cpc[k] \in {"bind"} \cup Binding =>
       id2[k] \in Channels /\ NotFreed(id2[k]) /\ "bind" \in Operations
  /\ cpc[k] \in Binding => Compatible(id1[k], id2[k])
  /\ cpc[k] \in {"unbind_loop"} \cup Parting => clength[k] = Len(connections[id1[k]].elems)
  /\ cpc[k] = "unbind_loop" => citer[k] <= clength[k] + 1
  /\ cpc[k] \in Parting => citer[k] < clength[k] /\ id2[k] \in Elements(connections[id1[k]])
  /\ cpc[k] \in Reposting => id2[k] \in Opposite(id1[k]) /\ citer[k] <= Len(connections[id1[k]].elems)
  /\ cpc[k] \in {"bind_out", "unbind_out"} => mutex[ReceivingEnd(k)] = k
  /\ cpc[k] \in BindBoth => mutex[id1[k]] = k /\ mutex[id2[k]] = k
  /\ cpc[k] = "self_lock" =>
       /\ id2[k] \in Opposite(id1[k])
       /\ id2[k] \notin Elements(connections[id1[k]])
       /\ \/ /\ life[id2[k]] = "left" /\ refs[id2[k]] = 0
             /\ id1[k] \in Elements(connections[id2[k]])
          \/ /\ life[id1[k]] = "left" /\ refs[id1[k]] = 0
             /\ id1[k] \notin Elements(connections[id2[k]])

LifeAt(c) ==
  /\ IsFiniteSet(Listing(c))
  /\ refs[c] = (IF life[c] = "kept" THEN 1 ELSE 0) + Cardinality(Listing(c))
  /\ life[c] \in {"decRef", "freed"} => isEmpty(connections[c]) /\ ~InUse(c)
  /\ life[c] = "left" =>
       refs[c] > 0 \/ \E k \in Connectors : cpc[k] = "self_lock" /\ c \in {id1[k], id2[k]}

CallInv == CallTypes /\ WakeupMatchesTransfer /\ \A c \in Channels : CallAt(c) /\ LockAt(c)
ListInv == \A c \in Channels : ListAt(c)
ConnectorInv == \A k \in Connectors : ConnectorAt(k)
LifeInv == \A c \in Channels : LifeAt(c)

General == CallInv /\ ConnTypes /\ ListInv /\ ConnectorInv /\ LifeInv

-----------------------------------------------------------------------------
(* The lists *)

(* As many elements as nodes, when no payload is there twice.               *)
LEMMA DistinctLength ==
  ASSUME NEW S, NEW l \in [elems : Seq(S), next : Nat]
  PROVE  /\ IsFiniteSet(Elements(l))
         /\ Distinct(l) => Cardinality(Elements(l)) = Len(l.elems)
<1>. DEFINE n == Len(l.elems)
            f == [i \in 1..n |-> l.elems[i]]
<1>0. n \in Nat /\ n \in Int /\ 1 \in Int /\ (1 > n => n = 0) /\ n - 1 + 1 = n
  OBVIOUS
<1>. HIDE DEF n
<1>1. IsFiniteSet(1..n) /\ Cardinality(1..n) = n
  BY <1>0, FS_Interval
<1>. USE DEF n
<1>2. f \in Surjection(1..n, Elements(l))
  BY DEF Elements, Surjection
<1>3. /\ IsFiniteSet(Elements(l))
      /\ Cardinality(Elements(l)) = Cardinality(1..n) <=> f \in Injection(1..n, Elements(l))
  BY <1>1, <1>2, FS_Surjection
<1>4. Distinct(l) => f \in Injection(1..n, Elements(l))
  BY <1>2 DEF Distinct, Injection, IsInjective, Surjection
<1>. QED  BY <1>1, <1>3, <1>4

(* insertElement adds one element, at the head.                             *)
LEMMA InsertedList ==
  ASSUME NEW S, NEW l \in [elems : Seq(S), next : Nat], WellFormed(l), Distinct(l),
         NEW e \in S, e \notin Elements(l)
  PROVE  LET m == insertElement(l, e)
         IN /\ m \in [elems : Seq(S), next : Nat] /\ WellFormed(m) /\ Distinct(m)
            /\ Elements(m) = Elements(l) \cup {e}
            /\ Len(m.elems) = Len(l.elems) + 1
<1>. DEFINE q == l.elems
            m == insertElement(l, e)
            r == <<e>> \o q
<1>1. q \in Seq(S) /\ Len(q) \in Nat /\ l.next \in Nat
  OBVIOUS
<1>2. m.elems = r /\ m.next = l.next + 1 /\ m = [elems |-> r, next |-> l.next + 1]
  BY DEF insertElement
<1>3. /\ r \in Seq(S) /\ Len(r) = Len(q) + 1 /\ r[1] = e
      /\ \A i \in 1..Len(q) : r[i + 1] = q[i]
  BY <1>1
<1>4. \A i \in 1..Len(r) : i = 1 \/ (i - 1 \in 1..Len(q) /\ r[i] = q[i - 1])
  <2>. SUFFICES ASSUME NEW i \in 1..Len(r), i # 1
                PROVE  i - 1 \in 1..Len(q) /\ r[i] = q[i - 1]
    OBVIOUS
  <2>1. i - 1 \in 1..Len(q) /\ (i - 1) + 1 = i
    BY <1>1, <1>3
  <2>. QED  BY <1>3, <2>1
<1>5. WellFormed(m)
  <2>1. l.next \in 0..Len(q)
    BY <1>1 DEF WellFormed, isEmpty
  <2>2. l.next + 1 \in 1..Len(r) /\ r # <<>>
    BY <1>1, <1>3, <2>1
  <2>. QED  BY <1>2, <2>2 DEF WellFormed, isEmpty
<1>6. Elements(l) = {q[i] : i \in 1..Len(q)} /\ Elements(m) = {r[i] : i \in 1..Len(r)}
  BY <1>2 DEF Elements
<1>7. Elements(m) = Elements(l) \cup {e}
  <2>1. ASSUME NEW x \in Elements(m)
        PROVE  x \in Elements(l) \cup {e}
    BY <1>3, <1>4, <1>6
  <2>2. ASSUME NEW x \in Elements(l)
        PROVE  x \in Elements(m)
    <3>1. PICK i \in 1..Len(q) : x = q[i]
      BY <1>6
    <3>2. i + 1 \in 1..Len(r) /\ r[i + 1] = x
      BY <1>1, <1>3, <3>1
    <3>. QED  BY <1>6, <3>2
  <2>3. e \in Elements(m)
    <3>1. 1 \in 1..Len(r)
      BY <1>1, <1>3
    <3>. QED  BY <1>3, <1>6, <3>1
  <2>. QED  BY <2>1, <2>2, <2>3
<1>8. Distinct(m)
  <2>. SUFFICES ASSUME NEW i \in 1..Len(r), NEW j \in 1..Len(r), r[i] = r[j]
                PROVE  i = j
    BY <1>2 DEF Distinct
  <2>1. \A x \in 1..Len(q) : q[x] # e
    BY <1>6
  <2>2. CASE i = 1 \/ j = 1
    BY <1>3, <1>4, <2>1, <2>2
  <2>3. CASE i # 1 /\ j # 1
    <3>1. i - 1 = j - 1
      BY SMTT(30), <1>4, <2>3 DEF Distinct
    <3>. QED  BY <1>1, <1>3, <3>1
  <2>. QED  BY <2>2, <2>3
<1>9. m \in [elems : Seq(S), next : Nat]
  BY <1>1, <1>2, <1>3
<1>. QED  BY <1>2, <1>3, <1>5, <1>7, <1>8, <1>9

(* What a concatenation holds at each place.                                *)
LEMMA ConcatAt ==
  ASSUME NEW S, NEW a \in Seq(S), NEW b \in Seq(S)
  PROVE  /\ a \o b \in Seq(S) /\ Len(a \o b) = Len(a) + Len(b)
         /\ \A j \in 1..Len(a) : (a \o b)[j] = a[j]
         /\ \A j \in 1..Len(b) : (a \o b)[Len(a) + j] = b[j]
OBVIOUS

(* removeElement takes the one node with the element away.                  *)
LEMMA RemovedList ==
  ASSUME NEW S, NEW l \in [elems : Seq(S), next : Nat], WellFormed(l), Distinct(l),
         NEW e \in Elements(l)
  PROVE  LET m == removeElement(l, e)
         IN /\ m \in [elems : Seq(S), next : Nat] /\ WellFormed(m) /\ Distinct(m)
            /\ Elements(m) = Elements(l) \ {e}
            /\ Len(m.elems) = Len(l.elems) - 1
<1>. DEFINE q == l.elems
            n == Len(q)
            First(k) == q[k] = e /\ \A j \in 1..(k - 1) : q[j] # e
            p == CHOOSE k \in 1..n : First(k)
            r == SubSeq(q, 1, p - 1) \o SubSeq(q, p + 1, n)
            m == removeElement(l, e)
<1>1. q \in Seq(S) /\ n \in Nat /\ l.next \in Nat
  OBVIOUS
<1>2. PICK i \in 1..n : q[i] = e
  BY DEF Elements
<1>3. First(i)
  BY <1>1, <1>2 DEF Distinct
<1>4. p \in 1..n /\ First(p)
  BY <1>3
<1>5. /\ m.elems = r
      /\ m = [elems |-> r, next |-> IF r = <<>> THEN 0
                                    ELSE IF l.next > p THEN l.next - 1
                                    ELSE IF l.next > Len(r) THEN 1 ELSE l.next]
  BY DEF removeElement, containsElement
<1>. HIDE DEF First, p, m
<1>6. /\ SubSeq(q, 1, p - 1) \in Seq(S) /\ Len(SubSeq(q, 1, p - 1)) = p - 1
      /\ \A j \in 1..(p - 1) : SubSeq(q, 1, p - 1)[j] = q[j]
  BY <1>1, <1>4
<1>7. /\ SubSeq(q, p + 1, n) \in Seq(S) /\ Len(SubSeq(q, p + 1, n)) = n - p
      /\ \A j \in 1..(n - p) : SubSeq(q, p + 1, n)[j] = q[p + j]
  BY <1>1, <1>4
<1>8. /\ r \in Seq(S) /\ Len(r) = n - 1
      /\ \A j \in 1..(p - 1) : r[j] = q[j]
      /\ \A j \in 1..(n - p) : r[p - 1 + j] = q[p + j]
  <2>. DEFINE a == SubSeq(q, 1, p - 1)
              b == SubSeq(q, p + 1, n)
  <2>. HIDE DEF a, b
  <2>1. /\ a \in Seq(S) /\ Len(a) = p - 1 /\ \A j \in 1..(p - 1) : a[j] = q[j]
        /\ b \in Seq(S) /\ Len(b) = n - p /\ \A j \in 1..(n - p) : b[j] = q[p + j]
    BY <1>6, <1>7 DEF a, b
  <2>2. /\ a \o b \in Seq(S) /\ Len(a \o b) = Len(a) + Len(b)
        /\ \A j \in 1..Len(a) : (a \o b)[j] = a[j]
        /\ \A j \in 1..Len(b) : (a \o b)[Len(a) + j] = b[j]
    <3>1. a \in Seq(S) /\ b \in Seq(S)
      BY <2>1
    <3>. QED  BY <3>1, ConcatAt
  <2>3. r = a \o b
    BY DEF a, b
  <2>4. (p - 1) + (n - p) = n - 1
    BY <1>1, <1>4
  <2>. HIDE DEF r
  <2>. QED  BY <2>1, <2>2, <2>3, <2>4
<1>. HIDE DEF r
<1>. DEFINE At(j) == IF j < p THEN j ELSE j + 1
<1>9. \A j \in 1..Len(r) : At(j) \in 1..n /\ At(j) # p /\ r[j] = q[At(j)]
  <2>. SUFFICES ASSUME NEW j \in 1..Len(r)
                PROVE  At(j) \in 1..n /\ At(j) # p /\ r[j] = q[At(j)]
    OBVIOUS
  <2>1. CASE j < p
    BY <1>1, <1>4, <1>8, <2>1
  <2>2. CASE ~(j < p)
    <3>1. /\ j - p + 1 \in 1..(n - p) /\ p - 1 + (j - p + 1) = j
          /\ p + (j - p + 1) = j + 1
      BY <1>1, <1>4, <1>8, <2>2
    <3>2. r[j] = q[j + 1]
      BY <1>8, <3>1
    <3>. QED  BY <1>1, <1>4, <1>8, <2>2, <3>2
  <2>. QED  BY <2>1, <2>2
<1>10. \A i1 \in 1..n : i1 # p => \E j \in 1..Len(r) : At(j) = i1
  <2>. SUFFICES ASSUME NEW i1 \in 1..n, i1 # p
                PROVE  \E j \in 1..Len(r) : At(j) = i1
    OBVIOUS
  <2>1. CASE i1 < p
    <3>1. i1 \in 1..Len(r) /\ At(i1) = i1
      BY <1>1, <1>4, <1>8, <2>1
    <3>. QED  BY <3>1
  <2>2. CASE ~(i1 < p)
    <3>1. i1 - 1 \in 1..Len(r) /\ At(i1 - 1) = i1
      BY <1>1, <1>4, <1>8, <2>2
    <3>. QED  BY <3>1
  <2>. QED  BY <2>1, <2>2
<1>11. Elements(l) = {q[j] : j \in 1..n} /\ Elements(m) = {r[j] : j \in 1..Len(r)}
  BY <1>5 DEF Elements
<1>12. Elements(m) = Elements(l) \ {e}
  <2>1. ASSUME NEW x \in Elements(m)
        PROVE  x \in Elements(l) /\ x # e
    <3>1. PICK j \in 1..Len(r) : x = r[j]
      BY <1>11
    <3>2. At(j) \in 1..n /\ At(j) # p /\ x = q[At(j)]
      BY <1>9, <3>1
    <3>3. q[p] = e
      BY <1>4 DEF First
    <3>. QED  BY <1>4, <1>11, <3>2, <3>3 DEF Distinct
  <2>2. ASSUME NEW x \in Elements(l), x # e
        PROVE  x \in Elements(m)
    <3>1. PICK i1 \in 1..n : x = q[i1]
      BY <1>11
    <3>2. i1 # p
      BY <1>4, <2>2, <3>1 DEF First
    <3>3. PICK j \in 1..Len(r) : At(j) = i1
      BY <1>10, <3>2
    <3>. QED  BY <1>9, <1>11, <3>1, <3>3
  <2>. QED  BY <2>1, <2>2
<1>13. Distinct(m)
  <2>. SUFFICES ASSUME NEW i1 \in 1..Len(r), NEW j \in 1..Len(r), r[i1] = r[j]
                PROVE  i1 = j
    BY <1>5 DEF Distinct
  <2>1. At(i1) = At(j)
    BY <1>9 DEF Distinct
  <2>. QED  BY <1>1, <1>4, <1>8, <2>1
<1>14. m.next \in Nat /\ WellFormed(m)
  <2>1. l.next \in 1..n
    BY <1>1, <1>4 DEF WellFormed, isEmpty
  <2>2. r = <<>> <=> n = 1
    <3>1. r = <<>> <=> Len(r) = 0
      <4>1. r \in Seq(S)
        BY <1>8
      <4>. QED  BY <4>1
    <3>2. Len(r) = n - 1 /\ n \in Nat
      BY <1>1, <1>8
    <3>. QED  BY <3>1, <3>2
  <2>. QED  BY <1>1, <1>4, <1>5, <1>8, <2>1, <2>2 DEF WellFormed, isEmpty
<1>15. m \in [elems : Seq(S), next : Nat]
  BY <1>5, <1>8, <1>14
<1>. QED  BY <1>5, <1>8, <1>12, <1>13, <1>14, <1>15 DEF m

-----------------------------------------------------------------------------
(* Ends *)

(* What a list has is of the other kind.                                    *)
LEMMA ListedOpposite ==
  ASSUME ListInv, NEW c \in Channels, NEW d \in Elements(connections[c])
  PROVE  d \in Opposite(c) /\ d \in Channels /\ d # c
<1>1. d \in Opposite(c)
  <2>. DEFINE S == Opposite(c)
              q == connections[c].elems
  <2>1. q \in Seq(S)
    BY DEF ListInv, ListAt
  <2>2. PICK i \in 1..Len(q) : d = q[i]
    BY DEF Elements
  <2>. HIDE DEF S, q
  <2>3. d \in S
    BY <2>1, <2>2
  <2>. QED  BY <2>3 DEF S
<1>. QED  BY <1>1, ChannelsAssumption DEF Opposite, Channels

(* The two ends a connector works on.                                       *)
LEMMA WorkEnds ==
  ASSUME General, NEW k \in Connectors,
         cpc[k] \in Binding \cup Parting \cup Reposting \cup {"self_lock"}
  PROVE  /\ id1[k] \in Channels /\ id2[k] \in Channels /\ id1[k] # id2[k]
         /\ id2[k] \in Opposite(id1[k]) /\ id1[k] \in Opposite(id2[k])
         /\ ReceivingEnd(k) \in Ins /\ SendingEnd(k) \in Outs
         /\ {ReceivingEnd(k), SendingEnd(k)} = {id1[k], id2[k]}
<1>1. ConnectorAt(k)
  BY DEF General, ConnectorInv
<1>2. id1[k] \in Channels
  BY <1>1 DEF ConnectorAt, Binding, BindBoth, Parting, Reposting
<1>3. id2[k] \in Opposite(id1[k])
  <2>1. CASE cpc[k] \in Binding
    BY <1>1, <1>2, <2>1, ChannelsAssumption DEF ConnectorAt, Compatible, Opposite, Channels
  <2>2. CASE cpc[k] \in Parting
    BY <1>1, <1>2, <2>2, ListedOpposite DEF ConnectorAt, General
  <2>3. CASE cpc[k] \in Reposting \cup {"self_lock"}
    BY <1>1, <2>3 DEF ConnectorAt
  <2>. QED  BY <2>1, <2>2, <2>3
<1>. QED  BY <1>2, <1>3, ChannelsAssumption DEF Opposite, Channels, ReceivingEnd, SendingEnd

-----------------------------------------------------------------------------
(* The steps of a call *)

CallStep(c) ==
  SharedStep(c) \/ (c \in Outs /\ SendStep(c)) \/ (c \in Ins /\ ReceiveStep(c))

(* The end a call has in hand is of the other kind.                         *)
LEMMA EndInHand ==
  ASSUME CallInv, NEW c \in Channels,
         \/ pc[c] \in {"lock_out", "test", "transfer", "wait_ack"}
         \/ pc[c] = "lock_in" /\ match[c] # NULL
  PROVE  /\ match[c] \in Channels
         /\ c \in Outs => match[c] \in Ins
         /\ c \in Ins => match[c] \in Outs
         /\ c # match[c]
         /\ InEnd(c) \in Channels /\ OutEnd(c) \in Channels
         /\ {InEnd(c), OutEnd(c)} = {c, match[c]}
<1>1. match[c] \in Opposite(c)
  BY DEF CallInv, CallAt
<1>. QED  BY <1>1, ChannelsAssumption DEF Opposite, Channels, InEnd, OutEnd

(* At a transfer both ends have been found ready, so nobody has woken them. *)
LEMMA TransferHand ==
  ASSUME CallInv, NEW c \in Channels, pc[c] = "transfer"
  PROVE  /\ match[c] \in Channels /\ c # match[c]
         /\ ready[c] /\ ready[match[c]]
         /\ blocked[match[c]] = 0
         /\ mutex[c] = c /\ mutex[match[c]] = c
<1>1. match[c] \in Channels /\ c # match[c]
  BY EndInHand
<1>2. /\ ready[c] /\ ready[match[c]]
      /\ mutex[c] = c /\ mutex[match[c]] = c
  BY DEF CallInv, LockAt
<1>3. blocked[match[c]] = 0
  BY <1>1, <1>2 DEF CallInv, WakeupMatchesTransfer, Taken
<1>. QED  BY <1>1, <1>2, <1>3

(* What a call fetches is an end of the other kind, if anything.            *)
LEMMA NextInHand ==
  ASSUME CallInv, ListInv, NEW c \in Channels
  PROVE  getNextElement(connections[c]) \in Opposite(c) \cup {NULL}
<1>. DEFINE l == connections[c]
<1>1. l \in [elems : Seq(Opposite(c)), next : Nat] /\ WellFormed(l)
  BY DEF CallInv, CallTypes, ListInv, ListAt
<1>2. CASE isEmpty(l)
  BY <1>2 DEF getNextElement
<1>3. CASE ~isEmpty(l)
  <2>. DEFINE S == Opposite(c)
  <2>. HIDE DEF l, S
  <2>1. l \in [elems : Seq(S), next : Nat] /\ l.next \in 1..Len(l.elems)
    BY <1>1, <1>3 DEF S, WellFormed
  <2>2. getNextElement(l) = l.elems[l.next]
    BY <1>3 DEF getNextElement
  <2>3. getNextElement(l) \in S
    BY <2>1, <2>2
  <2>. QED  BY <2>3 DEF l, S
<1>. QED  BY <1>2, <1>3

(* A step of a call moves the cursor of its list, no more.                  *)
LEMMA CallLists ==
  ASSUME CallInv, ListInv, NEW c \in Channels, CallStep(c)
  PROVE  /\ connections' \in [Channels -> [elems : Seq(Channels), next : Nat]]
         /\ \A d \in Channels :
              /\ connections'[d].elems = connections[d].elems
              /\ Elements(connections'[d]) = Elements(connections[d])
              /\ WellFormed(connections'[d])
<1>1. \A d \in Channels : WellFormed(connections[d])
  BY DEF ListInv, ListAt
<1>2. CASE connections' = connections
  BY <1>1, <1>2 DEF CallInv, CallTypes
<1>3. CASE NextMatch(c)
  <2>. DEFINE l == connections[c]
              m == AfterGetNext(l)
  <2>1. l \in [elems : Seq(Channels), next : Nat]
    BY DEF CallInv, CallTypes
  <2>2. m \in [elems : Seq(Channels), next : Nat] /\ m.elems = l.elems /\ WellFormed(m)
    BY <1>1, <2>1, CursorMoves
  <2>3. connections' = [connections EXCEPT ![c] = m]
    BY <1>3 DEF NextMatch
  <2>. HIDE DEF m
  <2>4. connections' \in [Channels -> [elems : Seq(Channels), next : Nat]]
    BY <2>2, <2>3 DEF CallInv, CallTypes
  <2>5. \A d \in Channels : /\ connections'[d].elems = connections[d].elems
                            /\ WellFormed(connections'[d])
    BY <1>1, <2>2, <2>3 DEF CallInv, CallTypes
  <2>. QED  BY <2>4, <2>5 DEF Elements
<1>4. CASE SharedStep(c) /\ ~NextMatch(c)
  BY <1>2, <1>4 DEF SharedStep, chanVars, AwaitConnections, TakeLength, EndOfLoop,
     LockIn, LockOut, FindReady, FindNotReady, ReadConnsSem, RepostConnsSem
<1>5. CASE SendStep(c)
  BY <1>2, <1>5 DEF SendStep, chanVars, CallSend, PublishSend, TransferSend,
     AwaitAck, AwaitTaken
<1>6. CASE ReceiveStep(c)
  BY <1>2, <1>6 DEF ReceiveStep, chanVars, CallReceive, PublishReceive,
     TransferReceive, AwaitData, CopyData
<1>. QED  BY <1>3, <1>4, <1>5, <1>6 DEF CallStep

(* A step of a call keeps the state well typed.                             *)
LEMMA CallTypesStep ==
  ASSUME CallInv, ListInv, NEW c \in Channels, CallStep(c)
  PROVE  CallTypes'
<1>. USE DEF PCs, Polling, Trying
<1>2. connections' \in [Channels -> [elems : Seq(Channels), next : Nat]]
  BY CallLists
<1>3. CASE SharedStep(c)
  <2>1. CASE AwaitConnections(c)
    BY SMTT(30), <1>2, <2>1 DEF CallInv, CallTypes, AwaitConnections, Goto
  <2>2. CASE TakeLength(c)
    <3>1. getListLength(connections[c]) \in Nat
      BY DEF CallInv, CallTypes, getListLength
    <3>. QED  BY <1>2, <2>2, <3>1 DEF CallInv, CallTypes, TakeLength, Goto, chanVars
  <2>3. CASE NextMatch(c)
    <3>1. getNextElement(connections[c]) \in Channels \cup {NULL}
      <4>. DEFINE l == connections[c]
      <4>1. l \in [elems : Seq(Channels), next : Nat] /\ WellFormed(l)
        BY DEF CallInv, CallTypes, ListInv, ListAt
      <4>2. CASE isEmpty(l)
        BY <4>2 DEF getNextElement
      <4>3. CASE ~isEmpty(l)
        <5>1. l.next \in 1..Len(l.elems) /\ getNextElement(l) = l.elems[l.next]
          BY <4>1, <4>3, CursorMoves
        <5>. QED  BY <4>1, <5>1
      <4>. QED  BY <4>2, <4>3
    <3>. QED  BY <1>2, <2>3, <3>1 DEF CallInv, CallTypes, NextMatch, Goto
  <2>4. CASE EndOfLoop(c)
    BY <1>2, <2>4 DEF CallInv, CallTypes, EndOfLoop, Goto, chanVars
  <2>5. CASE LockIn(c)
    <3>1. InEnd(c) \in Channels
      BY <2>5, EndInHand DEF LockIn
    <3>. QED  BY <1>2, <2>5, <3>1 DEF CallInv, CallTypes, LockIn, Goto
  <2>6. CASE LockOut(c)
    <3>1. OutEnd(c) \in Channels
      BY <2>6, EndInHand DEF LockOut
    <3>. QED  BY <1>2, <2>6, <3>1 DEF CallInv, CallTypes, LockOut, Goto
  <2>7. CASE FindReady(c)
    BY <1>2, <2>7 DEF CallInv, CallTypes, FindReady, Goto, chanVars
  <2>8. CASE FindNotReady(c)
    <3>1. mutex' \in [Channels -> Channels \cup Connectors \cup {NULL}]
      BY <2>8 DEF CallInv, CallTypes, FindNotReady
    <3>2. iter' \in [Channels -> Nat]
      BY <2>8 DEF CallInv, CallTypes, FindNotReady
    <3>. QED  BY <1>2, <2>8, <3>1, <3>2 DEF CallInv, CallTypes, FindNotReady, Goto
  <2>9. CASE ReadConnsSem(c)
    BY <1>2, <2>9 DEF CallInv, CallTypes, ReadConnsSem, Goto, chanVars
  <2>10. CASE RepostConnsSem(c)
    <3>2. conns_sem' \in [Channels -> Nat]
      BY <2>10 DEF CallInv, CallTypes, RepostConnsSem, PostedIfZero
    <3>3. CASE Return(c)
      BY <1>2, <2>10, <3>2, <3>3 DEF CallInv, CallTypes, RepostConnsSem, Return, Goto
    <3>4. CASE Goto(c, "wait_blocked") /\ UNCHANGED <<match, iter, length, val, active>>
      BY <1>2, <2>10, <3>2, <3>4 DEF CallInv, CallTypes, RepostConnsSem, Goto
    <3>. QED  BY <2>10, <3>3, <3>4 DEF RepostConnsSem
  <2>. QED  BY <1>3, <2>1, <2>2, <2>3, <2>4, <2>5, <2>6, <2>7, <2>8, <2>9,
               <2>10 DEF SharedStep
<1>4. CASE c \in Outs /\ SendStep(c)
  <2>1. CASE CallSend(c)
    BY <1>2, <2>1 DEF CallInv, CallTypes, CallSend, Goto, chanVars
  <2>2. CASE PublishSend(c)
    BY <1>2, <2>2 DEF CallInv, CallTypes, PublishSend, Goto
  <2>3. CASE TransferSend(c)
    <3>1. /\ match[c] \in Channels
          /\ blocked[match[c]] = 0
      BY <2>3, TransferHand DEF TransferSend
    <3>2. /\ ready' \in [Channels -> BOOLEAN]
          /\ blocked' \in [Channels -> Nat]
          /\ mutex' \in [Channels -> Channels \cup Connectors \cup {NULL}]
      <4>2. ready' \in [Channels -> BOOLEAN]
        BY <2>3, <3>1 DEF CallInv, CallTypes, TransferSend, BothWithdrawn
      <4>3. blocked' \in [Channels -> Nat]
        BY <2>3, <3>1 DEF CallInv, CallTypes, TransferSend, WakeUp
      <4>4. mutex' \in [Channels -> Channels \cup Connectors \cup {NULL}]
        BY <2>3, <3>1 DEF CallInv, CallTypes, TransferSend
      <4>. QED  BY <4>2, <4>3, <4>4
    <3>. QED  BY <1>2, <2>3, <3>2 DEF CallInv, CallTypes, TransferSend, Goto
  <2>4. CASE AwaitAck(c)
    BY <1>2, <2>4 DEF CallInv, CallTypes, AwaitAck, Goto
  <2>5. CASE AwaitTaken(c)
    BY SMTT(30), <1>2, <2>5 DEF CallInv, CallTypes, AwaitTaken, Return, Goto
  <2>. QED  BY <1>4, <2>1, <2>2, <2>3, <2>4, <2>5 DEF SendStep
<1>5. CASE c \in Ins /\ ReceiveStep(c)
  <2>1. CASE CallReceive(c)
    BY <1>2, <2>1 DEF CallInv, CallTypes, CallReceive, Goto, chanVars
  <2>2. CASE PublishReceive(c)
    BY <1>2, <2>2 DEF CallInv, CallTypes, PublishReceive, Goto
  <2>3. CASE TransferReceive(c)
    <3>1. /\ match[c] \in Channels
          /\ blocked[match[c]] = 0
      BY <2>3, TransferHand DEF TransferReceive
    <3>3. /\ ready' \in [Channels -> BOOLEAN]
          /\ blocked' \in [Channels -> Nat]
          /\ mutex' \in [Channels -> Channels \cup Connectors \cup {NULL}]
      <4>2. ready' \in [Channels -> BOOLEAN]
        BY <2>3, <3>1 DEF CallInv, CallTypes, TransferReceive, BothWithdrawn
      <4>3. blocked' \in [Channels -> Nat]
        BY <2>3, <3>1 DEF CallInv, CallTypes, TransferReceive, WakeUp
      <4>4. mutex' \in [Channels -> Channels \cup Connectors \cup {NULL}]
        BY <2>3, <3>1 DEF CallInv, CallTypes, TransferReceive
      <4>. QED  BY <4>2, <4>3, <4>4
    <3>. QED  BY <1>2, <2>3, <3>3 DEF CallInv, CallTypes, TransferReceive, Goto
  <2>4. CASE AwaitData(c)
    BY SMTT(30), <1>2, <2>4 DEF CallInv, CallTypes, AwaitData, Goto
  <2>5. CASE CopyData(c)
    BY <1>2, <2>5 DEF CallInv, CallTypes, CopyData, Return, Goto
  <2>. QED  BY <1>5, <2>1, <2>2, <2>3, <2>4, <2>5 DEF ReceiveStep
<1>. QED  BY <1>3, <1>4, <1>5 DEF CallStep

(* ... and every call where its locals and flags say it is.                 *)
LEMMA CallAtStep ==
  ASSUME CallInv, ListInv, NEW c \in Channels, CallStep(c)
  PROVE  \A d \in Channels : CallAt(d)'
<1>. USE DEF PCs, Polling, Trying, Announced
<1>. SUFFICES ASSUME NEW d \in Channels
              PROVE  CallAt(d)'
  OBVIOUS
<1>0. CallTypes
  BY DEF CallInv
<1>2. CallAt(d) /\ CallAt(c)
  BY DEF CallInv
<1>4. CASE SharedStep(c)
  <2>1. CASE AwaitConnections(c)
    BY <1>0, <1>2, <2>1 DEF CallTypes, CallAt, AwaitConnections, Goto
  <2>2. CASE TakeLength(c)
    BY <1>0, <1>2, <2>2 DEF CallTypes, CallAt, TakeLength, Goto, getListLength, chanVars
  <2>3. CASE NextMatch(c)
    <3>1. getNextElement(connections[c]) \in Opposite(c) \cup {NULL}
      BY NextInHand
    <3>. QED  BY <1>0, <1>2, <2>3, <3>1 DEF CallTypes, CallAt, NextMatch, Goto
  <2>4. CASE EndOfLoop(c)
    BY <1>0, <1>2, <2>4 DEF CallTypes, CallAt, EndOfLoop, Goto, chanVars
  <2>5. CASE LockIn(c)
    BY <1>0, <1>2, <2>5 DEF CallTypes, CallAt, LockIn, Goto
  <2>6. CASE LockOut(c)
    BY <1>0, <1>2, <2>6 DEF CallTypes, CallAt, LockOut, Goto
  <2>7. CASE FindReady(c)
    BY <1>0, <1>2, <2>7 DEF CallTypes, CallAt, FindReady, Goto, chanVars
  <2>8. CASE FindNotReady(c)
    BY <1>0, <1>2, <2>8 DEF CallTypes, CallAt, FindNotReady, Goto
  <2>9. CASE ReadConnsSem(c)
    BY <1>0, <1>2, <2>9 DEF CallTypes, CallAt, ReadConnsSem, Goto, chanVars
  <2>10. CASE RepostConnsSem(c)
    <3>1. CASE Return(c)
      BY <1>0, <1>2, <2>10, <3>1
         DEF CallTypes, CallAt, RepostConnsSem, PostedIfZero, Return, Goto
    <3>2. CASE ~active[c] /\ Goto(c, "wait_blocked") /\ UNCHANGED <<match, iter, length, val, active>>
      BY <1>0, <1>2, <2>10, <3>2
         DEF CallTypes, CallAt, RepostConnsSem, PostedIfZero, Goto
    <3>. QED  BY <2>10, <3>1, <3>2 DEF RepostConnsSem
  <2>. QED  BY <1>4, <2>1, <2>2, <2>3, <2>4, <2>5, <2>6, <2>7, <2>8, <2>9,
               <2>10 DEF SharedStep
<1>5. CASE c \in Outs /\ SendStep(c)
  <2>1. CASE CallSend(c)
    BY <1>0, <1>2, <2>1 DEF CallTypes, CallAt, CallSend, Goto, chanVars
  <2>2. CASE PublishSend(c)
    BY <1>0, <1>2, <2>2 DEF CallTypes, CallAt, PublishSend, Goto
  <2>3. CASE TransferSend(c)
    <3>1. match[c] \in Channels /\ match[c] # c
      BY <2>3, TransferHand DEF TransferSend
    <3>2. /\ pc[c] = "transfer"
          /\ ready' = [ready EXCEPT ![match[c]] = FALSE, ![c] = FALSE]
          /\ active' = [active EXCEPT ![c] = TRUE]
          /\ pc' = [pc EXCEPT ![c] = "wait_ack"]
          /\ UNCHANGED <<conns_sem, match, length, val>>
      BY <2>3 DEF TransferSend, BothWithdrawn, Goto
    <3>. QED  BY <1>0, <1>2, <1>5, <3>1, <3>2 DEF CallTypes, CallAt
  <2>4. CASE AwaitAck(c)
    BY <1>0, <1>2, <2>4 DEF CallTypes, CallAt, AwaitAck, Goto
  <2>5. CASE AwaitTaken(c)
    <3>1. ~ready[c]
      BY <2>5 DEF AwaitTaken, CallInv, WakeupMatchesTransfer, Taken
    <3>. QED  BY <1>0, <1>2, <2>5, <3>1 DEF CallTypes, CallAt, AwaitTaken, Goto, Return
  <2>. QED  BY <1>5, <2>1, <2>2, <2>3, <2>4, <2>5 DEF SendStep
<1>6. CASE c \in Ins /\ ReceiveStep(c)
  <2>1. CASE CallReceive(c)
    BY <1>0, <1>2, <2>1 DEF CallTypes, CallAt, CallReceive, Goto, chanVars
  <2>2. CASE PublishReceive(c)
    BY <1>0, <1>2, <2>2 DEF CallTypes, CallAt, PublishReceive, Goto
  <2>3. CASE TransferReceive(c)
    <3>1. match[c] \in Channels /\ match[c] # c
      BY <2>3, TransferHand DEF TransferReceive
    <3>2. /\ pc[c] = "transfer"
          /\ ready' = [ready EXCEPT ![match[c]] = FALSE, ![c] = FALSE]
          /\ active' = [active EXCEPT ![c] = TRUE]
          /\ pc' = [pc EXCEPT ![c] = "get_value"]
          /\ UNCHANGED <<conns_sem, match, length, val>>
      BY <2>3 DEF TransferReceive, BothWithdrawn, Goto
    <3>. QED  BY <1>0, <1>2, <3>1, <3>2 DEF CallTypes, CallAt
  <2>4. CASE AwaitData(c)
    <3>1. ~ready[c]
      BY <2>4 DEF AwaitData, CallInv, WakeupMatchesTransfer, Taken
    <3>. QED  BY <1>0, <1>2, <1>6, <2>4, <3>1 DEF CallTypes, CallAt, AwaitData, Goto
  <2>5. CASE CopyData(c)
    BY <1>0, <1>2, <2>5 DEF CallTypes, CallAt, CopyData, Goto, Return
  <2>. QED  BY <1>6, <2>1, <2>2, <2>3, <2>4, <2>5 DEF ReceiveStep
<1>. QED  BY <1>4, <1>5, <1>6 DEF CallStep

(* ... and the mutexes with the calls that took them.                       *)
LEMMA CallLockStep ==
  ASSUME CallInv, ListInv, NEW c \in Channels, CallStep(c)
  PROVE  \A d \in Channels : LockAt(d)'
<1>. USE DEF PCs, Polling, Trying
<1>. SUFFICES ASSUME NEW d \in Channels
              PROVE  LockAt(d)'
  OBVIOUS
<1>0. CallTypes
  BY DEF CallInv
<1>2. LockAt(d) /\ d # NULL
  BY ChannelsAssumption DEF CallInv
<1>3. (\/ pc[d] \in {"lock_out", "test", "transfer"}
       \/ pc[d] = "lock_in" /\ match[d] # NULL) =>
        /\ match[d] \in Channels /\ match[d] # d
        /\ InEnd(d) \in Channels /\ OutEnd(d) \in Channels
        /\ {InEnd(d), OutEnd(d)} = {d, match[d]}
  BY EndInHand
<1>4. CASE SharedStep(c)
  <2>1. CASE AwaitConnections(c)
    BY <1>0, <1>2, <1>3, <2>1 DEF CallTypes, LockAt, InEnd, AwaitConnections, Goto
  <2>2. CASE TakeLength(c)
    BY <1>0, <1>2, <1>3, <2>2 DEF CallTypes, LockAt, InEnd, TakeLength, Goto, chanVars
  <2>3. CASE NextMatch(c)
    BY <1>0, <1>2, <1>3, <2>3 DEF CallTypes, LockAt, InEnd, NextMatch, Goto
  <2>4. CASE EndOfLoop(c)
    BY <1>0, <1>2, <1>3, <2>4 DEF CallTypes, LockAt, InEnd, EndOfLoop, Goto, chanVars
  <2>5. CASE LockIn(c)
    BY <1>0, <1>2, <1>3, <2>5 DEF CallTypes, LockAt, InEnd, LockIn, Goto, Unlocked
  <2>6. CASE LockOut(c)
    BY ZenonT(30), <1>0, <1>2, <1>3, <2>6 DEF CallTypes, LockAt, InEnd, LockOut, Goto, Unlocked
  <2>7. CASE FindReady(c)
    BY <1>0, <1>2, <1>3, <2>7 DEF CallTypes, LockAt, InEnd, FindReady, Goto, BothReady, chanVars
  <2>8. CASE FindNotReady(c)
    <3>1. mutex[c] = c /\ mutex[match[c]] = c
      BY <2>8 DEF FindNotReady, CallInv, LockAt
    <3>. QED  BY ZenonT(30), <1>0, <1>2, <1>3, <2>8, <3>1
                DEF CallTypes, LockAt, InEnd, FindNotReady, Goto
  <2>9. CASE ReadConnsSem(c)
    BY <1>0, <1>2, <1>3, <2>9 DEF CallTypes, LockAt, InEnd, ReadConnsSem, Goto, chanVars
  <2>10. CASE RepostConnsSem(c)
    <3>1. \/ pc' = [pc EXCEPT ![c] = "idle"]
          \/ pc' = [pc EXCEPT ![c] = "wait_blocked"]
      BY <2>10 DEF RepostConnsSem, Return, Goto
    <3>2. d # c => match'[d] = match[d]
      BY <1>0, <2>10 DEF RepostConnsSem, Return, CallTypes
    <3>3. UNCHANGED <<mutex, ready>>
      BY <2>10 DEF RepostConnsSem
    <3>4. CASE d = c
      BY <1>0, <3>1, <3>4 DEF LockAt, CallTypes
    <3>5. CASE d # c
      BY <1>0, <1>2, <3>1, <3>2, <3>3, <3>5 DEF LockAt, InEnd, CallTypes
    <3>. QED  BY <3>4, <3>5
  <2>. QED  BY <1>4, <2>1, <2>2, <2>3, <2>4, <2>5, <2>6, <2>7, <2>8, <2>9,
               <2>10 DEF SharedStep
<1>5. CASE c \in Outs /\ SendStep(c)
  <2>1. CASE CallSend(c)
    BY <1>0, <1>2, <1>3, <2>1 DEF CallTypes, LockAt, InEnd, CallSend, Goto, chanVars
  <2>2. CASE PublishSend(c)
    BY <1>0, <1>2, <1>3, <2>2 DEF CallTypes, LockAt, InEnd, PublishSend, Goto
  <2>3. CASE TransferSend(c)
    <3>1. /\ match[c] \in Channels /\ match[c] # c
          /\ mutex[c] = c /\ mutex[match[c]] = c
      BY <2>3, TransferHand DEF TransferSend
    <3>2. /\ ready' = [ready EXCEPT ![match[c]] = FALSE, ![c] = FALSE]
          /\ \A h \in Channels : mutex'[h] = IF h \in {c, match[c]} THEN NULL ELSE mutex[h]
          /\ pc' = [pc EXCEPT ![c] = "wait_ack"]
          /\ UNCHANGED match
      BY <1>0, <2>3, <3>1 DEF TransferSend, BothWithdrawn, Goto, CallTypes
    <3>. QED  BY ZenonT(30), <1>0, <1>2, <1>3, <2>3, <3>1, <3>2 DEF CallTypes, LockAt, InEnd
  <2>4. CASE AwaitAck(c)
    BY <1>0, <1>2, <1>3, <2>4 DEF CallTypes, LockAt, InEnd, AwaitAck, Goto
  <2>5. CASE AwaitTaken(c)
    BY <1>0, <1>2, <1>3, <2>5 DEF CallTypes, LockAt, InEnd, AwaitTaken, Goto, Return
  <2>. QED  BY <1>5, <2>1, <2>2, <2>3, <2>4, <2>5 DEF SendStep
<1>6. CASE c \in Ins /\ ReceiveStep(c)
  <2>1. CASE CallReceive(c)
    BY <1>0, <1>2, <1>3, <2>1 DEF CallTypes, LockAt, InEnd, CallReceive, Goto, chanVars
  <2>2. CASE PublishReceive(c)
    BY <1>0, <1>2, <1>3, <2>2 DEF CallTypes, LockAt, InEnd, PublishReceive, Goto
  <2>3. CASE TransferReceive(c)
    <3>1. /\ match[c] \in Channels /\ match[c] # c
          /\ mutex[c] = c /\ mutex[match[c]] = c
      BY <2>3, TransferHand DEF TransferReceive
    <3>2. /\ ready' = [ready EXCEPT ![match[c]] = FALSE, ![c] = FALSE]
          /\ \A h \in Channels : mutex'[h] = IF h \in {c, match[c]} THEN NULL ELSE mutex[h]
          /\ pc' = [pc EXCEPT ![c] = "get_value"]
          /\ UNCHANGED match
      BY <1>0, <2>3, <3>1 DEF TransferReceive, BothWithdrawn, Goto, CallTypes
    <3>. QED  BY ZenonT(30), <1>0, <1>2, <1>3, <2>3, <3>1, <3>2 DEF CallTypes, LockAt, InEnd
  <2>4. CASE AwaitData(c)
    BY <1>0, <1>2, <1>3, <2>4 DEF CallTypes, LockAt, InEnd, AwaitData, Goto
  <2>5. CASE CopyData(c)
    BY <1>0, <1>2, <1>3, <2>5 DEF CallTypes, LockAt, InEnd, CopyData, Goto, Return
  <2>. QED  BY <1>6, <2>1, <2>2, <2>3, <2>4, <2>5 DEF ReceiveStep
<1>. QED  BY <1>4, <1>5, <1>6 DEF CallStep

(* ... and wake-ups matching transfers.                                     *)
LEMMA CallWakeStep ==
  ASSUME CallInv, ListInv, NEW c \in Channels, CallStep(c)
  PROVE  WakeupMatchesTransfer'
<1>. USE DEF PCs, Polling, Trying, Announced
<1>. DEFINE WakeAt(d) == blocked[d] = IF Taken(d) THEN 1 ELSE 0
<1>. SUFFICES ASSUME NEW d \in Channels
              PROVE  WakeAt(d)'
  BY DEF WakeupMatchesTransfer
<1>0. CallTypes
  BY DEF CallInv
<1>2. /\ WakeAt(d)
      /\ pc[d] = "wait_ack" => active[d]
      /\ active[d] => pc[d] \in {"wait_ack", "get_value", "post_conns"}
  BY DEF CallInv, WakeupMatchesTransfer, CallAt
<1>3. CASE SharedStep(c)
  <2>1. CASE AwaitConnections(c)
    BY <1>0, <1>2, <2>1 DEF CallTypes, Taken, AwaitConnections, Goto
  <2>2. CASE TakeLength(c)
    BY <1>0, <1>2, <2>2 DEF CallTypes, Taken, TakeLength, Goto, chanVars
  <2>3. CASE NextMatch(c)
    BY <1>0, <1>2, <2>3 DEF CallTypes, Taken, NextMatch, Goto
  <2>4. CASE EndOfLoop(c)
    BY <1>0, <1>2, <2>4 DEF CallTypes, Taken, EndOfLoop, Goto, chanVars
  <2>5. CASE LockIn(c)
    BY <1>0, <1>2, <2>5 DEF CallTypes, Taken, LockIn, Goto
  <2>6. CASE LockOut(c)
    BY <1>0, <1>2, <2>6 DEF CallTypes, Taken, LockOut, Goto
  <2>7. CASE FindReady(c)
    BY <1>0, <1>2, <2>7 DEF CallTypes, Taken, FindReady, Goto, chanVars
  <2>8. CASE FindNotReady(c)
    BY <1>0, <1>2, <2>8 DEF CallTypes, Taken, FindNotReady, Goto
  <2>9. CASE ReadConnsSem(c)
    BY <1>0, <1>2, <2>9 DEF CallTypes, Taken, ReadConnsSem, Goto, chanVars
  <2>10. CASE RepostConnsSem(c)
    <3>1. \/ active[c] /\ pc' = [pc EXCEPT ![c] = "idle"]
             /\ active' = [active EXCEPT ![c] = FALSE]
          \/ ~active[c] /\ pc' = [pc EXCEPT ![c] = "wait_blocked"] /\ UNCHANGED active
      BY <2>10 DEF RepostConnsSem, Return, Goto
    <3>2. pc[c] = "post_conns" /\ UNCHANGED <<ready, blocked, buffer>>
      BY <2>10 DEF RepostConnsSem
    <3>3. CASE active[c] /\ pc' = [pc EXCEPT ![c] = "idle"]
               /\ active' = [active EXCEPT ![c] = FALSE]
      BY <1>0, <1>2, <3>2, <3>3 DEF CallTypes, Taken
    <3>4. CASE ~active[c] /\ pc' = [pc EXCEPT ![c] = "wait_blocked"] /\ UNCHANGED active
      BY <1>0, <1>2, <3>2, <3>4 DEF CallTypes, Taken
    <3>. QED  BY <3>1, <3>3, <3>4
  <2>. QED  BY <1>3, <2>1, <2>2, <2>3, <2>4, <2>5, <2>6, <2>7, <2>8, <2>9,
               <2>10 DEF SharedStep
<1>4. CASE c \in Outs /\ SendStep(c)
  <2>1. CASE CallSend(c)
    BY <1>0, <1>2, <2>1 DEF CallTypes, Taken, CallSend, Goto, chanVars
  <2>2. CASE PublishSend(c)
    BY <1>0, <1>2, <2>2 DEF CallTypes, Taken, PublishSend, Goto
  <2>3. CASE TransferSend(c)
    <3>1. /\ match[c] \in Channels /\ match[c] # c
          /\ ready[c] /\ ready[match[c]] /\ blocked[match[c]] = 0
      BY <2>3, TransferHand DEF TransferSend
    <3>2. /\ pc[match[c]] \in Announced /\ ~active[match[c]]
      BY <3>1 DEF CallInv, CallAt
    <3>3. /\ ready' = [ready EXCEPT ![match[c]] = FALSE, ![c] = FALSE]
          /\ active' = [active EXCEPT ![c] = TRUE]
          /\ blocked' = [blocked EXCEPT ![match[c]] = @ + 1]
          /\ pc' = [pc EXCEPT ![c] = "wait_ack"]
      BY <2>3 DEF TransferSend, BothWithdrawn, WakeUp, Goto
    <3>4. CASE d = c
      BY <1>0, <1>2, <3>1, <3>3, <3>4 DEF CallTypes, Taken
    <3>5. CASE d = match[c]
      BY <1>0, <3>1, <3>2, <3>3, <3>5 DEF CallTypes, Taken
    <3>6. CASE d # c /\ d # match[c]
      BY <1>0, <1>2, <3>1, <3>3, <3>6 DEF CallTypes, Taken
    <3>. QED  BY <3>4, <3>5, <3>6
  <2>4. CASE AwaitAck(c)
    BY <1>0, <1>2, <2>4 DEF CallTypes, Taken, AwaitAck, Goto
  <2>5. CASE AwaitTaken(c)
    BY SMTT(30), <1>0, <1>2, <2>5 DEF CallTypes, Taken, AwaitTaken, Goto, Return
  <2>. QED  BY <1>4, <2>1, <2>2, <2>3, <2>4, <2>5 DEF SendStep
<1>5. CASE c \in Ins /\ ReceiveStep(c)
  <2>1. CASE CallReceive(c)
    BY <1>0, <1>2, <2>1 DEF CallTypes, Taken, CallReceive, Goto, chanVars
  <2>2. CASE PublishReceive(c)
    BY <1>0, <1>2, <2>2 DEF CallTypes, Taken, PublishReceive, Goto
  <2>3. CASE TransferReceive(c)
    <3>1. /\ match[c] \in Channels /\ match[c] # c
          /\ ready[c] /\ ready[match[c]] /\ blocked[match[c]] = 0
      BY <2>3, TransferHand DEF TransferReceive
    <3>2. /\ pc[match[c]] \in Announced /\ ~active[match[c]]
      BY <3>1 DEF CallInv, CallAt
    <3>3. /\ ready' = [ready EXCEPT ![match[c]] = FALSE, ![c] = FALSE]
          /\ active' = [active EXCEPT ![c] = TRUE]
          /\ blocked' = [blocked EXCEPT ![match[c]] = @ + 1]
          /\ pc' = [pc EXCEPT ![c] = "get_value"]
      BY <2>3 DEF TransferReceive, BothWithdrawn, WakeUp, Goto
    <3>4. CASE d = c
      BY <1>0, <1>2, <3>1, <3>3, <3>4 DEF CallTypes, Taken
    <3>5. CASE d = match[c]
      BY <1>0, <3>1, <3>2, <3>3, <3>5 DEF CallTypes, Taken
    <3>6. CASE d # c /\ d # match[c]
      BY <1>0, <1>2, <3>1, <3>3, <3>6 DEF CallTypes, Taken
    <3>. QED  BY <3>4, <3>5, <3>6
  <2>4. CASE AwaitData(c)
    BY SMTT(30), <1>0, <1>2, <2>4 DEF CallTypes, Taken, AwaitData, Goto
  <2>5. CASE CopyData(c)
    BY <1>0, <1>2, <2>5 DEF CallTypes, Taken, CopyData, Goto, Return
  <2>. QED  BY <1>5, <2>1, <2>2, <2>3, <2>4, <2>5 DEF ReceiveStep
<1>. QED  BY <1>3, <1>4, <1>5 DEF CallStep

(* A step of a call takes no mutex from a connector.                        *)
LEMMA CallMutexes ==
  ASSUME CallInv, NEW c \in Channels, CallStep(c), NEW h \in Channels,
         mutex[h] \in Connectors
  PROVE  mutex'[h] = mutex[h]
<1>0. CallTypes /\ mutex[h] # NULL /\ mutex[h] # c
  BY ConnectorsAssumption DEF CallInv
<1>1. CASE mutex' = mutex
  BY <1>1
<1>2. CASE LockIn(c)
  BY <1>0, <1>2 DEF LockIn, Unlocked, CallTypes
<1>3. CASE LockOut(c)
  BY <1>0, <1>3 DEF LockOut, Unlocked, CallTypes
<1>4. CASE FindNotReady(c)
  <2>1. mutex[c] = c /\ mutex[match[c]] = c
    BY <1>4 DEF FindNotReady, CallInv, LockAt
  <2>. QED  BY <1>0, <1>4, <2>1 DEF FindNotReady, CallTypes
<1>5. CASE TransferSend(c) \/ TransferReceive(c)
  <2>1. mutex[c] = c /\ mutex[match[c]] = c
    BY <1>5, TransferHand DEF TransferSend, TransferReceive
  <2>2. mutex' = [mutex EXCEPT ![c] = NULL, ![match[c]] = NULL]
    BY <1>5 DEF TransferSend, TransferReceive
  <2>3. mutex' = [mutex EXCEPT ![c] = NULL, ![match[c]] = NULL] \/
        mutex' = [mutex EXCEPT ![match[c]] = NULL, ![c] = NULL]
    BY <2>2
  <2>. QED  BY <1>0, <2>1, <2>3 DEF CallTypes
<1>6. CASE SharedStep(c) /\ ~LockIn(c) /\ ~LockOut(c) /\ ~FindNotReady(c)
  BY <1>1, <1>6 DEF SharedStep, chanVars, AwaitConnections, TakeLength, NextMatch,
     EndOfLoop, FindReady, ReadConnsSem, RepostConnsSem
<1>7. CASE SendStep(c) /\ ~TransferSend(c)
  BY <1>1, <1>7 DEF SendStep, chanVars, CallSend, PublishSend, AwaitAck, AwaitTaken
<1>8. CASE ReceiveStep(c) /\ ~TransferReceive(c)
  BY <1>1, <1>8 DEF ReceiveStep, chanVars, CallReceive, PublishReceive, AwaitData, CopyData
<1>. QED  BY <1>2, <1>3, <1>4, <1>5, <1>6, <1>7, <1>8 DEF CallStep

(* What a call leaves of the others alone.                                  *)
OthersStay(c) ==
  \A d \in Channels \ {c} :
    pc'[d] = pc[d] /\ match'[d] = match[d] /\ val'[d] = val[d] /\ conns_sem'[d] = conns_sem[d]

(* A call leaves the calls on other half-channels alone.                    *)
LEMMA CallOthers ==
  ASSUME CallInv, NEW c \in Channels, CallStep(c)
  PROVE  OthersStay(c)
<1>0. CallTypes
  BY DEF CallInv
<1>1. CASE SharedStep(c) /\ ~RepostConnsSem(c)
  BY SMTT(30), <1>0, <1>1 DEF CallTypes, OthersStay, SharedStep, chanVars, Goto, AwaitConnections,
     TakeLength, NextMatch, EndOfLoop, LockIn, LockOut, FindReady, FindNotReady,
     ReadConnsSem
<1>2. CASE RepostConnsSem(c)
  BY SMTT(30), <1>0, <1>2 DEF CallTypes, OthersStay, RepostConnsSem, PostedIfZero, Return, Goto
<1>3. CASE SendStep(c)
  BY SMTT(30), <1>0, <1>3 DEF CallTypes, OthersStay, SendStep, chanVars, Return, Goto, CallSend,
     PublishSend, TransferSend, AwaitAck, AwaitTaken
<1>4. CASE ReceiveStep(c)
  BY SMTT(30), <1>0, <1>4 DEF CallTypes, OthersStay, ReceiveStep, chanVars, Return, Goto, CallReceive,
     PublishReceive, TransferReceive, AwaitData, CopyData
<1>. QED  BY <1>1, <1>2, <1>3, <1>4 DEF CallStep

(* The calls leave alone what the connectors and the objects rely on, if a  *)
(* call begins only on a half-channel that is kept.                         *)
LEMMA CallKeepsRest ==
  ASSUME General, NEW c \in Channels, CallStep(c), UNCHANGED connVars,
         pc[c] = "idle" => life[c] = "kept"
  PROVE  ConnTypes' /\ ListInv' /\ ConnectorInv' /\ LifeInv'
<1>. USE DEF connVars, argVars, localVars, lifeVars
<1>1. \A d \in Channels : /\ connections'[d].elems = connections[d].elems
                          /\ Elements(connections'[d]) = Elements(connections[d])
                          /\ WellFormed(connections'[d])
  BY CallLists DEF General
<1>2. \A h \in Channels : mutex[h] \in Connectors => mutex'[h] = mutex[h]
  BY CallMutexes DEF General
<1>3. \A d \in Channels \ {c} : pc'[d] = pc[d]
  BY CallOthers DEF General, OthersStay
<1>4. ConnTypes'
  BY DEF General, ConnTypes
<1>5. ListInv'
  <2>. SUFFICES ASSUME NEW d \in Channels
                PROVE  ListAt(d)'
    BY DEF ListInv
  <2>1. ListAt(d)
    BY DEF General, ListInv
  <2>2. Distinct(connections'[d])
    BY <1>1, <2>1 DEF ListAt, Distinct
  <2>3. ASSUME NEW e \in Elements(connections'[d])
        PROVE  d \in Elements(connections'[e]) \/ HalfPartedAt(d, e)'
    <3>1. e \in Channels
      BY <1>1, <2>1, <2>3, ListedOpposite DEF General
    <3>2. d \in Elements(connections[e]) \/ HalfPartedAt(d, e)
      BY <1>1, <2>1 DEF ListAt
    <3>. QED  BY <1>1, <3>1, <3>2 DEF HalfPartedAt
  <2>. QED  BY <1>1, <2>1, <2>2, <2>3 DEF ListAt
<1>6. ConnectorInv'
  <2>. SUFFICES ASSUME NEW k \in Connectors
                PROVE  ConnectorAt(k)'
    BY DEF ConnectorInv
  <2>1. ConnectorAt(k)
    BY DEF General, ConnectorInv
  <2>2. /\ cpc[k] \in {"bind_out", "unbind_out"} => ReceivingEnd(k) \in Channels
        /\ cpc[k] \in BindBoth => id1[k] \in Channels /\ id2[k] \in Channels
        /\ cpc[k] = "self_lock" => id1[k] \in Channels /\ id2[k] \in Channels
        /\ cpc[k] # "idle" => id1[k] \in Channels
    BY WorkEnds, <2>1 DEF General, ConnectorAt, Binding, BindBoth, Parting, CPCs, Opposite, Channels
  <2>3. ReceivingEnd(k)' = ReceivingEnd(k) /\ (Compatible(id1[k], id2[k])' <=> Compatible(id1[k], id2[k]))
    BY DEF ReceivingEnd, Compatible
  <2>4. cpc[k] \in {"bind_out", "unbind_out"} => mutex'[ReceivingEnd(k)] = k
    BY <1>2, <2>1, <2>2 DEF ConnectorAt
  <2>5. cpc[k] \in BindBoth => mutex'[id1[k]] = k /\ mutex'[id2[k]] = k
    BY <1>2, <2>1, <2>2 DEF ConnectorAt
  <2>6. /\ Opposite(id1[k])' = Opposite(id1[k])
        /\ \A d \in Channels : NotFreed(d)' <=> NotFreed(d)
    BY DEF Opposite, NotFreed
  <2>7. cpc[k] = "self_lock" =>
          \A d \in {id1[k], id2[k]} : Elements(connections'[d]) = Elements(connections[d])
    BY <1>1, <2>2
  <2>8. /\ cpc[k] \in Binding => id2[k] \in Channels
        /\ cpc[k] = "bind" => id2[k] \in Channels
    BY <2>1 DEF ConnectorAt
  <2>. QED  BY <1>1, <2>1, <2>2, <2>3, <2>4, <2>5, <2>6, <2>7, <2>8
            DEF ConnectorAt, Binding, BindBoth, Parting, Reposting, Working, CPCs
<1>7. LifeInv'
  <2>. SUFFICES ASSUME NEW d \in Channels
                PROVE  LifeAt(d)'
    BY DEF LifeInv
  <2>1. LifeAt(d)
    BY DEF General, LifeInv
  <2>2. Listing(d)' = Listing(d)
    BY <1>1 DEF Listing, Connected
  <2>3. isEmpty(connections'[d]) <=> isEmpty(connections[d])
    BY <1>1 DEF isEmpty
  <2>4. InUse(d)' => InUse(d) \/ life[d] = "kept"
    BY <1>3 DEF InUse
  <2>. QED  BY <2>1, <2>2, <2>3, <2>4 DEF LifeAt
<1>. QED  BY <1>4, <1>5, <1>6, <1>7

-----------------------------------------------------------------------------
(* The steps of a connector *)

ConnectorStep(k) == CallBind(k) \/ Bind(k) \/ CallUnbind(k) \/ Unbind(k)

(* A step is a step of a call, which begins only on a kept half-channel, of *)
(* a connector, or of the object a half-channel belongs to.                 *)
LEMMA ConnSteps ==
  ASSUME ConnNext
  PROVE  \/ \E c \in Channels : /\ CallStep(c) /\ UNCHANGED connVars
                                /\ pc[c] = "idle" => life[c] = "kept"
         \/ \E k \in Connectors : ConnectorStep(k)
         \/ \E c \in Channels : Drop(c) \/ Channel_decRef(c)
<1>1. ASSUME NEW s \in Outs \cap Kept, CallSend(s), UNCHANGED connVars
      PROVE  s \in Channels /\ CallStep(s) /\ (pc[s] = "idle" => life[s] = "kept")
  BY <1>1 DEF CallStep, SendStep, Kept
<1>2. ASSUME NEW r \in Ins \cap Kept, CallReceive(r), UNCHANGED connVars
      PROVE  r \in Channels /\ CallStep(r) /\ (pc[r] = "idle" => life[r] = "kept")
  BY <1>2 DEF CallStep, ReceiveStep, Kept
<1>3. ASSUME NEW s \in Outs, Send(s)
      PROVE  s \in Channels /\ CallStep(s) /\ pc[s] # "idle"
  <2>1. CallStep(s)
    BY <1>3, Zenon DEF CallStep, Send, SendStep, SharedStep
  <2>2. pc[s] # "idle"
    BY <1>3 DEF Send, AwaitConnections, PublishSend, TakeLength, NextMatch,
       EndOfLoop, LockIn, LockOut, FindReady, FindNotReady, TransferSend,
       AwaitAck, ReadConnsSem, RepostConnsSem, AwaitTaken
  <2>. QED  BY <2>1, <2>2 DEF Channels
<1>4. ASSUME NEW r \in Ins, Receive(r)
      PROVE  r \in Channels /\ CallStep(r) /\ pc[r] # "idle"
  <2>1. CallStep(r)
    BY <1>4, Zenon DEF CallStep, Receive, ReceiveStep, SharedStep
  <2>2. pc[r] # "idle"
    BY <1>4 DEF Receive, AwaitConnections, PublishReceive, TakeLength, NextMatch,
       EndOfLoop, LockIn, LockOut, FindReady, FindNotReady, TransferReceive,
       ReadConnsSem, RepostConnsSem, AwaitData, CopyData
  <2>. QED  BY <2>1, <2>2 DEF Channels
<1>. QED  BY <1>1, <1>2, <1>3, <1>4 DEF ConnNext, Call, ConnectorStep

(* Posting a semaphore, or not, keeps the counts typed.                     *)
LEMMA SemPosted ==
  ASSUME CallTypes, NEW c \in Channels, NEW n, n \in {conns_sem[c], conns_sem[c] + 1}
  PROVE  [conns_sem EXCEPT ![c] = n] \in [Channels -> Nat]
BY DEF CallTypes

(* A connector leaves the calls alone and takes no mutex from one.          *)
LEMMA ConnectorFrame ==
  ASSUME General, NEW k \in Connectors, ConnectorStep(k)
  PROVE  /\ UNCHANGED <<ready, blocked, actually_received, callVars>>
         /\ conns_sem' \in [Channels -> Nat]
         /\ mutex' \in [Channels -> Channels \cup Connectors \cup {NULL}]
         /\ \A h \in Channels : mutex[h] \notin {k, NULL} => mutex'[h] = mutex[h]
<1>. USE DEF vars, chanVars
<1>0. CallTypes
  BY DEF General, CallInv
<1>1. CASE UNCHANGED vars
  BY <1>0, <1>1 DEF CallTypes
<1>2. CASE BindLockIn(k) \/ UnbindLockIn(k)
  <2>1. ReceivingEnd(k) \in Channels
    BY <1>2, WorkEnds DEF BindLockIn, UnbindLockIn, Binding, Parting, Channels
  <2>. QED  BY ZenonT(30), <1>0, <1>2, <2>1 DEF CallTypes, BindLockIn, UnbindLockIn, Unlocked
<1>3. CASE RefuseConnected(k) \/ Connect(k) \/ DisconnectLast(k) \/ DisconnectOwn(k)
  <2>1. SendingEnd(k) \in Channels
    BY <1>3, WorkEnds DEF RefuseConnected, Connect, DisconnectLast, DisconnectOwn, Binding,
       Parting, Channels
  <2>2. /\ mutex[SendingEnd(k)] = NULL /\ mutex' = [mutex EXCEPT ![SendingEnd(k)] = k]
        /\ UNCHANGED <<ready, conns_sem, blocked, actually_received, callVars>>
    BY <1>3 DEF RefuseConnected, Connect, DisconnectLast, DisconnectOwn, Unlocked
  <2>. QED  BY <1>0, <2>1, <2>2 DEF CallTypes
<1>4. CASE Disconnect(k)
  <2>1. ReceivingEnd(k) \in Channels
    BY <1>4, WorkEnds DEF Disconnect, Parting, Channels
  <2>2. mutex[ReceivingEnd(k)] = k
    BY <1>4 DEF Disconnect, General, ConnectorInv, ConnectorAt
  <2>. QED  BY <1>0, <1>4, <2>1, <2>2 DEF CallTypes, Disconnect
<1>5. CASE BindPostFirst(k)
  <2>1. conns_sem' \in [Channels -> Nat]
    BY <1>0, <1>5, WorkEnds, SemPosted DEF BindPostFirst, BindPosted, Binding, BindBoth
  <2>. QED  BY <1>0, <1>5, <2>1 DEF CallTypes, BindPostFirst
<1>6. CASE BindPostSecond(k)
  <2>1. mutex[id1[k]] = k /\ mutex[id2[k]] = k
    BY <1>6 DEF BindPostSecond, General, ConnectorInv, ConnectorAt, BindBoth
  <2>2. mutex' = [mutex EXCEPT ![id1[k]] = NULL, ![id2[k]] = NULL]
    BY <1>6 DEF BindPostSecond
  <2>3. /\ mutex' \in [Channels -> Channels \cup Connectors \cup {NULL}]
        /\ \A h \in Channels : mutex[h] \notin {k, NULL} => mutex'[h] = mutex[h]
    BY <1>0, <2>1, <2>2 DEF CallTypes
  <2>4. conns_sem' \in [Channels -> Nat]
    BY <1>0, <1>6, WorkEnds, SemPosted DEF BindPostSecond, BindPosted, Binding, BindBoth
  <2>. QED  BY <1>6, <2>3, <2>4 DEF BindPostSecond
<1>7. CASE UnbindWait(k, ReceivingEnd(k), "unbind_wait_in", "unbind_wait_out")
           \/ UnbindWait(k, SendingEnd(k), "unbind_wait_out", "unbind_in")
  <2>1. ReceivingEnd(k) \in Channels /\ SendingEnd(k) \in Channels
    BY <1>7, WorkEnds DEF UnbindWait, Parting, Channels
  <2>2. PICK end \in Channels :
          conns_sem[end] > 0 /\ conns_sem' = [conns_sem EXCEPT ![end] = @ - 1]
    BY <1>7, <2>1 DEF UnbindWait
  <2>3. conns_sem' \in [Channels -> Nat]
    BY <1>0, <2>2 DEF CallTypes
  <2>. QED  BY <1>0, <1>7, <2>3 DEF CallTypes, UnbindWait
<1>8. CASE UnbindPostFirst(k) \/ UnbindPostSecond(k)
  <2>1. conns_sem' \in [Channels -> Nat]
    BY <1>0, <1>8, WorkEnds, SemPosted
       DEF UnbindPostFirst, UnbindPostSecond, PostedIfConnected, Reposting
  <2>. QED  BY <1>0, <1>8, <2>1 DEF CallTypes, UnbindPostFirst, UnbindPostSecond
<1>9. CASE CallBind(k) \/ RefuseIncompatible(k) \/ BeginBind(k)
           \/ BindReadSem(k, id1, "bind_value1", "bind_post1")
           \/ BindReadSem(k, id2, "bind_value2", "bind_post2")
           \/ CallUnbind(k) \/ BeginUnbind(k) \/ UnbindNext(k) \/ UnbindReturn(k)
  BY <1>1, <1>9 DEF CallBind, RefuseIncompatible, BeginBind, BindReadSem, CallUnbind,
     BeginUnbind, UnbindNext, UnbindReturn
<1>. QED  BY <1>2, <1>3, <1>4, <1>5, <1>6, <1>7, <1>8, <1>9, Zenon
          DEF ConnectorStep, Bind, Unbind

(* While a connector is at work, but for one that is stuck, no list is half *)
(* parted.                                                                  *)
LEMMA NoneHalfParted ==
  ASSUME General, NEW k \in Connectors, cpc[k] \in Working \ {"self_lock"},
         NEW c \in Channels, NEW d \in Elements(connections[c])
  PROVE  c \in Elements(connections[d])
<1>1. conn_op_mutex = k
  BY DEF General, ConnectorInv, ConnectorAt
<1>2. \A j \in Connectors : cpc[j] = "self_lock" => j = k
  BY <1>1 DEF General, ConnectorInv, ConnectorAt, Working, CPCs
<1>. QED  BY <1>2 DEF General, ListInv, ListAt, HalfPartedAt

-----------------------------------------------------------------------------
(* Connecting and parting *)

GoodList(c, l) ==
  l \in [elems : Seq(Opposite(c)), next : Nat] /\ Distinct(l) /\ WellFormed(l)

(* The list of c gains, or loses, d.                                        *)
Gains(c, d) ==
  /\ d \notin Elements(connections[c])
  /\ Elements(connections'[c]) = Elements(connections[c]) \cup {d}
  /\ Len(connections'[c].elems) = Len(connections[c].elems) + 1

Loses(c, d) ==
  /\ d \in Elements(connections[c])
  /\ Elements(connections'[c]) = Elements(connections[c]) \ {d}
  /\ Len(connections'[c].elems) = Len(connections[c].elems) - 1

(* Every list is good after the step, and those not in S are unchanged.     *)
OnlyChange(S) ==
  /\ connections' \in [Channels -> [elems : Seq(Channels), next : Nat]]
  /\ \A c \in Channels : GoodList(c, connections'[c])
  /\ \A c \in Channels \ S : connections'[c] = connections[c]

(* The lists are good before a step.                                        *)
LEMMA ListsGood ==
  ASSUME General, NEW c \in Channels
  PROVE  GoodList(c, connections[c])
BY DEF General, CallInv, CallTypes, ListInv, ListAt, GoodList

(* A good list is one of half-channels.                                     *)
LEMMA GoodTyped ==
  ASSUME NEW c \in Channels, NEW l, GoodList(c, l)
  PROVE  l \in [elems : Seq(Channels), next : Nat]
<1>1. Opposite(c) \subseteq Channels
  BY DEF Opposite, Channels
<1>. QED  BY <1>1 DEF GoodList

(* A list stays good when an element is added ...                           *)
LEMMA GoodInsert ==
  ASSUME NEW c \in Channels, NEW l, GoodList(c, l), NEW d \in Opposite(c), d \notin Elements(l)
  PROVE  LET m == insertElement(l, d)
         IN GoodList(c, m) /\ Elements(m) = Elements(l) \cup {d} /\ Len(m.elems) = Len(l.elems) + 1
<1>. DEFINE S == Opposite(c)
<1>. HIDE DEF S
<1>1. l \in [elems : Seq(S), next : Nat] /\ WellFormed(l) /\ Distinct(l) /\ d \in S
  BY DEF GoodList, S
<1>. QED  BY <1>1, InsertedList DEF GoodList, S

(* ... and when one is taken away.                                          *)
LEMMA GoodRemove ==
  ASSUME NEW c \in Channels, NEW l, GoodList(c, l), NEW d \in Elements(l)
  PROVE  LET m == removeElement(l, d)
         IN GoodList(c, m) /\ Elements(m) = Elements(l) \ {d} /\ Len(m.elems) = Len(l.elems) - 1
<1>. DEFINE S == Opposite(c)
<1>. HIDE DEF S
<1>1. l \in [elems : Seq(S), next : Nat] /\ WellFormed(l) /\ Distinct(l)
  BY DEF GoodList, S
<1>. QED  BY <1>1, RemovedList DEF GoodList, S

(* A connection adds each end to the list of the other.                     *)
LEMMA ConnectLists ==
  ASSUME General, NEW k \in Connectors, Connect(k)
  PROVE  OnlyChange({id1[k], id2[k]}) /\ Gains(id1[k], id2[k]) /\ Gains(id2[k], id1[k])
<1>1. cpc[k] = "bind_out"
  BY DEF Connect
<1>2. PICK a \in Channels, b \in Channels :
        a = id1[k] /\ b = id2[k] /\ a # b /\ b \in Opposite(a) /\ a \in Opposite(b)
  BY <1>1, WorkEnds DEF Binding
<1>3. b \notin Elements(connections[a])
  BY <1>2 DEF Connect, containsElement
<1>4. a \notin Elements(connections[b])
  BY <1>1, <1>2, <1>3, NoneHalfParted DEF Working, CPCs
<1>. DEFINE ma == insertElement(connections[a], b)
            mb == insertElement(connections[b], a)
<1>5. /\ GoodList(a, ma) /\ Elements(ma) = Elements(connections[a]) \cup {b}
      /\ Len(ma.elems) = Len(connections[a].elems) + 1
  BY <1>2, <1>3, ListsGood, GoodInsert
<1>6. /\ GoodList(b, mb) /\ Elements(mb) = Elements(connections[b]) \cup {a}
      /\ Len(mb.elems) = Len(connections[b].elems) + 1
  BY <1>2, <1>4, ListsGood, GoodInsert
<1>7. connections' = [connections EXCEPT ![a] = ma, ![b] = mb]
  BY <1>2 DEF Connect
<1>. HIDE DEF ma, mb
<1>8. connections \in [Channels -> [elems : Seq(Channels), next : Nat]]
  BY DEF General, CallInv, CallTypes
<1>9. connections'[a] = ma /\ connections'[b] = mb /\
      \A c \in Channels \ {a, b} : connections'[c] = connections[c]
  BY <1>2, <1>7, <1>8
<1>10. \A c \in Channels : GoodList(c, connections'[c])
  BY <1>5, <1>6, <1>9, ListsGood
<1>11. connections' \in [Channels -> [elems : Seq(Channels), next : Nat]]
  BY <1>5, <1>6, <1>7, <1>8, GoodTyped
<1>. QED  BY <1>2, <1>3, <1>4, <1>5, <1>6, <1>9, <1>10, <1>11 DEF OnlyChange, Gains

(* Parting two takes each off the list of the other ...                     *)
LEMMA DisconnectLists ==
  ASSUME General, NEW k \in Connectors, Disconnect(k) \/ DisconnectOwn(k)
  PROVE  OnlyChange({id1[k], id2[k]}) /\ Loses(id1[k], id2[k]) /\ Loses(id2[k], id1[k])
<1>1. cpc[k] = "unbind_out"
  BY DEF Disconnect, DisconnectOwn
<1>2. PICK a \in Channels, b \in Channels : a = id1[k] /\ b = id2[k] /\ a # b
  BY <1>1, WorkEnds DEF Parting
<1>3. b \in Elements(connections[a])
  BY <1>1, <1>2 DEF General, ConnectorInv, ConnectorAt, Parting
<1>4. a \in Elements(connections[b])
  BY <1>1, <1>2, <1>3, NoneHalfParted DEF Working, CPCs
<1>. DEFINE ma == removeElement(connections[a], b)
            mb == removeElement(connections[b], a)
<1>5. /\ GoodList(a, ma) /\ Elements(ma) = Elements(connections[a]) \ {b}
      /\ Len(ma.elems) = Len(connections[a].elems) - 1
  BY <1>2, <1>3, ListsGood, GoodRemove
<1>6. /\ GoodList(b, mb) /\ Elements(mb) = Elements(connections[b]) \ {a}
      /\ Len(mb.elems) = Len(connections[b].elems) - 1
  BY <1>2, <1>4, ListsGood, GoodRemove
<1>7. connections' = [connections EXCEPT ![a] = ma, ![b] = mb]
  BY <1>2 DEF Disconnect, DisconnectOwn, Parted
<1>. HIDE DEF ma, mb
<1>8. connections \in [Channels -> [elems : Seq(Channels), next : Nat]]
  BY DEF General, CallInv, CallTypes
<1>9. connections'[a] = ma /\ connections'[b] = mb /\
      \A c \in Channels \ {a, b} : connections'[c] = connections[c]
  BY <1>2, <1>7, <1>8
<1>10. \A c \in Channels : GoodList(c, connections'[c])
  BY <1>5, <1>6, <1>9, ListsGood
<1>11. connections' \in [Channels -> [elems : Seq(Channels), next : Nat]]
  BY <1>5, <1>6, <1>7, <1>8, GoodTyped
<1>. QED  BY <1>2, <1>3, <1>4, <1>5, <1>6, <1>9, <1>10, <1>11 DEF OnlyChange, Loses

(* ... but an opposite with one reference left keeps the other on its list. *)
LEMMA DisconnectLastLists ==
  ASSUME General, NEW k \in Connectors, DisconnectLast(k)
  PROVE  /\ OnlyChange({id1[k]}) /\ Loses(id1[k], id2[k])
         /\ id1[k] \in Elements(connections[id2[k]])
<1>1. cpc[k] = "unbind_out"
  BY DEF DisconnectLast
<1>2. PICK a \in Channels, b \in Channels : a = id1[k] /\ b = id2[k] /\ a # b
  BY <1>1, WorkEnds DEF Parting
<1>3. b \in Elements(connections[a])
  BY <1>1, <1>2 DEF General, ConnectorInv, ConnectorAt, Parting
<1>4. a \in Elements(connections[b])
  BY <1>1, <1>2, <1>3, NoneHalfParted DEF Working, CPCs
<1>. DEFINE ma == removeElement(connections[a], b)
<1>5. /\ GoodList(a, ma) /\ Elements(ma) = Elements(connections[a]) \ {b}
      /\ Len(ma.elems) = Len(connections[a].elems) - 1
  BY <1>2, <1>3, ListsGood, GoodRemove
<1>7. connections' = [connections EXCEPT ![a] = ma]
  BY <1>2 DEF DisconnectLast
<1>. HIDE DEF ma
<1>8. connections \in [Channels -> [elems : Seq(Channels), next : Nat]]
  BY DEF General, CallInv, CallTypes
<1>9. connections'[a] = ma /\ \A c \in Channels \ {a} : connections'[c] = connections[c]
  BY <1>2, <1>7, <1>8
<1>10. \A c \in Channels : GoodList(c, connections'[c])
  BY <1>5, <1>9, ListsGood
<1>11. connections' \in [Channels -> [elems : Seq(Channels), next : Nat]]
  BY <1>5, <1>7, <1>8, GoodTyped
<1>. QED  BY <1>2, <1>3, <1>4, <1>5, <1>9, <1>10, <1>11 DEF OnlyChange, Loses

(* Every other step leaves the lists alone.                                 *)
LEMMA ListsLeft ==
  ASSUME NEW k \in Connectors, ConnectorStep(k),
         ~Connect(k), ~Disconnect(k), ~DisconnectLast(k), ~DisconnectOwn(k)
  PROVE  UNCHANGED connections
BY DEF vars, chanVars, ConnectorStep, Bind, Unbind, CallBind, RefuseIncompatible,
   BeginBind, BindLockIn, RefuseConnected, BindReadSem, BindPostFirst, BindPostSecond,
   CallUnbind, BeginUnbind, UnbindNext, UnbindReturn, UnbindWait, UnbindLockIn,
   UnbindPostFirst, UnbindPostSecond

(* A connector keeps every call where it is.                                *)
LEMMA ConnectorKeepsCalls ==
  ASSUME General, NEW k \in Connectors, ConnectorStep(k)
  PROVE  CallInv'
<1>0. /\ UNCHANGED <<ready, blocked, actually_received, callVars>>
      /\ conns_sem' \in [Channels -> Nat]
      /\ mutex' \in [Channels -> Channels \cup Connectors \cup {NULL}]
      /\ \A h \in Channels : mutex[h] \notin {k, NULL} => mutex'[h] = mutex[h]
  BY ConnectorFrame
<1>1. CallInv /\ CallTypes
  BY DEF General, CallInv
<1>2. connections' \in [Channels -> [elems : Seq(Channels), next : Nat]]
  BY <1>1, ConnectLists, DisconnectLists, DisconnectLastLists, ListsLeft
     DEF OnlyChange, CallTypes
<1>3. CallTypes'
  BY <1>0, <1>1, <1>2 DEF CallTypes, callVars
<1>4. WakeupMatchesTransfer'
  BY <1>0, <1>1 DEF CallInv, WakeupMatchesTransfer, Taken, callVars
<1>5. ASSUME NEW c \in Channels
      PROVE  CallAt(c)' /\ LockAt(c)'
  <2>1. CallAt(c) /\ LockAt(c)
    BY <1>1 DEF CallInv
  <2>2. CallAt(c)'
    BY <1>0, <2>1 DEF CallAt, callVars
  <2>3. c \notin {k, NULL}
    BY ConnectorsAssumption, ChannelsAssumption
  <2>4. pc[c] = "lock_out" => InEnd(c) \in Channels
    BY <1>1, EndInHand
  <2>5. pc[c] \in {"test", "transfer"} => match[c] \in Channels
    BY <1>1, EndInHand
  <2>6. InEnd(c)' = InEnd(c)
    BY <1>0 DEF InEnd, callVars
  <2>. QED  BY <1>0, <2>1, <2>2, <2>3, <2>4, <2>5, <2>6 DEF LockAt, callVars
<1>. QED  BY <1>3, <1>4, <1>5 DEF CallInv

(* Its variables are its own; the objects keep what they keep.              *)
ConnectorsStay(k) ==
  /\ \A j \in Connectors \ {k} :
       UNCHANGED <<cpc[j], id1[j], id2[j], cval[j], citer[j], clength[j]>>
  /\ UNCHANGED life
  /\ conn_op_mutex' \in {conn_op_mutex, k, NULL}

(* What an unbind works on has a reference to lose.                         *)
LEMMA ListedCounted ==
  ASSUME General, NEW c \in Channels, NEW d \in Channels, d \in Elements(connections[c])
  PROVE  /\ c \in Listing(d) /\ Cardinality(Listing(d)) \in Nat \ {0}
         /\ refs[d] = (IF life[d] = "kept" THEN 1 ELSE 0) + Cardinality(Listing(d))
<1>1. IsFiniteSet(Listing(d)) /\ c \in Listing(d)
  BY DEF General, LifeInv, LifeAt, Listing, Connected
<1>. QED  BY <1>1, FS_CardinalityType, FS_EmptySet DEF General, LifeInv, LifeAt

(* What something refers to is not freed.                                   *)
LEMMA ReferencedNotFreed ==
  ASSUME General, NEW c \in Referenced
  PROVE  c \in Channels /\ NotFreed(c)
<1>1. c \in Channels /\ refs[c] > 0 /\ LifeAt(c)
  BY DEF Referenced, General, LifeInv
<1>. SUFFICES ASSUME life[c] \in {"decRef", "freed"}
              PROVE  FALSE
  BY <1>1 DEF NotFreed, General, ConnTypes
<1>2. Elements(connections[c]) = {}
  BY <1>1 DEF LifeAt, isEmpty, Elements
<1>3. Listing(c) = {}
  <2>. SUFFICES ASSUME NEW d \in Channels, c \in Elements(connections[d])
                PROVE  FALSE
    BY DEF Listing, Connected
  <2>1. HalfPartedAt(d, c)
    BY <1>2 DEF General, ListInv, ListAt
  <2>. QED  BY <2>1 DEF HalfPartedAt, General, ConnectorInv, ConnectorAt, NotFreed
<1>. QED  BY <1>1, <1>3, FS_EmptySet DEF LifeAt

(* A connector changes its own variables, and they stay well typed.         *)
LEMMA ConnectorOwn ==
  ASSUME General, NEW k \in Connectors, ConnectorStep(k)
  PROVE  ConnTypes' /\ ConnectorsStay(k)
<1>0. ConnTypes /\ CallTypes
  BY DEF General, CallInv
<1>. USE DEF argVars, localVars, lifeVars, CGoto, CPCs
<1>1. CASE CReturn(k)
  BY <1>0, <1>1 DEF ConnTypes, ConnectorsStay, CReturn
<1>2. CASE CallBind(k) \/ CallUnbind(k)
  BY <1>0, <1>2 DEF ConnTypes, ConnectorsStay, CallBind, CallUnbind, Referenced
<1>3. CASE BeginBind(k) \/ BindLockIn(k) \/ BindPostFirst(k) \/ UnbindLockIn(k) \/ UnbindPostFirst(k)
  BY <1>0, <1>3 DEF ConnTypes, ConnectorsStay, BeginBind, BindLockIn, BindPostFirst,
     UnbindLockIn, UnbindPostFirst
<1>4. CASE BindReadSem(k, id1, "bind_value1", "bind_post1")
  <2>1. conns_sem[id1[k]] \in Nat
    BY <1>0, <1>4, WorkEnds DEF BindReadSem, Binding, BindBoth, CallTypes
  <2>. QED  BY <1>0, <1>4, <2>1 DEF ConnTypes, ConnectorsStay, BindReadSem
<1>5. CASE BindReadSem(k, id2, "bind_value2", "bind_post2")
  <2>1. conns_sem[id2[k]] \in Nat
    BY <1>0, <1>5, WorkEnds DEF BindReadSem, Binding, BindBoth, CallTypes
  <2>. QED  BY <1>0, <1>5, <2>1 DEF ConnTypes, ConnectorsStay, BindReadSem
<1>6. CASE BeginUnbind(k) \/ UnbindPostSecond(k)
  <2>1. id1[k] \in Channels
    BY <1>6 DEF BeginUnbind, UnbindPostSecond, General, ConnectorInv, ConnectorAt
  <2>2. getListLength(connections[id1[k]]) \in Nat
    BY <1>0, <2>1 DEF getListLength, CallTypes
  <2>. QED  BY <1>0, <1>6, <2>2 DEF ConnTypes, ConnectorsStay, BeginUnbind, UnbindPostSecond
<1>7. CASE UnbindNext(k)
  <2>1. id1[k] \in Channels /\ clength[k] = Len(connections[id1[k]].elems)
    BY <1>7 DEF UnbindNext, General, ConnectorInv, ConnectorAt
  <2>2. getElementN(connections[id1[k]], citer[k]) \in Channels
    <3>. DEFINE q == connections[id1[k]].elems
    <3>1. q \in Seq(Channels) /\ citer[k] \in Nat /\ citer[k] < Len(q)
      BY <1>0, <1>7, <2>1 DEF UnbindNext, MoreToPart, ConnTypes, CallTypes
    <3>2. getElementN(connections[id1[k]], citer[k]) = q[citer[k] + 1]
      BY <3>1 DEF getElementN, getListLength
    <3>. HIDE DEF q
    <3>. QED  BY <3>1, <3>2
  <2>. QED  BY <1>0, <1>7, <2>2 DEF ConnTypes, ConnectorsStay, UnbindNext
<1>8. CASE UnbindWait(k, ReceivingEnd(k), "unbind_wait_in", "unbind_wait_out")
           \/ UnbindWait(k, SendingEnd(k), "unbind_wait_out", "unbind_in")
  BY <1>0, <1>8 DEF ConnTypes, ConnectorsStay, UnbindWait
<1>9. CASE Connect(k)
  <2>1. refs' \in [Channels -> Nat]
    <3>1. refs' = [refs EXCEPT ![id1[k]] = @ + 1, ![id2[k]] = @ + 1]
      BY <1>9 DEF Connect
    <3>2. id1[k] \in Channels /\ id2[k] \in Channels /\ id1[k] # id2[k]
      BY <1>9, WorkEnds DEF Connect, Binding
    <3>. QED  BY <1>0, <3>1, <3>2 DEF ConnTypes
  <2>. QED  BY <1>0, <1>9, <2>1 DEF ConnTypes, ConnectorsStay, Connect
<1>10. CASE Disconnect(k) \/ DisconnectOwn(k)
  <2>1. PICK a \in Channels, b \in Channels : a = id1[k] /\ b = id2[k] /\ a # b
    BY <1>10, WorkEnds DEF Disconnect, DisconnectOwn, Parting
  <2>2. refs[a] > 0 /\ refs[b] > 0
    <3>1. b \in Elements(connections[a]) /\ a \in Elements(connections[b])
      BY <1>10, <2>1, DisconnectLists DEF Loses
    <3>. QED  BY <2>1, <3>1, ListedCounted
  <2>3. refs' = [refs EXCEPT ![a] = @ - 1, ![b] = @ - 1]
    BY <1>10, <2>1 DEF Disconnect, DisconnectOwn, Released
  <2>4. refs' \in [Channels -> Nat]
    BY <1>0, <2>1, <2>2, <2>3 DEF ConnTypes
  <2>. QED  BY <1>0, <1>10, <2>4 DEF ConnTypes, ConnectorsStay, Disconnect, DisconnectOwn
<1>11. CASE DisconnectLast(k)
  BY <1>0, <1>11 DEF ConnTypes, ConnectorsStay, DisconnectLast
<1>12. CASE RefuseIncompatible(k) \/ RefuseConnected(k) \/ BindPostSecond(k) \/ UnbindReturn(k)
  BY <1>1, <1>12 DEF RefuseIncompatible, RefuseConnected, BindPostSecond, UnbindReturn
<1>. QED  BY <1>2, <1>3, <1>4, <1>5, <1>6, <1>7, <1>8, <1>9, <1>10, <1>11, <1>12, Zenon
          DEF ConnectorStep, Bind, Unbind

(* Both ends of every connection go on listing each other.                  *)
LEMMA ConnectorKeepsLists ==
  ASSUME General, NEW k \in Connectors, ConnectorStep(k)
  PROVE  ListInv'
<1>1. \A c \in Channels : GoodList(c, connections'[c])
  BY ListsGood, ConnectLists, DisconnectLists, DisconnectLastLists, ListsLeft DEF OnlyChange
<1>. SUFFICES ASSUME NEW c \in Channels, NEW d \in Elements(connections'[c])
              PROVE  c \in Elements(connections'[d]) \/ HalfPartedAt(c, d)'
  BY <1>1 DEF ListInv, ListAt, GoodList
<1>2. ConnTypes
  BY DEF General
<1>3. CASE Connect(k)
  <2>1. PICK a \in Channels, b \in Channels : a = id1[k] /\ b = id2[k] /\ a # b
    BY <1>3, WorkEnds DEF Connect, Binding
  <2>2. /\ Gains(a, b) /\ Gains(b, a)
        /\ \A e \in Channels \ {a, b} : connections'[e] = connections[e]
    BY <1>3, <2>1, ConnectLists DEF OnlyChange
  <2>3. CASE d \in Elements(connections[c])
    <3>1. d \in Channels
      BY <2>3, ListedOpposite DEF General
    <3>2. c \in Elements(connections[d])
      BY <1>3, <2>3, NoneHalfParted DEF Connect, Working, CPCs
    <3>. QED  BY <2>2, <3>1, <3>2 DEF Gains
  <2>4. CASE d \notin Elements(connections[c])
    BY <2>1, <2>2, <2>4 DEF Gains
  <2>. QED  BY <2>3, <2>4
<1>4. CASE Disconnect(k) \/ DisconnectOwn(k)
  <2>1. PICK a \in Channels, b \in Channels : a = id1[k] /\ b = id2[k] /\ a # b
    BY <1>4, WorkEnds DEF Disconnect, DisconnectOwn, Parting
  <2>2. /\ Loses(a, b) /\ Loses(b, a)
        /\ \A e \in Channels \ {a, b} : connections'[e] = connections[e]
    BY <1>4, <2>1, DisconnectLists DEF OnlyChange
  <2>3. d \in Elements(connections[c])
    BY <2>2 DEF Loses
  <2>4. d \in Channels
    BY <2>3, ListedOpposite DEF General
  <2>5. c \in Elements(connections[d])
    BY <1>4, <2>3, NoneHalfParted DEF Disconnect, DisconnectOwn, Working, CPCs
  <2>. QED  BY <2>1, <2>2, <2>4, <2>5 DEF Loses
<1>5. CASE DisconnectLast(k)
  <2>1. PICK a \in Channels, b \in Channels : a = id1[k] /\ b = id2[k] /\ a # b
    BY <1>5, WorkEnds DEF DisconnectLast, Parting
  <2>2. /\ Loses(a, b)
        /\ \A e \in Channels \ {a} : connections'[e] = connections[e]
    BY <1>5, <2>1, DisconnectLastLists DEF OnlyChange
  <2>3. d \in Elements(connections[c])
    BY <2>2 DEF Loses
  <2>4. d \in Channels
    BY <2>3, ListedOpposite DEF General
  <2>5. c \in Elements(connections[d])
    BY <1>5, <2>3, NoneHalfParted DEF DisconnectLast, Working, CPCs
  <2>6. HalfPartedAt(b, a)'
    BY <1>2, <1>5, <2>1 DEF DisconnectLast, CGoto, HalfPartedAt, argVars, ConnTypes
  <2>. QED  BY <2>1, <2>2, <2>4, <2>5, <2>6 DEF Loses
<1>6. CASE ~Connect(k) /\ ~Disconnect(k) /\ ~DisconnectLast(k) /\ ~DisconnectOwn(k)
  <2>1. connections' = connections
    BY <1>6, ListsLeft
  <2>2. c \in Elements(connections[d]) \/ HalfPartedAt(c, d)
    BY <2>1 DEF General, ListInv, ListAt
  <2>3. cpc[k] # "self_lock"
    BY DEF ConnectorStep, Bind, Unbind, CallBind, RefuseIncompatible, BeginBind, BindLockIn,
       RefuseConnected, Connect, BindReadSem, BindPostFirst, BindPostSecond, CallUnbind,
       BeginUnbind, UnbindNext, UnbindReturn, UnbindWait, UnbindLockIn, Disconnect,
       DisconnectLast, DisconnectOwn, UnbindPostFirst, UnbindPostSecond
  <2>4. HalfPartedAt(c, d) => HalfPartedAt(c, d)'
    BY <2>3, ConnectorOwn DEF HalfPartedAt, ConnectorsStay
  <2>. QED  BY <2>1, <2>2, <2>4
<1>. QED  BY <1>3, <1>4, <1>5, <1>6

(* While another connector has conn_op_mutex a connector can only be called. *)
LEMMA ConnectorExcluded ==
  ASSUME General, NEW k \in Connectors, ConnectorStep(k),
         NEW j \in Connectors \ {k}, conn_op_mutex = j
  PROVE  UNCHANGED <<vars, conn_op_mutex, lifeVars>>
<1>1. cpc[k] \notin Working /\ conn_op_mutex # NULL /\ cpc[k] \in CPCs
  BY ConnectorsAssumption DEF General, ConnectorInv, ConnectorAt, ConnTypes
<1>2. CASE CallBind(k) \/ CallUnbind(k)
  BY <1>2 DEF CallBind, CallUnbind, lifeVars
<1>. QED  BY <1>1, <1>2 DEF ConnectorStep, Bind, Unbind, Working, CPCs, RefuseIncompatible,
             BeginBind, BindLockIn, RefuseConnected, Connect, BindReadSem, BindPostFirst,
             BindPostSecond, BeginUnbind, UnbindNext, UnbindReturn, UnbindWait,
             UnbindLockIn, Disconnect, DisconnectLast, DisconnectOwn, UnbindPostFirst,
             UnbindPostSecond

(* So every other connector stands where it stood.                          *)
LEMMA ConnectorOthers ==
  ASSUME General, NEW k \in Connectors, ConnectorStep(k), NEW j \in Connectors \ {k}
  PROVE  ConnectorAt(j)'
<1>1. ConnectorAt(j) /\ ConnTypes
  BY DEF General, ConnectorInv
<1>2. /\ UNCHANGED <<cpc[j], id1[j], id2[j], cval[j], citer[j], clength[j]>>
      /\ UNCHANGED life
      /\ conn_op_mutex' \in {conn_op_mutex, k, NULL}
  BY ConnectorOwn DEF ConnectorsStay
<1>3. CASE conn_op_mutex = j
  <2>1. UNCHANGED <<vars, conn_op_mutex, lifeVars>>
    BY <1>3, ConnectorExcluded
  <2>2. UNCHANGED <<connections, mutex, conn_op_mutex, refs, life>>
    BY <2>1 DEF vars, chanVars, lifeVars
  <2>. QED  BY <1>1, <1>2, <2>2 DEF ConnectorAt, NotFreed, ReceivingEnd, Compatible
<1>4. CASE conn_op_mutex # j
  <2>1. cpc[j] \notin Working /\ cpc[j] \in CPCs /\ j # NULL
    BY <1>1, <1>4, ConnectorsAssumption DEF ConnectorAt, ConnTypes
  <2>2. cpc'[j] \in {"idle", "bind", "unbind"} /\ conn_op_mutex' # j
    BY <1>2, <1>4, <2>1 DEF Working, CPCs
  <2>. QED  BY <1>1, <1>2, <2>2 DEF ConnectorAt, NotFreed, Working, CPCs, Binding,
               BindBoth, Parting, Reposting
<1>. QED  BY <1>3, <1>4

(* And the one at work stands where its function has brought it.            *)
LEMMA ConnectorMoves ==
  ASSUME General, NEW k \in Connectors, ConnectorStep(k)
  PROVE  ConnectorAt(k)'
<1>0. /\ ConnTypes /\ CallTypes /\ ConnectorAt(k) /\ k # NULL
      /\ \A c \in Channels : Len(connections[c].elems) \in Nat
  BY ConnectorsAssumption DEF General, CallInv, CallTypes, ConnectorInv
<1>. USE DEF argVars, localVars, lifeVars, vars, chanVars, CGoto, CPCs, Working, Binding,
             BindBoth, Parting, Reposting, ConnectorAt, NotFreed
<1>1. CASE CReturn(k)
  BY <1>0, <1>1 DEF ConnTypes, CReturn
<1>2. CASE CallBind(k)
  BY <1>0, <1>2, ReferencedNotFreed DEF ConnTypes, CallBind
<1>3. CASE CallUnbind(k)
  BY <1>0, <1>3, ReferencedNotFreed DEF ConnTypes, CallUnbind
<1>4. CASE BeginBind(k)
  BY <1>0, <1>4 DEF ConnTypes, BeginBind, Compatible
<1>5. CASE BindLockIn(k)
  <2>1. ReceivingEnd(k) \in Channels
    BY <1>5, WorkEnds DEF BindLockIn, Channels
  <2>. QED  BY <1>0, <1>5, <2>1 DEF ConnTypes, CallTypes, BindLockIn, Compatible, ReceivingEnd
<1>6. CASE Connect(k)
  <2>1. /\ ReceivingEnd(k) \in Channels /\ SendingEnd(k) \in Channels
        /\ {ReceivingEnd(k), SendingEnd(k)} = {id1[k], id2[k]}
    BY <1>6, WorkEnds DEF Connect, Channels
  <2>2. mutex'[id1[k]] = k /\ mutex'[id2[k]] = k
    BY <1>0, <1>6, <2>1 DEF Connect, CallTypes
  <2>. QED  BY <1>0, <1>6, <2>2 DEF ConnTypes, Connect, Compatible
<1>7. CASE BindReadSem(k, id1, "bind_value1", "bind_post1")
           \/ BindReadSem(k, id2, "bind_value2", "bind_post2")
  BY <1>0, <1>7 DEF ConnTypes, BindReadSem, Compatible
<1>8. CASE BindPostFirst(k)
  BY <1>0, <1>8 DEF ConnTypes, BindPostFirst, Compatible
<1>9. CASE BeginUnbind(k)
  BY <1>0, <1>9 DEF ConnTypes, BeginUnbind, getListLength
<1>10. CASE UnbindNext(k)
  <2>. DEFINE q == connections[id1[k]].elems
              d == getElementN(connections[id1[k]], citer[k])
  <2>1. q \in Seq(Channels) /\ citer[k] \in Nat /\ citer[k] < Len(q)
    BY <1>0, <1>10 DEF UnbindNext, MoreToPart, ConnTypes, CallTypes
  <2>2. d = q[citer[k] + 1]
    BY <2>1 DEF getElementN, getListLength
  <2>3. d \in Elements(connections[id1[k]])
    <3>1. citer[k] + 1 \in 1..Len(q)
      <4>1. Len(q) \in Nat
        BY <2>1
      <4>. HIDE DEF q
      <4>. QED  BY <2>1, <4>1
    <3>. QED  BY <2>2, <3>1, Zenon DEF Elements
  <2>. HIDE DEF d, q
  <2>4. id2' = [id2 EXCEPT ![k] = d]
    BY <1>10 DEF UnbindNext, d
  <2>. QED  BY <1>0, <1>10, <2>3, <2>4 DEF ConnTypes, UnbindNext, MoreToPart
<1>11. CASE UnbindWait(k, ReceivingEnd(k), "unbind_wait_in", "unbind_wait_out")
            \/ UnbindWait(k, SendingEnd(k), "unbind_wait_out", "unbind_in")
  BY <1>0, <1>11 DEF ConnTypes, UnbindWait
<1>12. CASE UnbindLockIn(k)
  <2>1. ReceivingEnd(k) \in Channels
    BY <1>12, WorkEnds DEF UnbindLockIn, Channels
  <2>. QED  BY <1>0, <1>12, <2>1 DEF ConnTypes, CallTypes, UnbindLockIn, ReceivingEnd
<1>13. CASE Disconnect(k)
  <2>1. id1[k] \in Channels /\ id2[k] \in Opposite(id1[k])
    BY <1>13, WorkEnds DEF Disconnect
  <2>2. Len(connections'[id1[k]].elems) = Len(connections[id1[k]].elems) - 1
    BY <1>13, DisconnectLists DEF Loses
  <2>3. citer[k] <= Len(connections'[id1[k]].elems)
    BY <1>0, <1>13, <2>1, <2>2 DEF Disconnect, ConnTypes
  <2>. QED  BY <1>0, <1>13, <2>1, <2>3 DEF ConnTypes, Disconnect, Opposite
<1>14. CASE DisconnectLast(k)
  <2>1. PICK a \in Channels, b \in Channels :
          a = id1[k] /\ b = id2[k] /\ a # b /\ b \in Opposite(a)
    BY <1>14, WorkEnds DEF DisconnectLast
  <2>2. Loses(a, b) /\ a \in Elements(connections[b]) /\ connections'[b] = connections[b]
    BY <1>14, <2>1, DisconnectLastLists DEF OnlyChange
  <2>3. life[b] # "kept"
    <3>1. /\ refs[b] = (IF life[b] = "kept" THEN 1 ELSE 0) + Cardinality(Listing(b))
          /\ Cardinality(Listing(b)) \in Nat \ {0}
      BY <2>1, <2>2, ListedCounted DEF Loses
    <3>. QED  BY <1>14, <2>1, <3>1 DEF DisconnectLast
  <2>4. life[b] \notin {"decRef", "freed"}
    <3>1. connections[b].elems # <<>>
      BY <2>2 DEF Elements
    <3>. QED  BY <3>1 DEF General, LifeInv, LifeAt, isEmpty
  <2>5. life[b] = "left"
    BY <1>0, <2>3, <2>4 DEF ConnTypes
  <2>6. refs'[b] = 0
    BY <1>0, <1>14, <2>1 DEF DisconnectLast, ConnTypes
  <2>7. b \notin Elements(connections'[a]) /\ a \in Elements(connections'[b])
    BY <2>2 DEF Loses
  <2>. QED  BY <1>0, <1>14, <2>1, <2>5, <2>6, <2>7 DEF ConnTypes, DisconnectLast, Opposite
<1>18. CASE DisconnectOwn(k)
  <2>1. PICK a \in Channels, b \in Channels :
          a = id1[k] /\ b = id2[k] /\ a # b /\ b \in Opposite(a)
    BY <1>18, WorkEnds DEF DisconnectOwn
  <2>2. Loses(a, b) /\ Loses(b, a)
    BY <1>18, <2>1, DisconnectLists
  <2>3. life[a] # "kept"
    <3>1. /\ refs[a] = (IF life[a] = "kept" THEN 1 ELSE 0) + Cardinality(Listing(a))
          /\ Cardinality(Listing(a)) \in Nat \ {0}
      BY <2>1, <2>2, ListedCounted DEF Loses
    <3>. QED  BY <1>18, <2>1, <3>1 DEF DisconnectOwn
  <2>4. life[a] = "left"
    BY <1>0, <1>18, <2>1, <2>3 DEF DisconnectOwn
  <2>5. refs'[a] = 0
    BY <1>0, <1>18, <2>1 DEF DisconnectOwn, Released, ConnTypes
  <2>6. b \notin Elements(connections'[a]) /\ a \notin Elements(connections'[b])
    BY <2>2 DEF Loses
  <2>. QED  BY <1>0, <1>18, <2>1, <2>4, <2>5, <2>6 DEF ConnTypes, DisconnectOwn, Opposite
<1>15. CASE UnbindPostFirst(k)
  BY <1>0, <1>15 DEF ConnTypes, UnbindPostFirst, Opposite
<1>16. CASE UnbindPostSecond(k)
  BY <1>0, <1>16 DEF ConnTypes, UnbindPostSecond, getListLength
<1>17. CASE RefuseIncompatible(k) \/ RefuseConnected(k) \/ BindPostSecond(k) \/ UnbindReturn(k)
  BY <1>1, <1>17 DEF RefuseIncompatible, RefuseConnected, BindPostSecond, UnbindReturn
<1>. QED  BY <1>2, <1>3, <1>4, <1>5, <1>6, <1>7, <1>8, <1>9, <1>10, <1>11, <1>12, <1>13,
             <1>14, <1>15, <1>16, <1>17, <1>18, Zenon DEF ConnectorStep, Bind, Unbind

(* What a connector does to the lists a half-channel is in.                 *)
LEMMA ConnectorListings ==
  ASSUME General, NEW k \in Connectors, ConnectorStep(k), NEW c \in Channels
  PROVE  /\ IsFiniteSet(Listing(c)') /\ Cardinality(Listing(c)') \in Nat
         /\ refs'[c] - Cardinality(Listing(c)') = refs[c] - Cardinality(Listing(c))
         /\ isEmpty(connections[c]) /\ ~NotFreed(c) => isEmpty(connections'[c])
         /\ \/ refs'[c] >= refs[c]
            \/ refs'[c] > 0
            \/ DisconnectLast(k) /\ c = id2[k]
            \/ DisconnectOwn(k) /\ c = id1[k]
<1>0. /\ IsFiniteSet(Listing(c)) /\ Cardinality(Listing(c)) \in Nat
      /\ ConnTypes
  BY FS_CardinalityType DEF General, LifeInv, LifeAt
<1>. DEFINE L == Listing(c)
<1>1. CASE Connect(k)
  <2>1. PICK a \in Channels, b \in Channels : a = id1[k] /\ b = id2[k] /\ a # b
    BY <1>1, WorkEnds DEF Connect, Binding
  <2>2. /\ Gains(a, b) /\ Gains(b, a)
        /\ \A e \in Channels \ {a, b} : connections'[e] = connections[e]
    BY <1>1, <2>1, ConnectLists DEF OnlyChange
  <2>3. NotFreed(a) /\ NotFreed(b)
    BY <1>1, <2>1 DEF Connect, General, ConnectorInv, ConnectorAt, Binding
  <2>4. refs' = [refs EXCEPT ![a] = @ + 1, ![b] = @ + 1]
    BY <1>1, <2>1 DEF Connect
  <2>5. CASE c = a
    <3>1. b \notin L /\ Listing(c)' = L \cup {b}
      BY <2>1, <2>2, <2>5 DEF Listing, Connected, Gains
    <3>2. refs'[c] = refs[c] + 1 /\ refs[c] \in Nat
      BY <1>0, <2>1, <2>4, <2>5 DEF ConnTypes
    <3>3. IsFiniteSet(Listing(c)') /\ Cardinality(Listing(c)') = Cardinality(L) + 1
      BY <1>0, <3>1, FS_AddElement
    <3>. QED  BY <1>0, <2>3, <2>5, <3>2, <3>3
  <2>6. CASE c = b
    <3>1. a \notin L /\ Listing(c)' = L \cup {a}
      BY <2>1, <2>2, <2>6 DEF Listing, Connected, Gains
    <3>2. refs'[c] = refs[c] + 1 /\ refs[c] \in Nat
      BY <1>0, <2>1, <2>4, <2>6 DEF ConnTypes
    <3>3. IsFiniteSet(Listing(c)') /\ Cardinality(Listing(c)') = Cardinality(L) + 1
      BY <1>0, <3>1, FS_AddElement
    <3>. QED  BY <1>0, <2>3, <2>6, <3>2, <3>3
  <2>7. CASE c # a /\ c # b
    <3>1. Listing(c)' = L /\ connections'[c] = connections[c]
      BY <2>2, <2>7 DEF Listing, Connected, Gains
    <3>2. refs'[c] = refs[c] /\ refs[c] \in Nat
      BY <1>0, <2>4, <2>7 DEF ConnTypes
    <3>. QED  BY <1>0, <3>1, <3>2
  <2>. QED  BY <2>5, <2>6, <2>7
<1>2. CASE Disconnect(k) \/ DisconnectOwn(k)
  <2>1. PICK a \in Channels, b \in Channels : a = id1[k] /\ b = id2[k] /\ a # b
    BY <1>2, WorkEnds DEF Disconnect, DisconnectOwn, Parting
  <2>2. /\ Loses(a, b) /\ Loses(b, a)
        /\ \A e \in Channels \ {a, b} : connections'[e] = connections[e]
    BY <1>2, <2>1, DisconnectLists DEF OnlyChange
  <2>3. (DisconnectOwn(k) \/ refs[a] > 1) /\ refs[b] > 1
    BY <1>2, <2>1 DEF Disconnect, DisconnectOwn
  <2>4. refs' = [refs EXCEPT ![a] = @ - 1, ![b] = @ - 1]
    BY <1>2, <2>1 DEF Disconnect, DisconnectOwn, Released
  <2>5. CASE c = a
    <3>1. b \in L /\ Listing(c)' = L \ {b}
      BY <2>1, <2>2, <2>5 DEF Listing, Connected, Loses
    <3>2. refs'[c] = refs[c] - 1 /\ refs[c] \in Nat
      BY <1>0, <2>1, <2>4, <2>5 DEF ConnTypes
    <3>3. /\ IsFiniteSet(Listing(c)') /\ Cardinality(Listing(c)') = Cardinality(L) - 1
          /\ Cardinality(Listing(c)') \in Nat
      BY <1>0, <3>1, FS_RemoveElement, FS_CardinalityType
    <3>4. ~isEmpty(connections[c])
      BY <2>2, <2>5 DEF isEmpty, Elements, Loses
    <3>. QED  BY <1>0, <2>1, <2>3, <2>5, <3>2, <3>3, <3>4
  <2>6. CASE c = b
    <3>1. a \in L /\ Listing(c)' = L \ {a}
      BY <2>1, <2>2, <2>6 DEF Listing, Connected, Loses
    <3>2. refs'[c] = refs[c] - 1 /\ refs[c] \in Nat
      BY <1>0, <2>1, <2>4, <2>6 DEF ConnTypes
    <3>3. /\ IsFiniteSet(Listing(c)') /\ Cardinality(Listing(c)') = Cardinality(L) - 1
          /\ Cardinality(Listing(c)') \in Nat
      BY <1>0, <3>1, FS_RemoveElement, FS_CardinalityType
    <3>4. ~isEmpty(connections[c])
      BY <2>2, <2>6 DEF isEmpty, Elements, Loses
    <3>. QED  BY <1>0, <2>3, <2>6, <3>2, <3>3, <3>4
  <2>7. CASE c # a /\ c # b
    <3>1. Listing(c)' = L /\ connections'[c] = connections[c]
      BY <2>2, <2>7 DEF Listing, Connected, Loses
    <3>2. refs'[c] = refs[c] /\ refs[c] \in Nat
      BY <1>0, <2>4, <2>7 DEF ConnTypes
    <3>. QED  BY <1>0, <3>1, <3>2
  <2>. QED  BY <2>5, <2>6, <2>7
<1>3. CASE DisconnectLast(k)
  <2>1. PICK a \in Channels, b \in Channels : a = id1[k] /\ b = id2[k] /\ a # b
    BY <1>3, WorkEnds DEF DisconnectLast, Parting
  <2>2. /\ Loses(a, b)
        /\ \A e \in Channels \ {a} : connections'[e] = connections[e]
    BY <1>3, <2>1, DisconnectLastLists DEF OnlyChange
  <2>3. NotFreed(a) /\ refs[b] = 1
    BY <1>3, <2>1 DEF DisconnectLast, General, ConnectorInv, ConnectorAt
  <2>4. refs' = [refs EXCEPT ![b] = 0]
    BY <1>3, <2>1 DEF DisconnectLast
  <2>5. CASE c = b
    <3>1. a \in L /\ Listing(c)' = L \ {a}
      BY <2>1, <2>2, <2>5 DEF Listing, Connected, Loses
    <3>2. refs'[c] = refs[c] - 1 /\ refs[c] \in Nat
      BY <1>0, <2>1, <2>3, <2>4, <2>5 DEF ConnTypes
    <3>3. /\ IsFiniteSet(Listing(c)') /\ Cardinality(Listing(c)') = Cardinality(L) - 1
          /\ Cardinality(Listing(c)') \in Nat
      BY <1>0, <3>1, FS_RemoveElement, FS_CardinalityType
    <3>. QED  BY <1>0, <1>3, <2>1, <2>2, <2>5, <3>2, <3>3
  <2>6. CASE c # b
    <3>1. Listing(c)' = L
      BY <2>1, <2>2, <2>6 DEF Listing, Connected, Loses
    <3>2. refs'[c] = refs[c] /\ refs[c] \in Nat
      BY <1>0, <2>4, <2>6 DEF ConnTypes
    <3>3. c # a => connections'[c] = connections[c]
      BY <2>2
    <3>. QED  BY <1>0, <2>3, <3>1, <3>2, <3>3
  <2>. QED  BY <2>5, <2>6
<1>4. CASE ~Connect(k) /\ ~Disconnect(k) /\ ~DisconnectLast(k) /\ ~DisconnectOwn(k)
  <2>1. connections' = connections
    BY <1>4, ListsLeft
  <2>2. refs' = refs
    BY <1>4 DEF ConnectorStep, Bind, Unbind, lifeVars, CallBind, RefuseIncompatible, BeginBind,
       BindLockIn, RefuseConnected, BindReadSem, BindPostFirst, BindPostSecond, CReturn,
       CallUnbind, BeginUnbind, UnbindNext, UnbindReturn, UnbindWait, UnbindLockIn,
       UnbindPostFirst, UnbindPostSecond
  <2>3. Listing(c)' = L
    BY <2>1 DEF Listing, Connected
  <2>. QED  BY <1>0, <2>1, <2>2, <2>3 DEF ConnTypes
<1>. QED  BY <1>1, <1>2, <1>3, <1>4

(* A connector that is back has nothing in hand, and one that is stuck      *)
(* stays so.                                                                *)
LEMMA ConnectorReturns ==
  ASSUME General, NEW k \in Connectors, ConnectorStep(k)
  PROVE  /\ cpc[k] # "self_lock"
         /\ cpc'[k] = "idle" => id1'[k] = NULL
<1>0. ConnTypes
  BY DEF General
<1>1. cpc[k] # "self_lock"
  BY DEF ConnectorStep, Bind, Unbind, CallBind, RefuseIncompatible, BeginBind, BindLockIn,
     RefuseConnected, Connect, BindReadSem, BindPostFirst, BindPostSecond, CallUnbind,
     BeginUnbind, UnbindNext, UnbindReturn, UnbindWait, UnbindLockIn, Disconnect,
     DisconnectLast, DisconnectOwn, UnbindPostFirst, UnbindPostSecond
<1>2. CASE CReturn(k)
  BY <1>0, <1>1, <1>2 DEF ConnTypes, CReturn
<1>3. CASE ~CReturn(k)
  BY <1>0, <1>1, <1>3 DEF ConnTypes, CGoto, ConnectorStep, Bind, Unbind, CallBind,
     RefuseIncompatible, BeginBind, BindLockIn, RefuseConnected, Connect, BindReadSem,
     BindPostFirst, BindPostSecond, CallUnbind, BeginUnbind, UnbindNext, UnbindReturn,
     UnbindWait, UnbindLockIn, Disconnect, DisconnectLast, DisconnectOwn, UnbindPostFirst,
     UnbindPostSecond
<1>. QED  BY <1>2, <1>3

(* The references go on counting the lists.                                 *)
LEMMA ConnectorKeepsLife ==
  ASSUME General, NEW k \in Connectors, ConnectorStep(k)
  PROVE  LifeInv'
<1>. SUFFICES ASSUME NEW c \in Channels
              PROVE  LifeAt(c)'
  BY DEF LifeInv
<1>0. LifeAt(c) /\ ConnTypes /\ ConnTypes' /\ ConnectorAt(k)'
  BY ConnectorOwn, ConnectorMoves DEF General, LifeInv
<1>1. /\ life' = life
      /\ \A j \in Connectors \ {k} : cpc'[j] = cpc[j] /\ id1'[j] = id1[j] /\ id2'[j] = id2[j]
  BY ConnectorOwn DEF ConnectorsStay
<1>2. /\ IsFiniteSet(Listing(c)') /\ Cardinality(Listing(c)') \in Nat
      /\ refs'[c] - Cardinality(Listing(c)') = refs[c] - Cardinality(Listing(c))
      /\ isEmpty(connections[c]) /\ ~NotFreed(c) => isEmpty(connections'[c])
      /\ \/ refs'[c] >= refs[c]
         \/ refs'[c] > 0
         \/ DisconnectLast(k) /\ c = id2[k]
         \/ DisconnectOwn(k) /\ c = id1[k]
  BY ConnectorListings
<1>3. refs[c] \in Nat /\ refs'[c] \in Nat /\ Cardinality(Listing(c)) \in Nat
  BY <1>0, FS_CardinalityType DEF ConnTypes, LifeAt
<1>4. refs'[c] = (IF life'[c] = "kept" THEN 1 ELSE 0) + Cardinality(Listing(c)')
  BY <1>0, <1>1, <1>2, <1>3 DEF LifeAt
<1>5. InUse(c)' => InUse(c) \/ NotFreed(c)
  <2>. SUFFICES ASSUME InUse(c)', ~NotFreed(c)
                PROVE  InUse(c)
    OBVIOUS
  <2>1. CASE pc'[c] # "idle"
    BY <2>1, ConnectorFrame DEF InUse, callVars
  <2>2. ASSUME NEW j \in Connectors,
               \/ c = id1'[j]
               \/ c = id2'[j] /\ cpc'[j] \in {"bind"} \cup Binding
        PROVE  InUse(c)
    <3>1. CASE j = k
      <4>1. c # NULL /\ ~NotFreed(c)'
        BY <1>1, ChannelsAssumption DEF NotFreed
      <4>2. c # id1'[k]
        BY <1>0, <4>1, ConnectorReturns DEF ConnectorAt
      <4>3. cpc'[k] \in {"bind"} \cup Binding => c # id2'[k]
        BY <1>0, <4>1 DEF ConnectorAt
      <4>. QED  BY <2>2, <3>1, <4>2, <4>3
    <3>2. CASE j # k
      BY <1>1, <2>2, <3>2 DEF InUse, Binding, BindBoth
    <3>. QED  BY <3>1, <3>2
  <2>. QED  BY <2>1, <2>2 DEF InUse, Binding, BindBoth
<1>6. life'[c] \in {"decRef", "freed"} => isEmpty(connections'[c]) /\ ~InUse(c)'
  BY <1>0, <1>1, <1>2, <1>5 DEF LifeAt, NotFreed
<1>7. ASSUME life'[c] = "left", ~(refs'[c] > 0)
      PROVE  \E j \in Connectors : cpc'[j] = "self_lock" /\ c \in {id1'[j], id2'[j]}
  <2>1. CASE (DisconnectLast(k) /\ c = id2[k]) \/ (DisconnectOwn(k) /\ c = id1[k])
    BY <1>0, <2>1 DEF DisconnectLast, DisconnectOwn, CGoto, argVars, ConnTypes
  <2>2. CASE refs'[c] >= refs[c]
    <3>1. ~(refs[c] > 0)
      BY <1>3, <1>7, <2>2
    <3>2. PICK j \in Connectors : cpc[j] = "self_lock" /\ c \in {id1[j], id2[j]}
      BY <1>0, <1>1, <1>7, <3>1 DEF LifeAt
    <3>3. j # k
      BY <3>2, ConnectorReturns
    <3>. QED  BY <1>1, <3>2, <3>3
  <2>. QED  BY <1>1, <1>2, <1>7, <2>1, <2>2
<1>. QED  BY <1>2, <1>4, <1>6, <1>7 DEF LifeAt

(* A step of a connector keeps the invariant.                               *)
LEMMA ConnectorKeeps ==
  ASSUME General, NEW k \in Connectors, ConnectorStep(k)
  PROVE  General'
<1>1. ConnectorInv'
  <2>. SUFFICES ASSUME NEW j \in Connectors
                PROVE  ConnectorAt(j)'
    BY DEF ConnectorInv
  <2>. QED  BY ConnectorOthers, ConnectorMoves
<1>2. ConnTypes'
  BY ConnectorOwn
<1>. QED  BY <1>1, <1>2, ConnectorKeepsCalls, ConnectorKeepsLists, ConnectorKeepsLife DEF General

-----------------------------------------------------------------------------
(* The steps of the object a half-channel belongs to *)

(* Dropping a half-channel, and freeing one, keeps the invariant.           *)
LEMMA ObjectKeeps ==
  ASSUME General, NEW c \in Channels, Drop(c) \/ Channel_decRef(c)
  PROVE  General'
<1>. USE DEF vars, chanVars, callVars, argVars, localVars
<1>0. /\ UNCHANGED <<vars, conn_op_mutex, cpc, id1, id2, cval, citer, clength>>
      /\ ConnTypes /\ LifeAt(c)
      /\ \A d \in Channels : IsFiniteSet(Listing(d)) /\ Cardinality(Listing(d)) \in Nat
  BY FS_CardinalityType DEF Drop, Channel_decRef, General, LifeInv, LifeAt
<1>1. CallInv'
  BY <1>0 DEF General, CallInv, CallTypes, WakeupMatchesTransfer, Taken, CallAt, LockAt, InEnd
<1>2. ListInv'
  BY <1>0 DEF General, ListInv, ListAt, HalfPartedAt
<1>3. \A d \in Channels \ {c} : life'[d] = life[d] /\ refs'[d] = refs[d]
  BY <1>0 DEF Drop, Channel_decRef, ConnTypes
<1>4. ConnTypes'
  <2>1. CASE Drop(c)
    <3>1. refs[c] \in Nat /\ refs[c] - 1 \in Nat
      BY <1>0, <2>1 DEF Drop, LifeAt
    <3>. QED  BY <1>0, <2>1, <3>1 DEF Drop, ConnTypes
  <2>2. CASE Channel_decRef(c)
    BY <1>0, <2>2 DEF Channel_decRef, ConnTypes
  <2>. QED  BY <2>1, <2>2
<1>5. ConnectorInv'
  <2>. SUFFICES ASSUME NEW j \in Connectors
                PROVE  ConnectorAt(j)'
    BY DEF ConnectorInv
  <2>1. ConnectorAt(j)
    BY DEF General, ConnectorInv
  <2>2. \/ life[c] = "kept" /\ ~InUse(c)
        \/ life[c] = "decRef"
    BY DEF Drop, Channel_decRef
  <2>3. cpc[j] # "idle" => id1[j] # c
    BY <2>1, <2>2 DEF ConnectorAt, NotFreed, InUse
  <2>4. cpc[j] \in {"bind"} \cup Binding => id2[j] # c
    BY <2>1, <2>2 DEF ConnectorAt, NotFreed, InUse, Binding, BindBoth
  <2>5. cpc[j] = "self_lock" =>
          /\ id1[j] \in Channels /\ id2[j] \in Channels
          /\ life[id2[j]] = "left" => id2[j] # c
    BY <2>1, <2>2, WorkEnds DEF ConnectorAt
  <2>. QED  BY <1>0, <1>3, <2>1, <2>3, <2>4, <2>5
            DEF ConnectorAt, NotFreed, ReceivingEnd, Compatible
<1>6. LifeInv'
  <2>. SUFFICES ASSUME NEW d \in Channels
                PROVE  LifeAt(d)'
    BY DEF LifeInv
  <2>1. LifeAt(d) /\ Listing(d)' = Listing(d) /\ (InUse(d)' <=> InUse(d))
    BY <1>0 DEF General, LifeInv, Listing, Connected, InUse
  <2>2. CASE d # c
    BY <1>0, <1>3, <2>1, <2>2 DEF LifeAt
  <2>3. CASE d = c /\ Channel_decRef(c)
    BY <1>0, <2>1, <2>3 DEF LifeAt, Channel_decRef, ConnTypes
  <2>4. CASE d = c /\ Drop(c)
    <3>1. /\ life[c] = "kept" /\ ~InUse(c)
          /\ refs' = [refs EXCEPT ![c] = @ - 1]
          /\ life' = [life EXCEPT ![c] = IF refs[c] = 1 THEN "decRef" ELSE "left"]
      BY <2>4 DEF Drop
    <3>2. refs[c] = 1 + Cardinality(Listing(c)) /\ refs'[c] = Cardinality(Listing(c))
      BY <1>0, <3>1 DEF LifeAt, ConnTypes
    <3>3. CASE refs[c] = 1
      <4>1. Listing(c) = {}
        BY <1>0, <3>2, <3>3, FS_EmptySet
      <4>2. Elements(connections[c]) = {}
        <5>. SUFFICES ASSUME NEW e \in Elements(connections[c])
                      PROVE  FALSE
          OBVIOUS
        <5>1. e \in Channels
          BY ListedOpposite DEF General
        <5>2. c \notin Elements(connections[e])
          BY <4>1, <5>1 DEF Listing, Connected
        <5>3. HalfPartedAt(c, e)
          BY <5>2 DEF General, ListInv, ListAt
        <5>4. e \in Elements(connections[c]) /\ c \notin Elements(connections[e])
          BY <5>2
        <5>. QED  BY <3>1, <5>3, <5>4 DEF HalfPartedAt, General, ConnectorInv, ConnectorAt
      <4>3. isEmpty(connections[c])
        <5>. DEFINE q == connections[c].elems
        <5>1. q \in Seq(Channels)
          BY DEF General, CallInv, CallTypes
        <5>2. ~(1 \in 1..Len(q))
          BY <4>2 DEF Elements
        <5>3. q = <<>> <=> Len(q) = 0
          <6>. HIDE DEF q
          <6>. QED  BY <5>1
        <5>4. Len(q) \in Nat
          BY <5>1
        <5>. HIDE DEF q
        <5>5. q = <<>>
          BY <5>2, <5>3, <5>4
        <5>. QED  BY <5>5 DEF isEmpty, q
      <4>. QED  BY <1>0, <2>1, <2>4, <3>1, <3>2, <3>3, <4>3 DEF LifeAt, ConnTypes
    <3>4. CASE refs[c] # 1
      BY <1>0, <2>1, <2>4, <3>1, <3>2, <3>4 DEF LifeAt, ConnTypes
    <3>. QED  BY <3>3, <3>4
  <2>. QED  BY <2>2, <2>3, <2>4
<1>. QED  BY <1>1, <1>2, <1>4, <1>5, <1>6 DEF General

-----------------------------------------------------------------------------
(* General is an invariant *)

(* The connections made before the components start pair up.                *)
LEMMA InitGeneral ==
  ASSUME ConnInit
  PROVE  General
<1>1. /\ connections \in [Channels -> [elems : Seq(Channels), next : Nat]]
      /\ Paired(connections)
      /\ \A c \in Channels : Distinct(connections[c])
  BY TopologiesAssumption, TopologiesDistinct DEF ConnInit, Init, Distinct
<1>2. CallInv
  <2>1. CallTypes
    BY <1>1 DEF ConnInit, Init, CallTypes, PCs
  <2>2. WakeupMatchesTransfer
    BY DEF ConnInit, Init, WakeupMatchesTransfer, Taken, Announced, Polling, Trying
  <2>3. ASSUME NEW c \in Channels
        PROVE  CallAt(c) /\ LockAt(c)
    BY DEF ConnInit, Init, CallAt, LockAt
  <2>. QED  BY <2>1, <2>2, <2>3 DEF CallInv
<1>3. ListInv
  BY <1>1 DEF Paired, ListInv, ListAt, Opposite
<1>4. ConnTypes
  <2>1. \A c \in Channels : 1 + getListLength(connections[c]) \in Nat
    BY <1>1 DEF getListLength
  <2>. QED  BY <2>1 DEF ConnInit, ConnTypes, CPCs
<1>5. ConnectorInv
  BY ConnectorsAssumption DEF ConnInit, ConnectorInv, ConnectorAt, NotFreed, Working, Binding, BindBoth,
     Parting, Reposting
<1>6. LifeInv
  <2>. SUFFICES ASSUME NEW c \in Channels
                PROVE  LifeAt(c)
    BY DEF LifeInv
  <2>1. Listing(c) = Elements(connections[c])
    <3>1. \A d \in Channels : \A e \in Elements(connections[d]) :
            e \in Channels /\ d \in Elements(connections[e])
      BY <1>1, <1>3, ListedOpposite DEF Paired
    <3>. QED  BY <3>1 DEF Listing, Connected
  <2>2. /\ IsFiniteSet(Elements(connections[c]))
        /\ Cardinality(Elements(connections[c])) = Len(connections[c].elems)
    BY <1>1, DistinctLength
  <2>3. life[c] = "kept" /\ refs[c] = 1 + Len(connections[c].elems)
    BY DEF ConnInit, getListLength
  <2>. QED  BY <2>1, <2>2, <2>3 DEF LifeAt
<1>. QED  BY <1>2, <1>3, <1>4, <1>5, <1>6 DEF General

(* Every step keeps General.                                                *)
LEMMA StepGeneral ==
  ASSUME General, [ConnNext]_allVars
  PROVE  General'
<1>1. ASSUME NEW c \in Channels, CallStep(c), UNCHANGED connVars,
             pc[c] = "idle" => life[c] = "kept"
      PROVE  General'
  <2>1. CallInv'
    BY <1>1, CallTypesStep, CallAtStep, CallLockStep, CallWakeStep DEF General, CallInv
  <2>. QED  BY <1>1, <2>1, CallKeepsRest DEF General
<1>2. CASE UNCHANGED allVars
  <2>. USE <1>2 DEF allVars, vars, chanVars, callVars, connVars, argVars, localVars, lifeVars
  <2>1. CallTypes' /\ WakeupMatchesTransfer'
    BY DEF General, CallInv, CallTypes, WakeupMatchesTransfer, Taken
  <2>2. (\A c \in Channels : CallAt(c) /\ LockAt(c))'
    BY DEF General, CallInv, CallAt, LockAt, InEnd
  <2>3. ConnTypes' /\ ListInv'
    BY DEF General, ConnTypes, ListInv, ListAt, HalfPartedAt
  <2>4. ConnectorInv'
    BY DEF General, ConnectorInv, ConnectorAt, NotFreed, ReceivingEnd, Compatible
  <2>5. LifeInv'
    <3>1. \A c \in Channels : Listing(c)' = Listing(c) /\ (InUse(c)' <=> InUse(c))
      BY DEF Listing, Connected, InUse
    <3>. QED  BY <3>1 DEF General, LifeInv, LifeAt
  <2>. QED  BY <2>1, <2>2, <2>3, <2>4, <2>5 DEF General, CallInv
<1>. QED  BY <1>1, <1>2, ConnSteps, ConnectorKeeps, ObjectKeeps

(* Whatever components bind, unbind, drop, send and receive, the lists pair *)
(* up, the counts count them, the mutexes exclude and every wake-up is one  *)
(* transfer's.                                                              *)
THEOREM GeneralInvariance == ConnSpec => []General
<1>1. ConnInit => General
  BY InitGeneral
<1>2. General /\ [ConnNext]_allVars => General'
  BY StepGeneral
<1>. QED  BY <1>1, <1>2, PTL DEF ConnSpec

-----------------------------------------------------------------------------
(* What the invariant says for every component *)

(* Both ends of every connection list each other, once, with the cursors on *)
(* their lists, whatever is bound, unbound and dropped, unless an unbind is *)
(* stuck between its two removeElement calls.                               *)
THEOREM ConnTypeCorrect == ConnSpec => []ConnTypeOK
<1>1. General => ConnTypeOK
  <2>. SUFFICES ASSUME General
                PROVE  ConnTypeOK
    OBVIOUS
  <2>1. /\ connections \in [Channels -> [elems : Seq(Channels), next : Nat]]
        /\ mutex \in [Channels -> Channels \cup Connectors \cup {NULL}]
        /\ conns_sem \in [Channels -> Nat]
    BY DEF General, CallInv, CallTypes
  <2>2. blocked \in [Channels -> {0, 1}]
    BY DEF General, CallInv, CallTypes, WakeupMatchesTransfer
  <2>3. (\A k \in Connectors : cpc[k] # "self_lock") => Paired(connections)
    BY DEF General, ListInv, ListAt, HalfPartedAt, Paired, Opposite
  <2>4. \A c \in Channels :
          Len(connections[c].elems) = Cardinality(Elements(connections[c]))
    BY <2>1, DistinctLength DEF General, ListInv, ListAt
  <2>5. ConnTypes
    BY DEF General
  <2>. QED  BY <2>1, <2>2, <2>3, <2>4, <2>5 DEF ConnTypeOK, ConnTypes
<1>. QED  BY <1>1, GeneralInvariance, PTL

(* channel_unbind removes from the list by an index that goes on while the  *)
(* list shrinks.  Whatever else goes on, it returns having removed half of  *)
(* the connections it found, of an odd number the greater half, and leaves  *)
(* the others: UnbindRemovesAll fails wherever it finds two.                *)
UnbindRemovesHalf ==
  [][\A k \in Connectors : UnbindReturn(k) =>
       citer[k] - getListLength(connections[id1[k]]) \in {0, 1}]_allVars

THEOREM UnbindsRemoveHalf == ConnSpec => UnbindRemovesHalf
<1>. DEFINE Half == \A k \in Connectors : UnbindReturn(k) =>
                      citer[k] - getListLength(connections[id1[k]]) \in {0, 1}
<1>1. General /\ [ConnNext]_allVars => [Half]_allVars
  <2>. SUFFICES ASSUME General, NEW k \in Connectors, UnbindReturn(k)
                PROVE  citer[k] - getListLength(connections[id1[k]]) \in {0, 1}
    OBVIOUS
  <2>1. /\ clength[k] = Len(connections[id1[k]].elems)
        /\ citer[k] <= clength[k] + 1
        /\ ~(citer[k] < clength[k])
    BY DEF General, ConnectorInv, ConnectorAt, UnbindReturn, MoreToPart
  <2>2. citer[k] \in Nat /\ clength[k] \in Nat
    BY DEF General, ConnTypes
  <2>. QED  BY <2>1, <2>2 DEF getListLength
<1>. QED  BY <1>1, GeneralInvariance, PTL DEF ConnSpec, UnbindRemovesHalf

-----------------------------------------------------------------------------
(* Rights to a list *)

(* What each half-channel can ever be connected to; a bind never adds to a  *)
(* list that has an element if there are no binds or no second partners.    *)
(* Without it a bind that reads conns_sem while a call has the right to the *)
(* list makes a second one: the run bind_while_sending.                     *)
Partners(c) ==
  {d \in Channels : Compatible(c, d) \/ \E conns \in Topologies : d \in Elements(conns[c])}

OnePartner == \A c \in Channels : \A d, e \in Partners(c) : d = e

FewBinds == "bind" \notin Operations \/ OnePartner

Joined == \A c \in Channels : Elements(connections[c]) \subseteq Partners(c)

(* OneRightPerList, taken apart by half-channel and by connector.           *)
HoldsBy(k, c) ==
  \/ cpc[k] = "unbind_wait_out" /\ c = ReceivingEnd(k)
  \/ cpc[k] \in {"unbind_in", "unbind_out"} /\ c \in {id1[k], id2[k]}
  \/ /\ ~isEmpty(connections[c])
     /\ \/ cpc[k] \in {"unbind_post1", "self_lock"} /\ c \in {id1[k], id2[k]}
        \/ cpc[k] = "unbind_post2" /\ c = id2[k]

OwesBy(k, c) ==
  \/ cpc[k] \in {"bind_value1", "bind_post1"} /\ c \in {id1[k], id2[k]}
  \/ cpc[k] \in {"bind_value2", "bind_post2"} /\ c = id2[k]

RightAt(c) ==
  conns_sem[c] + (IF CallHolds(c) THEN 1 ELSE 0) + (IF UnbindHolds(c) THEN 1 ELSE 0)
    = IF isEmpty(connections[c]) \/ BindOwes(c) THEN 0 ELSE 1

(* A call that has the right finds what it has in hand on its list, and     *)
(* finds the semaphore down.                                                *)
CallRight(c) ==
  /\ pc[c] = "post_conns" => val[c] = 0
  /\ pc[c] = "lock_in" => match[c] # NULL
  /\ CallHolds(c) /\ match[c] # NULL => match[c] \in Elements(connections[c])

(* A bind has just filled the list whose semaphore it is to post.           *)
FreshBind(k) ==
  /\ cpc[k] \in {"bind_value1", "bind_post1"} => Len(connections[id1[k]].elems) = 1
  /\ cpc[k] \in BindBoth => Len(connections[id2[k]].elems) = 1
  /\ cpc[k] \in {"bind_post1", "bind_post2"} => cval[k] = 0

Rights ==
  /\ Joined
  /\ \A c \in Channels : RightAt(c) /\ CallRight(c)
  /\ \A k \in Connectors : FreshBind(k)

(* An empty list has length 0.                                              *)
LEMMA EmptyLength ==
  ASSUME CallTypes, NEW c \in Channels
  PROVE  /\ Len(connections[c].elems) \in Nat
         /\ isEmpty(connections[c]) <=> Len(connections[c].elems) = 0
         /\ isEmpty(connections[c]) <=> Elements(connections[c]) = {}
<1>. DEFINE q == connections[c].elems
<1>1. q \in Seq(Channels)
  BY DEF CallTypes
<1>2. Elements(connections[c]) = {q[i] : i \in 1..Len(q)}
  BY DEF Elements
<1>3. isEmpty(connections[c]) <=> q = <<>>
  BY DEF isEmpty
<1>. HIDE DEF q
<1>4. Len(q) \in Nat /\ (q = <<>> <=> Len(q) = 0)
  BY <1>1
<1>5. Elements(connections[c]) = {} => ~(1 \in 1..Len(q))
  BY <1>2
<1>6. Len(q) = 0 => Elements(connections[c]) = {}
  BY <1>2
<1>. QED  BY <1>3, <1>4, <1>5, <1>6 DEF q

(* The rights of a half-channel that a step passes by.                      *)
LEMMA RightStays ==
  ASSUME NEW c \in Channels, RightAt(c),
         conns_sem'[c] = conns_sem[c], pc'[c] = pc[c],
         connections'[c].elems = connections[c].elems,
         UnbindHolds(c)' <=> UnbindHolds(c), BindOwes(c)' <=> BindOwes(c)
  PROVE  RightAt(c)'
BY DEF RightAt, CallHolds, isEmpty

-----------------------------------------------------------------------------
(* The rights and the calls *)

(* A call takes a right and gives it back.                                  *)
LEMMA CallKeepsRights ==
  ASSUME General, Rights, NEW c \in Channels, CallStep(c), UNCHANGED connVars
  PROVE  Rights'
<1>. USE DEF connVars, argVars, localVars, lifeVars
<1>1. \A d \in Channels : /\ connections'[d].elems = connections[d].elems
                          /\ Elements(connections'[d]) = Elements(connections[d])
  BY CallLists DEF General
<1>2. OthersStay(c)
  BY CallOthers DEF General
<1>3. \A d \in Channels : /\ UnbindHolds(d)' <=> UnbindHolds(d)
                          /\ BindOwes(d)' <=> BindOwes(d)
  BY <1>1 DEF UnbindHolds, BindOwes, isEmpty, getListLength, ReceivingEnd
<1>4. Joined'
  BY <1>1 DEF Rights, Joined, Partners, Compatible
<1>5. ASSUME NEW k \in Connectors
      PROVE  FreshBind(k)'
  <2>1. cpc[k] \in BindBoth => id1[k] \in Channels /\ id2[k] \in Channels
    BY WorkEnds DEF Binding
  <2>. QED  BY <1>1, <2>1 DEF Rights, FreshBind, BindBoth
<1>6. ASSUME NEW d \in Channels \ {c}
      PROVE  RightAt(d)' /\ CallRight(d)'
  <2>1. pc'[d] = pc[d] /\ match'[d] = match[d] /\ val'[d] = val[d] /\ conns_sem'[d] = conns_sem[d]
    BY <1>2 DEF OthersStay
  <2>2. RightAt(d)'
    BY <1>1, <1>3, <2>1, RightStays DEF Rights
  <2>3. CallRight(d)'
    BY <1>1, <2>1 DEF Rights, CallRight, CallHolds
  <2>. QED  BY <2>2, <2>3
<1>7. RightAt(c)' /\ CallRight(c)'
  <2>. USE DEF CallHolds, PCs
  <2>0. /\ CallTypes /\ conns_sem[c] \in Nat /\ RightAt(c) /\ CallRight(c) /\ CallAt(c)
        /\ Elements(connections'[c]) = Elements(connections[c])
        /\ isEmpty(connections'[c]) <=> isEmpty(connections[c])
        /\ UnbindHolds(c)' <=> UnbindHolds(c)
        /\ BindOwes(c)' <=> BindOwes(c)
    BY <1>1, <1>3 DEF General, CallInv, CallTypes, Rights, isEmpty
  <2>1. CallHolds(c) => conns_sem[c] = 0 /\ ~isEmpty(connections[c])
    <3>. HIDE DEF CallHolds
    <3>. QED  BY <2>0 DEF RightAt
  <2>2. CASE AwaitConnections(c)
    BY <2>0, <2>2 DEF AwaitConnections, Goto, CallTypes, RightAt, CallRight, CallAt
  <2>3. CASE NextMatch(c)
    <3>. DEFINE d == getNextElement(connections[c])
    <3>1. pc[c] = "next" /\ pc' = [pc EXCEPT ![c] = "lock_in"]
      BY <2>3 DEF NextMatch, Goto
    <3>2. d \in Elements(connections[c])
      <4>1. connections[c] \in [elems : Seq(Channels), next : Nat]
        BY <2>0 DEF CallTypes
      <4>2. WellFormed(connections[c])
        BY DEF General, ListInv, ListAt
      <4>3. ~isEmpty(connections[c])
        BY <2>1, <3>1
      <4>. QED  BY <4>1, <4>2, <4>3, CursorMoves
    <3>3. d \in Channels /\ d # NULL
      BY <3>2, ListedOpposite, ChannelsAssumption DEF General
    <3>. HIDE DEF d
    <3>4. match' = [match EXCEPT ![c] = d] /\ UNCHANGED <<conns_sem, val>>
      BY <2>3 DEF NextMatch, d
    <3>. QED  BY <2>0, <3>1, <3>2, <3>3, <3>4 DEF CallTypes, RightAt, CallRight
  <2>4. CASE ReadConnsSem(c)
    BY <2>0, <2>1, <2>4 DEF ReadConnsSem, Goto, CallTypes, RightAt, CallRight, chanVars
  <2>5. CASE RepostConnsSem(c)
    <3>1. pc[c] = "post_conns" /\ conns_sem' = [conns_sem EXCEPT ![c] = @ + 1]
      BY <2>0, <2>5 DEF RepostConnsSem, PostedIfZero, CallRight
    <3>2. \/ pc' = [pc EXCEPT ![c] = "idle"]
          \/ pc' = [pc EXCEPT ![c] = "wait_blocked"]
      BY <2>5 DEF RepostConnsSem, Return, Goto
    <3>. QED  BY <2>0, <3>1, <3>2 DEF CallTypes, RightAt, CallRight
  <2>6. CASE TakeLength(c) \/ EndOfLoop(c) \/ LockIn(c) \/ LockOut(c) \/ FindReady(c)
             \/ FindNotReady(c)
    BY ZenonT(30), <2>0, <2>6 DEF TakeLength, EndOfLoop, LockIn, LockOut, FindReady, FindNotReady, Goto,
       CallTypes, RightAt, CallRight, chanVars
  <2>7. CASE SendStep(c)
    BY ZenonT(30), <2>0, <2>7 DEF SendStep, CallSend, PublishSend, TransferSend, AwaitAck, AwaitTaken, Goto,
       Return, CallTypes, RightAt, CallRight, chanVars
  <2>8. CASE ReceiveStep(c)
    BY ZenonT(30), <2>0, <2>8 DEF ReceiveStep, CallReceive, PublishReceive, TransferReceive, AwaitData,
       CopyData, Goto, Return, CallTypes, RightAt, CallRight, chanVars
  <2>. QED  BY <2>2, <2>3, <2>4, <2>5, <2>6, <2>7, <2>8 DEF CallStep, SharedStep
<1>. QED  BY <1>4, <1>5, <1>6, <1>7 DEF Rights

-----------------------------------------------------------------------------
(* The rights and the connectors *)

(* Beside the connector that has or takes conn_op_mutex nobody holds a list *)
(* or owes one its right.                                                   *)
LEMMA OnlyOneHolds ==
  ASSUME General, NEW k \in Connectors, ConnectorStep(k), conn_op_mutex \in {k, NULL},
         NEW c \in Channels
  PROVE  /\ UnbindHolds(c) <=> HoldsBy(k, c)
         /\ UnbindHolds(c)' <=> HoldsBy(k, c)'
         /\ BindOwes(c) <=> Len(connections[c].elems) = 1 /\ OwesBy(k, c)
         /\ BindOwes(c)' <=> Len(connections'[c].elems) = 1 /\ OwesBy(k, c)'
<1>1. \A j \in Connectors \ {k} : cpc[j] \in {"idle", "bind", "unbind"} /\ cpc'[j] = cpc[j]
  <2>1. \A j \in Connectors \ {k} : cpc[j] \notin Working
    BY ConnectorsAssumption DEF General, ConnectorInv, ConnectorAt
  <2>2. \A j \in Connectors \ {k} : cpc[j] \in CPCs /\ cpc'[j] = cpc[j]
    BY ConnectorOwn DEF ConnectorsStay, General, ConnTypes
  <2>. QED  BY <2>1, <2>2 DEF Working, CPCs
<1>. QED  BY <1>1 DEF UnbindHolds, HoldsBy, BindOwes, OwesBy, getListLength

(* What a connector can connect to has a partner at most.                   *)
LEMMA ConnectedFirst ==
  ASSUME General, Rights, FewBinds, NEW k \in Connectors, Connect(k)
  PROVE  isEmpty(connections[id1[k]]) /\ isEmpty(connections[id2[k]])
<1>1. PICK a \in Channels, b \in Channels : a = id1[k] /\ b = id2[k]
  BY WorkEnds DEF Connect, Binding
<1>2. Compatible(a, b) /\ Compatible(b, a) /\ "bind" \in Operations
  <2>1. Compatible(a, b) /\ "bind" \in Operations
    BY <1>1 DEF Connect, General, ConnectorInv, ConnectorAt, Binding
  <2>. QED  BY <1>1, <2>1, ChannelsAssumption DEF Compatible, Channels
<1>3. b \in Partners(a) /\ a \in Partners(b) /\ OnePartner
  BY <1>1, <1>2 DEF Partners, FewBinds
<1>4. Elements(connections[a]) \subseteq {b} /\ Elements(connections[b]) \subseteq {a}
  BY <1>3 DEF OnePartner, Rights, Joined
<1>5. b \notin Elements(connections[a]) /\ a \notin Elements(connections[b])
  BY <1>1, ConnectLists DEF Gains
<1>6. Elements(connections[a]) = {} /\ Elements(connections[b]) = {}
  BY <1>4, <1>5
<1>. QED  BY <1>1, <1>6, EmptyLength DEF General, CallInv

(* A connector goes on connecting partners only.                            *)
LEMMA ConnectorKeepsJoined ==
  ASSUME General, Rights, NEW k \in Connectors, ConnectorStep(k)
  PROVE  Joined'
<1>1. \A c \in Channels : Partners(c)' = Partners(c)
  BY DEF Partners, Compatible
<1>2. \A c \in Channels : Elements(connections[c]) \subseteq Partners(c)
  BY DEF Rights, Joined
<1>3. CASE Connect(k)
  <2>1. PICK a \in Channels, b \in Channels : a = id1[k] /\ b = id2[k]
    BY <1>3, WorkEnds DEF Connect, Binding
  <2>2. Compatible(a, b)
    BY <1>3, <2>1 DEF Connect, General, ConnectorInv, ConnectorAt, Binding
  <2>3. b \in Partners(a) /\ a \in Partners(b)
    BY <2>1, <2>2, ChannelsAssumption DEF Compatible, Channels, Partners
  <2>4. /\ Gains(a, b) /\ Gains(b, a)
        /\ \A e \in Channels \ {a, b} : connections'[e] = connections[e]
    BY <1>3, <2>1, ConnectLists DEF OnlyChange
  <2>. HIDE DEF Partners
  <2>5. \A c \in Channels : Elements(connections'[c]) \subseteq Partners(c)
    BY <1>2, <2>3, <2>4 DEF Gains
  <2>. QED  BY <1>1, <2>5 DEF Joined
<1>4. CASE ~Connect(k)
  <2>1. \A c \in Channels : Elements(connections'[c]) \subseteq Elements(connections[c])
    BY <1>4, DisconnectLists, DisconnectLastLists, ListsLeft DEF OnlyChange, Loses
  <2>. QED  BY <1>1, <1>2, <2>1 DEF Joined
<1>. QED  BY <1>3, <1>4

(* Steps that neither touch a list or a semaphore nor pass a right on.      *)
LEMMA PassingBy ==
  ASSUME General, Rights, NEW k \in Connectors, ConnectorStep(k),
         UNCHANGED <<connections, conns_sem>>,
         \/ cpc[k] = "idle"
         \/ /\ conn_op_mutex \in {k, NULL}
            /\ \A c \in Channels : /\ HoldsBy(k, c)' <=> HoldsBy(k, c)
                                   /\ OwesBy(k, c)' <=> OwesBy(k, c)
  PROVE  \A c \in Channels : RightAt(c)'
<1>1. UNCHANGED pc
  BY ConnectorFrame DEF callVars
<1>2. ASSUME NEW c \in Channels
      PROVE  (UnbindHolds(c)' <=> UnbindHolds(c)) /\ (BindOwes(c)' <=> BindOwes(c))
  <2>1. CASE cpc[k] = "idle"
    <3>1. cpc'[k] \in {"bind", "unbind"}
      BY <2>1 DEF ConnectorStep, Bind, Unbind, CallBind, RefuseIncompatible,
         BeginBind, BindLockIn, RefuseConnected, Connect, BindReadSem, BindPostFirst,
         BindPostSecond, CallUnbind, BeginUnbind, UnbindNext, UnbindReturn, UnbindWait,
         UnbindLockIn, Disconnect, DisconnectLast, DisconnectOwn, UnbindPostFirst,
         UnbindPostSecond, CGoto, General, ConnTypes
    <3>2. \A j \in Connectors \ {k} :
            cpc'[j] = cpc[j] /\ id1'[j] = id1[j] /\ id2'[j] = id2[j]
      BY ConnectorOwn DEF ConnectorsStay
    <3>3. \A j \in Connectors :
            \/ cpc[j] = "idle" /\ cpc'[j] \in {"bind", "unbind"}
            \/ cpc'[j] = cpc[j] /\ id1'[j] = id1[j] /\ id2'[j] = id2[j]
      BY <2>1, <3>1, <3>2
    <3>4. UnbindHolds(c)' <=> UnbindHolds(c)
      BY <3>3 DEF UnbindHolds, ReceivingEnd
    <3>5. BindOwes(c)' <=> BindOwes(c)
      BY <3>3 DEF BindOwes
    <3>. QED  BY <3>4, <3>5
  <2>2. CASE cpc[k] # "idle"
    BY <2>2, OnlyOneHolds
  <2>. QED  BY <2>1, <2>2
<1>. QED  BY <1>1, <1>2, RightStays DEF Rights

(* A list is empty when its length is 0.                                    *)
LEMMA EmptyList0 ==
  ASSUME NEW S, NEW l \in [elems : Seq(S), next : Nat]
  PROVE  Len(l.elems) \in Nat /\ (isEmpty(l) <=> Len(l.elems) = 0)
<1>. DEFINE q == l.elems
<1>1. q \in Seq(S)
  OBVIOUS
<1>. HIDE DEF q
<1>2. Len(q) \in Nat /\ (q = <<>> <=> Len(q) = 0)
  BY <1>1
<1>. QED  BY <1>2 DEF q, isEmpty

(* The rights to one list before a step of the connector that has           *)
(* conn_op_mutex and what they must come to after it, told by the call on   *)
(* it, its lengths, and what that connector holds and owes.                 *)
Sums(k, c, calls, n, m) ==
  /\ n = Len(connections[c].elems) /\ m = Len(connections'[c].elems)
  /\ isEmpty(connections[c]) <=> n = 0
  /\ isEmpty(connections'[c]) <=> m = 0
  /\ CallHolds(c) <=> calls = 1
  /\ conns_sem[c] \in Nat
  /\ conns_sem[c] + calls + (IF HoldsBy(k, c) THEN 1 ELSE 0)
       = IF n = 0 \/ (n = 1 /\ OwesBy(k, c)) THEN 0 ELSE 1
  /\ (conns_sem'[c] + calls + (IF HoldsBy(k, c)' THEN 1 ELSE 0)
        = IF m = 0 \/ (m = 1 /\ OwesBy(k, c)') THEN 0 ELSE 1) => RightAt(c)'

(* Every half-channel's rights are told that way.                           *)
LEMMA RightMoves ==
  ASSUME General, Rights, NEW k \in Connectors, ConnectorStep(k), conn_op_mutex \in {k, NULL},
         NEW c \in Channels
  PROVE  \E calls \in {0, 1}, n \in Nat, m \in Nat : Sums(k, c, calls, n, m)
<1>. DEFINE calls == IF CallHolds(c) THEN 1 ELSE 0
            n == Len(connections[c].elems)
            m == Len(connections'[c].elems)
<1>1. /\ connections[c] \in [elems : Seq(Channels), next : Nat]
      /\ connections'[c] \in [elems : Seq(Channels), next : Nat]
      /\ conns_sem[c] \in Nat
  BY ConnectorKeepsCalls DEF General, CallInv, CallTypes
<1>2. n \in Nat /\ (isEmpty(connections[c]) <=> n = 0)
  BY <1>1, EmptyList0
<1>3. m \in Nat /\ (isEmpty(connections'[c]) <=> m = 0)
  BY <1>1, EmptyList0
<1>4. CallHolds(c)' <=> CallHolds(c)
  BY ConnectorFrame DEF callVars, CallHolds
<1>5. /\ UnbindHolds(c) <=> HoldsBy(k, c)
      /\ UnbindHolds(c)' <=> HoldsBy(k, c)'
      /\ BindOwes(c) <=> n = 1 /\ OwesBy(k, c)
      /\ BindOwes(c)' <=> m = 1 /\ OwesBy(k, c)'
  BY OnlyOneHolds
<1>6. conns_sem[c] + calls + (IF HoldsBy(k, c) THEN 1 ELSE 0)
        = IF n = 0 \/ (n = 1 /\ OwesBy(k, c)) THEN 0 ELSE 1
  BY <1>2, <1>5 DEF Rights, RightAt
<1>7. (conns_sem'[c] + calls + (IF HoldsBy(k, c)' THEN 1 ELSE 0)
         = IF m = 0 \/ (m = 1 /\ OwesBy(k, c)') THEN 0 ELSE 1) => RightAt(c)'
  BY <1>3, <1>4, <1>5 DEF RightAt
<1>8. calls \in {0, 1} /\ (CallHolds(c) <=> calls = 1)
  OBVIOUS
<1>. HIDE DEF calls, n, m
<1>9. n = Len(connections[c].elems) /\ m = Len(connections'[c].elems)
  BY DEF n, m
<1>10. Sums(k, c, calls, n, m)
  BY <1>1, <1>2, <1>3, <1>6, <1>7, <1>8, <1>9 DEF Sums
<1>. QED  BY <1>2, <1>3, <1>8, <1>10

(* A connector passes rights on, makes one or destroys one, as it should.   *)
LEMMA ConnectorPassesRights ==
  ASSUME General, Rights, FewBinds, NEW k \in Connectors, ConnectorStep(k)
  PROVE  \A c \in Channels : RightAt(c)'
<1>. USE DEF vars, chanVars, argVars, localVars, CGoto
<1>0. ConnTypes /\ CallTypes /\ ConnectorAt(k)
  BY DEF General, CallInv, ConnectorInv
<1>01. cpc[k] \notin {"idle", "bind", "unbind"} => conn_op_mutex \in {k, NULL}
  BY <1>0 DEF ConnTypes, ConnectorAt, Working
<1>1. CASE CallBind(k) \/ CallUnbind(k)
  BY <1>1, PassingBy DEF CallBind, CallUnbind
<1>2. CASE RefuseIncompatible(k) \/ BeginBind(k) \/ BeginUnbind(k) \/ UnbindReturn(k)
           \/ UnbindNext(k) \/ BindLockIn(k) \/ RefuseConnected(k)
  <2>1. conn_op_mutex \in {k, NULL} /\ UNCHANGED <<connections, conns_sem>>
    BY <1>01, <1>2 DEF RefuseIncompatible, BeginBind, BeginUnbind, UnbindReturn, UnbindNext,
       BindLockIn, RefuseConnected
  <2>2. /\ cpc[k] \in {"bind", "unbind", "unbind_loop", "bind_in", "bind_out"}
        /\ cpc'[k] \in {"idle", "bind_in", "unbind_loop", "unbind_wait_in", "bind_out"}
    BY <1>0, <1>2 DEF ConnTypes, RefuseIncompatible, BeginBind, BeginUnbind, UnbindReturn,
       UnbindNext, BindLockIn, RefuseConnected, CReturn
  <2>3. \A c \in Channels : /\ HoldsBy(k, c)' <=> HoldsBy(k, c)
                            /\ OwesBy(k, c)' <=> OwesBy(k, c)
    BY <2>2 DEF HoldsBy, OwesBy
  <2>. QED  BY <2>1, <2>3, PassingBy
<1>3. CASE BindReadSem(k, id1, "bind_value1", "bind_post1")
           \/ BindReadSem(k, id2, "bind_value2", "bind_post2") \/ UnbindLockIn(k)
  <2>1. conn_op_mutex \in {k, NULL} /\ UNCHANGED <<connections, conns_sem, id1, id2>>
    BY <1>01, <1>3 DEF BindReadSem, UnbindLockIn
  <2>2. \/ cpc[k] = "bind_value1" /\ cpc'[k] = "bind_post1"
        \/ cpc[k] = "bind_value2" /\ cpc'[k] = "bind_post2"
        \/ cpc[k] = "unbind_in" /\ cpc'[k] = "unbind_out"
    BY <1>0, <1>3 DEF ConnTypes, BindReadSem, UnbindLockIn
  <2>3. \A c \in Channels : /\ HoldsBy(k, c)' <=> HoldsBy(k, c)
                            /\ OwesBy(k, c)' <=> OwesBy(k, c)
    BY <2>1, <2>2 DEF HoldsBy, OwesBy
  <2>. QED  BY <2>1, <2>3, PassingBy
<1>4. CASE /\ cpc[k] \in Binding \cup Parting \cup Reposting
           /\ \/ Connect(k) \/ BindPostFirst(k) \/ BindPostSecond(k)
              \/ UnbindWait(k, ReceivingEnd(k), "unbind_wait_in", "unbind_wait_out")
              \/ UnbindWait(k, SendingEnd(k), "unbind_wait_out", "unbind_in")
              \/ Disconnect(k) \/ DisconnectLast(k) \/ DisconnectOwn(k)
              \/ UnbindPostFirst(k) \/ UnbindPostSecond(k)
  <2>. TAKE c \in Channels
  <2>1. conn_op_mutex \in {k, NULL}
    BY <1>01, <1>4 DEF Binding, BindBoth, Parting, Reposting
  <2>2. PICK calls \in {0, 1}, n \in Nat, m \in Nat : Sums(k, c, calls, n, m)
    BY <2>1, RightMoves
  <2>02. /\ n = Len(connections[c].elems) /\ m = Len(connections'[c].elems)
         /\ isEmpty(connections[c]) <=> n = 0
         /\ isEmpty(connections'[c]) <=> m = 0
    BY <2>2 DEF Sums
  <2>03. /\ conns_sem[c] \in Nat
         /\ conns_sem[c] + calls + (IF HoldsBy(k, c) THEN 1 ELSE 0)
              = IF n = 0 \/ (n = 1 /\ OwesBy(k, c)) THEN 0 ELSE 1
         /\ (conns_sem'[c] + calls + (IF HoldsBy(k, c)' THEN 1 ELSE 0)
               = IF m = 0 \/ (m = 1 /\ OwesBy(k, c)') THEN 0 ELSE 1) => RightAt(c)'
    BY <2>2 DEF Sums
  <2>3. PICK a \in Channels, b \in Channels :
          /\ a = id1[k] /\ b = id2[k] /\ a # b
          /\ ReceivingEnd(k) \in Channels /\ SendingEnd(k) \in Channels
          /\ ReceivingEnd(k) # SendingEnd(k)
          /\ {ReceivingEnd(k), SendingEnd(k)} = {a, b}
    BY <1>4, WorkEnds, ChannelsAssumption DEF Channels
  <2>4. CASE Connect(k)
    <3>1. cpc[k] = "bind_out" /\ cpc'[k] = "bind_value1" /\ UNCHANGED <<conns_sem, id1, id2>>
      BY <1>0, <2>4 DEF Connect, ConnTypes
    <3>2. ~HoldsBy(k, c) /\ ~HoldsBy(k, c)' /\ ~OwesBy(k, c) /\ (OwesBy(k, c)' <=> c \in {a, b})
      BY <2>3, <3>1 DEF HoldsBy, OwesBy
    <3>3. c \in {a, b} => n = 0 /\ m = 1
      <4>1. isEmpty(connections[a]) /\ isEmpty(connections[b])
        BY <2>3, <2>4, ConnectedFirst
      <4>2. /\ Len(connections'[a].elems) = Len(connections[a].elems) + 1
            /\ Len(connections'[b].elems) = Len(connections[b].elems) + 1
        BY <2>3, <2>4, ConnectLists DEF Gains
      <4>3. CASE c = a
        <5>1. n = Len(connections[a].elems) /\ m = Len(connections'[a].elems)
          BY <2>02, <4>3
        <5>2. m = n + 1
          BY <4>2, <5>1
        <5>3. n = 0
          BY <2>02, <4>1, <4>3
        <5>. QED  BY <5>2, <5>3
      <4>4. CASE c = b
        <5>1. n = Len(connections[b].elems) /\ m = Len(connections'[b].elems)
          BY <2>02, <4>4
        <5>2. m = n + 1
          BY <4>2, <5>1
        <5>3. n = 0
          BY <2>02, <4>1, <4>4
        <5>. QED  BY <5>2, <5>3
      <4>. QED  BY <4>3, <4>4
    <3>4. c \notin {a, b} => m = n
      BY <2>02, <2>3, <2>4, ConnectLists DEF OnlyChange
    <3>. QED  BY <2>03, <3>1, <3>2, <3>3, <3>4
  <2>5. CASE BindPostFirst(k)
    <3>1. /\ cpc[k] = "bind_post1" /\ cpc'[k] = "bind_value2" /\ UNCHANGED <<connections, id1, id2>>
          /\ cval[k] = 0 /\ (c = a => n = 1)
      BY <1>0, <2>02, <2>3, <2>5 DEF BindPostFirst, ConnTypes, Rights, FreshBind, BindBoth
    <3>2. /\ ~HoldsBy(k, c) /\ ~HoldsBy(k, c)'
          /\ OwesBy(k, c) <=> c \in {a, b}
          /\ OwesBy(k, c)' <=> c = b
      BY <2>3, <3>1 DEF HoldsBy, OwesBy
    <3>3. conns_sem' = [conns_sem EXCEPT ![a] = @ + 1]
      BY <2>3, <2>5, <3>1 DEF BindPostFirst, BindPosted
    <3>4. conns_sem'[c] = IF c = a THEN conns_sem[c] + 1 ELSE conns_sem[c]
      BY <1>0, <3>3 DEF CallTypes
    <3>5. m = n
      BY <2>02, <3>1
    <3>6. CASE c = a
      BY <2>03, <2>3, <3>2, <3>1, <3>4, <3>5, <3>6
    <3>7. CASE c = b
      BY <2>03, <2>3, <3>2, <3>1, <3>4, <3>5, <3>7
    <3>8. CASE c # a /\ c # b
      BY <2>03, <2>3, <3>2, <3>1, <3>4, <3>5, <3>8
    <3>. QED  BY <3>6, <3>7, <3>8
  <2>6. CASE BindPostSecond(k)
    <3>1. /\ cpc[k] = "bind_post2" /\ cpc'[k] = "idle" /\ UNCHANGED connections
          /\ cval[k] = 0 /\ (c = b => n = 1)
      BY <1>0, <2>02, <2>3, <2>6 DEF BindPostSecond, CReturn, ConnTypes, Rights, FreshBind, BindBoth
    <3>2. /\ ~HoldsBy(k, c) /\ ~HoldsBy(k, c)'
          /\ OwesBy(k, c) <=> c = b
          /\ ~OwesBy(k, c)'
      BY <2>3, <3>1 DEF HoldsBy, OwesBy
    <3>3. conns_sem' = [conns_sem EXCEPT ![b] = @ + 1]
      BY <2>3, <2>6, <3>1 DEF BindPostSecond, BindPosted
    <3>4. conns_sem'[c] = IF c = b THEN conns_sem[c] + 1 ELSE conns_sem[c]
      BY <1>0, <3>3 DEF CallTypes
    <3>5. m = n
      BY <2>02, <3>1
    <3>6. CASE c = b
      BY <2>03, <3>1, <3>2, <3>4, <3>5, <3>6
    <3>7. CASE c # b
      BY <2>03, <3>1, <3>2, <3>4, <3>5, <3>7
    <3>. QED  BY <3>6, <3>7
  <2>7. CASE UnbindWait(k, ReceivingEnd(k), "unbind_wait_in", "unbind_wait_out")
    <3>1. /\ cpc[k] = "unbind_wait_in" /\ cpc'[k] = "unbind_wait_out"
          /\ UNCHANGED <<connections, id1, id2>>
          /\ conns_sem[ReceivingEnd(k)] > 0
          /\ conns_sem' = [conns_sem EXCEPT ![ReceivingEnd(k)] = @ - 1]
      BY <1>0, <2>7 DEF UnbindWait, ConnTypes
    <3>2. /\ ~HoldsBy(k, c) /\ (HoldsBy(k, c)' <=> c = ReceivingEnd(k))
          /\ ~OwesBy(k, c) /\ ~OwesBy(k, c)'
      BY <3>1 DEF HoldsBy, OwesBy, ReceivingEnd
    <3>3. /\ conns_sem'[c] = IF c = ReceivingEnd(k) THEN conns_sem[c] - 1 ELSE conns_sem[c]
          /\ c = ReceivingEnd(k) => conns_sem[c] > 0
      BY <1>0, <3>1 DEF CallTypes
    <3>5. m = n
      BY <2>02, <3>1
    <3>. QED  BY <3>5, <2>03, <3>1, <3>2, <3>3
  <2>8. CASE UnbindWait(k, SendingEnd(k), "unbind_wait_out", "unbind_in")
    <3>1. /\ cpc[k] = "unbind_wait_out" /\ cpc'[k] = "unbind_in"
          /\ UNCHANGED <<connections, id1, id2>>
          /\ conns_sem[SendingEnd(k)] > 0
          /\ conns_sem' = [conns_sem EXCEPT ![SendingEnd(k)] = @ - 1]
      BY <1>0, <2>8 DEF UnbindWait, ConnTypes
    <3>2. /\ HoldsBy(k, c) <=> c = ReceivingEnd(k)
          /\ HoldsBy(k, c)' <=> c \in {a, b}
          /\ ~OwesBy(k, c) /\ ~OwesBy(k, c)'
      BY <2>3, <3>1 DEF HoldsBy, OwesBy
    <3>3. /\ conns_sem'[c] = IF c = SendingEnd(k) THEN conns_sem[c] - 1 ELSE conns_sem[c]
          /\ c = SendingEnd(k) => conns_sem[c] > 0
      BY <1>0, <3>1 DEF CallTypes
    <3>4. c \in {a, b} <=> c = ReceivingEnd(k) \/ c = SendingEnd(k)
      BY <2>3
    <3>5. m = n
      BY <2>02, <3>1
    <3>. QED  BY <3>5, <2>03, <2>3, <3>1, <3>2, <3>3, <3>4
  <2>13. CASE DisconnectOwn(k)
    <3>1. cpc[k] = "unbind_out" /\ cpc'[k] = "self_lock" /\ UNCHANGED <<conns_sem, id1, id2>>
      BY <1>0, <2>13 DEF DisconnectOwn, ConnTypes
    <3>2. /\ HoldsBy(k, c) <=> c \in {a, b}
          /\ HoldsBy(k, c)' <=> c \in {a, b} /\ m # 0
          /\ ~OwesBy(k, c) /\ ~OwesBy(k, c)'
      BY <2>02, <2>3, <3>1 DEF HoldsBy, OwesBy
    <3>3. c \in {a, b} => m = n - 1
      BY <2>02, <2>3, <2>13, DisconnectLists DEF Loses
    <3>4. c \notin {a, b} => m = n
      BY <2>02, <2>3, <2>13, DisconnectLists DEF OnlyChange
    <3>. QED  BY <2>03, <3>1, <3>2, <3>3, <3>4
  <2>9. CASE Disconnect(k)
    <3>1. cpc[k] = "unbind_out" /\ cpc'[k] = "unbind_post1" /\ UNCHANGED <<conns_sem, id1, id2>>
      BY <1>0, <2>9 DEF Disconnect, ConnTypes
    <3>2. /\ HoldsBy(k, c) <=> c \in {a, b}
          /\ HoldsBy(k, c)' <=> c \in {a, b} /\ m # 0
          /\ ~OwesBy(k, c) /\ ~OwesBy(k, c)'
      BY <2>02, <2>3, <3>1 DEF HoldsBy, OwesBy
    <3>3. c \in {a, b} => m = n - 1
      BY <2>02, <2>3, <2>9, DisconnectLists DEF Loses
    <3>4. c \notin {a, b} => m = n
      BY <2>02, <2>3, <2>9, DisconnectLists DEF OnlyChange
    <3>. QED  BY <2>03, <3>1, <3>2, <3>3, <3>4
  <2>10. CASE DisconnectLast(k)
    <3>1. cpc[k] = "unbind_out" /\ cpc'[k] = "self_lock" /\ UNCHANGED <<conns_sem, id1, id2>>
      BY <1>0, <2>10 DEF DisconnectLast, ConnTypes
    <3>2. /\ HoldsBy(k, c) <=> c \in {a, b}
          /\ HoldsBy(k, c)' <=> c \in {a, b} /\ m # 0
          /\ ~OwesBy(k, c) /\ ~OwesBy(k, c)'
      BY <2>02, <2>3, <3>1 DEF HoldsBy, OwesBy
    <3>3. c = a => m = n - 1
      BY <2>02, <2>3, <2>10, DisconnectLastLists DEF Loses
    <3>4. c # a => m = n
      BY <2>02, <2>3, <2>10, DisconnectLastLists DEF OnlyChange
    <3>5. c = b => n # 0
      BY <2>02, <2>3, <2>10, DisconnectLastLists, EmptyLength DEF General, CallInv
    <3>6. CASE c = a
      BY <2>03, <2>3, <3>1, <3>2, <3>3, <3>4, <3>5, <3>6
    <3>7. CASE c = b
      BY <2>03, <2>3, <3>1, <3>2, <3>3, <3>4, <3>5, <3>7
    <3>8. CASE c # a /\ c # b
      BY <2>03, <2>3, <3>1, <3>2, <3>3, <3>4, <3>5, <3>8
    <3>. QED  BY <3>6, <3>7, <3>8
  <2>11. CASE UnbindPostFirst(k)
    <3>1. /\ cpc[k] = "unbind_post1" /\ cpc'[k] = "unbind_post2"
          /\ UNCHANGED <<connections, id1, id2>>
          /\ conns_sem' = [conns_sem EXCEPT ![a] = IF isEmpty(connections[a]) THEN @ ELSE @ + 1]
      BY <1>0, <2>3, <2>11 DEF UnbindPostFirst, ConnTypes, PostedIfConnected
    <3>2. /\ HoldsBy(k, c) <=> c \in {a, b} /\ n # 0
          /\ HoldsBy(k, c)' <=> c = b /\ n # 0
          /\ ~OwesBy(k, c) /\ ~OwesBy(k, c)'
      BY <2>02, <2>3, <3>1 DEF HoldsBy, OwesBy
    <3>3. conns_sem'[c] = IF c = a /\ n # 0 THEN conns_sem[c] + 1 ELSE conns_sem[c]
      BY <1>0, <2>02, <3>1 DEF CallTypes
    <3>5. m = n
      BY <2>02, <3>1
    <3>. QED  BY <3>5, <2>03, <2>3, <3>1, <3>2, <3>3
  <2>12. CASE UnbindPostSecond(k)
    <3>1. /\ cpc[k] = "unbind_post2" /\ cpc'[k] = "unbind_loop"
          /\ UNCHANGED <<connections, id1, id2>>
          /\ conns_sem' = [conns_sem EXCEPT ![b] = IF isEmpty(connections[b]) THEN @ ELSE @ + 1]
      BY <1>0, <2>3, <2>12 DEF UnbindPostSecond, ConnTypes, PostedIfConnected
    <3>2. /\ HoldsBy(k, c) <=> c = b /\ n # 0
          /\ ~HoldsBy(k, c)'
          /\ ~OwesBy(k, c) /\ ~OwesBy(k, c)'
      BY <2>02, <2>3, <3>1 DEF HoldsBy, OwesBy
    <3>3. conns_sem'[c] = IF c = b /\ n # 0 THEN conns_sem[c] + 1 ELSE conns_sem[c]
      BY <1>0, <2>02, <3>1 DEF CallTypes
    <3>5. m = n
      BY <2>02, <3>1
    <3>. QED  BY <3>5, <2>03, <3>1, <3>2, <3>3
  <2>. QED  BY <1>4, <2>4, <2>5, <2>6, <2>7, <2>8, <2>9, <2>10, <2>11, <2>12, <2>13
<1>5. CASE \/ Connect(k) \/ BindPostFirst(k) \/ BindPostSecond(k)
           \/ UnbindWait(k, ReceivingEnd(k), "unbind_wait_in", "unbind_wait_out")
           \/ UnbindWait(k, SendingEnd(k), "unbind_wait_out", "unbind_in")
           \/ Disconnect(k) \/ DisconnectLast(k) \/ DisconnectOwn(k)
           \/ UnbindPostFirst(k) \/ UnbindPostSecond(k)
  <2>1. cpc[k] \in Binding \cup Parting \cup Reposting
    BY <1>5 DEF Connect, BindPostFirst, BindPostSecond, UnbindWait, Disconnect, DisconnectLast,
       DisconnectOwn, UnbindPostFirst, UnbindPostSecond, Binding, BindBoth, Parting, Reposting
  <2>. QED  BY <1>4, <1>5, <2>1
<1>. QED  BY <1>1, <1>2, <1>3, <1>5, Zenon DEF ConnectorStep, Bind, Unbind

(* What a call with a right has in hand stays on its list: an unbind that   *)
(* takes it off has the right itself.                                       *)
LEMMA ConnectorKeepsMatch ==
  ASSUME General, Rights, NEW k \in Connectors, ConnectorStep(k), NEW c \in Channels
  PROVE  CallRight(c)'
<1>1. CallRight(c) /\ UNCHANGED <<pc, match, val>>
  BY ConnectorFrame DEF Rights, callVars
<1>2. CASE CallHolds(c) => Elements(connections[c]) \subseteq Elements(connections'[c])
  BY <1>1, <1>2 DEF CallRight, CallHolds
<1>3. CASE CallHolds(c) /\ ~(Elements(connections[c]) \subseteq Elements(connections'[c]))
  <2>1. Disconnect(k) \/ DisconnectLast(k) \/ DisconnectOwn(k)
    BY <1>3, ConnectLists, ListsLeft DEF OnlyChange, Gains
  <2>2. cpc[k] = "unbind_out" /\ id1[k] \in Channels /\ id2[k] \in Channels
    BY <2>1, WorkEnds DEF Disconnect, DisconnectLast, DisconnectOwn, Parting
  <2>3. c \in {id1[k], id2[k]}
    BY <1>3, <2>1, <2>2, DisconnectLists, DisconnectLastLists DEF OnlyChange
  <2>4. UnbindHolds(c)
    BY <2>2, <2>3 DEF UnbindHolds
  <2>5. conns_sem[c] \in Nat /\ RightAt(c)
    BY DEF General, CallInv, CallTypes, Rights
  <2>. QED  BY <1>3, <2>4, <2>5 DEF RightAt
<1>. QED  BY <1>2, <1>3

(* A bind goes on posting the semaphore of a list that it has filled.       *)
LEMMA ConnectorKeepsFresh ==
  ASSUME General, Rights, FewBinds, NEW k \in Connectors, ConnectorStep(k), NEW j \in Connectors
  PROVE  FreshBind(j)'
<1>. USE DEF vars, chanVars, argVars, localVars, CGoto, BindBoth
<1>0. ConnTypes /\ CallTypes /\ FreshBind(k) /\ FreshBind(j)
  BY DEF General, CallInv, Rights
<1>1. CASE j # k
  <2>1. UNCHANGED <<cpc[j], id1[j], id2[j], cval[j]>>
    BY <1>1, ConnectorOwn DEF ConnectorsStay
  <2>2. CASE cpc[j] \in BindBoth
    <3>1. conn_op_mutex = j
      BY <2>2 DEF General, ConnectorInv, ConnectorAt, Working, CPCs
    <3>2. UNCHANGED connections
      BY <1>1, <3>1, ConnectorExcluded
    <3>. QED  BY <1>0, <2>1, <3>2 DEF FreshBind
  <2>3. CASE cpc[j] \notin BindBoth
    BY <2>1, <2>3 DEF FreshBind
  <2>. QED  BY <2>2, <2>3
<1>2. CASE j = k /\ cpc'[k] \notin BindBoth
  BY <1>2 DEF FreshBind
<1>3. CASE j = k /\ Connect(k)
  <2>1. id1[k] \in Channels /\ id2[k] \in Channels
    BY <1>3, WorkEnds DEF Connect, Binding
  <2>2. Len(connections[id1[k]].elems) = 0 /\ Len(connections[id2[k]].elems) = 0
    BY <1>0, <1>3, <2>1, ConnectedFirst, EmptyLength
  <2>3. Len(connections'[id1[k]].elems) = 1 /\ Len(connections'[id2[k]].elems) = 1
    <3>1. /\ Len(connections'[id1[k]].elems) = Len(connections[id1[k]].elems) + 1
          /\ Len(connections'[id2[k]].elems) = Len(connections[id2[k]].elems) + 1
      BY <1>3, ConnectLists DEF Gains
    <3>. QED  BY <2>2, <3>1
  <2>4. cpc'[k] = "bind_value1" /\ UNCHANGED <<id1, id2>>
    BY <1>0, <1>3 DEF Connect, ConnTypes
  <2>. QED  BY <1>3, <2>3, <2>4 DEF FreshBind
<1>4. CASE j = k /\ (\/ BindReadSem(k, id1, "bind_value1", "bind_post1")
                     \/ BindReadSem(k, id2, "bind_value2", "bind_post2"))
  <2>1. PICK c \in Channels :
          /\ c \in {id1[k], id2[k]} /\ cval' = [cval EXCEPT ![k] = conns_sem[c]]
          /\ BindOwes(c)
    <3>1. id1[k] \in Channels /\ id2[k] \in Channels
      BY <1>4, WorkEnds DEF BindReadSem, Binding
    <3>2. CASE BindReadSem(k, id1, "bind_value1", "bind_post1")
      BY <1>0, <3>1, <3>2 DEF BindReadSem, BindOwes, FreshBind, getListLength
    <3>3. CASE BindReadSem(k, id2, "bind_value2", "bind_post2")
      BY <1>0, <3>1, <3>3 DEF BindReadSem, BindOwes, FreshBind, getListLength
    <3>. QED  BY <1>4, <3>2, <3>3
  <2>2. conns_sem[c] = 0
    <3>1. RightAt(c) /\ conns_sem[c] \in Nat
      BY <1>0 DEF Rights, CallTypes
    <3>. QED  BY <2>1, <3>1 DEF RightAt
  <2>3. cval'[k] = 0 /\ UNCHANGED <<connections, id1, id2>>
    BY <1>0, <1>4, <2>1, <2>2 DEF ConnTypes, BindReadSem
  <2>4. \/ cpc[k] = "bind_value1" /\ cpc'[k] = "bind_post1"
        \/ cpc[k] = "bind_value2" /\ cpc'[k] = "bind_post2"
    BY <1>0, <1>4 DEF ConnTypes, BindReadSem
  <2>. QED  BY <1>0, <1>4, <2>3, <2>4 DEF FreshBind
<1>5. CASE j = k /\ BindPostFirst(k)
  <2>1. /\ cpc[k] = "bind_post1" /\ cpc'[k] = "bind_value2"
        /\ UNCHANGED <<connections, id1, id2>>
    BY <1>0, <1>5 DEF ConnTypes, BindPostFirst
  <2>. QED  BY <1>0, <1>5, <2>1 DEF FreshBind
<1>6. CASE /\ ~Connect(k) /\ ~BindPostFirst(k)
           /\ ~BindReadSem(k, id1, "bind_value1", "bind_post1")
           /\ ~BindReadSem(k, id2, "bind_value2", "bind_post2")
  <2>1. cpc'[k] \notin BindBoth
    BY <1>0, <1>6 DEF ConnTypes, ConnectorStep, Bind, Unbind, CallBind, RefuseIncompatible,
       BeginBind, BindLockIn, RefuseConnected, CReturn, BindPostSecond, CallUnbind,
       BeginUnbind, UnbindNext, UnbindReturn, UnbindWait, UnbindLockIn, Disconnect,
       DisconnectLast, DisconnectOwn, UnbindPostFirst, UnbindPostSecond
  <2>. QED  BY <1>1, <1>2, <2>1
<1>. QED  BY <1>1, <1>3, <1>4, <1>5, <1>6

(* Before the components start conns_sem is 1 where there is a connection.  *)
LEMMA InitRights ==
  ASSUME ConnInit
  PROVE  Rights
<1>1. Joined
  <2>1. \A c \in Channels : Elements(connections[c]) \subseteq Channels
    BY InitGeneral, ListedOpposite DEF General
  <2>2. connections \in Topologies
    BY DEF ConnInit, Init
  <2>. QED  BY <2>1, <2>2 DEF Joined, Partners
<1>2. ASSUME NEW c \in Channels
      PROVE  RightAt(c) /\ CallRight(c)
  <2>1. ~CallHolds(c) /\ ~UnbindHolds(c) /\ ~BindOwes(c)
    BY <1>2 DEF ConnInit, Init, CallHolds, UnbindHolds, BindOwes
  <2>2. conns_sem[c] = IF isEmpty(connections[c]) THEN 0 ELSE 1
    BY DEF ConnInit, Init
  <2>3. CallRight(c)
    BY <2>1 DEF ConnInit, Init, CallRight
  <2>. QED  BY <2>1, <2>2, <2>3 DEF RightAt
<1>3. ASSUME NEW k \in Connectors
      PROVE  FreshBind(k)
  BY DEF ConnInit, FreshBind, BindBoth
<1>. QED  BY <1>1, <1>2, <1>3 DEF Rights

(* Every step keeps Rights.                                                 *)
LEMMA StepRights ==
  ASSUME General, Rights, FewBinds, [ConnNext]_allVars
  PROVE  Rights'
<1>1. ASSUME NEW k \in Connectors, ConnectorStep(k)
      PROVE  Rights'
  BY <1>1, ConnectorKeepsJoined, ConnectorPassesRights, ConnectorKeepsMatch, ConnectorKeepsFresh
     DEF Rights
<1>2. CASE UNCHANGED <<vars, cpc, id1, id2, cval>>
  <2>. USE <1>2 DEF vars, chanVars, callVars
  <2>1. \A c \in Channels : /\ UnbindHolds(c)' <=> UnbindHolds(c)
                            /\ BindOwes(c)' <=> BindOwes(c)
    BY DEF UnbindHolds, BindOwes, ReceivingEnd
  <2>2. (\A c \in Channels : RightAt(c) /\ CallRight(c))'
    BY <2>1, RightStays DEF Rights, CallRight, CallHolds
  <2>3. Joined'
    BY DEF Rights, Joined, Partners, Compatible
  <2>4. (\A k \in Connectors : FreshBind(k))'
    BY DEF Rights, FreshBind
  <2>. QED  BY <2>2, <2>3, <2>4 DEF Rights
<1>3. CASE UNCHANGED allVars
  BY <1>2, <1>3 DEF allVars, connVars, argVars, localVars
<1>4. ASSUME NEW c \in Channels, Drop(c) \/ Channel_decRef(c)
      PROVE  Rights'
  BY <1>2, <1>4 DEF Drop, Channel_decRef, argVars, localVars
<1>. QED  BY <1>1, <1>3, <1>4, ConnSteps, CallKeepsRights

(* With few binds the rights are an invariant too.                          *)
THEOREM RightsInvariance ==
  ASSUME FewBinds
  PROVE  ConnSpec => []Rights
<1>1. ConnInit => Rights
  BY InitRights
<1>2. General /\ Rights /\ [ConnNext]_allVars => Rights'
  BY StepRights
<1>. QED  BY <1>1, <1>2, GeneralInvariance, PTL DEF ConnSpec

-----------------------------------------------------------------------------
(* What the rights say *)

(* There is exactly one right to use a list that is not empty, none to an   *)
(* empty one: a bind makes it, an unbind destroys it, and calls and unbinds *)
(* pass it on through conns_sem.                                            *)
THEOREM ListsHaveOneRight ==
  ASSUME FewBinds
  PROVE  ConnSpec => []OneRightPerList
<1>1. Rights => OneRightPerList
  BY DEF Rights, RightAt, OneRightPerList
<1>. QED  BY <1>1, RightsInvariance, PTL

(* So conns_sem is what the comment of channel.c wants: never above 1.      *)
THEOREM ConnsSemBinary ==
  ASSUME FewBinds
  PROVE  ConnSpec => []ConnsSemNeverAboveOne
<1>1. General /\ Rights => ConnsSemNeverAboveOne
  <2>. SUFFICES ASSUME General, Rights, NEW c \in Channels
                PROVE  conns_sem[c] <= 1
    BY DEF ConnsSemNeverAboveOne
  <2>1. RightAt(c) /\ conns_sem[c] \in Nat
    BY DEF General, CallInv, CallTypes, Rights
  <2>. QED  BY <2>1 DEF RightAt
<1>. QED  BY <1>1, GeneralInvariance, RightsInvariance, PTL

(* The half-channel a call is trying is still connected to it, however      *)
(* connections come and go meanwhile.                                       *)
THEOREM MatchesConnected ==
  ASSUME FewBinds
  PROVE  ConnSpec => []MatchConnected
<1>1. General /\ Rights => MatchConnected
  <2>. SUFFICES ASSUME General, Rights, NEW c \in Channels, pc[c] \in Trying
                PROVE  match[c] \in Elements(connections[c])
    BY DEF MatchConnected
  <2>1. CallHolds(c)
    BY DEF CallHolds, Trying, PCs
  <2>2. match[c] # NULL
    <3>1. CASE pc[c] = "lock_in"
      BY <3>1 DEF Rights, CallRight
    <3>2. CASE pc[c] # "lock_in"
      BY <3>2, EndInHand, ChannelsAssumption DEF Trying, General
    <3>. QED  BY <3>1, <3>2
  <2>. QED  BY <2>1, <2>2 DEF Rights, CallRight
<1>. QED  BY <1>1, GeneralInvariance, RightsInvariance, PTL

(* A half-channel counts what refers to it, and is freed only when nobody   *)
(* is to touch it again.                                                    *)
THEOREM LifetimesCorrect ==
  ASSUME FewBinds
  PROVE  ConnSpec => []ChannelLifetime
<1>1. General /\ Rights => ChannelLifetime
  <2>. SUFFICES ASSUME General, Rights, NEW c \in Channels
                PROVE  /\ refs[c] = (IF life[c] = "kept" THEN 1 ELSE 0)
                                      + Cardinality(Listing(c))
                       /\ life[c] \in {"decRef", "freed"} =>
                            /\ isEmpty(connections[c])
                            /\ ~InUse(c)
                            /\ \A d \in Channels : match[d] = c => ~CallHolds(d)
                       /\ life[c] = "left" =>
                            \/ refs[c] > 0
                            \/ \E k \in Connectors :
                                 cpc[k] = "self_lock" /\ c \in {id1[k], id2[k]}
                       /\ \A k \in Connectors : cpc[k] = "self_lock" =>
                            \E d \in {id1[k], id2[k]} : life[d] = "left" /\ refs[d] = 0
    BY DEF ChannelLifetime, Listing
  <2>1. LifeAt(c)
    BY DEF General, LifeInv
  <2>2. ASSUME life[c] \in {"decRef", "freed"}, NEW d \in Channels, match[d] = c, CallHolds(d)
        PROVE  FALSE
    <3>1. c \in Elements(connections[d])
      BY <2>2, ChannelsAssumption DEF Rights, CallRight
    <3>2. d \notin Elements(connections[c])
      BY <2>1, <2>2 DEF LifeAt, isEmpty, Elements
    <3>3. HalfPartedAt(d, c)
      BY <3>1, <3>2 DEF General, ListInv, ListAt
    <3>4. NotFreed(c)
      BY <3>3 DEF HalfPartedAt, General, ConnectorInv, ConnectorAt
    <3>. QED  BY <2>2, <3>4 DEF NotFreed
  <2>3. \A k \in Connectors : cpc[k] = "self_lock" =>
          \E d \in {id1[k], id2[k]} : life[d] = "left" /\ refs[d] = 0
    BY DEF General, ConnectorInv, ConnectorAt
  <2>. QED  BY <2>1, <2>2, <2>3 DEF LifeAt
<1>. QED  BY <1>1, GeneralInvariance, RightsInvariance, PTL

-----------------------------------------------------------------------------
(* Acknowledgements *)

(* What is known of the calls, however connections change, is enough for    *)
(* the count of acknowledgements.                                           *)
LEMMA CallsStillAgree ==
  ASSUME General
  PROVE  CallsAgree
<1>1. pc \in [Channels -> PCs] /\ match \in [Channels -> Channels \cup {NULL}]
  BY DEF General, CallInv, CallTypes
<1>2. blocked \in [Channels -> {0, 1}] /\ WakeupMatchesTransfer
  BY DEF General, CallInv, CallTypes, WakeupMatchesTransfer
<1>3. ASSUME NEW c \in Channels
      PROVE  /\ ready[c] => pc[c] \in Announced
             /\ pc[c] = "transfer" =>
                  ready[match[c]] /\ match[c] \in IF c \in Outs THEN Ins ELSE Outs
  BY DEF General, CallInv, CallAt, LockAt, Opposite
<1>. QED  BY <1>1, <1>2, <1>3 DEF CallsAgree

(* Acknowledgements are neither lost nor invented while connections come    *)
(* and go: a bind or an unbind touches no call that is past its transfer.   *)
LEMMA AckInvarianceHere == ConnSpec => []AckInv
<1>1. ConnInit => AckInv
  BY InitAck DEF ConnInit
<1>2. General => CallsAgree
  BY CallsStillAgree
<1>3. General /\ CallsAgree /\ CallsAgree' /\ AckInv /\ [ConnNext]_allVars => AckInv'
  <2>. SUFFICES ASSUME General, CallsAgree, CallsAgree', AckInv, [ConnNext]_allVars
                PROVE  AckInv'
    OBVIOUS
  <2>1. ASSUME NEW k \in Connectors, ConnectorStep(k)
        PROVE  AckInv'
    BY <2>1, ConnectorFrame, AckStutters DEF callVars
  <2>2. CASE UNCHANGED vars
    BY <2>2, AckStutters DEF vars, chanVars, callVars
  <2>3. ASSUME NEW c \in Channels, CallStep(c)
        PROVE  AckInv'
    BY <2>3, AckStep DEF CallStep
  <2>. QED  BY <2>1, <2>2, <2>3, ConnSteps DEF allVars, Drop, Channel_decRef
<1>. QED  BY <1>1, <1>2, <1>3, GeneralInvariance, PTL DEF ConnSpec

(* What makes a transfer safe needs no fixed connections: wake-ups match    *)
(* transfers, transfers exclude each other and acknowledgements are         *)
(* conserved whatever is bound and unbound meanwhile.                       *)
THEOREM TransfersSafeMeanwhile ==
  ConnSpec => [](WakeupMatchesTransfer /\ TransferExclusive /\ AckConservation)
<1>1. General => WakeupMatchesTransfer
  BY DEF General, CallInv
<1>2. General => TransferExclusive
  <2>. SUFFICES ASSUME General, NEW c \in Channels, pc[c] = "transfer"
                PROVE  /\ ready[c] /\ ready[match[c]]
                       /\ \A d \in Channels \ {c} :
                            pc[d] = "transfer" =>
                              {d, match[d]} \cap {c, match[c]} = {}
    BY DEF TransferExclusive
  <2>1. \A d \in Channels : pc[d] = "transfer" =>
          mutex[d] = d /\ mutex[match[d]] = d /\ ready[d] /\ ready[match[d]]
    BY TransferHand DEF General
  <2>. QED  BY <2>1
<1>3. AckInv => AckConservation
  BY DEF AckInv, AcksAt, AckConservation
<1>. QED  BY <1>1, <1>2, <1>3, GeneralInvariance, AckInvarianceHere, PTL

-----------------------------------------------------------------------------
(* Standstill *)

(* The mutexes a connector is to unlock, and those that one which refused a *)
(* pair already connected has left locked.                                  *)
ConnectorHas(k, h) ==
  \/ cpc[k] \in {"bind_out", "unbind_out"} /\ h = ReceivingEnd(k)
  \/ cpc[k] \in BindBoth \cup {"self_lock"} /\ h \in {id1[k], id2[k]}

LeftLocked(h) == \E k \in Connectors : mutex[h] = k /\ ~ ConnectorHas(k, h)

(* The bind or unbind of k can make its next step.                          *)
ConnectorCanGo(k) ==
  /\ cpc[k] \notin {"idle", "self_lock"}
  /\ cpc[k] \in {"bind", "unbind"} => conn_op_mutex = NULL
  /\ cpc[k] \in {"bind_in", "unbind_in"} => Unlocked(ReceivingEnd(k))
  /\ cpc[k] \in {"bind_out", "unbind_out"} => Unlocked(SendingEnd(k))
  /\ cpc[k] = "unbind_wait_in" => conns_sem[ReceivingEnd(k)] > 0
  /\ cpc[k] = "unbind_wait_out" => conns_sem[SendingEnd(k)] > 0

Standstill ==
  /\ \A c \in Channels : ~ CanGo(c)
  /\ \A k \in Connectors : ~ ConnectorCanGo(k)

(* When neither a call nor a connector can go on, an unbind has locked      *)
(* itself out, a bind that refused has left a mutex locked, or nobody has   *)
(* anything to do: every bind and unbind has returned, and a call that has  *)
(* not waits for connections it does not have or is parked on offer.        *)
ConnStandsOnlyIfDone ==
  Standstill =>
    \/ \E k \in Connectors : cpc[k] = "self_lock"
    \/ \E h \in Channels : LeftLocked(h)
    \/ /\ \A k \in Connectors : cpc[k] = "idle"
       /\ \A c \in Channels :
            \/ pc[c] = "idle"
            \/ pc[c] = "wait_conns" /\ isEmpty(connections[c])
            \/ Parked(c)

(* A connector takes no mutex for a call.                                   *)
LEMMA ConnectorMutexes ==
  ASSUME General, NEW k \in Connectors, ConnectorStep(k), NEW h \in Channels
  PROVE  mutex'[h] \in {mutex[h], k, NULL}
<1>0. mutex \in [Channels -> Channels \cup Connectors \cup {NULL}]
  BY DEF General, CallInv, CallTypes
<1>1. CASE BindLockIn(k) \/ UnbindLockIn(k)
  BY <1>0, <1>1 DEF BindLockIn, UnbindLockIn
<1>2. CASE RefuseConnected(k) \/ Connect(k) \/ DisconnectLast(k) \/ DisconnectOwn(k)
  BY <1>0, <1>2 DEF RefuseConnected, Connect, DisconnectLast, DisconnectOwn
<1>3. CASE Disconnect(k)
  BY <1>0, <1>3 DEF Disconnect
<1>4. CASE BindPostSecond(k)
  BY <1>0, <1>4 DEF BindPostSecond
<1>5. CASE mutex' = mutex
  BY <1>5
<1>. QED  BY <1>1, <1>2, <1>3, <1>4, <1>5
          DEF ConnectorStep, Bind, Unbind, CallBind, RefuseIncompatible, BeginBind,
              BindReadSem, BindPostFirst, CallUnbind, BeginUnbind, UnbindNext,
              UnbindReturn, UnbindWait, UnbindPostFirst, UnbindPostSecond, vars, chanVars

(* The call that has a mutex is between taking it and releasing it,         *)
(* whatever connectors lock beside it.                                      *)
LEMMA OwnedInvariance == ConnSpec => []Owned
<1>1. ConnInit => Owned
  BY ChannelsAssumption DEF ConnInit, Init, Owned
<1>2. General /\ Owned /\ [ConnNext]_allVars => Owned'
  <2>. SUFFICES ASSUME General, Owned, [ConnNext]_allVars
                PROVE  Owned'
    OBVIOUS
  <2>1. ASSUME NEW k \in Connectors, ConnectorStep(k)
        PROVE  Owned'
    <3>. SUFFICES ASSUME NEW h \in Channels, mutex'[h] \in Channels
                  PROVE  OwnerAt(h, mutex[h])'
      BY DEF Owned
    <3>1. mutex'[h] = mutex[h]
      BY <2>1, ConnectorMutexes, ConnectorsAssumption, ChannelsAssumption
    <3>2. pc' = pc /\ match' = match
      BY <2>1, ConnectorFrame DEF callVars
    <3>. QED  BY <3>1, <3>2 DEF Owned, OwnerAt, InEnd
  <2>2. CASE UNCHANGED vars
    BY <2>2 DEF vars, chanVars, callVars, Owned, OwnerAt, InEnd
  <2>3. ASSUME NEW c \in Channels, CallStep(c)
        PROVE  Owned'
    <3>1. \A d \in Channels \ {c} : pc'[d] = pc[d] /\ match'[d] = match[d]
      BY <2>3, CallOthers DEF General, OthersStay
    <3>2. pc[c] \in {"test", "transfer"} => match[c] \in Channels \ {c}
      BY EndInHand DEF General
    <3>3. /\ pc \in [Channels -> PCs] /\ match \in [Channels -> Channels \cup {NULL}]
          /\ mutex \in [Channels -> Channels \cup Connectors \cup {NULL}]
      BY DEF General, CallInv, CallTypes
    <3>. QED  BY <2>3, <3>1, <3>2, <3>3, OwnersStep DEF CallStep
  <2>. QED  BY <2>1, <2>2, <2>3, ConnSteps DEF allVars, Drop, Channel_decRef
<1>. QED  BY <1>1, <1>2, GeneralInvariance, PTL DEF ConnSpec

(* At a standstill of the third kind nobody has a mutex: whoever had one of *)
(* a sender's would have both, and could go on; so whoever has one of a     *)
(* receiver's could take the sender's.                                      *)
LEMMA NoneLocksHere ==
  ASSUME General, Rights, Owned, Standstill,
         \A k \in Connectors : cpc[k] # "self_lock",
         \A h \in Channels : ~ LeftLocked(h)
  PROVE  /\ \A c \in Channels :
              pc[c] \in {"idle", "wait_conns", "wait_ack", "wait_blocked"}
         /\ \A k \in Connectors :
              cpc[k] \in {"idle", "bind", "unbind", "unbind_wait_in", "unbind_wait_out"}
<1>1. /\ pc \in [Channels -> PCs] /\ cpc \in [Connectors -> CPCs]
      /\ mutex \in [Channels -> Channels \cup Connectors \cup {NULL}]
  BY DEF General, CallInv, CallTypes, ConnTypes
<1>2. \A c \in Channels :
        pc[c] \in {"idle", "wait_conns", "publish", "lock_in", "lock_out",
                  "wait_ack", "wait_blocked"}
  BY <1>1 DEF Standstill, CanGo, PCs
<1>3. \A k \in Connectors :
        cpc[k] \in {"idle", "bind", "unbind", "bind_in", "bind_out",
                   "unbind_wait_in", "unbind_wait_out", "unbind_in", "unbind_out"}
  BY <1>1 DEF Standstill, ConnectorCanGo, CPCs
<1>4. ASSUME NEW h \in Channels, mutex[h] # NULL
      PROVE  \/ \E c \in Channels : pc[c] = "lock_out" /\ h = InEnd(c)
             \/ \E k \in Connectors : cpc[k] \in {"bind_out", "unbind_out"} /\ h = ReceivingEnd(k)
  <2>1. CASE mutex[h] \in Channels
    BY <1>2, <2>1 DEF Owned, OwnerAt
  <2>2. CASE mutex[h] \in Connectors
    BY <1>3, <2>2 DEF LeftLocked, ConnectorHas, BindBoth
  <2>. QED  BY <1>1, <1>4, <2>1, <2>2
<1>5. \A c \in Channels : pc[c] = "lock_out" => InEnd(c) \in Ins /\ OutEnd(c) \in Outs
  BY EndInHand DEF General, InEnd, OutEnd, Channels
<1>6. \A k \in Connectors : cpc[k] \in {"bind_in", "bind_out", "unbind_in", "unbind_out"} =>
        ReceivingEnd(k) \in Ins /\ SendingEnd(k) \in Outs
  BY WorkEnds DEF Binding, Parting
<1>7. \A h \in Outs : Unlocked(h)
  BY <1>4, <1>5, <1>6, ChannelsAssumption DEF Unlocked, Channels
<1>8. /\ \A c \in Channels : pc[c] # "lock_out"
      /\ \A k \in Connectors : cpc[k] \notin {"bind_out", "unbind_out"}
  <2>1. \A c \in Channels : pc[c] # "lock_out"
    BY <1>5, <1>7 DEF Standstill, CanGo
  <2>2. \A k \in Connectors : cpc[k] \notin {"bind_out", "unbind_out"}
    BY <1>6, <1>7 DEF Standstill, ConnectorCanGo
  <2>. QED  BY <2>1, <2>2
<1>9. \A h \in Channels : Unlocked(h)
  BY <1>4, <1>8 DEF Unlocked
<1>10. \A c \in Channels : pc[c] \notin {"publish", "lock_in"}
  <2>. SUFFICES ASSUME NEW c \in Channels, pc[c] \in {"publish", "lock_in"}
                PROVE  FALSE
    OBVIOUS
  <2>1. pc[c] = "lock_in" => match[c] # NULL
    BY DEF Rights, CallRight
  <2>2. pc[c] = "lock_in" => InEnd(c) \in Channels
    BY <2>1, EndInHand DEF General
  <2>. QED  BY <1>9, <2>1, <2>2 DEF Standstill, CanGo
<1>11. \A k \in Connectors : cpc[k] \notin {"bind_in", "unbind_in"}
  BY <1>6, <1>9 DEF Standstill, ConnectorCanGo, Channels
<1>. QED  BY <1>2, <1>3, <1>8, <1>10, <1>11

(* Nor is an unbind waiting for the right to a list: it is the only one at  *)
(* work, and no call has the right.                                         *)
LEMMA NonePartsHere ==
  ASSUME General, Rights, Standstill, NEW k \in Connectors,
         \A c \in Channels : pc[c] \in {"idle", "wait_conns", "wait_blocked"},
         \A j \in Connectors :
           cpc[j] \in {"idle", "bind", "unbind", "unbind_wait_in", "unbind_wait_out"}
  PROVE  cpc[k] \notin {"unbind_wait_in", "unbind_wait_out"}
<1>. SUFFICES ASSUME cpc[k] \in {"unbind_wait_in", "unbind_wait_out"}
              PROVE  FALSE
  OBVIOUS
<1>. DEFINE end == IF cpc[k] = "unbind_wait_in" THEN ReceivingEnd(k) ELSE SendingEnd(k)
<1>1. /\ ReceivingEnd(k) \in Channels /\ SendingEnd(k) \in Channels
      /\ ReceivingEnd(k) # SendingEnd(k)
      /\ end \in {id1[k], id2[k]} /\ id1[k] \in Channels
  BY WorkEnds, ChannelsAssumption DEF Parting, Channels
<1>2. \A j \in Connectors \ {k} : cpc[j] \in {"idle", "bind", "unbind"}
  <2>1. \A j \in Connectors : ConnectorAt(j)
    BY DEF General, ConnectorInv
  <2>. QED  BY <2>1 DEF ConnectorAt, Working, CPCs
<1>3. ~ isEmpty(connections[end])
  <2>1. id2[k] \in Elements(connections[id1[k]])
    BY DEF General, ConnectorInv, ConnectorAt, Parting
  <2>2. id1[k] \in Elements(connections[id2[k]])
    BY <1>1, <2>1 DEF General, ListInv, ListAt, HalfPartedAt
  <2>. QED  BY <1>1, <2>1, <2>2 DEF isEmpty, Elements
<1>4. ~ CallHolds(end) /\ ~ BindOwes(end)
  BY <1>1 DEF CallHolds, BindOwes
<1>5. ~ UnbindHolds(end)
  BY <1>1, <1>2 DEF UnbindHolds
<1>6. conns_sem[end] = 1
  <2>1. RightAt(end) /\ conns_sem[end] \in Nat
    BY <1>1 DEF General, CallInv, CallTypes, Rights
  <2>. HIDE DEF end
  <2>. QED  BY <1>3, <1>4, <1>5, <2>1 DEF RightAt
<1>. QED  BY <1>6 DEF Standstill, ConnectorCanGo

(* So at such a standstill nobody has anything to do.                       *)
LEMMA StandsDoneHere ==
  ASSUME General, Rights, Owned, AckInv
  PROVE  ConnStandsOnlyIfDone
<1>. SUFFICES ASSUME Standstill,
                     \A k \in Connectors : cpc[k] # "self_lock",
                     \A h \in Channels : ~ LeftLocked(h)
              PROVE  /\ \A k \in Connectors : cpc[k] = "idle"
                     /\ \A c \in Channels :
                          \/ pc[c] = "idle"
                          \/ pc[c] = "wait_conns" /\ isEmpty(connections[c])
                          \/ Parked(c)
  BY DEF ConnStandsOnlyIfDone
<1>1. /\ \A c \in Channels :
           pc[c] \in {"idle", "wait_conns", "wait_ack", "wait_blocked"}
      /\ \A k \in Connectors :
           cpc[k] \in {"idle", "bind", "unbind", "unbind_wait_in", "unbind_wait_out"}
  BY NoneLocksHere
<1>2. \A c \in Channels : pc[c] # "wait_ack"
  <2>1. \A s \in Outs : pc[s] = "wait_ack" => match[s] \in Ins
    BY EndInHand DEF General, Channels
  <2>2. \A s \in Outs : pc[s] # "wait_ack"
    BY <1>1, <2>1, NoneAwaitsAck, CallsStillAgree DEF Standstill
  <2>. QED  BY <2>2 DEF General, CallInv, CallAt
<1>3. \A k \in Connectors : cpc[k] \in {"idle", "bind", "unbind"}
  BY <1>1, <1>2, NonePartsHere
<1>4. conn_op_mutex = NULL
  BY <1>3 DEF General, ConnTypes, ConnectorInv, ConnectorAt, Working
<1>5. \A k \in Connectors : cpc[k] = "idle"
  BY <1>3, <1>4 DEF Standstill, ConnectorCanGo
<1>6. ASSUME NEW c \in Channels
      PROVE  \/ pc[c] = "idle"
             \/ pc[c] = "wait_conns" /\ isEmpty(connections[c])
             \/ Parked(c)
  <2>1. CASE pc[c] = "wait_conns"
    <3>1. ~ (conns_sem[c] > 0)
      BY <2>1 DEF Standstill, CanGo
    <3>2. conns_sem[c] \in Nat /\ RightAt(c)
      BY DEF General, CallInv, CallTypes, Rights
    <3>3. ~ CallHolds(c) /\ ~ UnbindHolds(c) /\ ~ BindOwes(c)
      BY <1>5, <2>1 DEF CallHolds, UnbindHolds, BindOwes
    <3>. QED  BY <2>1, <3>1, <3>2, <3>3 DEF RightAt
  <2>2. CASE pc[c] = "wait_blocked"
    <3>1. ~ (blocked[c] > 0)
      BY <2>2 DEF Standstill, CanGo
    <3>2. ~ Taken(c)
      BY <3>1 DEF General, CallInv, WakeupMatchesTransfer
    <3>3. ~ active[c] /\ pc[c] \in Announced
      BY <2>2 DEF General, CallInv, CallAt, Announced
    <3>. QED  BY <2>2, <3>2, <3>3 DEF Parked, Taken
  <2>. QED  BY <1>1, <1>2, <2>1, <2>2
<1>. QED  BY <1>5, <1>6

(* With few binds, components that send, receive, bind and unbind at once   *)
(* block each other for good in no way but the two known ones: an unbind    *)
(* that locks conn_op_mutex again, and the mutexes a refusing bind keeps.   *)
THEOREM NoStandstillHere ==
  ASSUME FewBinds
  PROVE  ConnSpec => []ConnStandsOnlyIfDone
<1>1. General /\ Rights /\ Owned /\ AckInv => ConnStandsOnlyIfDone
  BY StandsDoneHere
<1>. QED  BY <1>1, GeneralInvariance, RightsInvariance, OwnedInvariance, AckInvarianceHere, PTL
=============================================================================
