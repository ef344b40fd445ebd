---------------------------- MODULE LibraryProofs ---------------------------
(***************************************************************************)
(* In a string map of any capacity, under any hash and with any keys and   *)
(* values, every key has at most one pair, in its own bucket, every value  *)
(* fits into its memory, no memory is lost, and every call answers as the  *)
(* map that strmap.h promises.                                             *)
(*                                                                         *)
(* Then, of the functions: searching a list, the widths of numbers,        *)
(* rounding and printing reals, comparing texts, the checksum of a frame   *)
(* and copying memory, each for every argument.                            *)
(*                                                                         *)
(* The blocks and the pairs of a map are counted, and a memory is copied,  *)
(* by recursive functions: that they exist and what they compute is proved *)
(* by induction over the set of numbers for which it holds.                *)
(***************************************************************************)
EXTENDS Library, TLAPS, FiniteSetTheorems, SequenceTheorems

Pairs == [key : Keys, value : Values, size : Nat]

StrMapTypeOK ==
  /\ hash \in [Keys -> Indices]
  /\ buckets \in [Indices -> Seq(Pairs)]
  /\ put \in {Idle} \cup [at : {"value", "pair"}, key : Keys, value : Values]

(* While sm_put allocates for a key, the key has no pair yet. *)
KeyIsNew == put # Idle => Matching(put.key) = {}

StrMapInv == StrMapTypeOK /\ KeyIsNew /\ PairsSound

-----------------------------------------------------------------------------
(* A set of numbers has a least one.                                        *)
LEMMA LeastOf ==
  ASSUME NEW S \in SUBSET Nat, S # {}
  PROVE  \E m \in S : \A n \in S : m <= n
<1>1. PICK m \in S : \A n \in S : ~(<<n, m>> \in OpToRel(<, Nat))
  BY NatLessThanWellFounded, WFMin
<1>2. \A n \in S : ~(n < m)
  BY <1>1 DEF OpToRel
<1>. QED  BY <1>2


(* A set that has 0 and the successor of each of its numbers has them all.  *)
LEMMA NatSetInduction ==
  ASSUME NEW S, 0 \in S, \A n \in Nat : n \in S => n + 1 \in S
  PROVE  \A n \in Nat : n \in S
<1>. SUFFICES ASSUME Nat \ S # {}  PROVE FALSE
  OBVIOUS
<1>1. PICK m \in Nat \ S : \A n \in Nat \ S : m <= n
  BY LeastOf
<1>2. m - 1 \in Nat
  BY <1>1
<1>3. m - 1 \in S
  BY <1>1, <1>2
<1>. QED  BY <1>1, <1>2, <1>3

-----------------------------------------------------------------------------
(* Sums *)

(* f[n] is the sum of the first n of the numbers d.                         *)
IsSum(f, d) == f = [i \in Nat |-> IF i = 0 THEN 0 ELSE f[i - 1] + d[i - 1]]

(* ... for as long as there are n of them.                                  *)
SumUpTo(n, f, d) ==
  f = [i \in 0 .. n |-> IF i = 0 THEN 0 ELSE f[i - 1] + d[i - 1]]

(* Every number of numbers has a sum.                                       *)
LEMMA PartialSum ==
  ASSUME NEW d
  PROVE  \A n \in Nat : \E f : SumUpTo(n, f, d)
<1>. DEFINE S == {n \in Nat : \E f : SumUpTo(n, f, d)}
<1>1. 0 \in S
  <2>1. SumUpTo(0, [i \in 0 .. 0 |-> 0], d)
    BY DEF SumUpTo
  <2>. QED  BY <2>1
<1>2. ASSUME NEW n \in Nat, n \in S
      PROVE  n + 1 \in S
  <2>1. PICK f : SumUpTo(n, f, d)
    BY <1>2
  <2>. DEFINE g == [i \in 0 .. n + 1 |-> IF i = n + 1 THEN f[n] + d[n] ELSE f[i]]
  <2>2. \A i \in 0 .. n : f[i] = IF i = 0 THEN 0 ELSE f[i - 1] + d[i - 1]
    BY <2>1 DEF SumUpTo
  <2>3. \A i \in 0 .. n + 1 : g[i] = IF i = 0 THEN 0 ELSE g[i - 1] + d[i - 1]
    BY <2>2
  <2>4. SumUpTo(n + 1, g, d)
    BY <2>3 DEF SumUpTo
  <2>. QED  BY <2>4
<1>. HIDE DEF S
<1>3. \A n \in Nat : n \in S
  BY <1>1, <1>2, NatSetInduction
<1>. QED  BY <1>3 DEF S

(* A longer sum begins as a shorter one.                                   *)
LEMMA PartialSumsAgree ==
  ASSUME NEW d, NEW n \in Nat, NEW m \in Nat, n <= m, NEW f, NEW g,
         SumUpTo(n, f, d), SumUpTo(m, g, d)
  PROVE  \A i \in 0 .. n : f[i] = g[i]
<1>. DEFINE S == {i \in Nat : i <= n => f[i] = g[i]}
<1>1. \A i \in 0 .. n :
        /\ f[i] = IF i = 0 THEN 0 ELSE f[i - 1] + d[i - 1]
        /\ g[i] = IF i = 0 THEN 0 ELSE g[i - 1] + d[i - 1]
  BY DEF SumUpTo
<1>2. 0 \in S
  BY <1>1
<1>3. ASSUME NEW i \in Nat, i \in S
      PROVE  i + 1 \in S
  BY <1>1, <1>3
<1>. HIDE DEF S
<1>4. \A i \in Nat : i \in S
  BY <1>2, <1>3, NatSetInduction
<1>. QED  BY <1>4 DEF S

(* There is a function with the sums of all beginnings.                    *)
LEMMA SumExists ==
  ASSUME NEW d
  PROVE  \E f : IsSum(f, d)
<1>. DEFINE up == [n \in Nat |-> CHOOSE f : SumUpTo(n, f, d)]
            F == [n \in Nat |-> up[n][n]]
<1>1. \A n \in Nat : SumUpTo(n, up[n], d)
  BY PartialSum
<1>. HIDE DEF up
<1>2. ASSUME NEW n \in Nat
      PROVE  F[n] = IF n = 0 THEN 0 ELSE F[n - 1] + d[n - 1]
  <2>1. up[n][n] = IF n = 0 THEN 0 ELSE up[n][n - 1] + d[n - 1]
    <3>1. SumUpTo(n, up[n], d) /\ n \in 0 .. n
      BY <1>1
    <3>. DEFINE f == up[n]
    <3>. HIDE DEF f
    <3>2. SumUpTo(n, f, d)
      BY <3>1 DEF f
    <3>3. f[n] = IF n = 0 THEN 0 ELSE f[n - 1] + d[n - 1]
      BY <3>1, <3>2 DEF SumUpTo
    <3>. QED  BY <3>3 DEF f
  <2>2. n # 0 => up[n][n - 1] = up[n - 1][n - 1]
    <3>1. ASSUME n # 0 PROVE up[n - 1][n - 1] = up[n][n - 1]
      <4>1. n - 1 \in Nat /\ n - 1 <= n /\ n - 1 \in 0 .. n - 1
        BY <3>1
      <4>2. SumUpTo(n - 1, up[n - 1], d) /\ SumUpTo(n, up[n], d)
        BY <1>1, <4>1
      <4>. DEFINE k == n - 1
                  f == up[k]
                  g == up[n]
      <4>3. k \in Nat /\ k <= n /\ k \in 0 .. k /\ SumUpTo(k, f, d) /\ SumUpTo(n, g, d)
        BY <4>1, <4>2
      <4>. HIDE DEF k, f, g
      <4>4. f[k] = g[k]
        BY <4>3, PartialSumsAgree
      <4>. QED  BY <4>4 DEF k, f, g
    <3>. QED  BY <3>1
  <2>. QED  BY <2>1, <2>2
<1>3. IsSum(F, d)
  BY <1>2 DEF IsSum
<1>. QED  BY <1>3

(* The numbers e are the numbers d but for the h-th, which is greater by    *)
(* delta.                                                                   *)
DifferAt(h, delta, n, d, e) ==
  \A i \in 0 .. n - 1 : d[i] \in Int /\ e[i] = d[i] + (IF i = h THEN delta ELSE 0)

(* The sums of two sequences of numbers that differ in one place.           *)
LEMMA SumChanges ==
  ASSUME NEW d, NEW e, NEW f, NEW g, IsSum(f, d), IsSum(g, e),
         NEW n \in Nat, NEW h \in 0 .. n - 1, NEW delta \in Int,
         DifferAt(h, delta, n, d, e)
  PROVE  f[n] \in Int /\ g[n] = f[n] + delta
<1>. DEFINE S == {i \in Nat : i <= n => /\ f[i] \in Int
                                        /\ g[i] = f[i] + (IF h < i THEN delta ELSE 0)}
<1>1. \A i \in Nat : /\ f[i] = IF i = 0 THEN 0 ELSE f[i - 1] + d[i - 1]
                     /\ g[i] = IF i = 0 THEN 0 ELSE g[i - 1] + e[i - 1]
  BY DEF IsSum
<1>2. 0 \in S
  BY <1>1
<1>3. ASSUME NEW i \in Nat, i \in S
      PROVE  i + 1 \in S
  <2>1. CASE i + 1 <= n
    <3>1. i \in 0 .. n - 1 /\ i <= n
      BY <2>1
    <3>2. f[i] \in Int /\ g[i] = f[i] + (IF h < i THEN delta ELSE 0)
      BY <1>3, <3>1
    <3>3. d[i] \in Int /\ e[i] = d[i] + (IF i = h THEN delta ELSE 0)
      BY <3>1 DEF DifferAt
    <3>4. f[i + 1] = f[i] + d[i] /\ g[i + 1] = g[i] + e[i]
      BY <1>1
    <3>. QED  BY <3>2, <3>3, <3>4
  <2>. QED  BY <2>1
<1>. HIDE DEF S
<1>4. n \in S
  BY <1>2, <1>3, NatSetInduction
<1>. QED  BY <1>4 DEF S

(* The sum of numbers is one, and that of zeros is zero.                    *)
LEMMA SumIsNumber ==
  ASSUME NEW d, NEW f, IsSum(f, d), NEW n \in Nat,
         \A i \in 0 .. n - 1 : d[i] \in Nat
  PROVE  f[n] \in Nat /\ ((\A i \in 0 .. n - 1 : d[i] = 0) => f[n] = 0)
<1>. DEFINE S == {i \in Nat : i <= n => /\ f[i] \in Nat
                                        /\ (\A j \in 0 .. n - 1 : d[j] = 0) => f[i] = 0}
<1>1. \A i \in Nat : f[i] = IF i = 0 THEN 0 ELSE f[i - 1] + d[i - 1]
  BY DEF IsSum
<1>2. 0 \in S
  BY <1>1
<1>3. ASSUME NEW i \in Nat, i \in S
      PROVE  i + 1 \in S
  <2>1. CASE i + 1 <= n
    <3>1. i \in 0 .. n - 1 /\ i <= n
      BY <2>1
    <3>2. f[i + 1] = f[i] + d[i]
      BY <1>1
    <3>. QED  BY <1>3, <3>1, <3>2
  <2>. QED  BY <2>1
<1>. HIDE DEF S
<1>4. n \in S
  BY <1>2, <1>3, NatSetInduction
<1>. QED  BY <1>4 DEF S

-----------------------------------------------------------------------------
(* Looking up *)

(* get_pair finds a pair with the key if there is one.                      *)
LEMMA GetPairFinds ==
  ASSUME StrMapTypeOK, NEW k \in Keys
  PROVE  /\ Matching(k) = {} <=> get_pair(k) = 0
         /\ Matching(k) # {} => get_pair(k) \in Matching(k)
<1>1. hash[k] \in Indices /\ buckets[hash[k]] \in Seq(Pairs)
  BY DEF StrMapTypeOK
<1>2. Matching(k) \in SUBSET (Nat \ {0})
  BY <1>1 DEF Matching
<1>3. ASSUME Matching(k) # {}
      PROVE  get_pair(k) \in Matching(k)
  <2>. DEFINE S == Matching(k)
  <2>. HIDE DEF S
  <2>1. S \in SUBSET Nat /\ S # {}
    BY <1>2, <1>3 DEF S
  <2>2. PICK m \in S : \A n \in S : m <= n
    BY <2>1, LeastOf
  <2>3. (CHOOSE i \in S : \A j \in S : i <= j) \in S
    BY <2>2
  <2>. QED  BY <1>3, <2>3 DEF S, get_pair
<1>. QED  BY <1>2, <1>3 DEF get_pair

(* Calls that leave the buckets as they are.                                *)
LEMMA BucketsKept ==
  ASSUME StrMapInv, UNCHANGED <<hash, buckets>>,
         put' = put \/ put' = Idle
  PROVE  StrMapInv'
<1>1. StrMapTypeOK'
  BY DEF StrMapInv, StrMapTypeOK, Idle
<1>2. KeyIsNew'
  BY DEF StrMapInv, KeyIsNew, Matching, Idle
<1>3. PairsSound'
  BY DEF StrMapInv, PairsSound
<1>. QED  BY <1>1, <1>2, <1>3 DEF StrMapInv

(* One bucket is replaced by one that is as sound; no call is in progress.  *)
LEMMA BucketReplaced ==
  ASSUME StrMapInv, NEW h \in Indices, NEW b \in Seq(Pairs),
         \A i \in DOMAIN b :
           /\ hash[b[i].key] = h
           /\ \A j \in DOMAIN b : b[j].key = b[i].key => j = i
           /\ Length(b[i].value) < b[i].size,
         hash' = hash, buckets' = [buckets EXCEPT ![h] = b], put' = Idle
  PROVE  StrMapInv'
<1>1. buckets' \in [Indices -> Seq(Pairs)] /\ buckets'[h] = b
  BY DEF StrMapInv, StrMapTypeOK
<1>2. \A g \in Indices \ {h} : buckets'[g] = buckets[g]
  BY DEF StrMapInv, StrMapTypeOK
<1>3. StrMapTypeOK' /\ KeyIsNew'
  BY <1>1 DEF StrMapInv, StrMapTypeOK, KeyIsNew, Idle
<1>4. PairsSound'
  <2>. SUFFICES ASSUME NEW g \in Indices, NEW i \in DOMAIN buckets'[g]
       PROVE  /\ hash[buckets'[g][i].key] = g
              /\ \A j \in DOMAIN buckets'[g] : buckets'[g][j].key = buckets'[g][i].key => j = i
              /\ Length(buckets'[g][i].value) < buckets'[g][i].size
    BY DEF PairsSound
  <2>1. CASE g = h
    BY <1>1, <2>1
  <2>2. CASE g # h
    BY <1>2, <2>2 DEF StrMapInv, PairsSound
  <2>. QED  BY <2>1, <2>2
<1>. QED  BY <1>3, <1>4 DEF StrMapInv

-----------------------------------------------------------------------------
(* Replacing the value of a key's pair.                                     *)
LEMMA PutReplaceInv ==
  ASSUME StrMapAssumption, StrMapInv, NEW k \in Keys, NEW v \in Values, PutReplace(k, v)
  PROVE  StrMapInv'
<1>. DEFINE h == hash[k]
            i == get_pair(k)
            p == buckets[h][i]
            room == IF Grows(p, v) THEN Length(v) + 1 ELSE p.size
            written == [p EXCEPT !.value = v, !.size = room]
            b == [buckets[h] EXCEPT ![i] = written]
<1>1. h \in Indices /\ buckets[h] \in Seq(Pairs) /\ buckets \in [Indices -> Seq(Pairs)]
  BY DEF StrMapInv, StrMapTypeOK
<1>2. i \in DOMAIN buckets[h] /\ p.key = k /\ p \in Pairs
  <2>1. i # 0 /\ StrMapTypeOK
    BY DEF PutReplace, StrMapInv
  <2>2. i \in Matching(k)
    BY <2>1, GetPairFinds
  <2>. QED  BY <1>1, <2>2 DEF Matching
<1>3. put' = Idle /\ hash' = hash
  BY DEF PutReplace, Calling
<1>4. CASE UNCHANGED buckets
  BY <1>3, <1>4, BucketsKept
<1>5. CASE buckets' = [buckets EXCEPT ![h][i] = written]
  <2>1. Length(v) \in Nat /\ Length(p.value) \in Nat /\ Length(p.value) < p.size
    BY <1>1, <1>2 DEF StrMapAssumption, StrMapInv, PairsSound, Pairs
  <2>2. /\ written \in Pairs /\ written.key = k /\ written.value = v
        /\ Length(written.value) < written.size
    <3>1. p.size \in Nat
      BY <1>2 DEF Pairs
    <3>2. room \in Nat /\ Length(v) < room
      BY <2>1, <3>1 DEF Grows
    <3>. HIDE DEF room, p
    <3>. QED  BY <1>2, <3>2 DEF Pairs
  <2>. HIDE DEF written, room
  <2>3. b \in Seq(Pairs) /\ DOMAIN b = DOMAIN buckets[h] /\ b[i] = written
        /\ \A j \in DOMAIN b \ {i} : b[j] = buckets[h][j]
    BY <1>1, <1>2, <2>2
  <2>4. buckets' = [buckets EXCEPT ![h] = b]
    BY <1>1, <1>5
  <2>. HIDE DEF b, h, i, p
  <2>5. \A j \in DOMAIN b : b[j].key = buckets[h][j].key
    BY <1>2, <2>2, <2>3 DEF p
  <2>6. \A j \in DOMAIN b :
           /\ hash[b[j].key] = h
           /\ \A l \in DOMAIN b : b[l].key = b[j].key => l = j
    BY <1>1, <2>3, <2>5 DEF StrMapInv, PairsSound
  <2>7. \A j \in DOMAIN b : Length(b[j].value) < b[j].size
    BY <1>1, <2>2, <2>3 DEF StrMapInv, PairsSound
  <2>8. \A j \in DOMAIN b :
           /\ hash[b[j].key] = h
           /\ \A l \in DOMAIN b : b[l].key = b[j].key => l = j
           /\ Length(b[j].value) < b[j].size
    BY <2>6, <2>7
  <2>9. h \in Indices /\ b \in Seq(Pairs)
    BY <1>1, <2>3
  <2>. QED  BY <1>3, <2>4, <2>8, <2>9, BucketReplaced
<1>6. \/ UNCHANGED buckets
      \/ buckets' = [buckets EXCEPT ![h][i] = written]
  BY DEF PutReplace
<1>. QED  BY <1>4, <1>5, <1>6

(* Adding a pair for a new key.                                             *)
LEMMA PutPairInv ==
  ASSUME StrMapAssumption, StrMapInv, PutPair
  PROVE  StrMapInv'
<1>. DEFINE h == hash[put.key]
            new == [key |-> put.key, value |-> put.value, size |-> Length(put.value) + 1]
            b == Append(buckets[h], new)
<1>1. put # Idle /\ put.key \in Keys /\ put.value \in Values /\ Matching(put.key) = {}
  BY DEF PutPair, StrMapInv, StrMapTypeOK, KeyIsNew, Idle
<1>2. h \in Indices /\ buckets[h] \in Seq(Pairs)
  BY <1>1 DEF StrMapInv, StrMapTypeOK
<1>3. Length(put.value) \in Nat
  BY <1>1 DEF StrMapAssumption
<1>4. /\ new \in Pairs /\ new.key = put.key /\ hash[new.key] = h
      /\ Length(new.value) < new.size
  BY <1>1, <1>3 DEF Pairs
<1>. DEFINE n == Len(buckets[h])
<1>5. \A j \in 1 .. n : buckets[h][j].key # put.key
  BY <1>1, <1>2 DEF Matching
<1>6. hash' = hash /\ put' = Idle /\ buckets' = [buckets EXCEPT ![h] = b]
  BY DEF PutPair
<1>. HIDE DEF new, h
<1>7. /\ b \in Seq(Pairs) /\ DOMAIN b = 1 .. n + 1 /\ n \in Nat
      /\ b[n + 1] = new /\ \A j \in 1 .. n : b[j] = buckets[h][j]
  BY <1>2, <1>4
<1>8. \A j \in 1 .. n :
        /\ hash[buckets[h][j].key] = h
        /\ \A l \in 1 .. n : buckets[h][l].key = buckets[h][j].key => l = j
        /\ Length(buckets[h][j].value) < buckets[h][j].size
  BY <1>2 DEF StrMapInv, PairsSound
<1>. HIDE DEF b, n
<1>9. \A j \in DOMAIN b :
        /\ hash[b[j].key] = h
        /\ \A l \in DOMAIN b : b[l].key = b[j].key => l = j
        /\ Length(b[j].value) < b[j].size
  <2>. SUFFICES ASSUME NEW j \in DOMAIN b
                PROVE  /\ hash[b[j].key] = h
                       /\ \A l \in DOMAIN b : b[l].key = b[j].key => l = j
                       /\ Length(b[j].value) < b[j].size
    OBVIOUS
  <2>1. CASE j = n + 1
    BY <1>4, <1>5, <1>7, <2>1
  <2>2. CASE j \in 1 .. n
    BY <1>4, <1>5, <1>7, <1>8, <2>2
  <2>. QED  BY <1>7, <2>1, <2>2
<1>. QED  BY <1>2, <1>6, <1>7, <1>9, BucketReplaced

(* Every step keeps the invariant.                                          *)
LEMMA StrMapNextInv ==
  ASSUME StrMapAssumption, StrMapInv, [StrMapNext]_strMapVars
  PROVE  StrMapInv'
<1>1. CASE sm_new \/ sm_get_count \/ sm_enum
  BY <1>1, BucketsKept DEF sm_new, sm_get_count, sm_enum
<1>2. CASE sm_delete
  <2>1. put' = Idle /\ hash' = hash /\ buckets' = [i \in Indices |-> <<>>]
    BY <1>2 DEF sm_delete, Calling
  <2>2. StrMapTypeOK' /\ KeyIsNew'
    BY <2>1 DEF StrMapInv, StrMapTypeOK, KeyIsNew
  <2>3. PairsSound'
    BY <2>1 DEF PairsSound
  <2>. QED  BY <2>2, <2>3 DEF StrMapInv
<1>3. ASSUME NEW k \in Keys, sm_exists(k) \/ sm_get_size(k) \/ \E room \in Rooms : sm_get(k, room)
      PROVE  StrMapInv'
  BY <1>3, BucketsKept DEF sm_exists, sm_get_size, sm_get
<1>4. ASSUME NEW k \in Keys, NEW v \in Values, PutKey(k, v)
      PROVE  StrMapInv'
  <2>1. UNCHANGED <<hash, buckets>> /\ get_pair(k) = 0
    BY <1>4 DEF PutKey
  <2>2. CASE put' = Idle
    BY <2>1, <2>2, BucketsKept
  <2>3. CASE put' = [at |-> "value", key |-> k, value |-> v]
    <3>1. Matching(k) = {}
      BY <2>1, GetPairFinds DEF StrMapInv
    <3>2. StrMapTypeOK' /\ PairsSound'
      BY <2>1, <2>3 DEF StrMapInv, StrMapTypeOK, PairsSound, Idle
    <3>3. put'.key = k
      BY <2>3
    <3>4. KeyIsNew'
      BY <2>1, <3>1, <3>3 DEF KeyIsNew, Matching
    <3>. QED  BY <3>2, <3>4 DEF StrMapInv
  <2>. QED  BY <1>4, <2>2, <2>3 DEF PutKey, PutFails
<1>5. CASE PutValue
  <2>1. UNCHANGED <<hash, buckets>> /\ put.at = "value"
    BY <1>5 DEF PutValue
  <2>2. CASE put' = Idle
    BY <2>1, <2>2, BucketsKept
  <2>3. CASE put' = [put EXCEPT !.at = "pair"]
    <3>1. put \in [at : {"value", "pair"}, key : Keys, value : Values] /\ put # Idle
      BY <2>1 DEF StrMapInv, StrMapTypeOK, Idle
    <3>2. put' \in [at : {"value", "pair"}, key : Keys, value : Values] /\ put'.key = put.key
      BY <2>3, <3>1
    <3>3. StrMapTypeOK' /\ PairsSound'
      BY <2>1, <3>2 DEF StrMapInv, StrMapTypeOK, PairsSound
    <3>4. KeyIsNew'
      BY <2>1, <3>1, <3>2 DEF StrMapInv, KeyIsNew, Matching
    <3>. QED  BY <3>3, <3>4 DEF StrMapInv
  <2>. QED  BY <1>5, <2>2, <2>3 DEF PutValue, PutFails
<1>6. CASE NoPair
  BY <1>6, BucketsKept DEF NoPair, PutFails
<1>7. CASE UNCHANGED strMapVars
  BY <1>7, BucketsKept DEF strMapVars
<1>. QED
  BY <1>1, <1>2, <1>3, <1>4, <1>5, <1>6, <1>7, PutReplaceInv, PutPairInv DEF StrMapNext

(* In every state each key has at most one pair, found where its hash says, *)
(* and each value and its terminator fit into the memory they are in.       *)
THEOREM PairsAreSound == StrMapSpec => []PairsSound
<1>1. StrMapInit => StrMapInv
  <2>. SUFFICES ASSUME StrMapInit PROVE StrMapInv
    OBVIOUS
  <2>1. StrMapTypeOK /\ KeyIsNew
    BY DEF StrMapInit, StrMapTypeOK, KeyIsNew
  <2>2. PairsSound
    BY DEF StrMapInit, PairsSound
  <2>. QED  BY <2>1, <2>2 DEF StrMapInv
<1>2. StrMapInv /\ [StrMapNext]_strMapVars => StrMapInv'
  BY StrMapAssumption, StrMapNextInv
<1>3. StrMapInv => PairsSound
  BY DEF StrMapInv
<1>. QED  BY <1>1, <1>2, <1>3, PTL DEF StrMapSpec

-----------------------------------------------------------------------------
(* Memory *)

(* How many blocks, and how many pairs, each bucket has.                    *)
Blocks == [i \in Nat |-> BlocksOf(buckets[i])]

Lengths == [i \in Nat |-> Len(buckets[i])]

(* The recursive functions of the module are the sums over the buckets.     *)
LEMMA BlocksAreSum == IsSum(BlocksBefore, Blocks)
<1>1. PICK f : IsSum(f, Blocks)
  BY SumExists
<1>2. \A g : IsSum(g, Blocks) <=>
        g = [i \in Nat |-> IF i = 0 THEN 0 ELSE g[i - 1] + BlocksOf(buckets[i - 1])]
  <2>. SUFFICES ASSUME NEW g
       PROVE  [i \in Nat |-> IF i = 0 THEN 0 ELSE g[i - 1] + Blocks[i - 1]]
                = [i \in Nat |-> IF i = 0 THEN 0 ELSE g[i - 1] + BlocksOf(buckets[i - 1])]
    BY DEF IsSum
  <2>1. \A i \in Nat : i # 0 => Blocks[i - 1] = BlocksOf(buckets[i - 1])
    BY DEF Blocks
  <2>. QED  BY <2>1
<1>3. BlocksBefore =
        [i \in Nat |-> IF i = 0 THEN 0 ELSE BlocksBefore[i - 1] + BlocksOf(buckets[i - 1])]
  <2>1. \E g : g = [i \in Nat |-> IF i = 0 THEN 0 ELSE g[i - 1] + BlocksOf(buckets[i - 1])]
    BY <1>1, <1>2
  <2>. QED  BY <2>1 DEF BlocksBefore
<1>. QED  BY <1>2, <1>3

(* ... of the pairs.                                                        *)
LEMMA PairsAreSum == IsSum(PairsBefore, Lengths)
<1>1. PICK f : IsSum(f, Lengths)
  BY SumExists
<1>2. \A g : IsSum(g, Lengths) <=>
        g = [i \in Nat |-> IF i = 0 THEN 0 ELSE g[i - 1] + Len(buckets[i - 1])]
  <2>. SUFFICES ASSUME NEW g
       PROVE  [i \in Nat |-> IF i = 0 THEN 0 ELSE g[i - 1] + Lengths[i - 1]]
                = [i \in Nat |-> IF i = 0 THEN 0 ELSE g[i - 1] + Len(buckets[i - 1])]
    BY DEF IsSum
  <2>1. \A i \in Nat : i # 0 => Lengths[i - 1] = Len(buckets[i - 1])
    BY DEF Lengths
  <2>. QED  BY <2>1
<1>3. PairsBefore =
        [i \in Nat |-> IF i = 0 THEN 0 ELSE PairsBefore[i - 1] + Len(buckets[i - 1])]
  <2>1. \E g : g = [i \in Nat |-> IF i = 0 THEN 0 ELSE g[i - 1] + Len(buckets[i - 1])]
    BY <1>1, <1>2
  <2>. QED  BY <2>1 DEF PairsBefore
<1>. QED  BY <1>2, <1>3

(* Without a map there are no pairs and no call is in progress.             *)
ClosedEmpty == ~ map => put = Idle /\ \A h \in Indices : buckets[h] = <<>>

StoreInv == StrMapInv /\ ClosedEmpty /\ MemoryExact

(* How many blocks a bucket is in.                                          *)
LEMMA BlocksOfBucket ==
  ASSUME NEW b \in Seq(Pairs)
  PROVE  /\ BlocksOf(b) = IF Len(b) = 0 THEN 0 ELSE 2 * Len(b) + 1
         /\ BlocksOf(b) \in Nat /\ (b = <<>> => BlocksOf(b) = 0)
<1>1. PICK n \in Nat : n = Len(b)
  OBVIOUS
<1>2. CASE b = <<>>
  BY <1>2 DEF BlocksOf
<1>3. CASE b # <<>>
  <2>1. BlocksOf(b) = 2 * n + 1
    BY <1>1, <1>3 DEF BlocksOf
  <2>2. n # 0
    BY <1>1, <1>3
  <2>. QED  BY <1>1, <1>3, <2>1, <2>2
<1>. QED  BY <1>2, <1>3

(* The blocks of the map are a number of blocks.                            *)
LEMMA BlocksCounted ==
  ASSUME StrMapTypeOK
  PROVE  /\ BlocksBefore[Capacity] \in Nat
         /\ (\A h \in Indices : buckets[h] = <<>>) => BlocksBefore[Capacity] = 0
<1>1. \A h \in 0 .. Capacity - 1 :
        Blocks[h] \in Nat /\ (buckets[h] = <<>> => Blocks[h] = 0)
  <2>. SUFFICES ASSUME NEW h \in 0 .. Capacity - 1
                PROVE  Blocks[h] \in Nat /\ (buckets[h] = <<>> => Blocks[h] = 0)
    OBVIOUS
  <2>1. h \in Nat /\ buckets[h] \in Seq(Pairs)
    BY StrMapAssumption DEF StrMapTypeOK, Indices
  <2>2. Blocks[h] = BlocksOf(buckets[h])
    BY <2>1 DEF Blocks
  <2>. QED  BY <2>1, <2>2, BlocksOfBucket
<1>2. IsSum(BlocksBefore, Blocks) /\ Capacity \in Nat
  BY BlocksAreSum, StrMapAssumption
<1>3. /\ BlocksBefore[Capacity] \in Nat
      /\ (\A h \in 0 .. Capacity - 1 : Blocks[h] = 0) => BlocksBefore[Capacity] = 0
  BY <1>1, <1>2, SumIsNumber
<1>. QED  BY <1>1, <1>3 DEF Indices

(* A bucket that takes more blocks makes the map take as many more.         *)
LEMMA BlocksAdded ==
  ASSUME StrMapTypeOK, NEW h \in Indices, NEW b \in Seq(Pairs), NEW more \in Int,
         buckets' = [buckets EXCEPT ![h] = b],
         BlocksOf(b) = BlocksOf(buckets[h]) + more
  PROVE  BlocksBefore'[Capacity] = BlocksBefore[Capacity] + more
<1>1. IsSum(BlocksBefore, Blocks) /\ IsSum(BlocksBefore', Blocks')
  <2>1. IsSum(BlocksBefore, Blocks)'
    BY BlocksAreSum, PTL
  <2>. QED  BY <2>1, BlocksAreSum DEF IsSum
<1>2. \A i \in 0 .. Capacity - 1 :
        Blocks[i] \in Int /\ Blocks'[i] = Blocks[i] + (IF i = h THEN more ELSE 0)
  <2>. SUFFICES ASSUME NEW i \in 0 .. Capacity - 1
                PROVE  Blocks[i] \in Int /\ Blocks'[i] = Blocks[i] + (IF i = h THEN more ELSE 0)
    OBVIOUS
  <2>1. i \in Nat /\ i \in Indices /\ buckets[i] \in Seq(Pairs)
    BY StrMapAssumption DEF StrMapTypeOK, Indices
  <2>2. Blocks[i] = BlocksOf(buckets[i]) /\ Blocks'[i] = BlocksOf(buckets'[i])
    BY <2>1 DEF Blocks, BlocksOf
  <2>3. BlocksOf(buckets[i]) \in Int
    BY <2>1 DEF BlocksOf
  <2>4. buckets'[i] = IF i = h THEN b ELSE buckets[i]
    BY <2>1 DEF StrMapTypeOK
  <2>. QED  BY <2>2, <2>3, <2>4
<1>3. Capacity \in Nat /\ h \in 0 .. Capacity - 1
  BY StrMapAssumption DEF Indices
<1>4. PICK d, e, f, g : d = Blocks /\ e = Blocks' /\ f = BlocksBefore /\ g = BlocksBefore'
  OBVIOUS
<1>5. IsSum(f, d) /\ IsSum(g, e)
  BY <1>1, <1>4
<1>6. DifferAt(h, more, Capacity, d, e)
  BY <1>2, <1>4 DEF DifferAt
<1>7. g[Capacity] = f[Capacity] + more
  BY <1>3, <1>5, <1>6, SumChanges
<1>. QED  BY <1>4, <1>7

(* A bucket takes the place of k's, in which only the pair i, of k, differs *)
(* and has v.                                                               *)
Replaces(k, v, i, b) ==
  /\ buckets' = [buckets EXCEPT ![hash[k]] = b]
  /\ Len(b) = Len(buckets[hash[k]]) /\ b # <<>> /\ buckets[hash[k]] # <<>>
  /\ b[i].key = k /\ b[i].value = v
  /\ \A j \in DOMAIN b \ {i} : b[j] = buckets[hash[k]][j]

(* A replaced value changes no count of blocks, and no key.                 *)
LEMMA ReplacedBucket ==
  ASSUME StrMapInv, NEW k \in Keys, NEW v \in Values, PutReplace(k, v),
         answer' = [ret |-> 1, out |-> {}]
  PROVE  \E i \in Matching(k) : \E b \in Seq(Pairs) : Replaces(k, v, i, b)
<1>. DEFINE h == hash[k]
            i == get_pair(k)
            p == buckets[h][i]
            room == IF Grows(p, v) THEN Length(v) + 1 ELSE p.size
            written == [p EXCEPT !.value = v, !.size = room]
            b == [buckets[h] EXCEPT ![i] = written]
<1>1. h \in Indices /\ buckets[h] \in Seq(Pairs) /\ buckets \in [Indices -> Seq(Pairs)]
  BY DEF StrMapInv, StrMapTypeOK
<1>2. i \in Matching(k) /\ i \in DOMAIN buckets[h] /\ p.key = k /\ p \in Pairs
  <2>1. i # 0 /\ StrMapTypeOK
    BY DEF PutReplace, StrMapInv
  <2>2. i \in Matching(k)
    BY <2>1, GetPairFinds
  <2>. QED  BY <1>1, <2>2 DEF Matching
<1>3. buckets' = [buckets EXCEPT ![h][i] = written]
  BY DEF PutReplace, Returned
<1>4. written \in Pairs /\ written.key = k /\ written.value = v
  <2>1. Length(v) \in Nat /\ p.size \in Nat
    BY <1>2, StrMapAssumption DEF Pairs
  <2>2. room \in Nat
    BY <2>1
  <2>. HIDE DEF room, p
  <2>. QED  BY <1>2, <2>2 DEF Pairs
<1>. HIDE DEF written, room
<1>5. /\ b \in Seq(Pairs) /\ DOMAIN b = DOMAIN buckets[h] /\ b[i] = written
      /\ Len(b) = Len(buckets[h]) /\ b # <<>> /\ buckets[h] # <<>>
      /\ \A j \in DOMAIN b \ {i} : b[j] = buckets[h][j]
  BY <1>1, <1>2, <1>4
<1>6. buckets' = [buckets EXCEPT ![h] = b]
  BY <1>1, <1>3
<1>. HIDE DEF b, i, p
<1>7. b[i].key = k /\ b[i].value = v
  BY <1>4, <1>5
<1>. QED  BY <1>2, <1>5, <1>6, <1>7 DEF Replaces

(* Every step keeps the count of the memory.                                *)
LEMMA StoreNextInv ==
  ASSUME StoreInv, [StrMapNext]_strMapVars
  PROVE  StoreInv'
<1>1. StrMapInv' /\ StrMapTypeOK /\ StrMapInv
  BY StrMapNextInv, StrMapAssumption DEF StoreInv, StrMapInv
<1>. SUFFICES ClosedEmpty' /\ MemoryExact'
  BY <1>1 DEF StoreInv
<1>. DEFINE blocks == BlocksBefore[Capacity]
            held(p) == IF p.at = "value" THEN 1 ELSE IF p.at = "pair" THEN 2 ELSE 0
<1>2. /\ blocks \in Nat
      /\ (\A h \in Indices : buckets[h] = <<>>) => blocks = 0
  BY <1>1, BlocksCounted
<1>3. /\ mem = (IF map THEN 2 + blocks ELSE 0) + held(put)
      /\ ClosedEmpty
  BY DEF StoreInv, MemoryExact
<1>4. held(Idle) = 0
  BY DEF Idle
<1>5. ASSUME buckets' = buckets
      PROVE  blocks' = blocks
  BY <1>5 DEF BlocksBefore, BlocksOf
<1>6. MemoryExact' <=> mem' = (IF map' THEN 2 + blocks' ELSE 0) + held(put')
  BY DEF MemoryExact
<1>. HIDE DEF blocks
<1>7. CASE sm_new
  <2>1. UNCHANGED <<buckets, put>> /\ ~ map
    BY <1>7 DEF sm_new
  <2>2. blocks = 0 /\ held(put) = 0
    BY <1>2, <1>3, <1>4, <2>1 DEF ClosedEmpty
  <2>3. \/ map' = TRUE /\ mem' = mem + 2
        \/ UNCHANGED <<map, mem>>
    BY <1>7 DEF sm_new
  <2>4. MemoryExact'
    BY <1>3, <1>5, <1>6, <2>1, <2>2, <2>3
  <2>. QED  BY <1>3, <2>1, <2>4 DEF ClosedEmpty
<1>8. CASE sm_delete
  <2>1. /\ map /\ put = Idle /\ UNCHANGED put /\ map' = FALSE
        /\ buckets' = [i \in Indices |-> <<>>]
    BY <1>8 DEF sm_delete, Calling
  <2>2. mem' = mem - blocks - 2
    BY <1>8 DEF sm_delete, blocks
  <2>3. ClosedEmpty'
    BY <2>1 DEF ClosedEmpty
  <2>. QED  BY <1>2, <1>3, <1>4, <1>6, <2>1, <2>2, <2>3
<1>9. ASSUME UNCHANGED <<map, mem, put, buckets>>
      PROVE  ClosedEmpty' /\ MemoryExact'
  BY <1>3, <1>5, <1>6, <1>9 DEF ClosedEmpty
<1>10. ASSUME NEW k \in Keys, NEW v \in Values, PutReplace(k, v)
       PROVE  ClosedEmpty' /\ MemoryExact'
  <2>1. UNCHANGED <<map, mem, put>> /\ map
    BY <1>10 DEF PutReplace, Calling
  <2>2. CASE buckets' # buckets
    <3>5. answer' = [ret |-> 1, out |-> {}]
      BY <1>10, <2>2 DEF PutReplace, Returned
    <3>1. PICK b \in Seq(Pairs) :
            /\ buckets' = [buckets EXCEPT ![hash[k]] = b]
            /\ Len(b) = Len(buckets[hash[k]]) /\ b # <<>> /\ buckets[hash[k]] # <<>>
      BY <1>1, <1>10, <3>5, ReplacedBucket DEF Replaces
    <3>2. hash[k] \in Indices /\ BlocksOf(b) = BlocksOf(buckets[hash[k]]) + 0
      BY <1>1, <3>1 DEF StrMapTypeOK, BlocksOf
    <3>3. blocks' = blocks + 0
      BY <1>1, <3>1, <3>2, 0 \in Int, BlocksAdded, Zenon DEF blocks
    <3>4. blocks' = blocks
      BY <1>2, <3>3
    <3>. QED  BY <1>3, <1>6, <2>1, <3>4 DEF ClosedEmpty
  <2>. QED  BY <1>9, <2>1, <2>2
<1>11. ASSUME NEW k \in Keys, NEW v \in Values, PutKey(k, v)
       PROVE  ClosedEmpty' /\ MemoryExact'
  <2>1. UNCHANGED <<map, buckets>> /\ map /\ put = Idle
    BY <1>11 DEF PutKey, Calling
  <2>2. \/ put'.at = "value" /\ mem' = mem + 1
        \/ put' = Idle /\ mem' = mem
    BY <1>11 DEF PutKey, PutFails
  <2>. QED  BY <1>2, <1>3, <1>4, <1>5, <1>6, <2>1, <2>2 DEF ClosedEmpty
<1>12. CASE PutValue
  <2>1. UNCHANGED <<map, buckets>> /\ put.at = "value" /\ map
    BY <1>3, <1>12 DEF PutValue, ClosedEmpty, Idle
  <2>2. \/ put'.at = "pair" /\ mem' = mem + 1
        \/ put' = Idle /\ mem' = mem - 1
    <3>1. put \in [at : {"value", "pair"}, key : Keys, value : Values]
      BY <1>1, <2>1 DEF StrMapTypeOK, Idle
    <3>. QED  BY <1>12, <3>1 DEF PutValue, PutFails
  <2>. QED  BY <1>2, <1>3, <1>4, <1>5, <1>6, <2>1, <2>2 DEF ClosedEmpty
<1>13. CASE NoPair
  <2>1. /\ UNCHANGED <<map, buckets>> /\ put.at = "pair" /\ map
        /\ put' = Idle /\ mem' = mem - 2
    BY <1>3, <1>13 DEF NoPair, PutFails, ClosedEmpty, Idle
  <2>. QED  BY <1>2, <1>3, <1>4, <1>5, <1>6, <2>1 DEF ClosedEmpty
<1>14. CASE PutPair
  <2>. DEFINE h == hash[put.key]
              new == [key |-> put.key, value |-> put.value, size |-> Length(put.value) + 1]
              b == Append(buckets[h], new)
              more == 2 + (IF buckets[h] = <<>> THEN 1 ELSE 0)
  <2>1. /\ UNCHANGED map /\ put.at = "pair" /\ map /\ put' = Idle
        /\ mem' = IF buckets[h] = <<>> THEN mem + 1 ELSE mem
        /\ buckets' = [buckets EXCEPT ![h] = b]
    BY <1>3, <1>14 DEF PutPair, ClosedEmpty, Idle
  <2>2. put.key \in Keys /\ put.value \in Values /\ h \in Indices /\ buckets[h] \in Seq(Pairs)
    BY <1>1, <2>1 DEF StrMapTypeOK, Idle
  <2>3. new \in Pairs
    BY <2>2, StrMapAssumption DEF Pairs
  <2>. HIDE DEF new, h
  <2>4. b \in Seq(Pairs) /\ Len(b) = Len(buckets[h]) + 1 /\ b # <<>>
    BY <2>2, <2>3
  <2>. HIDE DEF b
  <2>5. more \in Int /\ BlocksOf(b) = BlocksOf(buckets[h]) + more
    <3>1. PICK n \in Nat : n = Len(buckets[h])
      BY <2>2
    <3>2. BlocksOf(buckets[h]) = (IF n = 0 THEN 0 ELSE 2 * n + 1)
      BY <2>2, <3>1, BlocksOfBucket
    <3>3. BlocksOf(b) = 2 * (n + 1) + 1
      BY <2>4, <3>1, BlocksOfBucket
    <3>4. more = IF n = 0 THEN 3 ELSE 2
      BY <2>2, <3>1
    <3>. QED  BY <3>2, <3>3, <3>4
  <2>. HIDE DEF more
  <2>6. blocks' = blocks + more
    BY <1>1, <2>1, <2>2, <2>4, <2>5, BlocksAdded DEF blocks
  <2>7. more = 2 + (IF buckets[h] = <<>> THEN 1 ELSE 0)
    BY DEF more
  <2>8. held(put) = 2
    BY <2>1
  <2>9. MemoryExact'
    BY <1>2, <1>3, <1>4, <1>6, <2>1, <2>6, <2>7, <2>8
  <2>. QED  BY <2>1, <2>9 DEF ClosedEmpty
<1>15. CASE sm_get_count \/ sm_enum \/ UNCHANGED strMapVars
  BY <1>9, <1>15 DEF sm_get_count, sm_enum, strMapVars
<1>16. ASSUME NEW k \in Keys, sm_exists(k) \/ sm_get_size(k) \/ \E room \in Rooms : sm_get(k, room)
       PROVE  ClosedEmpty' /\ MemoryExact'
  BY <1>9, <1>16 DEF sm_exists, sm_get_size, sm_get
<1>. QED
  BY <1>7, <1>8, <1>10, <1>11, <1>12, <1>13, <1>14, <1>15, <1>16 DEF StrMapNext

(* The invariant holds before the first call.                               *)
LEMMA StoreInitInv ==
  ASSUME StrMapInit
  PROVE  StoreInv
<1>1. StrMapTypeOK /\ KeyIsNew /\ PairsSound
  BY DEF StrMapInit, StrMapTypeOK, KeyIsNew, PairsSound
<1>2. ClosedEmpty
  BY DEF StrMapInit, ClosedEmpty
<1>3. MemoryExact
  BY DEF StrMapInit, MemoryExact, Idle
<1>. QED  BY <1>1, <1>2, <1>3 DEF StoreInv, StrMapInv

(* Through any history.                                                     *)
LEMMA StoreInvariance == StrMapSpec => []StoreInv
BY StoreInitInv, StoreNextInv, PTL DEF StrMapSpec

(* The memory in use is that of the map and of a call in progress, for maps *)
(* of any capacity, whichever allocations fail: nothing leaks and nothing   *)
(* is freed twice.                                                          *)
THEOREM MemoryIsExact == StrMapSpec => []MemoryExact
<1>1. StoreInv => MemoryExact
  BY DEF StoreInv
<1>. QED  BY <1>1, StoreInvariance, PTL

-----------------------------------------------------------------------------
(* The map that is promised *)

(* What the abstract map associates with every key.                         *)
AssocBar == [k \in Keys |-> ValueOf(k)]

(* What is looked up is the value of the key's pair, whichever is found.    *)
LEMMA LookedUp ==
  StrMapInv =>
    \A k \in Keys :
      /\ Matching(k) = {} => get_pair(k) = 0 /\ ValueOf(k) = Absent
      /\ \A i \in Matching(k) :
           /\ get_pair(k) # 0 /\ ValueOf(k) = buckets[hash[k]][i].value
           /\ ValueOf(k) \in Values /\ ValueOf(k) # Absent
<1>. SUFFICES ASSUME StrMapInv, NEW k \in Keys
     PROVE  /\ Matching(k) = {} => get_pair(k) = 0 /\ ValueOf(k) = Absent
            /\ \A i \in Matching(k) :
                 /\ get_pair(k) # 0 /\ ValueOf(k) = buckets[hash[k]][i].value
                 /\ ValueOf(k) \in Values /\ ValueOf(k) # Absent
  OBVIOUS
<1>1. /\ Matching(k) = {} <=> get_pair(k) = 0
      /\ Matching(k) # {} => get_pair(k) \in Matching(k)
  BY GetPairFinds DEF StrMapInv
<1>2. hash[k] \in Indices /\ buckets[hash[k]] \in Seq(Pairs)
  BY DEF StrMapInv, StrMapTypeOK
<1>3. ASSUME NEW i \in Matching(k)
      PROVE  /\ get_pair(k) # 0 /\ ValueOf(k) = buckets[hash[k]][i].value
             /\ ValueOf(k) \in Values /\ ValueOf(k) # Absent
  <2>1. get_pair(k) # 0 /\ get_pair(k) \in Matching(k)
    BY <1>1, <1>3
  <2>2. get_pair(k) = i
    BY <1>2, <1>3, <2>1 DEF StrMapInv, PairsSound, Matching
  <2>3. buckets[hash[k]][i] \in Pairs
    BY <1>2, <1>3 DEF Matching
  <2>4. buckets[hash[k]][i].value \in Values
    BY <2>3 DEF Pairs
  <2>. QED  BY <2>1, <2>2, <2>4, StrMapAssumption DEF ValueOf
<1>4. Matching(k) = {} => ValueOf(k) = Absent
  BY <1>1 DEF ValueOf
<1>. QED  BY <1>1, <1>3, <1>4

(* The keys that have a pair.                                               *)
Known == {k \in Keys : Matching(k) # {}}

(* ... in a bucket.                                                         *)
KnownIn(h) == {k \in Known : hash[k] = h}

(* A bucket has as many pairs as keys have their pair there.                *)
LEMMA KnownInBucket ==
  ASSUME StrMapInv, NEW h \in Indices
  PROVE  IsFiniteSet(KnownIn(h)) /\ Cardinality(KnownIn(h)) = Len(buckets[h])
<1>. DEFINE b == buckets[h]
            n == Len(b)
            f == [i \in 1 .. n |-> b[i].key]
<1>1. b \in Seq(Pairs) /\ n \in Nat /\ DOMAIN b = 1 .. n
  BY DEF StrMapInv, StrMapTypeOK
<1>2. ASSUME NEW i \in 1 .. n
      PROVE  /\ b[i].key \in KnownIn(h)
             /\ \A j \in 1 .. n : b[j].key = b[i].key => j = i
  <2>1. b[i] \in Pairs /\ hash[b[i].key] = h
    BY <1>1 DEF StrMapInv, PairsSound
  <2>2. b[i].key \in Keys
    BY <2>1 DEF Pairs
  <2>3. i \in Matching(b[i].key)
    BY <1>1, <2>1 DEF Matching
  <2>4. \A j \in 1 .. n : b[j].key = b[i].key => j = i
    BY <1>1 DEF StrMapInv, PairsSound
  <2>. QED  BY <2>1, <2>2, <2>3, <2>4 DEF KnownIn, Known
<1>3. \A k \in KnownIn(h) : \E i \in 1 .. n : b[i].key = k
  BY <1>1 DEF KnownIn, Known, Matching
<1>. HIDE DEF b, n
<1>4. f \in Bijection(1 .. n, KnownIn(h))
  <2>1. /\ f \in [1 .. n -> KnownIn(h)]
        /\ \A i, j \in 1 .. n : f[i] = f[j] => i = j
        /\ \A k \in KnownIn(h) : \E i \in 1 .. n : f[i] = k
    BY <1>2, <1>3
  <2>. HIDE DEF f
  <2>. QED  BY <2>1 DEF Bijection, Injection, Surjection, IsInjective
<1>5. ExistsBijection(1 .. n, KnownIn(h))
  BY <1>4 DEF ExistsBijection
<1>. QED  BY <1>1, <1>5, FS_CountingElements, FS_NatBijection DEF n, b

(* How many keys that have a pair are in the buckets before the n-th.       *)
KnownBefore(n) == {k \in Known : hash[k] < n}

(* One bucket more.                                                         *)
LEMMA KnownOneMore ==
  ASSUME StrMapInv, NEW n \in Indices, IsFiniteSet(KnownBefore(n))
  PROVE  /\ IsFiniteSet(KnownBefore(n + 1))
         /\ Cardinality(KnownBefore(n + 1)) =
              Cardinality(KnownBefore(n)) + Len(buckets[n])
<1>1. \A k \in Known : hash[k] \in Nat
  BY StrMapAssumption DEF StrMapInv, StrMapTypeOK, Indices, Known
<1>2. n \in Nat
  BY StrMapAssumption DEF Indices
<1>3. \A k \in Known : hash[k] < n + 1 <=> hash[k] < n \/ hash[k] = n
  BY <1>1, <1>2
<1>4. \A k \in Known : ~ (hash[k] < n /\ hash[k] = n)
  BY <1>1, <1>2
<1>5. KnownBefore(n + 1) = KnownBefore(n) \cup KnownIn(n)
  BY <1>3, Zenon DEF KnownBefore, KnownIn
<1>6. KnownBefore(n) \cap KnownIn(n) = {}
  BY <1>4, Zenon DEF KnownBefore, KnownIn
<1>7. IsFiniteSet(KnownIn(n)) /\ Cardinality(KnownIn(n)) = Len(buckets[n])
  BY KnownInBucket
<1>8. /\ IsFiniteSet(KnownBefore(n) \cup KnownIn(n))
      /\ Cardinality(KnownBefore(n) \cup KnownIn(n)) =
           Cardinality(KnownBefore(n)) + Cardinality(KnownIn(n))
             - Cardinality(KnownBefore(n) \cap KnownIn(n))
  BY <1>7, FS_Union, Zenon
<1>9. Cardinality(KnownBefore(n) \cap KnownIn(n)) = 0
  BY <1>6, FS_EmptySet, Zenon
<1>10. Cardinality(KnownBefore(n)) \in Nat /\ Cardinality(KnownIn(n)) \in Nat
  BY <1>7, FS_CardinalityType
<1>11. \A x, y \in Nat : x + y - 0 = x + y
  OBVIOUS
<1>. QED  BY ZenonT(30), <1>5, <1>7, <1>8, <1>9, <1>10, <1>11

(* The pairs counted over all buckets are the keys that have one.           *)
LEMMA PairsAreKnown ==
  ASSUME StrMapInv
  PROVE  PairsBefore[Capacity] = Cardinality(Known)
<1>. DEFINE S == {n \in Nat : n <= Capacity =>
                    /\ IsFiniteSet(KnownBefore(n))
                    /\ PairsBefore[n] = Cardinality(KnownBefore(n))}
<1>1. \A k \in Known : hash[k] \in Nat /\ 0 <= hash[k] /\ hash[k] < Capacity
  BY StrMapAssumption DEF StrMapInv, StrMapTypeOK, Indices, Known
<1>2. \A n \in Nat : PairsBefore[n] =
        IF n = 0 THEN 0 ELSE PairsBefore[n - 1] + Lengths[n - 1]
  BY PairsAreSum DEF IsSum
<1>3. 0 \in S
  <2>1. KnownBefore(0) = {}
    BY <1>1 DEF KnownBefore
  <2>2. PairsBefore[0] = 0
    BY <1>2
  <2>3. IsFiniteSet(KnownBefore(0)) /\ Cardinality(KnownBefore(0)) = 0
    BY <2>1, FS_EmptySet, Zenon
  <2>. QED  BY <2>2, <2>3
<1>4. ASSUME NEW n \in Nat, n \in S
      PROVE  n + 1 \in S
  <2>1. CASE n + 1 <= Capacity
    <3>1. n \in Indices /\ n <= Capacity
      BY <2>1, StrMapAssumption DEF Indices
    <3>2. IsFiniteSet(KnownBefore(n)) /\ PairsBefore[n] = Cardinality(KnownBefore(n))
      BY <1>4, <3>1
    <3>3. /\ IsFiniteSet(KnownBefore(n + 1))
          /\ Cardinality(KnownBefore(n + 1)) = Cardinality(KnownBefore(n)) + Len(buckets[n])
      BY <3>1, <3>2, KnownOneMore
    <3>4. PairsBefore[n + 1] = PairsBefore[n] + Lengths[n]
      BY <1>2
    <3>5. Lengths[n] = Len(buckets[n])
      BY DEF Lengths
    <3>. QED  BY <3>2, <3>3, <3>4, <3>5
  <2>. QED  BY <2>1
<1>. HIDE DEF S
<1>5. Capacity \in S
  BY <1>3, <1>4, NatSetInduction, StrMapAssumption
<1>6. PairsBefore[Capacity] = Cardinality(KnownBefore(Capacity))
  BY <1>5, StrMapAssumption DEF S
<1>7. KnownBefore(Capacity) = Known
  BY <1>1, Zenon DEF KnownBefore
<1>. QED  BY <1>6, <1>7

(* The keys the abstract map knows are those that have a pair.              *)
LEMMA KnownPromised ==
  ASSUME StrMapInv
  PROVE  Promised!Known = Known
<1>1. \A k \in Keys : ValueOf(k) # Absent <=> Matching(k) # {}
  BY LookedUp
<1>. QED  BY <1>1 DEF Promised!Known, Known

(* Calls that leave the buckets leave the associations.                     *)
LEMMA AssocKept ==
  ASSUME UNCHANGED <<hash, buckets>>
  PROVE  UNCHANGED AssocBar
BY DEF AssocBar, ValueOf, get_pair, Matching

(* A key has a pair with a value.                                           *)
Has(l, x) == \E i \in DOMAIN buckets[hash[l]] :
               buckets[hash[l]][i].key = l /\ buckets[hash[l]][i].value = x

ValuesAre ==
  \A l \in Keys :
    /\ ValueOf(l) \in Values \cup {Absent}
    /\ \A x \in Values : ValueOf(l) = x <=> Has(l, x)

(* A key is looked up to have a value exactly if it has a pair with it.     *)
LEMMA ValuesFound == StrMapInv => ValuesAre
<1>. SUFFICES ASSUME StrMapInv, NEW l \in Keys
     PROVE  /\ ValueOf(l) \in Values \cup {Absent}
            /\ \A x \in Values : ValueOf(l) = x <=> Has(l, x)
  BY DEF ValuesAre
<1>1. /\ Matching(l) = {} => ValueOf(l) = Absent
      /\ \A i \in Matching(l) : /\ ValueOf(l) = buckets[hash[l]][i].value
                                /\ ValueOf(l) \in Values /\ ValueOf(l) # Absent
  BY LookedUp
<1>2. \A x : Has(l, x) <=> \E i \in Matching(l) : buckets[hash[l]][i].value = x
  BY DEF Has, Matching
<1>3. CASE Matching(l) = {}
  BY <1>1, <1>2, <1>3, StrMapAssumption
<1>4. CASE Matching(l) # {}
  BY <1>1, <1>2, <1>4
<1>. QED  BY <1>3, <1>4

(* A bucket in which the pairs of the keys other than k are as before, and  *)
(* k has v.                                                                 *)
Assigns(k, v, b) ==
  /\ \E i \in DOMAIN b : b[i].key = k /\ b[i].value = v
  /\ \A l \in Keys \ {k} : \A x \in Values :
       (\E i \in DOMAIN b : b[i].key = l /\ b[i].value = x) <=>
       (\E i \in DOMAIN buckets[hash[k]] :
          buckets[hash[k]][i].key = l /\ buckets[hash[k]][i].value = x)

(* Such a bucket makes the abstract map assign v to k.                      *)
LEMMA AssocAssigned ==
  ASSUME StrMapInv, StrMapInv', hash' = hash, NEW k \in Keys, NEW v \in Values,
         NEW b \in Seq(Pairs), buckets' = [buckets EXCEPT ![hash[k]] = b],
         Assigns(k, v, b)
  PROVE  AssocBar' = [AssocBar EXCEPT ![k] = v]
<1>1. /\ \A l \in Keys : hash[l] \in Indices
      /\ buckets \in [Indices -> Seq(Pairs)]
  BY DEF StrMapInv, StrMapTypeOK
<1>2. ValuesAre /\ ValuesAre'
  <2>1. (StrMapInv => ValuesAre)'
    BY ValuesFound, PTL
  <2>. QED  BY <2>1, ValuesFound
<1>3. \A l \in Keys : buckets'[hash'[l]] = IF hash[l] = hash[k] THEN b ELSE buckets[hash[l]]
  BY <1>1
<1>4. Has(k, v)'
  BY <1>3 DEF Has, Assigns
<1>5. \A l \in Keys \ {k} : \A x \in Values : Has(l, x)' <=> Has(l, x)
  BY <1>3 DEF Has, Assigns
<1>6. ValueOf(k)' = v
  BY <1>2, <1>4 DEF ValuesAre
<1>7. ASSUME NEW l \in Keys, l # k
      PROVE  ValueOf(l)' = ValueOf(l)
  <2>1. ValueOf(l)' \in Values \cup {Absent} /\ ValueOf(l) \in Values \cup {Absent}
    BY <1>2 DEF ValuesAre
  <2>2. \A x \in Values : ValueOf(l)' = x <=> ValueOf(l) = x
    BY <1>2, <1>5, <1>7 DEF ValuesAre
  <2>. QED  BY <2>1, <2>2
<1>8. AssocBar' = [l \in Keys |-> ValueOf(l)'] /\ AssocBar = [l \in Keys |-> ValueOf(l)]
  BY DEF AssocBar
<1>. QED  BY <1>6, <1>7, <1>8, Zenon

(* Empty buckets are an empty map.                                          *)
EmptyBuckets == StrMapTypeOK /\ \A h \in Indices : buckets[h] = <<>>

LEMMA EmptyAssoc == EmptyBuckets => AssocBar = Promised!Empty
<1>. SUFFICES ASSUME EmptyBuckets
     PROVE  AssocBar = Promised!Empty
  OBVIOUS
<1>1. \A k \in Keys : Matching(k) = {}
  BY DEF EmptyBuckets, StrMapTypeOK, Matching
<1>2. \A k \in Keys : ValueOf(k) = Absent
  BY <1>1 DEF ValueOf, get_pair
<1>. QED  BY <1>2 DEF AssocBar, Promised!Empty

(* An answer that changes nothing else.                                     *)
LEMMA CallsPromised ==
  ASSUME StrMapInv, UNCHANGED <<hash, map, buckets>>
  PROVE  /\ sm_get_count => Promised!Count
         /\ sm_enum => Promised!Enumerate
         /\ \A k \in Keys : /\ sm_exists(k) => Promised!Exists(k)
                            /\ sm_get_size(k) => Promised!Size(k)
                            /\ \A room \in Rooms : sm_get(k, room) => Promised!Get(k, room)
<1>1. UNCHANGED AssocBar /\ UNCHANGED map
  BY AssocKept
<1>2. Promised!Known = Known /\ PairsBefore[Capacity] = Cardinality(Known)
  BY KnownPromised, PairsAreKnown
<1>3. \A k \in Keys : /\ get_pair(k) = 0 <=> ValueOf(k) = Absent
                      /\ ValueOf(k) # Absent => ValueOf(k) \in Values
  BY LookedUp
<1>10. \A S : Promised!Cardinality(S) = Cardinality(S)
  BY DEF Promised!Cardinality, Cardinality
<1>4. sm_get_count => Promised!Count
  BY <1>1, <1>2, <1>10 DEF sm_get_count, Calling, Returned, Promised!Count, Promised!Answer, AssocBar
<1>5. UNION {{<<buckets[i][j].key, buckets[i][j].value>> : j \in DOMAIN buckets[i]} :
               i \in Indices} = {<<k, ValueOf(k)>> : k \in Known}
  <2>1. ASSUME NEW i \in Indices, NEW j \in DOMAIN buckets[i]
        PROVE  /\ buckets[i][j].key \in Known
               /\ ValueOf(buckets[i][j].key) = buckets[i][j].value
    <3>1. buckets[i] \in Seq(Pairs) /\ buckets[i][j] \in Pairs
      BY <2>1 DEF StrMapInv, StrMapTypeOK
    <3>2. buckets[i][j].key \in Keys /\ hash[buckets[i][j].key] = i
      BY <2>1, <3>1 DEF Pairs, StrMapInv, PairsSound
    <3>3. j \in Matching(buckets[i][j].key)
      BY <2>1, <3>2 DEF Matching
    <3>. QED  BY <3>2, <3>3, LookedUp DEF Known
  <2>2. ASSUME NEW k \in Known
        PROVE  \E i \in Indices : \E j \in DOMAIN buckets[i] :
                 <<k, ValueOf(k)>> = <<buckets[i][j].key, buckets[i][j].value>>
    <3>1. PICK j \in Matching(k) : TRUE
      BY DEF Known
    <3>2. hash[k] \in Indices /\ k \in Keys
      BY DEF StrMapInv, StrMapTypeOK, Known
    <3>3. j \in DOMAIN buckets[hash[k]] /\ buckets[hash[k]][j].key = k
      BY DEF Matching
    <3>. QED  BY <3>1, <3>2, <3>3, LookedUp
  <2>. DEFINE out == UNION {{<<buckets[i][j].key, buckets[i][j].value>> :
                               j \in DOMAIN buckets[i]} : i \in Indices}
  <2>3. ASSUME NEW x \in out
        PROVE  x \in {<<k, ValueOf(k)>> : k \in Known}
    <3>1. PICK i \in Indices :
            x \in {<<buckets[i][j].key, buckets[i][j].value>> : j \in DOMAIN buckets[i]}
      OBVIOUS
    <3>2. PICK j \in DOMAIN buckets[i] : x = <<buckets[i][j].key, buckets[i][j].value>>
      BY <3>1
    <3>. QED  BY <2>1, <3>2
  <2>4. ASSUME NEW x \in {<<k, ValueOf(k)>> : k \in Known}
        PROVE  x \in out
    <3>1. PICK k \in Known : x = <<k, ValueOf(k)>>
      OBVIOUS
    <3>2. PICK i \in Indices : \E j \in DOMAIN buckets[i] :
            x = <<buckets[i][j].key, buckets[i][j].value>>
      BY <2>2, <3>1
    <3>3. x \in {<<buckets[i][j].key, buckets[i][j].value>> : j \in DOMAIN buckets[i]}
      BY <3>2
    <3>. QED  BY <3>3
  <2>. QED  BY <2>3, <2>4, Zenon
<1>6. sm_enum => Promised!Enumerate
  <2>1. {<<k, AssocBar[k]>> : k \in Promised!Known} = {<<k, ValueOf(k)>> : k \in Known}
    BY <1>2 DEF AssocBar, Known
  <2>. QED
    BY <1>1, <1>2, <1>5, <1>10, <2>1
    DEF sm_enum, Calling, Returned, Promised!Enumerate, Promised!Answer, AssocBar
<1>7. ASSUME NEW k \in Keys, sm_exists(k)
      PROVE  Promised!Exists(k)
  BY <1>1, <1>3, <1>7
  DEF sm_exists, Calling, Returned, Promised!Exists, Promised!Answer, AssocBar
<1>8. ASSUME NEW k \in Keys, sm_get_size(k)
      PROVE  Promised!Size(k)
  BY <1>1, <1>8
  DEF sm_get_size, Calling, Returned, Promised!Size, Promised!Answer, AssocBar
<1>9. ASSUME NEW k \in Keys, NEW room \in Rooms, sm_get(k, room)
      PROVE  Promised!Get(k, room)
  <2>1. CASE ValueOf(k) = Absent
    BY <1>1, <1>9, <2>1
    DEF sm_get, Calling, Returned, Promised!Get, Promised!Answer, AssocBar
  <2>2. CASE ValueOf(k) # Absent
    <3>1. Length(ValueOf(k)) \in Nat /\ room \in Nat
      BY <1>3, <2>2, StrMapAssumption
    <3>2. Length(ValueOf(k)) < room <=> ~ Length(ValueOf(k)) >= room
      BY <3>1
    <3>. QED
      BY <1>1, <1>9, <2>2, <3>2
      DEF sm_get, Calling, Returned, Promised!Get, Promised!Answer, AssocBar
  <2>. QED  BY <2>1, <2>2
<1>. QED  BY <1>4, <1>6, <1>7, <1>8, <1>9

(* A replaced value is assigned.                                            *)
LEMMA ReplacePromised ==
  ASSUME StrMapInv, StrMapInv', NEW k \in Keys, NEW v \in Values, PutReplace(k, v)
  PROVE  Promised!Put(k, v)
<1>1. map /\ UNCHANGED <<map, hash>>
  BY DEF PutReplace, Calling
<1>2. CASE answer' = [ret |-> 1, out |-> {}]
  <2>7. PICK i \in Matching(k) : \E b \in Seq(Pairs) : Replaces(k, v, i, b)
    BY <1>2, ReplacedBucket
  <2>1. PICK b \in Seq(Pairs) :
          /\ buckets' = [buckets EXCEPT ![hash[k]] = b]
          /\ Len(b) = Len(buckets[hash[k]])
          /\ b[i].key = k /\ b[i].value = v
          /\ \A j \in DOMAIN b \ {i} : b[j] = buckets[hash[k]][j]
    BY <2>7 DEF Replaces
  <2>2. hash[k] \in Indices /\ buckets[hash[k]] \in Seq(Pairs)
    BY DEF StrMapInv, StrMapTypeOK
  <2>3. DOMAIN b = DOMAIN buckets[hash[k]]
    BY <2>1, <2>2
  <2>4. i \in DOMAIN b /\ buckets[hash[k]][i].key = k
    BY <2>3 DEF Matching
  <2>5. Assigns(k, v, b)
    <3>1. \A l \in Keys \ {k} : \A x \in Values :
            (\E j \in DOMAIN b : b[j].key = l /\ b[j].value = x) <=>
            (\E j \in DOMAIN buckets[hash[k]] :
               buckets[hash[k]][j].key = l /\ buckets[hash[k]][j].value = x)
      BY <2>1, <2>3, <2>4
    <3>2. \E j \in DOMAIN b : b[j].key = k /\ b[j].value = v
      BY <2>1, <2>4
    <3>. QED  BY <3>1, <3>2 DEF Assigns
  <2>6. AssocBar' = [AssocBar EXCEPT ![k] = v]
    BY <1>1, <2>1, <2>5, AssocAssigned
  <2>. QED  BY <1>1, <1>2, <2>6 DEF Promised!Put, Promised!Answer, AssocBar
<1>3. CASE answer' # [ret |-> 1, out |-> {}]
  <2>1. UNCHANGED buckets /\ answer' = [ret |-> 0, out |-> {}]
    BY <1>3 DEF PutReplace, Returned
  <2>2. UNCHANGED AssocBar
    BY <1>1, <2>1, AssocKept
  <2>3. get_pair(k) # 0 /\ Length(buckets[hash[k]][get_pair(k)].value) < Length(v)
    BY <1>3 DEF PutReplace, Grows, Returned
  <2>4. Promised!NeedsMemory(k, v)
    BY <2>3 DEF Promised!NeedsMemory, ValueOf
  <2>. QED  BY <1>1, <2>1, <2>2, <2>4 DEF Promised!Put, Promised!Answer, AssocBar
<1>. QED  BY <1>2, <1>3

(* The new pair is the association of its key.                              *)
LEMMA PairPromised ==
  ASSUME StoreInv, StrMapInv', PutPair
  PROVE  \E k \in Keys : \E v \in Values : Promised!Put(k, v)
<1>. DEFINE k == put.key
            v == put.value
            new == [key |-> k, value |-> v, size |-> Length(v) + 1]
            b == Append(buckets[hash[k]], new)
            n == Len(buckets[hash[k]]) + 1
<1>1. /\ StrMapInv /\ StrMapTypeOK /\ map /\ put.at = "pair" /\ UNCHANGED <<map, hash>>
      /\ answer' = [ret |-> 1, out |-> {}] /\ buckets' = [buckets EXCEPT ![hash[k]] = b]
  BY DEF StoreInv, StrMapInv, PutPair, ClosedEmpty, Idle, Returned
<1>2. k \in Keys /\ v \in Values /\ hash[k] \in Indices /\ buckets[hash[k]] \in Seq(Pairs)
  BY <1>1 DEF StrMapTypeOK, Idle
<1>3. new \in Pairs /\ new.key = k /\ new.value = v
  BY <1>2, StrMapAssumption DEF Pairs
<1>. HIDE DEF new, k, v
<1>4. /\ b \in Seq(Pairs) /\ n \in DOMAIN b /\ b[n] = new
      /\ DOMAIN b = DOMAIN buckets[hash[k]] \cup {n}
      /\ n \notin DOMAIN buckets[hash[k]]
      /\ \A j \in DOMAIN buckets[hash[k]] : b[j] = buckets[hash[k]][j]
  BY <1>2, <1>3
<1>. HIDE DEF b, n
<1>5. \A l \in Keys \ {k} : \A x \in Values :
        (\E j \in DOMAIN b : b[j].key = l /\ b[j].value = x) <=>
        (\E j \in DOMAIN buckets[hash[k]] :
           buckets[hash[k]][j].key = l /\ buckets[hash[k]][j].value = x)
  BY <1>3, <1>4
<1>10. \E j \in DOMAIN b : b[j].key = k /\ b[j].value = v
  BY <1>3, <1>4
<1>6. Assigns(k, v, b)
  BY <1>5, <1>10 DEF Assigns
<1>7. PICK c \in Seq(Pairs), l \in Keys, x \in Values : c = b /\ l = k /\ x = v
  BY <1>2, <1>4
<1>8. AssocBar' = [AssocBar EXCEPT ![l] = x]
  BY <1>1, <1>6, <1>7, AssocAssigned
<1>9. Promised!Put(l, x)
  BY <1>1, <1>8 DEF Promised!Put, Promised!Answer, AssocBar
<1>. QED  BY <1>9

(* A put of a new key that fails at any of its allocations changes nothing. *)
LEMMA FailurePromised ==
  ASSUME map, UNCHANGED <<hash, map, buckets>>, NEW k \in Keys, NEW v \in Values,
         get_pair(k) = 0, answer' = [ret |-> 0, out |-> {}]
  PROVE  Promised!Put(k, v)
<1>1. UNCHANGED AssocBar
  BY AssocKept
<1>2. Promised!NeedsMemory(k, v)
  BY DEF Promised!NeedsMemory, ValueOf
<1>. QED  BY <1>1, <1>2 DEF Promised!Put, Promised!Answer, AssocBar

(* Every step is one of the map that is promised, or changes nothing of it. *)
LEMMA StepPromised ==
  ASSUME StoreInv, [StrMapNext]_strMapVars
  PROVE  [Promised!Next]_(Promised!mapVars)
<1>1. StrMapInv /\ StrMapInv' /\ ClosedEmpty /\ ClosedEmpty' /\ StrMapTypeOK /\ StrMapTypeOK'
  BY StoreNextInv DEF StoreInv, StrMapInv
<1>2. ASSUME UNCHANGED <<hash, map, buckets, answer>>
      PROVE  UNCHANGED Promised!mapVars
  <2>1. UNCHANGED AssocBar
    BY <1>2, AssocKept
  <2>. QED  BY <1>2, <2>1 DEF Promised!mapVars, AssocBar
<1>3. CASE sm_new
  <2>1. ~ map /\ UNCHANGED <<hash, buckets>>
    BY <1>3 DEF sm_new
  <2>2. AssocBar = Promised!Empty
    BY <1>1, <2>1, EmptyAssoc DEF ClosedEmpty, EmptyBuckets
  <2>3. AssocBar' = Promised!Empty
    BY <2>1, <2>2, AssocKept
  <2>4. Promised!New
    BY <1>3, <2>3 DEF sm_new, Returned, Promised!New, Promised!Answer, AssocBar
  <2>. QED  BY <2>4 DEF Promised!Next
<1>4. CASE sm_delete
  <2>1. map /\ map' = FALSE /\ answer' = [ret |-> 0, out |-> {}]
    BY <1>4 DEF sm_delete, Calling, Returned
  <2>2. EmptyBuckets'
    BY <1>1, <2>1 DEF ClosedEmpty, EmptyBuckets
  <2>3. (EmptyBuckets => AssocBar = Promised!Empty)'
    BY EmptyAssoc, PTL
  <2>4. AssocBar' = Promised!Empty
    BY <2>2, <2>3 DEF Promised!Empty
  <2>5. Promised!Delete
    BY <2>1, <2>4 DEF Promised!Delete, Promised!Answer, AssocBar
  <2>. QED  BY <2>5 DEF Promised!Next
<1>5. CASE sm_get_count
  <2>1. Promised!Count
    BY <1>1, <1>5, CallsPromised DEF sm_get_count
  <2>. QED  BY <2>1 DEF Promised!Next
<1>6. CASE sm_enum
  <2>1. Promised!Enumerate
    BY <1>1, <1>6, CallsPromised DEF sm_enum
  <2>. QED  BY <2>1 DEF Promised!Next
<1>7. ASSUME NEW k \in Keys, sm_exists(k)
      PROVE  Promised!Next
  <2>1. Promised!Exists(k)
    BY <1>1, <1>7, CallsPromised DEF sm_exists
  <2>. QED  BY <2>1 DEF Promised!Next
<1>8. ASSUME NEW k \in Keys, sm_get_size(k)
      PROVE  Promised!Next
  <2>1. Promised!Size(k)
    BY <1>1, <1>8, CallsPromised DEF sm_get_size
  <2>. QED  BY <2>1 DEF Promised!Next
<1>9. ASSUME NEW k \in Keys, NEW room \in Rooms, sm_get(k, room)
      PROVE  Promised!Next
  <2>1. Promised!Get(k, room)
    BY <1>1, <1>9, CallsPromised DEF sm_get
  <2>. QED  BY <2>1 DEF Promised!Next
<1>10. ASSUME NEW k \in Keys, NEW v \in Values, PutReplace(k, v)
       PROVE  Promised!Next
  <2>1. Promised!Put(k, v)
    BY <1>1, <1>10, ReplacePromised
  <2>. QED  BY <2>1 DEF Promised!Next
<1>11. ASSUME NEW k \in Keys, NEW v \in Values, PutKey(k, v)
       PROVE  [Promised!Next]_(Promised!mapVars)
  <2>1. map /\ get_pair(k) = 0 /\ UNCHANGED <<hash, map, buckets>>
    BY <1>11 DEF PutKey, Calling
  <2>2. CASE UNCHANGED answer
    BY <1>2, <2>1, <2>2
  <2>3. CASE answer' = [ret |-> 0, out |-> {}]
    <3>1. Promised!Put(k, v)
      BY <2>1, <2>3, FailurePromised
    <3>. QED  BY <3>1 DEF Promised!Next
  <2>. QED  BY <1>11, <2>2, <2>3 DEF PutKey, PutFails, Returned
<1>12. CASE PutValue \/ NoPair
  <2>1. put # Idle /\ UNCHANGED <<hash, map, buckets>>
    BY <1>12 DEF PutValue, NoPair, Idle
  <2>2. map /\ put.key \in Keys /\ put.value \in Values
    BY <1>1, <2>1 DEF ClosedEmpty, StrMapTypeOK
  <2>5. get_pair(put.key) = 0
    BY <1>1, <2>1, <2>2, GetPairFinds DEF StrMapInv, KeyIsNew
  <2>3. CASE UNCHANGED answer
    BY <1>2, <2>1, <2>3
  <2>4. CASE answer' = [ret |-> 0, out |-> {}]
    <3>1. Promised!Put(put.key, put.value)
      BY <2>1, <2>2, <2>4, <2>5, FailurePromised
    <3>. QED  BY <2>2, <3>1 DEF Promised!Next
  <2>. QED  BY <1>12, <2>3, <2>4 DEF PutValue, NoPair, PutFails, Returned
<1>13. CASE PutPair
  <2>1. \E k \in Keys : \E v \in Values : Promised!Put(k, v)
    BY <1>1, <1>13, PairPromised
  <2>. QED  BY <2>1 DEF Promised!Next
<1>14. CASE UNCHANGED strMapVars
  BY <1>2, <1>14 DEF strMapVars
<1>. QED
  BY <1>3, <1>4, <1>5, <1>6, <1>7, <1>8, <1>9, <1>10, <1>11, <1>12, <1>13, <1>14
  DEF StrMapNext

(* Before the first call there is no map.                                   *)
LEMMA InitPromised ==
  ASSUME StrMapInit
  PROVE  Promised!Init
<1>1. StrMapTypeOK /\ \A h \in Indices : buckets[h] = <<>>
  BY StoreInitInv DEF StoreInv, StrMapInv, StrMapInit
<1>2. AssocBar = Promised!Empty
  BY <1>1, EmptyAssoc DEF EmptyBuckets
<1>. QED  BY <1>2 DEF StrMapInit, Promised!Init, AssocBar

(* strmap.c is the map of strmap.h, for any hash function, capacity, keys,  *)
(* values and sizes of buffers: whatever keys collide and whatever          *)
(* allocations fail, every call answers as the map it promises would.       *)
THEOREM IsTheStringMap == StrMapSpec => IsStringMap
<1>1. StrMapInit => Promised!Init
  BY InitPromised
<1>2. StoreInv /\ [StrMapNext]_strMapVars => [Promised!Next]_(Promised!mapVars)
  BY StepPromised
<1>. QED  BY <1>1, <1>2, StoreInvariance, PTL DEF StrMapSpec, IsStringMap, Promised!Spec

-----------------------------------------------------------------------------
(* searchList *)

(* Min is the least number of a set that has one.                           *)
LEMMA MinIsLeast ==
  ASSUME NEW S \in SUBSET Nat, S # {}
  PROVE  Min(S) \in S /\ \A n \in S : Min(S) <= n
<1>1. \E m \in S : \A n \in S : m <= n
  BY LeastOf
<1>. QED  BY <1>1 DEF Min

(* Remainders of numbers up to twice the divisor.                           *)
LEMMA RemainderOf ==
  ASSUME NEW n \in Nat \ {0}, NEW a \in 0 .. 2 * n
  PROVE  a % n = IF a < n THEN a ELSE IF a < 2 * n THEN a - n ELSE 0
OBVIOUS

(* The item the cursor is at after n - 1 calls of getNextElement.           *)
ItemAfter(l, n) ==
  IF l.next + n - 1 <= Len(l.elems) THEN l.next + n - 1
  ELSE l.next + n - 1 - Len(l.elems)

(* A list with a cursor, of payloads none of which is NULL.                 *)
ListOf(S, l) ==
  l \in [elems : Seq(S), next : Nat] /\ WellFormed(l) /\ ~ isEmpty(l) /\ NULL \notin S

(* The calls go round the list: the first L return every item once, the     *)
(* next one the first item again.                                           *)
LEMMA GoesRound ==
  ASSUME NEW S, NEW l, ListOf(S, l)
  PROVE  /\ Len(l.elems) \in Nat \ {0} /\ l.next \in 1 .. Len(l.elems)
         /\ \A n \in 1 .. Len(l.elems) :
              /\ ItemAfter(l, n) \in 1 .. Len(l.elems)
              /\ NthNext(l, n) = l.elems[ItemAfter(l, n)]
              /\ n # 1 => ItemAfter(l, n) # l.next
         /\ NthNext(l, 1) = l.elems[l.next]
         /\ NthNext(l, Len(l.elems) + 1) = l.elems[l.next]
         /\ \A j \in 1 .. Len(l.elems) :
              \E n \in 1 .. Len(l.elems) : ItemAfter(l, n) = j
<1>1. PICK L, p : L = Len(l.elems) /\ p = l.next
  OBVIOUS
<1>2. L \in Nat \ {0} /\ p \in 1 .. L
  BY <1>1 DEF ListOf, WellFormed, isEmpty
<1>3. \A n \in 1 .. L + 1 : p + n - 2 \in 0 .. 2 * L
  BY <1>2
<1>4. \A n \in 1 .. L :
        /\ ((p + n - 2) % L) + 1 = IF p + n - 1 <= L THEN p + n - 1 ELSE p + n - 1 - L
        /\ (IF p + n - 1 <= L THEN p + n - 1 ELSE p + n - 1 - L) \in 1 .. L
        /\ n # 1 => (IF p + n - 1 <= L THEN p + n - 1 ELSE p + n - 1 - L) # p
  <2>. SUFFICES ASSUME NEW n \in 1 .. L
                PROVE  /\ ((p + n - 2) % L) + 1 = IF p + n - 1 <= L THEN p + n - 1 ELSE p + n - 1 - L
                       /\ (IF p + n - 1 <= L THEN p + n - 1 ELSE p + n - 1 - L) \in 1 .. L
                       /\ n # 1 => (IF p + n - 1 <= L THEN p + n - 1 ELSE p + n - 1 - L) # p
    OBVIOUS
  <2>1. (p + n - 2) % L = IF p + n - 2 < L THEN p + n - 2 ELSE p + n - 2 - L
    <3>. DEFINE a == p + n - 2
    <3>1. a \in 0 .. 2 * L /\ a < 2 * L
      BY <1>2
    <3>. HIDE DEF a
    <3>2. a % L = IF a < L THEN a ELSE a - L
      BY <1>2, <3>1, RemainderOf
    <3>. QED  BY <1>2, <3>2 DEF a
  <2>2. CASE p + n - 1 <= L
    BY <1>2, <2>1, <2>2
  <2>3. CASE ~ (p + n - 1 <= L)
    BY <1>2, <2>1, <2>3
  <2>. QED  BY <2>2, <2>3
<1>5. \A n \in 1 .. L :
        /\ ItemAfter(l, n) \in 1 .. L
        /\ NthNext(l, n) = l.elems[ItemAfter(l, n)]
        /\ n # 1 => ItemAfter(l, n) # p
  BY <1>1, <1>4 DEF ItemAfter, NthNext
<1>6. NthNext(l, 1) = l.elems[p]
  <2>1. ItemAfter(l, 1) = p
    BY <1>1, <1>2 DEF ItemAfter
  <2>. QED  BY <1>2, <1>5, <2>1
<1>7. NthNext(l, L + 1) = l.elems[p]
  <2>1. (p + (L + 1) - 2) % L = p - 1
    <3>. DEFINE a == p + (L + 1) - 2
    <3>1. a \in 0 .. 2 * L /\ a >= L /\ a < 2 * L /\ a - L = p - 1
      BY <1>2
    <3>. HIDE DEF a
    <3>2. a % L = IF a < L THEN a ELSE IF a < 2 * L THEN a - L ELSE 0
      BY <1>2, <3>1, RemainderOf
    <3>3. a \in Nat /\ ~ (a < L)
      BY <1>2, <3>1
    <3>4. a % L = p - 1
      BY <3>1, <3>2, <3>3
    <3>. QED  BY <3>4 DEF a
  <2>2. NthNext(l, L + 1) = l.elems[((p + (L + 1) - 2) % L) + 1]
    BY <1>1 DEF NthNext
  <2>3. (p - 1) + 1 = p
    BY <1>2
  <2>. QED  BY <2>1, <2>2, <2>3
<1>8. ASSUME NEW j \in 1 .. L
      PROVE  \E n \in 1 .. L : ItemAfter(l, n) = j
  <2>1. CASE j >= p
    <3>1. j - p + 1 \in 1 .. L /\ ItemAfter(l, j - p + 1) = j
      BY <1>1, <1>2, <2>1 DEF ItemAfter
    <3>. QED  BY <3>1
  <2>2. CASE j < p
    <3>. DEFINE n == j - p + 1 + L
    <3>1. n \in 1 .. L /\ p + n - 1 = j + L /\ ~ (p + n - 1 <= L) /\ p + n - 1 - L = j
      BY <1>2, <2>2
    <3>. HIDE DEF n
    <3>2. ItemAfter(l, n) = j
      BY <1>1, <3>1 DEF ItemAfter
    <3>. QED  BY <3>1, <3>2
  <2>. QED  BY <1>2, <2>1, <2>2
<1>. QED  BY <1>1, <1>2, <1>5, <1>6, <1>7, <1>8

(* A search sees some of the list, and all of it when the payload it begins *)
(* with is there once.                                                      *)
LEMMA RoundIs ==
  ASSUME NEW S, NEW l, ListOf(S, l)
  PROVE  /\ Round(l) \in 1 .. Len(l.elems)
         /\ StartsUnique(l) => Round(l) = Len(l.elems)
<1>. DEFINE R == {n \in 1 .. Len(l.elems) : NthNext(l, n + 1) = NthNext(l, 1)}
<1>1. PICK L : L = Len(l.elems)
  OBVIOUS
<1>2. /\ L \in Nat \ {0} /\ l.next \in 1 .. L
      /\ NthNext(l, 1) = l.elems[l.next] /\ NthNext(l, L + 1) = l.elems[l.next]
      /\ \A n \in 1 .. L : /\ ItemAfter(l, n) \in 1 .. L
                           /\ NthNext(l, n) = l.elems[ItemAfter(l, n)]
                           /\ n # 1 => ItemAfter(l, n) # l.next
  BY <1>1, GoesRound
<1>3. R \in SUBSET Nat /\ L \in R
  <2>1. NthNext(l, L + 1) = NthNext(l, 1)
    BY <1>2
  <2>2. L \in 1 .. Len(l.elems) /\ 1 .. Len(l.elems) \subseteq Nat
    BY <1>1, <1>2
  <2>. QED  BY <2>1, <2>2
<1>4. Round(l) = Min(R) /\ Min(R) \in R
  <2>. HIDE DEF R
  <2>1. Min(R) \in R
    BY <1>3, MinIsLeast
  <2>. QED  BY <2>1 DEF Round, R
<1>5. ASSUME StartsUnique(l), NEW n \in R, n # L
      PROVE  FALSE
  <2>. n \in 1 .. L /\ NthNext(l, n + 1) = NthNext(l, 1)
    BY <1>1, <1>5
  <2>. HIDE DEF R
  <2>1. n + 1 \in 1 .. L /\ n + 1 # 1
    BY <1>2, <1>5
  <2>2. l.elems[ItemAfter(l, n + 1)] = l.elems[l.next]
    BY <1>2, <2>1
  <2>3. ItemAfter(l, n + 1) \in DOMAIN l.elems
    <3>1. DOMAIN l.elems = 1 .. L
      BY <1>1 DEF ListOf
    <3>. QED  BY <1>2, <2>1, <3>1
  <2>4. ItemAfter(l, n + 1) = l.next
    BY <1>5, <2>2, <2>3 DEF StartsUnique, ListOf
  <2>. QED  BY <1>2, <2>1, <2>4
<1>. QED  BY <1>1, <1>4, <1>5

(* The cursor stays in the list.                                            *)
LEMMA CursorStays ==
  ASSUME NEW S, NEW l, ListOf(S, l), NEW n \in Nat \ {0}
  PROVE  WellFormed(AfterNext(l, n))
<1>1. PICK L, p : L = Len(l.elems) /\ p = l.next
  OBVIOUS
<1>2. L \in Nat \ {0} /\ p \in 1 .. L
  BY <1>1, GoesRound
<1>3. ((p + n - 1) % L) + 1 \in 1 .. L
  BY <1>2
<1>4. AfterNext(l, n) = [l EXCEPT !.next = ((p + n - 1) % L) + 1]
  BY <1>1 DEF AfterNext, ListOf
<1>5. /\ AfterNext(l, n).elems = l.elems
      /\ AfterNext(l, n).next = ((p + n - 1) % L) + 1
  BY <1>4 DEF ListOf
<1>. QED  BY <1>1, <1>3, <1>5 DEF WellFormed, isEmpty, ListOf

(* After n calls it is behind the item that the last of them returned.      *)
LEMMA CursorIsBehind ==
  ASSUME NEW S, NEW l, ListOf(S, l), NEW n \in 1 .. Len(l.elems)
  PROVE  AfterNext(l, n) = Behind(l, ItemAfter(l, n))
<1>1. PICK L, p : L = Len(l.elems) /\ p = l.next
  OBVIOUS
<1>2. L \in Nat \ {0} /\ p \in 1 .. L /\ n \in 1 .. L
  BY <1>1, GoesRound
<1>9. ItemAfter(l, n) = IF p + n - 1 <= L THEN p + n - 1 ELSE p + n - 1 - L
  <2>1. l.next + n - 1 = p + n - 1
    BY <1>1
  <2>. QED  BY <1>1, <1>2, <2>1 DEF ItemAfter
<1>. DEFINE j == ItemAfter(l, n)
            a == p + n - 1
<1>3. j = IF a <= L THEN a ELSE a - L
  BY <1>2, <1>9
<1>4. a \in 0 .. 2 * L /\ a < 2 * L /\ a \in Nat
  BY <1>2
<1>5. AfterNext(l, n) = [l EXCEPT !.next = (a % L) + 1]
  BY <1>1 DEF AfterNext, ListOf
<1>. HIDE DEF a, j
<1>6. a % L = IF a < L THEN a ELSE a - L
  BY <1>2, <1>4, RemainderOf
<1>7. (a % L) + 1 = IF j = L THEN 1 ELSE j + 1
  BY <1>2, <1>3, <1>4, <1>6
<1>8. Behind(l, j) = [l EXCEPT !.next = IF j = L THEN 1 ELSE j + 1]
  BY <1>1 DEF Behind, AfterGetNext, ListOf, isEmpty
<1>. QED  BY <1>5, <1>7, <1>8 DEF j

(* searchList and getRandomElement, for every list and every set of         *)
(* payloads that the test accepts.                                          *)
THEOREM SearchesFind ==
  ASSUME NEW S, NULL \notin S, NEW l \in [elems : Seq(S), next : Nat], WellFormed(l), NEW keys
  PROVE  SearchAgrees(l, keys)
<1>1. CASE isEmpty(l)
  <2>1. Elements(l) = {}
    BY <1>1 DEF Elements, isEmpty
  <2>. QED  BY <1>1, <2>1 DEF SearchAgrees, searchList, AfterSearch, AfterGetNext, RandomElements
<1>2. CASE ~ isEmpty(l)
  <2>1. ListOf(S, l)
    BY <1>2 DEF ListOf
  <2>2. PICK L, p : L = Len(l.elems) /\ p = l.next
    OBVIOUS
  <2>3. /\ \A n \in 1 .. L : /\ ItemAfter(l, n) \in 1 .. L
                             /\ NthNext(l, n) = l.elems[ItemAfter(l, n)]
        /\ \A j \in 1 .. L : \E n \in 1 .. L : ItemAfter(l, n) = j
    <3>1. \A j \in 1 .. Len(l.elems) :
            \E n \in 1 .. Len(l.elems) : ItemAfter(l, n) = j
      BY <2>1, GoesRound
    <3>2. \A n \in 1 .. Len(l.elems) :
            /\ ItemAfter(l, n) \in 1 .. Len(l.elems)
            /\ NthNext(l, n) = l.elems[ItemAfter(l, n)]
      BY <2>1, GoesRound
    <3>. QED  BY ZenonT(30), <2>2, <3>1, <3>2
  <2>4. L \in Nat \ {0} /\ p \in 1 .. L
    BY <2>1, <2>2, GoesRound
  <2>5. Round(l) \in 1 .. L /\ (StartsUnique(l) => Round(l) = L)
    BY <2>1, <2>2, RoundIs
  <2>6. Elements(l) = {l.elems[k] : k \in 1 .. L} /\ Elements(l) \subseteq S
    BY <2>2 DEF Elements
  <2>7. \A n \in 1 .. L : NthNext(l, n) \in Elements(l) /\ NthNext(l, n) # NULL
    BY <2>3, <2>6
  <2>. DEFINE H == Hits(l, keys)
              found == Min(H)
  <2>8. /\ H \in SUBSET Nat /\ H \subseteq 1 .. L /\ \A n \in H : NthNext(l, n) \in keys
    <3>1. 1 .. Round(l) \subseteq 1 .. L /\ 1 .. L \subseteq Nat
      BY <2>4, <2>5
    <3>2. H = {n \in 1 .. Round(l) : NthNext(l, n) \in keys}
      BY DEF Hits
    <3>. HIDE DEF H
    <3>. QED  BY <3>1, <3>2
  <2>9. H # {} => found \in H
    BY <2>8, MinIsLeast
  <2>. HIDE DEF H, found
  <2>10. /\ searchList(l, keys) = IF H = {} THEN NULL ELSE NthNext(l, found)
         /\ AfterSearch(l, keys) = IF H = {} THEN AfterNext(l, Round(l) + 1) ELSE AfterNext(l, found)
    BY <1>2 DEF searchList, AfterSearch, H, found
  <2>11. /\ searchList(l, keys) \in (Elements(l) \cap keys) \cup {NULL}
         /\ searchList(l, keys) = NULL <=> H = {}
    BY <2>7, <2>8, <2>9, <2>10
  <2>12. ASSUME StartsUnique(l)
         PROVE  /\ H = {} <=> Elements(l) \cap keys = {}
                /\ H = {} => AfterSearch(l, keys) = AfterGetNext(l)
    <3>1. H = {n \in 1 .. L : NthNext(l, n) \in keys}
      BY <2>5, <2>12 DEF H, Hits
    <3>2. ASSUME NEW e \in Elements(l) \cap keys
          PROVE  H # {}
      <4>1. PICK j \in 1 .. L : e = l.elems[j]
        BY <2>6, <3>2
      <4>2. PICK n \in 1 .. L : ItemAfter(l, n) = j
        BY <2>3
      <4>3. NthNext(l, n) = e
        BY <2>3, <4>1, <4>2
      <4>. QED  BY <3>1, <4>3
    <3>3. ASSUME H # {}
          PROVE  Elements(l) \cap keys # {}
      BY <2>7, <2>8, <2>9, <3>3
    <3>4. AfterNext(l, L + 1) = AfterGetNext(l)
      <4>1. (p + (L + 1) - 1) % L = IF p = L THEN 0 ELSE p
        <5>. DEFINE a == p + (L + 1) - 1
        <5>1. /\ a \in 0 .. 2 * L /\ ~ (a < L) /\ a - L = p
              /\ a < 2 * L <=> p # L
          BY <2>4
        <5>. HIDE DEF a
        <5>2. a % L = IF a < L THEN a ELSE IF a < 2 * L THEN a - L ELSE 0
          BY <2>4, <5>1, RemainderOf
        <5>. QED  BY <5>1, <5>2 DEF a
      <4>2. (IF p = L THEN 0 ELSE p) + 1 = IF p = L THEN 1 ELSE p + 1
        BY <2>4
      <4>3. AfterNext(l, L + 1) = [l EXCEPT !.next = ((p + (L + 1) - 1) % L) + 1]
        BY <1>2, <2>2 DEF AfterNext
      <4>4. AfterGetNext(l) = [l EXCEPT !.next = IF p = L THEN 1 ELSE p + 1]
        BY <1>2, <2>2 DEF AfterGetNext
      <4>. QED  BY <4>1, <4>2, <4>3, <4>4
    <3>. QED  BY <2>5, <2>10, <2>12, <3>2, <3>3, <3>4
  <2>18. ASSUME searchList(l, keys) # NULL
         PROVE  \E i \in DOMAIN l.elems : /\ l.elems[i] = searchList(l, keys)
                                          /\ AfterSearch(l, keys) = Behind(l, i)
    <3>1. H # {} /\ found \in 1 .. L
      BY <2>8, <2>9, <2>11, <2>18
    <3>2. ItemAfter(l, found) \in 1 .. L /\ NthNext(l, found) = l.elems[ItemAfter(l, found)]
      BY <2>3, <3>1
    <3>3. AfterNext(l, found) = Behind(l, ItemAfter(l, found))
      BY <2>1, <2>2, <3>1, CursorIsBehind
    <3>4. DOMAIN l.elems = 1 .. L
      BY <2>2
    <3>. QED  BY <2>10, <3>1, <3>2, <3>3, <3>4
  <2>13. WellFormed(AfterSearch(l, keys))
    <3>1. Round(l) + 1 \in Nat \ {0}
      BY <2>4, <2>5
    <3>2. 1 .. L \subseteq Nat \ {0}
      BY <2>4
    <3>3. Round(l) + 1 \in Nat \ {0} /\ (H # {} => found \in Nat \ {0})
      BY <2>8, <2>9, <3>1, <3>2
    <3>4. WellFormed(AfterNext(l, Round(l) + 1))
      BY <2>1, <3>3, CursorStays
    <3>5. H # {} => WellFormed(AfterNext(l, found))
      BY <2>1, <3>3, CursorStays
    <3>. QED  BY <2>10, <3>4, <3>5
  <2>14. RandomElements(l) = Elements(l)
    <3>1. \A r \in 0 .. L - 1 : getElementN(l, r) = l.elems[r + 1] /\ r + 1 \in 1 .. L
      BY <2>2, <2>4 DEF getElementN, getListLength
    <3>2. \A k \in 1 .. L : k - 1 \in 0 .. L - 1 /\ (k - 1) + 1 = k
      BY <2>4
    <3>3. RandomElements(l) = {getElementN(l, r) : r \in 0 .. L - 1}
      BY <1>2, <2>2 DEF RandomElements, getListLength
    <3>4. \A k \in 1 .. L : getElementN(l, k - 1) = l.elems[k]
      BY <3>1, <3>2
    <3>. QED  BY <2>6, <3>1, <3>2, <3>3, <3>4
  <2>15. searchList(l, keys) \in (Elements(l) \cap keys) \cup {NULL}
    BY <2>11
  <2>16. StartsUnique(l) =>
           /\ searchList(l, keys) = NULL <=> Elements(l) \cap keys = {}
           /\ searchList(l, keys) = NULL => AfterSearch(l, keys) = AfterGetNext(l)
    BY <2>11, <2>12
  <2>17. RandomElements(l) = IF isEmpty(l) THEN {NULL} ELSE Elements(l)
    BY <1>2, <2>14
  <2>. QED  BY <2>13, <2>15, <2>16, <2>17, <2>18, Zenon DEF SearchAgrees
<1>. QED  BY <1>1, <1>2

(* Every call is made with one of the inputs.                               *)
CallChosen == call = NoCall \/ call \in Inputs

LEMMA SearchChosen ==
  ASSUME CallChosen, call.fn = "search"
  PROVE  /\ call.l \in [elems : Seq(Payloads), next : Nat]
         /\ WellFormed(call.l)
<1>1. call \in Inputs
  BY DEF CallChosen, NoCall
<1>2. /\ call \notin Decimals /\ call \notin Reals /\ call \notin Ints
      /\ call \notin Texts /\ call \notin IntArrays /\ call \notin Copies
      /\ call \notin TwoTexts
  BY DEF Decimals, Reals, Ints, Texts, IntArrays, Copies, TwoTexts
<1>3. call \notin Transmissions
  BY DEF Transmissions
<1>4. call \in Searches
  BY <1>1, <1>2, <1>3 DEF Inputs
<1>5. /\ call.l \in [elems : SeqsUpTo(Payloads, 4), next : 0 .. 4]
      /\ WellFormed(call.l)
  BY <1>4 DEF Searches
<1>6. SeqsUpTo(Payloads, 4) \subseteq Seq(Payloads)
  <2>1. ASSUME NEW k \in 0 .. 4, NEW s \in [1 .. k -> Payloads]
        PROVE  s \in Seq(Payloads)
    BY SeqDef, <2>1
  <2>. QED  BY <2>1 DEF SeqsUpTo
<1>. QED  BY <1>5, <1>6

(* To the string map, a call of a function is nothing: what is proved of it *)
(* holds in the library.                                                    *)
THEOREM LibraryHasStrMap == LibrarySpec => StrMapSpec
<1>1. LibraryInit => StrMapInit
  BY DEF LibraryInit
<1>2. [LibraryNext]_libraryVars => [StrMapNext]_strMapVars
  BY DEF LibraryNext, CallFunction, ReturnFromFunction, libraryVars
<1>. QED  BY <1>1, <1>2, PTL DEF LibrarySpec, StrMapSpec

(* The search finds what there is to find in every list the run chooses,    *)
(* as it does in all others (SearchesFind).                                 *)
THEOREM SearchFindsAlways == LibrarySpec => []SearchFinds
<1>1. LibraryInit => CallChosen
  BY DEF LibraryInit, CallChosen
<1>2. CallChosen /\ [LibraryNext]_libraryVars => CallChosen'
  BY DEF CallChosen, LibraryNext, CallFunction, ReturnFromFunction, libraryVars
<1>3. CallChosen => SearchFinds
  BY SearchChosen, SearchesFind, LibraryAssumption DEF SearchFinds
<1>. QED  BY <1>1, <1>2, <1>3, PTL DEF LibrarySpec

-----------------------------------------------------------------------------
(* Numbers *)

(* A number that fits is kept, one that does not is not.                    *)
LEMMA WrappedFits ==
  ASSUME NEW n \in Int
  PROVE  Wrapped(n) = n <=> Fits(n)
<1>. DEFINE w == 2 * IntLimit
            m == n + IntLimit
<1>1. IntLimit \in Nat \ {0} /\ w \in Nat \ {0} /\ m \in Int
  BY ConversionsAssumption
<1>. HIDE DEF w, m
<1>2. m % w \in 0 .. w - 1 /\ (m \in 0 .. w - 1 => m % w = m)
  BY <1>1
<1>3. m % w = m <=> m \in 0 .. w - 1
  BY <1>2
<1>4. Wrapped(n) = (m % w) - IntLimit
  BY DEF Wrapped, w, m
<1>5. Wrapped(n) = n <=> m % w = m
  BY <1>1, <1>2, <1>4 DEF m
<1>6. m \in 0 .. w - 1 <=> Fits(n)
  BY <1>1 DEF Fits, w, m
<1>. QED  BY <1>3, <1>5, <1>6

(* The conversions between widths, for every width of int and every int:    *)
(* abs and square are right exactly when the result fits, an int survives   *)
(* the way to an unsigned and back, and a byte keeps 0 to 255.              *)
THEOREM IntsAgree ==
  ASSUME NEW i \in Int, Fits(i)
  PROVE  IntAgrees(i)
<1>1. IntLimit \in Nat \ {0} /\ - IntLimit <= i /\ i < IntLimit
  BY ConversionsAssumption DEF Fits
<1>2. absInt(i) = Magnitude(i) <=> Fits(Magnitude(i))
  BY <1>1, WrappedFits DEF absInt, Magnitude
<1>3. squareInt(i) = i * i <=> Fits(i * i)
  BY WrappedFits DEF squareInt
<1>4. Wrapped(intToUnsigned(i)) = i
  <2>. DEFINE w == 2 * IntLimit
  <2>1. w \in Nat \ {0} /\ w = IntLimit + IntLimit
    BY <1>1
  <2>2. intToUnsigned(i) = i % w
    BY DEF intToUnsigned
  <2>3. CASE i >= 0
    <3>1. i \in 0 .. w - 1
      BY <1>1, <2>1, <2>3
    <3>. HIDE DEF w
    <3>2. i % w = i
      BY <2>1, <3>1
    <3>. QED  BY <2>2, <3>2, WrappedFits
  <2>4. CASE i < 0
    <3>. DEFINE a == i + w
    <3>1. a \in 0 .. w - 1 /\ a + IntLimit = w + (i + IntLimit) /\ i + IntLimit \in 0 .. w - 1
      BY <1>1, <2>1, <2>4
    <3>2. (a + IntLimit) % w = i + IntLimit
      <4>. DEFINE b == i + IntLimit
                  c == a + IntLimit
      <4>1. b \in 0 .. w - 1 /\ c = w + b /\ w \in Nat \ {0}
        BY <2>1, <3>1
      <4>. HIDE DEF b, c, w
      <4>2. c \in 0 .. 2 * w /\ c < 2 * w /\ ~ (c < w) /\ c - w = b
        BY <4>1
      <4>3. c % w = b
        BY <4>1, <4>2
      <4>. QED  BY <4>3 DEF b, c
    <3>3. i % w = a
      <4>1. a - w = i /\ w \in Nat \ {0} /\ a \in 0 .. w - 1
        BY <1>1, <2>1, <3>1
      <4>. HIDE DEF a, w
      <4>2. i % w = a
        BY <4>1
      <4>. QED  BY <4>2
    <3>4. Wrapped(a) = (i + IntLimit) - IntLimit
      BY <3>2 DEF Wrapped
    <3>. QED  BY <1>1, <2>2, <3>3, <3>4
  <2>. QED  BY <2>3, <2>4
<1>5. intToByte(i) = i <=> i \in 0 .. 255
  BY DEF intToByte
<1>. QED  BY <1>2, <1>3, <1>4, <1>5 DEF IntAgrees

(* A number is its quotient times the divisor, and its remainder.           *)
LEMMA Division ==
  ASSUME NEW n \in Nat \ {0}, NEW a \in Nat
  PROVE  /\ a \div n \in Int /\ a % n \in 0 .. n - 1
         /\ a = n * (a \div n) + (a % n)
OBVIOUS

(* Truncation cuts towards zero, by less than one.                          *)
LEMMA TruncatedIs ==
  ASSUME NEW r \in Int
  PROVE  /\ Truncated(r) \in Int
         /\ r >= 0 => /\ Truncated(r) >= 0
                      /\ r - Truncated(r) * Unit \in 0 .. Unit - 1
         /\ r < 0 => /\ Truncated(r) <= 0
                     /\ Truncated(r) * Unit - r \in 0 .. Unit - 1
<1>1. Unit \in Nat \ {0}
  BY ConversionsAssumption
<1>2. ASSUME NEW a \in Nat
      PROVE  /\ a \div Unit \in Nat
             /\ a - (a \div Unit) * Unit \in 0 .. Unit - 1
  <2>1. /\ a \div Unit \in Int /\ a % Unit \in 0 .. Unit - 1
        /\ a = Unit * (a \div Unit) + (a % Unit)
    BY <1>1, Division
  <2>2. PICK q, m : q = a \div Unit /\ m = a % Unit
    OBVIOUS
  <2>3. q \in Int /\ m \in 0 .. Unit - 1 /\ a = Unit * q + m
    BY <2>1, <2>2
  <2>4. q >= 0
    <3>1. q <= -1 => Unit * q <= - Unit
      BY <1>1, <2>3
    <3>. QED  BY <1>1, <2>3, <3>1
  <2>5. Unit * q = q * Unit /\ q * Unit \in Int
    BY <1>1, <2>3
  <2>6. a - q * Unit = m
    BY <1>1, <2>3, <2>5
  <2>. QED  BY <2>2, <2>3, <2>4, <2>6
<1>3. CASE r >= 0
  <2>1. r \in Nat /\ Truncated(r) = r \div Unit
    BY <1>3 DEF Truncated
  <2>2. /\ r \div Unit \in Nat
        /\ r - (r \div Unit) * Unit \in 0 .. Unit - 1
    BY <1>2, <2>1
  <2>. QED  BY <1>3, <2>1, <2>2
<1>4. CASE r < 0
  <2>1. - r \in Nat /\ Truncated(r) = - ((- r) \div Unit)
    BY <1>4 DEF Truncated
  <2>2. PICK q : q = (- r) \div Unit
    OBVIOUS
  <2>3. q \in Nat /\ (- r) - q * Unit \in 0 .. Unit - 1
    BY <1>2, <2>1, <2>2
  <2>4. (- q) * Unit = - (q * Unit) /\ q * Unit \in Int
    BY <1>1, <2>3
  <2>5. Truncated(r) = - q
    BY <2>1, <2>2
  <2>6. (- q) * Unit - r = (- r) - q * Unit
    BY <2>3, <2>4
  <2>. QED  BY <1>4, <2>3, <2>5, <2>6
<1>. QED  BY <1>3, <1>4

(* Rounding and printing reals, in any units of which 100 divide 1.0: a     *)
(* real that is not negative is rounded to a nearest int, a negative one is *)
(* cut; it is printed to less than 0.01, and print_tc prints the same but   *)
(* for the sign of those between -1 and 0.                                  *)
THEOREM RealsAgree ==
  ASSUME NEW k \in Nat \ {0}, Unit = 100 * k, NEW r \in Int
  PROVE  RealAgrees(r)
<1>. DEFINE whole == Truncated(r)
            rest == Magnitude(r - whole * Unit)
            h == (rest * 100) \div Unit
<1>1. /\ Unit \in Nat \ {0} /\ whole \in Int /\ whole * Unit \in Int
      /\ r >= 0 => whole >= 0 /\ r - whole * Unit \in 0 .. Unit - 1
      /\ r < 0 => whole <= 0 /\ whole * Unit - r \in 0 .. Unit - 1
  BY TruncatedIs, ConversionsAssumption
<1>2. /\ rest \in 0 .. Unit - 1
      /\ r >= 0 => r = whole * Unit + rest
      /\ r < 0 => r = whole * Unit - rest
  BY <1>1 DEF Magnitude
<1>. HIDE DEF whole, rest
<1>3. h \in Nat /\ h * k \in Int /\ rest - h * k \in 0 .. k - 1 /\ (h = 0 <=> h * k = 0)
  <2>1. h = rest \div k
    <3>1. PICK a \in Nat : a = rest * 100
      BY <1>1, <1>2
    <3>2. PICK m : m = a % Unit
      OBVIOUS
    <3>3. m \in 0 .. Unit - 1 /\ rest * 100 = Unit * h + m /\ h \in Int
      <4>1. a \div Unit = h
        BY <3>1
      <4>2. Unit \in Nat \ {0}
        BY <1>1
      <4>. HIDE DEF h
      <4>3. /\ a \div Unit \in Int /\ a % Unit \in 0 .. Unit - 1
            /\ a = Unit * (a \div Unit) + (a % Unit)
        BY ZenonT(60), <4>2, Division
      <4>4. m \in 0 .. Unit - 1 /\ a = Unit * h + m /\ h \in Int
        BY <3>2, <4>1, <4>3
      <4>. QED  BY <3>1, <4>4
    <3>. HIDE DEF h
    <3>4. Unit * h = 100 * (k * h) /\ k * h \in Int
      BY <3>3
    <3>5. rest \in Int /\ m \in Int
      BY <1>1, <1>2, <3>3
    <3>6. rest - k * h \in 0 .. k - 1
      BY <1>1, <3>3, <3>4, <3>5
    <3>. QED  BY <3>3, <3>5, <3>6
  <2>. HIDE DEF h
  <2>2. rest \in Nat
    BY <1>1, <1>2
  <2>3. h \in Int /\ rest % k \in 0 .. k - 1 /\ rest = k * h + (rest % k)
    BY <2>1, <2>2, Division
  <2>4. h >= 0
    <3>1. h <= -1 => k * h <= - k
      BY <2>3
    <3>. QED  BY <2>2, <2>3, <3>1
  <2>5. h * k = k * h /\ k * h \in Int
    BY <2>3
  <2>6. h = 0 <=> h * k = 0
    BY <2>3, <2>5
  <2>. QED  BY <2>2, <2>3, <2>4, <2>5, <2>6
<1>. HIDE DEF h
<1>4. (h * Unit) \div 100 = h * k
  <2>1. h * Unit = 100 * (h * k) /\ h * k \in Int
    BY <1>3
  <2>. QED  BY <2>1
<1>. DEFINE q == h * k
<1>5. q \in Int /\ rest - q \in 0 .. k - 1 /\ q >= 0
  <2>1. q >= 0
    BY <1>3
  <2>. QED  BY <1>3, <2>1
<1>. HIDE DEF q
<1>6. printReal(r) = [minus |-> r < 0, whole |-> Magnitude(whole), hundredths |-> h]
  <2>1. (LostSign(r) \/ whole < 0) <=> r < 0
    BY <1>1 DEF LostSign, whole
  <2>. QED  BY <2>1 DEF printReal, Printed, whole, rest, h
<1>8. Read(printReal(r)) = Sign(r < 0) * (Magnitude(whole) * Unit + q)
  BY <1>4, <1>6 DEF Read, q
<1>10. /\ r >= 0 => Read(printReal(r)) = whole * Unit + q
       /\ r < 0 => Read(printReal(r)) = whole * Unit - q
  <2>1. (- whole) * Unit = - (whole * Unit)
    BY <1>1
  <2>2. CASE r >= 0
    BY <1>1, <1>5, <1>8, <2>2 DEF Sign, Magnitude
  <2>3. CASE r < 0
    <3>1. Magnitude(whole) * Unit = - (whole * Unit)
      BY <1>1, <2>1, <2>3 DEF Magnitude
    <3>. QED  BY <1>1, <1>5, <1>8, <2>3, <3>1 DEF Sign
  <2>. QED  BY <2>2, <2>3
<1>12. r >= 0 => Magnitude(2 * (realToInt(r) * Unit - r)) <= Unit
  <2>. SUFFICES ASSUME r >= 0
                PROVE  Magnitude(2 * (realToInt(r) * Unit - r)) <= Unit
    OBVIOUS
  <2>1. realToInt(r) = IF 2 * rest > Unit THEN whole + 1 ELSE whole
    <3>1. r - whole * Unit = rest
      BY <1>1, <1>2
    <3>. QED  BY <3>1 DEF realToInt, whole
  <2>2. (whole + 1) * Unit = whole * Unit + Unit
    BY <1>1
  <2>3. CASE 2 * rest > Unit
    <3>1. realToInt(r) * Unit - r = Unit - rest
      BY <1>1, <1>2, <2>1, <2>2, <2>3
    <3>. QED  BY <1>1, <1>2, <2>3, <3>1 DEF Magnitude
  <2>4. CASE ~ (2 * rest > Unit)
    <3>1. realToInt(r) * Unit - r = - rest
      BY <1>1, <1>2, <2>1, <2>4
    <3>. QED  BY <1>1, <1>2, <2>4, <3>1 DEF Magnitude
  <2>. QED  BY <2>3, <2>4
<1>13. r < 0 => realToInt(r) = Truncated(r)
  <2>1. r < 0 => ~ (2 * (r - whole * Unit) > Unit)
    BY <1>1, <1>2
  <2>. QED  BY <2>1 DEF realToInt, whole
<1>14. Magnitude(Read(printReal(r)) - r) * 100 < Unit
  <2>1. Read(printReal(r)) - r \in {q - rest, rest - q}
    BY <1>1, <1>2, <1>5, <1>10
  <2>2. Magnitude(Read(printReal(r)) - r) = rest - q
    BY <1>1, <1>2, <1>5, <2>1 DEF Magnitude
  <2>. QED  BY <1>1, <1>2, <1>5, <2>2
<1>15. ~ LostSign(r) => printTCReal(r) = printReal(r)
  BY DEF printTCReal, printReal, Printed
<1>. QED  BY <1>12, <1>13, <1>14, <1>15 DEF RealAgrees

-----------------------------------------------------------------------------
(* Texts *)

(* Comparing texts, for all texts: a character is any number but 0.         *)
THEOREM AllTextsAgree ==
  ASSUME NEW s \in Seq(Nat \ {0}), NEW t \in Seq(Nat \ {0})
  PROVE  TextsAgree(s, t)
<1>. DEFINE m == Len(s)
            n == Len(t)
            M == MismatchAt(s, t)
<1>1. m \in Nat /\ n \in Nat /\ DOMAIN s = 1 .. m /\ DOMAIN t = 1 .. n
  OBVIOUS
<1>2. \A i \in 1 .. m : s[i] \in Nat \ {0}
  OBVIOUS
<1>3. \A i \in 1 .. n : t[i] \in Nat \ {0}
  OBVIOUS
<1>4. byteArrayEqual(s, t) <=> s = t
  <2>1. byteArrayEqual(s, t) => s = t
    <3>. SUFFICES ASSUME byteArrayEqual(s, t)
                  PROVE  s = t
      OBVIOUS
    <3>1. m = n /\ \A i \in 1 .. m : s[i] = t[i]
      BY <1>1 DEF byteArrayEqual
    <3>. QED  BY <3>1, SeqEqual
  <2>. QED  BY <2>1 DEF byteArrayEqual
<1>5. M = {i \in 1 .. n : i > m + 1 \/ (IF i = m + 1 THEN 0 ELSE s[i]) # t[i]}
  BY <1>1 DEF MismatchAt, CharAt
<1>. HIDE DEF M
<1>6. stringStartsWith(s, t) <=> IsPrefix(t, s)
  <2>1. ASSUME M = {}
        PROVE  n <= m /\ \A i \in 1 .. n : s[i] = t[i]
    <3>1. n <= m
      <4>. SUFFICES ASSUME n > m
                    PROVE  FALSE
        BY <1>1
      <4>1. m + 1 \in 1 .. n
        BY <1>1
      <4>2. m + 1 \in M
        BY <1>3, <1>5, <4>1
      <4>. QED  BY <2>1, <4>2
    <3>. QED  BY <1>1, <1>5, <2>1, <3>1
  <2>2. ASSUME n <= m, \A i \in 1 .. n : s[i] = t[i]
        PROVE  M = {}
    BY <1>1, <1>5, <2>2
  <2>3. IsPrefix(t, s) <=> n <= m /\ \A i \in 1 .. n : s[i] = t[i]
    <3>1. SubSeq(t, 1, n) = t
      OBVIOUS
    <3>2. ASSUME n <= m
          PROVE  SubSeq(s, 1, n) \in Seq(Nat \ {0}) /\ Len(SubSeq(s, 1, n)) = n
                 /\ \A i \in 1 .. n : SubSeq(s, 1, n)[i] = s[i]
      BY <1>1, <3>2, SubSeqProperties
    <3>3. ASSUME n <= m, \A i \in 1 .. n : s[i] = t[i]
          PROVE  SubSeq(s, 1, n) = t
      BY <1>1, <3>2, <3>3, SeqEqual
    <3>. QED  BY <3>1, <3>2, <3>3 DEF IsPrefix
  <2>. QED  BY <2>1, <2>2, <2>3 DEF stringStartsWith, M
<1>7. CharsRead(s, t) <= m + 1
  <2>1. CASE M = {}
    <3>1. n <= m + 1
      <4>. SUFFICES ASSUME n > m + 1
                    PROVE  FALSE
        BY <1>1
      <4>1. n \in 1 .. n /\ n > m + 1
        BY <1>1
      <4>2. n \in M
        BY <1>5, <4>1
      <4>. QED  BY <2>1, <4>2
    <3>. QED  BY <2>1, <3>1 DEF CharsRead, M
  <2>2. CASE M # {}
    <3>1. M \in SUBSET Nat
      BY <1>5
    <3>2. PICK x \in M : x = Min(M) /\ \A i \in M : x <= i
      BY <2>2, <3>1, MinIsLeast
    <3>3. x \in 1 .. n
      BY <1>5
    <3>4. m + 1 \in 1 .. n => m + 1 \in M
      BY <1>1, <1>3, <1>5
    <3>5. x <= m + 1
      <4>1. CASE m + 1 \in M
        BY <3>2, <4>1
      <4>2. CASE m + 1 \notin M
        BY <1>1, <3>3, <3>4, <4>2
      <4>. QED  BY <4>1, <4>2
    <3>. QED  BY <2>2, <3>2, <3>5 DEF CharsRead, M
  <2>. QED  BY <2>1, <2>2
<1>8. Len(stringcat(s, t).text) + 1 = stringcat(s, t).room
  <2>1. Len(s \o t) = m + n
    OBVIOUS
  <2>. QED  BY <2>1 DEF stringcat
<1>. QED  BY <1>4, <1>6, <1>7, <1>8 DEF TextsAgree

-----------------------------------------------------------------------------
(* Frames *)

Byte == SUBSET (0 .. 7)
Register == SUBSET (0 .. 15)

(* The bits of a register that is shifted.                                  *)
LEMMA ShiftedBits ==
  ASSUME NEW c \in Register
  PROVE  /\ Shifted(c) \in Register
         /\ 0 \in Shifted(c) <=> 15 \in c
         /\ \A x \in 0 .. 14 :
              x + 1 \in Shifted(c) <=> (x \in c <=> ~ (15 \in c /\ x + 1 \in {5, 12}))
<1>. DEFINE moved == {e + 1 : e \in c \ {15}}
<1>1. \A e \in c \ {15} : e \in 0 .. 14
  BY DEF Register
<1>2. moved \subseteq 1 .. 15 /\ 0 \notin moved
  BY <1>1
<1>3. \A x \in 0 .. 14 : x + 1 \in moved <=> x \in c
  BY <1>1
<1>4. Shifted(c) = IF 15 \in c THEN SymDiff(moved, {0, 5, 12}) ELSE moved
  BY DEF Shifted
<1>. HIDE DEF moved
<1>5. CASE 15 \in c
  <2>1. \A x : x \in Shifted(c) <=> (x \in moved <=> ~ (x \in {0, 5, 12}))
    BY <1>4, <1>5 DEF SymDiff
  <2>2. Shifted(c) \subseteq 0 .. 15
    <3>1. moved \subseteq 0 .. 15 /\ {0, 5, 12} \subseteq 0 .. 15
      BY <1>2
    <3>. QED  BY <2>1, <3>1, Zenon
  <2>. QED  BY <1>2, <1>3, <1>5, <2>1, <2>2 DEF Register
<1>6. CASE 15 \notin c
  BY <1>2, <1>3, <1>4, <1>6 DEF Register
<1>. QED  BY <1>5, <1>6

(* Two registers that are shifted stay different.                           *)
LEMMA ShiftedDiffer ==
  ASSUME NEW c \in Register, NEW d \in Register, c # d
  PROVE  Shifted(c) # Shifted(d)
<1>. SUFFICES ASSUME Shifted(c) = Shifted(d)
              PROVE  c = d
  OBVIOUS
<1>1. 15 \in c <=> 15 \in d
  BY ShiftedBits
<1>2. \A x \in 0 .. 14 : x \in c <=> x \in d
  BY <1>1, ShiftedBits
<1>3. \A x \in 0 .. 15 : x \in c <=> x \in d
  BY <1>1, <1>2
<1>. QED  BY <1>3 DEF Register

LEMMA TwiceDiffer ==
  ASSUME NEW c \in Register
  PROVE  /\ Shifted(Shifted(c)) \in Register
         /\ \A d \in Register : c # d => Shifted(Shifted(c)) # Shifted(Shifted(d))
BY ShiftedBits, ShiftedDiffer

LEMMA FourTimesDiffer ==
  ASSUME NEW c \in Register
  PROVE  /\ Shifted(Shifted(Shifted(Shifted(c)))) \in Register
         /\ \A d \in Register :
              c # d => Shifted(Shifted(Shifted(Shifted(c)))) # Shifted(Shifted(Shifted(Shifted(d))))
<1>. DEFINE twice(r) == Shifted(Shifted(r))
<1>1. \A r \in Register : /\ twice(r) \in Register
                          /\ \A q \in Register : r # q => twice(r) # twice(q)
  BY TwiceDiffer
<1>. HIDE DEF twice
<1>2. twice(twice(c)) \in Register /\ \A d \in Register : c # d => twice(twice(c)) # twice(twice(d))
  BY <1>1
<1>. QED  BY <1>2 DEF twice

LEMMA EightTimesDiffer ==
  ASSUME NEW c \in Register
  PROVE  /\ EightTimesShifted(c) \in Register
         /\ \A d \in Register : c # d => EightTimesShifted(c) # EightTimesShifted(d)
<1>. DEFINE four(r) == Shifted(Shifted(Shifted(Shifted(r))))
<1>1. \A r \in Register : /\ four(r) \in Register
                          /\ \A q \in Register : r # q => four(r) # four(q)
  BY FourTimesDiffer
<1>2. \A r : EightTimesShifted(r) = four(four(r))
  BY DEF EightTimesShifted
<1>. HIDE DEF four
<1>. QED  BY <1>1, <1>2

(* A byte more keeps registers different, and different bytes make equal    *)
(* registers differ.                                                        *)
LEMMA CrcByteDiffers ==
  ASSUME NEW c \in Register, NEW d \in Register, NEW a \in Byte, NEW b \in Byte
  PROVE  /\ crcByte(c, a) \in Register
         /\ c # d => crcByte(c, a) # crcByte(d, a)
         /\ a # b => crcByte(c, a) # crcByte(c, b)
<1>. DEFINE up(byte) == {e + 8 : e \in byte}
            mixed(r, byte) == SymDiff(r, up(byte))
<1>1. \A byte \in Byte : /\ up(byte) \in Register
                         /\ \A e \in 0 .. 7 : e + 8 \in up(byte) <=> e \in byte
  BY DEF Byte, Register
<1>2. a # b => up(a) # up(b)
  <2>. SUFFICES ASSUME up(a) = up(b)
                PROVE  a = b
    OBVIOUS
  <2>1. \A e \in 0 .. 7 : e \in a <=> e \in b
    BY <1>1
  <2>. QED  BY <2>1 DEF Byte
<1>3. \A r, byte : crcByte(r, byte) = EightTimesShifted(mixed(r, byte))
  BY DEF crcByte
<1>. HIDE DEF up
<1>4. \A r, byte : \A x : x \in mixed(r, byte) <=> ~ (x \in r <=> x \in up(byte))
  BY DEF SymDiff
<1>5. \A r \in Register : \A byte \in Byte : mixed(r, byte) \in Register
  BY <1>1 DEF SymDiff, Register
<1>. HIDE DEF mixed
<1>6. c # d => mixed(c, a) # mixed(d, a)
  <2>. SUFFICES ASSUME mixed(c, a) = mixed(d, a)
                PROVE  c = d
    OBVIOUS
  <2>1. \A x : x \in c <=> x \in d
    BY <1>4
  <2>. QED  BY <2>1
<1>7. up(a) # up(b) => mixed(c, a) # mixed(c, b)
  <2>. SUFFICES ASSUME mixed(c, a) = mixed(c, b)
                PROVE  up(a) = up(b)
    OBVIOUS
  <2>1. \A x : x \in up(a) <=> x \in up(b)
    BY <1>4
  <2>. QED  BY <2>1
<1>. QED  BY <1>2, <1>3, <1>5, <1>6, <1>7, EightTimesDiffer

(* f has the register after each of the first n bytes.                      *)
RegisterUpTo(n, f, bytes) ==
  f = [i \in 0 .. n |-> IF i = 0 THEN {} ELSE crcByte(f[i - 1], bytes[i])]

LEMMA RegisterExists ==
  ASSUME NEW bytes
  PROVE  \A n \in Nat : \E f : RegisterUpTo(n, f, bytes)
<1>. DEFINE S == {n \in Nat : \E f : RegisterUpTo(n, f, bytes)}
<1>1. 0 \in S
  <2>1. RegisterUpTo(0, [i \in 0 .. 0 |-> {}], bytes)
    BY DEF RegisterUpTo
  <2>. QED  BY <2>1
<1>2. ASSUME NEW n \in Nat, n \in S
      PROVE  n + 1 \in S
  <2>1. PICK f : RegisterUpTo(n, f, bytes)
    BY <1>2
  <2>. DEFINE g == [i \in 0 .. n + 1 |->
                      IF i = n + 1 THEN crcByte(f[n], bytes[n + 1]) ELSE f[i]]
  <2>2. \A i \in 0 .. n : f[i] = IF i = 0 THEN {} ELSE crcByte(f[i - 1], bytes[i])
    BY <2>1 DEF RegisterUpTo
  <2>3. \A i \in 0 .. n : g[i] = f[i]
    OBVIOUS
  <2>4. g[n + 1] = crcByte(g[n], bytes[n + 1])
    BY <2>3
  <2>6. g = [i \in 0 .. n + 1 |-> g[i]]
    OBVIOUS
  <2>. HIDE DEF g
  <2>5. \A i \in 0 .. n + 1 : g[i] = IF i = 0 THEN {} ELSE crcByte(g[i - 1], bytes[i])
    <3>. SUFFICES ASSUME NEW i \in 0 .. n + 1
                  PROVE  g[i] = IF i = 0 THEN {} ELSE crcByte(g[i - 1], bytes[i])
      OBVIOUS
    <3>1. CASE i = n + 1
      <4>1. i - 1 = n /\ i # 0
        BY <3>1
      <4>. QED  BY <2>4, <3>1, <4>1
    <3>2. CASE i # n + 1
      <4>1. i \in 0 .. n /\ (i # 0 => i - 1 \in 0 .. n)
        BY <3>2
      <4>. QED  BY <2>2, <2>3, <4>1
    <3>. QED  BY <3>1, <3>2
  <2>7. RegisterUpTo(n + 1, g, bytes)
    BY <2>5, <2>6 DEF RegisterUpTo
  <2>. QED  BY <2>7
<1>. HIDE DEF S
<1>3. \A n \in Nat : n \in S
  BY <1>1, <1>2, NatSetInduction
<1>. QED  BY <1>3 DEF S

(* The checksum is the register after the last byte.                        *)
LEMMA CrcIsRegister ==
  ASSUME NEW bytes \in Seq(Byte)
  PROVE  \E f : RegisterUpTo(Len(bytes), f, bytes) /\ crcOf(bytes) = f[Len(bytes)]
<1>. DEFINE n == Len(bytes)
            after == CHOOSE f : RegisterUpTo(n, f, bytes)
<1>1. RegisterUpTo(n, after, bytes)
  <2>1. n \in Nat
    OBVIOUS
  <2>. HIDE DEF n
  <2>. QED  BY <2>1, RegisterExists
<1>2. crcOf(bytes) = after[n]
  BY DEF crcOf, RegisterUpTo
<1>. HIDE DEF after
<1>. QED  BY <1>1, <1>2

(* ... and a register.                                                      *)
LEMMA ChecksumIsRegister ==
  ASSUME NEW bytes \in Seq(Byte)
  PROVE  crcOf(bytes) \in Register
<1>. DEFINE n == Len(bytes)
<1>1. n \in Nat /\ \A i \in 1 .. n : bytes[i] \in Byte
  OBVIOUS
<1>2. PICK f : RegisterUpTo(n, f, bytes) /\ crcOf(bytes) = f[n]
  BY CrcIsRegister
<1>. HIDE DEF n
<1>3. \A i \in 0 .. n : f[i] = IF i = 0 THEN {} ELSE crcByte(f[i - 1], bytes[i])
  BY <1>2 DEF RegisterUpTo
<1>. DEFINE S == {i \in Nat : i <= n => f[i] \in Register}
<1>4. 0 \in S
  BY <1>1, <1>3 DEF Register
<1>5. ASSUME NEW i \in Nat, i \in S
      PROVE  i + 1 \in S
  <2>. SUFFICES ASSUME i + 1 <= n
                PROVE  f[i + 1] \in Register
    OBVIOUS
  <2>1. f[i] \in Register
    BY <1>1, <1>5
  <2>. HIDE DEF S
  <2>2. f[i + 1] = crcByte(f[i], bytes[i + 1]) /\ bytes[i + 1] \in Byte
    BY <1>1, <1>3
  <2>. QED  BY <2>1, <2>2, CrcByteDiffers
<1>. HIDE DEF S
<1>6. n \in S
  BY <1>1, <1>4, <1>5, NatSetInduction
<1>. QED  BY <1>1, <1>2, <1>6 DEF S

(* Two sequences of bytes that differ in one byte, the k-th.                *)
OneByteOff(s, t, k) ==
  /\ Len(s) = Len(t) /\ k \in 1 .. Len(s) /\ s[k] # t[k]
  /\ \A i \in 1 .. Len(s) : i # k => s[i] = t[i]

(* ... have different checksums.                                            *)
LEMMA ChecksumsDiffer ==
  ASSUME NEW s \in Seq(Byte), NEW t \in Seq(Byte), NEW k, OneByteOff(s, t, k)
  PROVE  crcOf(s) # crcOf(t)
<1>. DEFINE n == Len(s)
<1>1. n \in Nat /\ Len(t) = n /\ k \in 1 .. n /\ s[k] # t[k]
      /\ (\A i \in 1 .. n : i # k => s[i] = t[i])
      /\ \A i \in 1 .. n : s[i] \in Byte /\ t[i] \in Byte
  BY DEF OneByteOff
<1>2. PICK f : RegisterUpTo(n, f, s) /\ crcOf(s) = f[n]
  BY CrcIsRegister
<1>3. PICK g : RegisterUpTo(n, g, t) /\ crcOf(t) = g[n]
  BY <1>1, CrcIsRegister
<1>. HIDE DEF n
<1>4. \A i \in 0 .. n : /\ f[i] = IF i = 0 THEN {} ELSE crcByte(f[i - 1], s[i])
                        /\ g[i] = IF i = 0 THEN {} ELSE crcByte(g[i - 1], t[i])
  BY <1>2, <1>3 DEF RegisterUpTo
<1>. DEFINE S == {i \in Nat : i <= n => /\ f[i] \in Register /\ g[i] \in Register
                                        /\ f[i] = g[i] <=> i < k}
<1>5. 0 \in S
  BY <1>1, <1>4 DEF Register
<1>6. ASSUME NEW i \in Nat, i \in S
      PROVE  i + 1 \in S
  <2>. SUFFICES ASSUME i + 1 <= n
                PROVE  /\ f[i + 1] \in Register /\ g[i + 1] \in Register
                       /\ f[i + 1] = g[i + 1] <=> i + 1 < k
    OBVIOUS
  <2>1. f[i] \in Register /\ g[i] \in Register /\ (f[i] = g[i] <=> i < k)
    BY <1>1, <1>6
  <2>. HIDE DEF S
  <2>2. i + 1 \in 0 .. n /\ i + 1 # 0 /\ (i + 1) - 1 = i /\ i + 1 \in 1 .. n
    OBVIOUS
  <2>3. f[i + 1] = crcByte(f[i], s[i + 1]) /\ g[i + 1] = crcByte(g[i], t[i + 1])
    BY <1>4, <2>2
  <2>4. s[i + 1] \in Byte /\ t[i + 1] \in Byte
    BY <1>1, <2>2
  <2>5. f[i + 1] \in Register /\ g[i + 1] \in Register
    BY <2>1, <2>3, <2>4, CrcByteDiffers
  <2>6. CASE i + 1 < k
    BY <1>1, <2>1, <2>2, <2>3, <2>5, <2>6
  <2>7. CASE i + 1 = k
    <3>1. f[i] = g[i] /\ s[i + 1] # t[i + 1]
      BY <1>1, <2>1, <2>7
    <3>2. f[i + 1] # g[i + 1]
      BY <2>1, <2>3, <2>4, <3>1, CrcByteDiffers
    <3>. QED  BY <1>1, <2>5, <2>7, <3>2
  <2>8. CASE i + 1 > k
    <3>1. f[i] # g[i] /\ s[i + 1] = t[i + 1]
      BY <1>1, <2>1, <2>2, <2>8
    <3>2. f[i + 1] # g[i + 1]
      BY <2>1, <2>3, <2>4, <3>1, CrcByteDiffers
    <3>. QED  BY <1>1, <2>5, <2>8, <3>2
  <2>. QED  BY <1>1, <2>6, <2>7, <2>8
<1>. HIDE DEF S
<1>7. n \in S
  BY <1>1, <1>5, <1>6, NatSetInduction
<1>. QED  BY <1>1, <1>2, <1>3, <1>7 DEF S

(* The two bytes that are sent tell checksums apart.                        *)
LEMMA LowAndHigh ==
  ASSUME NEW c \in Register, NEW d \in Register
  PROVE  /\ Low(c) \in Byte /\ High(c) \in Byte
         /\ Low(c) = Low(d) /\ High(c) = High(d) => c = d
<1>1. Low(c) \in Byte /\ High(c) \in Byte
  BY DEF Low, High, Byte
<1>2. ASSUME Low(c) = Low(d), High(c) = High(d)
      PROVE  c = d
  <2>1. \A x \in 0 .. 7 : x \in c <=> x \in d
    BY <1>2 DEF Low
  <2>2. \A r \in Register : \A x \in 8 .. 15 : x - 8 \in High(r) <=> x \in r
    BY DEF High
  <2>3. \A x \in 8 .. 15 : x \in c <=> x \in d
    BY <1>2, <2>2
  <2>4. \A x \in 0 .. 15 : x \in c <=> x \in d
    BY <2>1, <2>3
  <2>. QED  BY <2>4 DEF Register
<1>. QED  BY <1>1, <1>2

(* Bytes between two flags, as a frame.                                     *)
Framed(bytes) == <<Flag>> \o bytes \o <<Flag>>

LEMMA FramedBytes ==
  ASSUME NEW bytes \in Seq(Byte)
  PROVE  /\ Framed(bytes) \in Seq(Byte) /\ Len(Framed(bytes)) = Len(bytes) + 2
         /\ Framed(bytes)[1] = Flag /\ Framed(bytes)[Len(bytes) + 2] = Flag
         /\ \A i \in 1 .. Len(bytes) : Framed(bytes)[i + 1] = bytes[i]
<1>1. Flag \in Byte
  BY DEF Flag, Byte
<1>. DEFINE before == <<Flag>> \o bytes
            n == Len(bytes)
<1>2. /\ before \in Seq(Byte) /\ Len(before) = n + 1 /\ before[1] = Flag /\ n \in Nat
      /\ \A i \in 1 .. n : before[i + 1] = bytes[i]
  BY <1>1
<1>3. Framed(bytes) = before \o <<Flag>>
  BY DEF Framed
<1>. HIDE DEF before, n
<1>4. /\ Framed(bytes) \in Seq(Byte) /\ Len(Framed(bytes)) = n + 2
      /\ \A i \in 1 .. n + 1 : Framed(bytes)[i] = before[i]
      /\ Framed(bytes)[n + 2] = Flag
  BY <1>1, <1>2, <1>3
<1>. QED  BY <1>2, <1>4 DEF n

(* What is read of a frame is what is between its flags, unless one of that *)
(* is a flag; then it is less.                                              *)
LEMMA BodyOf ==
  ASSUME NEW frame \in Seq(Byte), NEW n \in Nat, Len(frame) = n + 2, frame[n + 2] = Flag
  PROVE  /\ Whole(frame) => /\ Body(frame) \in Seq(Byte) /\ Len(Body(frame)) = n
                            /\ \A i \in 1 .. n : Body(frame)[i] = frame[i + 1]
         /\ ~ Whole(frame) => Len(Body(frame)) < n
<1>. DEFINE F == {i \in 2 .. Len(frame) : frame[i] = Flag}
            m == NextFlag(frame)
<1>1. F \in SUBSET Nat /\ n + 2 \in F
  OBVIOUS
<1>2. m \in F /\ \A i \in F : m <= i
  <2>1. m = Min(F)
    BY DEF NextFlag
  <2>. HIDE DEF F
  <2>. QED  BY <1>1, <2>1, MinIsLeast
<1>3. m \in 2 .. n + 2 /\ frame[m] = Flag
  BY <1>2
<1>4. Body(frame) = SubSeq(frame, 2, m - 1)
  BY DEF Body
<1>5. Whole(frame) <=> m = n + 2
  <2>1. ASSUME Whole(frame)
        PROVE  m = n + 2
    <3>1. m \notin 2 .. Len(frame) - 1
      BY <1>3, <2>1 DEF Whole
    <3>. QED  BY <1>3, <3>1
  <2>2. ASSUME ~ Whole(frame)
        PROVE  m # n + 2
    <3>1. PICK i \in 2 .. Len(frame) - 1 : frame[i] = Flag
      BY <2>2 DEF Whole
    <3>2. i \in F /\ i < n + 2
      BY <3>1
    <3>. QED  BY <1>2, <1>3, <3>2
  <2>. QED  BY <2>1, <2>2
<1>. HIDE DEF F, m
<1>6. /\ Body(frame) \in Seq(Byte) /\ Len(Body(frame)) = m - 2
      /\ \A i \in 1 .. m - 2 : Body(frame)[i] = frame[i + 1]
  <2>1. m - 1 \in 1 .. Len(frame) /\ m - 1 \in Int /\ m >= 2
    BY <1>3
  <2>2. \A i \in 2 .. m - 1 : frame[i] \in Byte
    BY <2>1
  <2>. QED  BY <1>3, <1>4, <2>1, <2>2, SubSeqProperties
<1>. QED  BY <1>3, <1>5, <1>6

(* What is sent of a text is its content and the two bytes of the checksum. *)
LEMMA SentBytes ==
  ASSUME NEW s \in Seq(Byte)
  PROVE  /\ Content(s) \in Seq(Byte) /\ Sent(s) \in Seq(Byte)
         /\ Len(Sent(s)) = Len(Content(s)) + 2
         /\ \A i \in 1 .. Len(Content(s)) : Sent(s)[i] = Content(s)[i]
         /\ Sent(s)[Len(Content(s)) + 1] = Low(crcOf(Content(s)))
         /\ Sent(s)[Len(Content(s)) + 2] = High(crcOf(Content(s)))
<1>. DEFINE content == Content(s)
            crc == crcOf(content)
            low == Low(crc)
            high == High(crc)
<1>1. content \in Seq(Byte)
  <2>1. Nak \in Byte /\ Ff \in Byte /\ Kind \in Byte /\ {} \in Byte /\ {0} \in Byte
    BY DEF Nak, Ff, Kind, Byte
  <2>2. AsByte(Len(s) + 1) \in Byte
    BY DEF AsByte, Byte
  <2>3. header(Len(s) + 1) \in Seq(Byte)
    BY <2>1, <2>2 DEF header
  <2>. QED  BY <2>1, <2>3 DEF Content
<1>2. low \in Byte /\ high \in Byte
  BY DEF Low, High, Byte
<1>3. Sent(s) = content \o <<low, high>>
  BY DEF Sent
<1>. HIDE DEF content, crc, low, high
<1>4. /\ Sent(s) \in Seq(Byte) /\ Len(Sent(s)) = Len(content) + 2
      /\ \A i \in 1 .. Len(content) : Sent(s)[i] = content[i]
      /\ Sent(s)[Len(content) + 1] = low /\ Sent(s)[Len(content) + 2] = high
  BY <1>1, <1>2, <1>3
<1>. QED  BY <1>1, <1>4 DEF content, crc, low, high

(* Of a text none of whose bytes, of its length and of its checksum is a    *)
(* flag, the other end reads what print_tc sent, and accepts it; of any     *)
(* other text it reads less: print_tc escapes nothing (print_tc.c:55, :79). *)
THEOREM FramesRead ==
  ASSUME NEW s \in Seq(Byte)
  PROVE  /\ Whole(print_tc(s)) => /\ Body(print_tc(s)) = Sent(s)
                                  /\ Accepted(Body(print_tc(s)))
         /\ ~ Whole(print_tc(s)) => Len(Body(print_tc(s))) < Len(Sent(s))
<1>. DEFINE sent == Sent(s)
            m == Len(sent)
            frame == print_tc(s)
            n == Len(Content(s))
<1>1. /\ sent \in Seq(Byte) /\ m \in Nat /\ n \in Nat /\ m = n + 2
      /\ Content(s) \in Seq(Byte) /\ \A i \in 1 .. n : sent[i] = Content(s)[i]
      /\ sent[n + 1] = Low(crcOf(Content(s))) /\ sent[n + 2] = High(crcOf(Content(s)))
  BY SentBytes
<1>2. frame = Framed(sent)
  BY DEF print_tc, Framed
<1>. HIDE DEF sent, frame
<1>3. /\ frame \in Seq(Byte) /\ Len(frame) = m + 2 /\ frame[m + 2] = Flag
      /\ \A i \in 1 .. m : frame[i + 1] = sent[i]
  BY <1>1, <1>2, FramedBytes
<1>4. ~ Whole(frame) => Len(Body(frame)) < m
  BY <1>1, <1>3, BodyOf
<1>5. ASSUME Whole(frame)
      PROVE  Body(frame) = sent
  <2>1. /\ Body(frame) \in Seq(Byte) /\ Len(Body(frame)) = m
        /\ \A i \in 1 .. m : Body(frame)[i] = frame[i + 1]
    BY <1>1, <1>3, <1>5, BodyOf
  <2>. QED  BY <1>1, <1>3, <2>1, SeqEqual
<1>6. Accepted(sent)
  <2>1. SubSeq(sent, 1, n) = Content(s)
    <3>1. /\ SubSeq(sent, 1, n) \in Seq(Byte) /\ Len(SubSeq(sent, 1, n)) = n
          /\ \A i \in 1 .. n : SubSeq(sent, 1, n)[i] = sent[i]
      BY <1>1, SubSeqProperties
    <3>. QED  BY <1>1, <3>1, SeqEqual
  <2>2. Len(sent) - 2 = n
    BY <1>1
  <2>. QED  BY <1>1, <2>1, <2>2 DEF Accepted
<1>. QED  BY <1>4, <1>5, <1>6 DEF sent, frame

(* A byte that reaches the other end as another is noticed, wherever in the *)
(* frame it is and whatever it becomes, unless it becomes a flag: the other *)
(* end does not accept the frame.                                           *)
THEOREM ByteErrorsFound ==
  ASSUME NEW s \in Seq(Byte), Whole(print_tc(s)),
         NEW k \in 1 .. Len(Sent(s)), NEW b \in Byte \ {Sent(s)[k], Flag}
  PROVE  ~ Accepted(Body([print_tc(s) EXCEPT ![k + 1] = b]))
<1>. DEFINE sent == Sent(s)
            content == Content(s)
            crc == crcOf(content)
            m == Len(sent)
            n == Len(content)
            frame == print_tc(s)
            broken == [frame EXCEPT ![k + 1] = b]
            read == Body(broken)
<1>1. /\ sent \in Seq(Byte) /\ m \in Nat /\ n \in Nat /\ m = n + 2 /\ k \in 1 .. m
      /\ content \in Seq(Byte) /\ \A i \in 1 .. n : sent[i] = content[i]
      /\ sent[n + 1] = Low(crc) /\ sent[n + 2] = High(crc)
  BY SentBytes
<1>2. frame = Framed(sent)
  BY DEF print_tc, Framed
<1>3. b \in Byte /\ b # Flag /\ b # sent[k] /\ Whole(frame)
  OBVIOUS
<1>. HIDE DEF sent, frame, content, crc, m, n
<1>4. /\ frame \in Seq(Byte) /\ Len(frame) = m + 2 /\ frame[m + 2] = Flag
      /\ \A i \in 1 .. m : frame[i + 1] = sent[i]
  BY <1>1, <1>2, FramedBytes DEF m
<1>5. /\ broken \in Seq(Byte) /\ Len(broken) = m + 2 /\ broken[m + 2] = Flag
      /\ \A i \in 1 .. m : broken[i + 1] = IF i = k THEN b ELSE sent[i]
  <2>1. k + 1 \in 1 .. m + 2 /\ k + 1 # m + 2
    BY <1>1
  <2>. QED  BY <1>1, <1>3, <1>4, <2>1
<1>. HIDE DEF broken
<1>6. Whole(broken)
  <2>. SUFFICES ASSUME NEW j \in 2 .. m + 1
                PROVE  broken[j] # Flag
    BY <1>1, <1>5 DEF Whole
  <2>. DEFINE i == j - 1
  <2>1. i \in 1 .. m /\ i + 1 = j /\ j \in 2 .. Len(frame) - 1
    BY <1>1, <1>4
  <2>. HIDE DEF i
  <2>2. frame[j] # Flag
    BY <1>3, <2>1 DEF Whole
  <2>. QED  BY <1>3, <1>4, <1>5, <2>1, <2>2
<1>7. /\ read \in Seq(Byte) /\ Len(read) = m
      /\ \A i \in 1 .. m : read[i] = IF i = k THEN b ELSE sent[i]
  BY <1>1, <1>5, <1>6, BodyOf
<1>. HIDE DEF read
<1>. DEFINE start == SubSeq(read, 1, n)
<1>8. /\ start \in Seq(Byte) /\ Len(start) = n
      /\ \A i \in 1 .. n : start[i] = IF i = k THEN b ELSE content[i]
  <2>1. /\ start \in Seq(Byte) /\ Len(start) = n
        /\ \A i \in 1 .. n : start[i] = read[i]
    BY <1>1, <1>7, SubSeqProperties
  <2>. QED  BY <1>1, <1>7, <2>1
<1>. HIDE DEF start
<1>9. Accepted(read) <=> read[n + 1] = Low(crcOf(start)) /\ read[n + 2] = High(crcOf(start))
  <2>1. Len(read) - 2 = n
    BY <1>1, <1>7
  <2>. QED  BY <2>1 DEF Accepted, start
<1>10. crc \in Register /\ crcOf(start) \in Register
  BY <1>1, <1>8, ChecksumIsRegister DEF crc
<1>11. CASE k <= n
  <2>1. OneByteOff(content, start, k)
    BY <1>1, <1>3, <1>8, <1>11 DEF OneByteOff, n
  <2>2. crc # crcOf(start)
    BY <1>1, <1>8, <2>1, ChecksumsDiffer DEF crc
  <2>3. read[n + 1] = Low(crc) /\ read[n + 2] = High(crc)
    BY <1>1, <1>7, <1>11
  <2>. QED  BY <1>9, <1>10, <2>2, <2>3, LowAndHigh DEF read, broken, frame
<1>12. CASE k > n
  <2>4. Len(start) = n /\ Len(content) = n /\ \A i \in 1 .. n : start[i] = content[i]
    BY <1>1, <1>8, <1>12 DEF n
  <2>1. start = content
    BY <1>1, <1>8, <2>4, SeqEqual
  <2>2. k = n + 1 \/ k = n + 2
    BY <1>1, <1>12
  <2>3. read[k] = b /\ b # sent[k]
    BY <1>1, <1>3, <1>7
  <2>. QED  BY <1>1, <1>9, <2>1, <2>2, <2>3 DEF crc, read, broken, frame
<1>. QED  BY <1>1, <1>11, <1>12

-----------------------------------------------------------------------------
(* memncpy *)

(* The memory after a byte more is copied. *)
ByteCopied(m, dest, src, i) == [m EXCEPT ![dest + i - 1] = m[src + i - 1]]

(* f has the memory after each of the first n bytes. *)
CopyUpTo(n, f, m, dest, src) ==
  f = [i \in 0 .. n |-> IF i = 0 THEN m ELSE ByteCopied(f[i - 1], dest, src, i)]

LEMMA CopyExists ==
  ASSUME NEW m, NEW dest, NEW src
  PROVE  \A n \in Nat : \E f : CopyUpTo(n, f, m, dest, src)
<1>. DEFINE S == {n \in Nat : \E f : CopyUpTo(n, f, m, dest, src)}
<1>1. 0 \in S
  <2>1. CopyUpTo(0, [i \in 0 .. 0 |-> m], m, dest, src)
    BY DEF CopyUpTo
  <2>. QED  BY <2>1
<1>2. ASSUME NEW n \in Nat, n \in S
      PROVE  n + 1 \in S
  <2>1. PICK f : CopyUpTo(n, f, m, dest, src)
    BY <1>2
  <2>. DEFINE g == [i \in 0 .. n + 1 |->
                      IF i = n + 1 THEN ByteCopied(f[n], dest, src, n + 1) ELSE f[i]]
  <2>2. \A i \in 0 .. n : f[i] = IF i = 0 THEN m ELSE ByteCopied(f[i - 1], dest, src, i)
    BY <2>1 DEF CopyUpTo
  <2>3. \A i \in 0 .. n : g[i] = f[i]
    OBVIOUS
  <2>4. g[n + 1] = ByteCopied(g[n], dest, src, n + 1)
    BY <2>3
  <2>. HIDE DEF g
  <2>5. \A i \in 0 .. n + 1 : g[i] = IF i = 0 THEN m ELSE ByteCopied(g[i - 1], dest, src, i)
    <3>. SUFFICES ASSUME NEW i \in 0 .. n + 1
                  PROVE  g[i] = IF i = 0 THEN m ELSE ByteCopied(g[i - 1], dest, src, i)
      OBVIOUS
    <3>1. CASE i = n + 1
      <4>1. i - 1 = n /\ i # 0
        BY <3>1
      <4>. QED  BY <2>4, <3>1, <4>1
    <3>2. CASE i # n + 1
      <4>1. i \in 0 .. n /\ (i # 0 => i - 1 \in 0 .. n)
        BY <3>2
      <4>. QED  BY <2>2, <2>3, <4>1
    <3>. QED  BY <3>1, <3>2
  <2>6. g = [i \in 0 .. n + 1 |-> g[i]]
    BY DEF g
  <2>7. CopyUpTo(n + 1, g, m, dest, src)
    BY <2>5, <2>6 DEF CopyUpTo
  <2>. QED  BY <2>7
<1>. HIDE DEF S
<1>3. \A n \in Nat : n \in S
  BY <1>1, <1>2, NatSetInduction
<1>. QED  BY <1>3 DEF S

(* A longer copy begins as a shorter one.                                   *)
LEMMA CopiesBeginAlike ==
  ASSUME NEW m, NEW dest, NEW src, NEW n \in Nat, NEW f, NEW g,
         CopyUpTo(n, f, m, dest, src), CopyUpTo(n + 1, g, m, dest, src)
  PROVE  \A i \in 0 .. n : f[i] = g[i]
<1>. DEFINE S == {i \in Nat : i <= n => f[i] = g[i]}
<1>1. \A i \in 0 .. n :
        /\ f[i] = IF i = 0 THEN m ELSE ByteCopied(f[i - 1], dest, src, i)
        /\ g[i] = IF i = 0 THEN m ELSE ByteCopied(g[i - 1], dest, src, i)
  <2>1. \A i \in 0 .. n : i \in 0 .. n + 1
    OBVIOUS
  <2>. QED  BY <2>1 DEF CopyUpTo
<1>2. 0 \in S
  BY <1>1
<1>3. ASSUME NEW i \in Nat, i \in S
      PROVE  i + 1 \in S
  <2>. SUFFICES ASSUME i + 1 <= n
                PROVE  f[i + 1] = g[i + 1]
    OBVIOUS
  <2>1. i + 1 \in 0 .. n /\ i + 1 # 0 /\ (i + 1) - 1 = i /\ i <= n
    OBVIOUS
  <2>2. f[i] = g[i]
    BY <1>3, <2>1
  <2>. QED  BY <1>1, <2>1, <2>2
<1>. HIDE DEF S
<1>4. \A i \in Nat : i \in S
  BY <1>2, <1>3, NatSetInduction
<1>. QED  BY <1>4 DEF S

(* memncpy copies one byte after the other.                                 *)
LEMMA CopyStep ==
  ASSUME NEW m, NEW dest \in Nat, NEW src \in Nat
  PROVE  \A n \in Nat :
           memncpy(m, dest, src, n)
             = IF n = 0 THEN m ELSE ByteCopied(memncpy(m, dest, src, n - 1), dest, src, n)
<1>. DEFINE up == [n \in Nat |-> CHOOSE f : CopyUpTo(n, f, m, dest, src)]
            F == [n \in Nat |-> up[n][n]]
            C == Copied(m, dest, src)
<1>1. \A n \in Nat : CopyUpTo(n, up[n], m, dest, src)
  BY CopyExists
<1>. HIDE DEF up
<1>2. ASSUME NEW n \in Nat
      PROVE  F[n] = IF n = 0 THEN m ELSE ByteCopied(F[n - 1], dest, src, n)
  <2>. DEFINE g == up[n]
              f == up[n - 1]
  <2>1. CopyUpTo(n, g, m, dest, src) /\ (n # 0 => CopyUpTo(n - 1, f, m, dest, src))
    BY <1>1
  <2>2. F[n] = g[n] /\ (n # 0 => F[n - 1] = f[n - 1])
    OBVIOUS
  <2>. HIDE DEF f, g, F
  <2>3. g[n] = IF n = 0 THEN m ELSE ByteCopied(g[n - 1], dest, src, n)
    <3>1. n \in 0 .. n
      OBVIOUS
    <3>. QED  BY <2>1, <3>1 DEF CopyUpTo
  <2>4. n # 0 => f[n - 1] = g[n - 1]
    <3>. SUFFICES ASSUME n # 0
                  PROVE  f[n - 1] = g[n - 1]
      OBVIOUS
    <3>. DEFINE j == n - 1
    <3>1. j \in Nat /\ j + 1 = n /\ j \in 0 .. j
      OBVIOUS
    <3>2. CopyUpTo(j, f, m, dest, src) /\ CopyUpTo(j + 1, g, m, dest, src)
      BY <2>1, <3>1
    <3>. HIDE DEF j
    <3>3. f[j] = g[j]
      BY <3>1, <3>2, CopiesBeginAlike
    <3>. QED  BY <3>3 DEF j
  <2>. QED  BY <2>2, <2>3, <2>4
<1>3. F = [n \in Nat |-> F[n]]
  OBVIOUS
<1>. HIDE DEF F
<1>4. F = [n \in Nat |-> IF n = 0 THEN m
                         ELSE LET before == F[n - 1]
                              IN [before EXCEPT ![dest + n - 1] = before[src + n - 1]]]
  BY <1>2, <1>3 DEF ByteCopied
<1>5. C = [n \in Nat |-> IF n = 0 THEN m
                         ELSE LET before == C[n - 1]
                              IN [before EXCEPT ![dest + n - 1] = before[src + n - 1]]]
  <2>1. \E g : g = [n \in Nat |-> IF n = 0 THEN m
                         ELSE LET before == g[n - 1]
                              IN [before EXCEPT ![dest + n - 1] = before[src + n - 1]]]
    BY <1>4
  <2>. QED  BY <2>1 DEF Copied
<1>. HIDE DEF C
<1>6. \A n \in Nat : C[n] = IF n = 0 THEN m ELSE ByteCopied(C[n - 1], dest, src, n)
  BY <1>5 DEF ByteCopied
<1>. QED  BY <1>6 DEF memncpy, C

(* The first n bytes are copied: those at the destination are what was at   *)
(* the source, the others what they were.                                   *)
FirstCopied(c, m, room, dest, src, n) ==
  \A i \in 1 .. room : c[i] = IF dest <= i /\ i < dest + n THEN m[i - dest + src] ELSE m[i]

(* Both blocks are inside the memory. *)
Within(Cell, m, room, dest, src, size) ==
  /\ room \in Nat /\ m \in [1 .. room -> Cell]
  /\ dest \in Nat \ {0} /\ src \in Nat \ {0} /\ size \in Nat
  /\ dest + size - 1 <= room /\ src + size - 1 <= room

LEMMA CopiedApart ==
  ASSUME NEW Cell, NEW m, NEW room, NEW dest, NEW src, NEW size,
         Within(Cell, m, room, dest, src, size),
         ~ (src < dest /\ dest < src + size)
  PROVE  \A n \in 0 .. size :
           /\ memncpy(m, dest, src, n) \in [1 .. room -> Cell]
           /\ FirstCopied(memncpy(m, dest, src, n), m, room, dest, src, n)
<1>. USE DEF Within
<1>. DEFINE c(n) == memncpy(m, dest, src, n)
            S == {n \in Nat : n <= size => /\ c(n) \in [1 .. room -> Cell]
                                           /\ FirstCopied(c(n), m, room, dest, src, n)}
<1>1. \A n \in Nat : c(n) = IF n = 0 THEN m ELSE ByteCopied(c(n - 1), dest, src, n)
  <2>1. dest \in Nat /\ src \in Nat
    OBVIOUS
  <2>. HIDE DEF c
  <2>. QED  BY <2>1, CopyStep DEF c
<1>2. 0 \in S
  <2>1. c(0) = m
    BY <1>1
  <2>. HIDE DEF c
  <2>2. \A i \in 1 .. room : ~ (dest <= i /\ i < dest + 0)
    OBVIOUS
  <2>. QED  BY <2>1, <2>2 DEF FirstCopied
<1>3. ASSUME NEW n \in Nat, n \in S
      PROVE  n + 1 \in S
  <2>. SUFFICES ASSUME n + 1 <= size
                PROVE  /\ c(n + 1) \in [1 .. room -> Cell]
                       /\ FirstCopied(c(n + 1), m, room, dest, src, n + 1)
    OBVIOUS
  <2>1. c(n + 1) = ByteCopied(c(n), dest, src, n + 1)
    <3>1. n + 1 \in Nat /\ n + 1 # 0 /\ (n + 1) - 1 = n
      OBVIOUS
    <3>. QED  BY <1>1, <3>1
  <2>2. c(n) \in [1 .. room -> Cell] /\ FirstCopied(c(n), m, room, dest, src, n)
    BY <1>3
  <2>. HIDE DEF c
  <2>3. dest + n \in 1 .. room /\ src + n \in 1 .. room
    OBVIOUS
  <2>4. c(n + 1) = [c(n) EXCEPT ![dest + n] = c(n)[src + n]]
    <3>1. dest + (n + 1) - 1 = dest + n /\ src + (n + 1) - 1 = src + n
      OBVIOUS
    <3>. QED  BY <2>1, <3>1 DEF ByteCopied
  <2>5. c(n)[src + n] = m[src + n]
    <3>1. ~ (dest <= src + n /\ src + n < dest + n) \/ dest = src
      OBVIOUS
    <3>2. dest = src => (src + n) - dest + src = src + n
      OBVIOUS
    <3>. QED  BY <2>2, <2>3, <3>1, <3>2 DEF FirstCopied
  <2>6. c(n + 1) \in [1 .. room -> Cell]
    BY <2>2, <2>3, <2>4
  <2>7. ASSUME NEW i \in 1 .. room
        PROVE  c(n + 1)[i] = IF dest <= i /\ i < dest + (n + 1) THEN m[i - dest + src] ELSE m[i]
    <3>1. CASE i = dest + n
      <4>1. i - dest + src = src + n /\ dest <= i /\ i < dest + (n + 1)
        BY <3>1
      <4>2. c(n + 1)[i] = c(n)[src + n]
        BY <2>2, <2>3, <2>4, <3>1
      <4>. QED  BY <2>5, <4>1, <4>2
    <3>2. CASE i # dest + n
      <4>1. c(n + 1)[i] = c(n)[i]
        BY <2>2, <2>4, <3>2
      <4>2. (dest <= i /\ i < dest + (n + 1)) <=> (dest <= i /\ i < dest + n)
        BY <3>2
      <4>. QED  BY <2>2, <4>1, <4>2 DEF FirstCopied
    <3>. QED  BY <3>1, <3>2
  <2>. QED  BY <2>6, <2>7 DEF FirstCopied
<1>. HIDE DEF S
<1>4. \A n \in Nat : n \in S
  BY <1>2, <1>3, NatSetInduction
<1>. QED  BY <1>4 DEF S

(* When the destination begins inside the source, the first byte is copied  *)
(* onto itself once more, behind.                                           *)
LEMMA CopiedOnto ==
  ASSUME NEW Cell, NEW m, NEW room, NEW dest, NEW src, NEW size,
         Within(Cell, m, room, dest, src, size),
         src < dest, dest < src + size
  PROVE  memncpy(m, dest, src, size)[dest + (dest - src)] = m[src]
<1>. USE DEF Within
<1>. DEFINE k == dest - src
            c(n) == memncpy(m, dest, src, n)
            S == {n \in Nat : n <= size => /\ c(n) \in [1 .. room -> Cell]
                                           /\ n >= 1 => c(n)[dest] = m[src]
                                           /\ n > k => c(n)[dest + k] = m[src]}
<1>1. k \in Nat /\ k >= 1 /\ k < size /\ src + k = dest
  OBVIOUS
<1>. HIDE DEF k
<1>2. \A n \in Nat : c(n) = IF n = 0 THEN m ELSE ByteCopied(c(n - 1), dest, src, n)
  <2>1. dest \in Nat /\ src \in Nat
    OBVIOUS
  <2>. HIDE DEF c
  <2>. QED  BY <2>1, CopyStep DEF c
<1>3. 0 \in S
  <2>1. c(0) = m
    BY <1>2
  <2>. HIDE DEF c
  <2>. QED  BY <1>1, <2>1
<1>4. ASSUME NEW n \in Nat, n \in S
      PROVE  n + 1 \in S
  <2>. SUFFICES ASSUME n + 1 <= size
                PROVE  /\ c(n + 1) \in [1 .. room -> Cell]
                       /\ c(n + 1)[dest] = m[src]
                       /\ n + 1 > k => c(n + 1)[dest + k] = m[src]
    OBVIOUS
  <2>1. c(n + 1) = ByteCopied(c(n), dest, src, n + 1)
    <3>1. n + 1 \in Nat /\ n + 1 # 0 /\ (n + 1) - 1 = n
      OBVIOUS
    <3>. QED  BY <1>2, <3>1
  <2>2. /\ c(n) \in [1 .. room -> Cell]
        /\ n >= 1 => c(n)[dest] = m[src]
        /\ n > k => c(n)[dest + k] = m[src]
    BY <1>4
  <2>9. n = 0 => c(n) = m
    BY <1>2
  <2>. HIDE DEF c
  <2>3. dest + n \in 1 .. room /\ src + n \in 1 .. room /\ dest \in 1 .. room
    OBVIOUS
  <2>4. c(n + 1) = [c(n) EXCEPT ![dest + n] = c(n)[src + n]]
    <3>1. dest + (n + 1) - 1 = dest + n /\ src + (n + 1) - 1 = src + n
      OBVIOUS
    <3>. QED  BY <2>1, <3>1 DEF ByteCopied
  <2>5. c(n + 1) \in [1 .. room -> Cell]
    BY <2>2, <2>3, <2>4
  <2>6. c(n + 1)[dest] = m[src]
    <3>1. CASE n = 0
      <4>1. dest + n = dest /\ src + n = src
        BY <3>1
      <4>. QED  BY <2>9, <2>2, <2>3, <2>4, <3>1, <4>1
    <3>2. CASE n # 0
      <4>1. dest + n # dest /\ n >= 1
        BY <3>2
      <4>. QED  BY <2>2, <2>3, <2>4, <4>1
    <3>. QED  BY <3>1, <3>2
  <2>7. ASSUME n + 1 > k
        PROVE  c(n + 1)[dest + k] = m[src]
    <3>1. CASE n = k
      <4>1. src + n = dest /\ n >= 1
        BY <1>1, <3>1
      <4>2. c(n + 1)[dest + n] = c(n)[src + n]
        BY <2>2, <2>3, <2>4
      <4>. QED  BY <2>2, <3>1, <4>1, <4>2
    <3>2. CASE n # k
      <4>1. n > k /\ dest + k # dest + n /\ dest + k \in 1 .. room
        BY <1>1, <2>7, <3>2
      <4>. QED  BY <2>2, <2>4, <4>1
    <3>. QED  BY <3>1, <3>2
  <2>. QED  BY <2>5, <2>6, <2>7
<1>. HIDE DEF S
<1>5. \A n \in Nat : n \in S
  BY <1>3, <1>4, NatSetInduction
<1>6. size \in S
  BY <1>5
<1>. QED  BY <1>1, <1>6 DEF S, k

(* The block at dest is what the block at src was. *)
Moved(c, m, dest, src, size) == \A i \in 1 .. size : c[dest + i - 1] = m[src + i - 1]

(* dest is inside the block at src. *)
Inside(dest, src, size) == src < dest /\ dest < src + size

(* memncpy copies what was at the source unless the destination begins      *)
(* inside it, and then never when the bytes are distinct, however large     *)
(* the memory and the block: DAL_mem_common.c's copy goes upwards.          *)
THEOREM CopiesUnlessInside ==
  ASSUME NEW Cell, NEW m, NEW room, NEW dest, NEW src, NEW size,
         Within(Cell, m, room, dest, src, size),
         IsInjective(m)
  PROVE  Moved(memncpy(m, dest, src, size), m, dest, src, size)
           <=> ~ Inside(dest, src, size)
<1>. DEFINE c == memncpy(m, dest, src, size)
<1>0. /\ room \in Nat /\ m \in [1 .. room -> Cell]
      /\ dest \in Nat \ {0} /\ src \in Nat \ {0} /\ size \in Nat
      /\ dest + size - 1 <= room /\ src + size - 1 <= room
  BY DEF Within
<1>1. CASE ~ (src < dest /\ dest < src + size)
  <2>1. FirstCopied(c, m, room, dest, src, size)
    <3>1. size \in 0 .. size
      BY <1>0
    <3>. QED  BY <1>1, <3>1, CopiedApart
  <2>2. ASSUME NEW i \in 1 .. size
        PROVE  c[dest + i - 1] = m[src + i - 1]
    <3>. DEFINE j == dest + i - 1
    <3>1. j \in 1 .. room /\ dest <= j /\ j < dest + size /\ j - dest + src = src + i - 1
      BY <1>0
    <3>. HIDE DEF j, c
    <3>2. c[j] = m[src + i - 1]
      BY <2>1, <3>1 DEF FirstCopied
    <3>. QED  BY <3>2 DEF j
  <2>. QED  BY <1>1, <2>2 DEF Moved, Inside
<1>2. CASE src < dest /\ dest < src + size
  <2>. DEFINE i == dest - src + 1
  <2>1. c[dest + (dest - src)] = m[src]
    <3>1. src < dest
      BY <1>2
    <3>2. dest < src + size
      BY <1>2
    <3>. QED  BY <3>1, <3>2, CopiedOnto
  <2>2. /\ i \in 1 .. size /\ dest + i - 1 = dest + (dest - src)
        /\ src + i - 1 = dest /\ dest \in 1 .. room /\ src \in 1 .. room
    BY <1>0, <1>2
  <2>. HIDE DEF c, i
  <2>3. m[dest] # m[src]
    BY <1>0, <1>2, <2>2 DEF IsInjective
  <2>4. c[dest + i - 1] # m[src + i - 1]
    BY <2>1, <2>2, <2>3
  <2>. QED  BY <1>2, <2>2, <2>4 DEF c, Moved, Inside
<1>. QED  BY <1>1, <1>2

(* CopyAgrees wherever the two blocks lie in its memory.                    *)
THEOREM CopiesAgree ==
  ASSUME NEW dest \in 1 .. 8, NEW src \in 1 .. 8, NEW size \in Nat,
         dest + size - 1 <= 8, src + size - 1 <= 8
  PROVE  CopyAgrees(dest, src, size)
<1>. DEFINE m == [i \in 1 .. 8 |-> i]
            c == memncpy(m, dest, src, size)
            block(f, at) == [i \in 1 .. size |-> f[at + i - 1]]
<1>1. m \in [1 .. 8 -> 1 .. 8] /\ IsInjective(m)
  BY DEF IsInjective
<1>. HIDE DEF m
<1>2. Moved(c, m, dest, src, size) <=> ~ Inside(dest, src, size)
  <2>1. Within(1 .. 8, m, 8, dest, src, size)
    BY <1>1 DEF Within
  <2>. QED  BY <1>1, <2>1, CopiesUnlessInside
<1>. HIDE DEF c
<1>3. block(c, dest) = block(m, src) <=> Moved(c, m, dest, src, size)
  <2>1. \A i \in 1 .. size : /\ block(c, dest)[i] = c[dest + i - 1]
                             /\ block(m, src)[i] = m[src + i - 1]
    OBVIOUS
  <2>2. Moved(c, m, dest, src, size) => block(c, dest) = block(m, src)
    BY DEF Moved
  <2>. HIDE DEF block
  <2>. QED  BY <2>1, <2>2 DEF Moved
<1>4. block(c, dest) = block(m, src) <=> ~ (src < dest /\ dest < src + size)
  BY <1>2, <1>3 DEF Inside
<1>. QED  BY <1>4 DEF CopyAgrees, block, c, m
=============================================================================
