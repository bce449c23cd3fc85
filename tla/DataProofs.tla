------------------------------ MODULE DataProofs ------------------------------
(***************************************************************************)
(* What the proofs of the other modules need to know of their data, for    *)
(* lists, sets and arrays of any size: the link surgery of chanfixdb.c     *)
(* loses and doubles no element, its sort puts a record whose total        *)
(* changed into its place and never makes the order worse, and how a sum   *)
(* over a set changes with the set.                                        *)
(*                                                                         *)
(* The sums are the folds of the community modules.  A fold chooses a      *)
(* function that satisfies a recursive equation; that there is one, and    *)
(* that the order of the elements does not matter, is shown by induction   *)
(* over sets of numbers, which needs no operator as a parameter.           *)
(***************************************************************************)
EXTENDS ScoreList, FiniteSetsExt, SequenceTheorems, FiniteSetTheorems,
        WellFoundedInduction, TLAPS

(* A moved chain is a chain of the same length over the same users.        *)
LEMMA MoveIsSeq ==
  ASSUME NEW S, NEW s \in Seq(S), NEW i \in 1 .. Len(s), NEW j \in 1 .. Len(s)
  PROVE  Move(s, i, j) \in Seq(S) /\ Len(Move(s, i, j)) = Len(s)
<1> DEFINE m == Move(s, i, j)
           n == Len(s)
<1>1. n \in Nat /\ \A k \in 1 .. n : s[k] \in S
  BY LenProperties, ElementOfSeq
<1>2. \A k \in 1 .. n : m[k] \in S
  BY <1>1 DEF Move
<1>3. m \in [1 .. n -> S]
  BY <1>2 DEF Move
<1>4. m \in Seq(S)
  BY <1>1, <1>3, SeqDef
<1>5. Len(m) = n
  BY <1>1, <1>3, <1>4, LenProperties
<1> QED BY <1>4, <1>5

(* A move keeps the records of the chain and doubles none (link surgery of *)
(* chanfixdb_chanuser_sort).                                               *)
LEMMA MoveKeeps ==
  ASSUME NEW S, NEW s \in Seq(S), NEW i \in 1 .. Len(s), NEW j \in 1 .. Len(s),
         NoTwice(s)
  PROVE  NoTwice(Move(s, i, j)) /\ Elements(Move(s, i, j)) = Elements(s)
<1> DEFINE m == Move(s, i, j)
           n == Len(s)
           from(k) == IF k = j THEN i
                      ELSE IF i <= k /\ k < j THEN k + 1
                      ELSE IF j < k /\ k <= i THEN k - 1 ELSE k
           into(k) == IF k = i THEN j
                      ELSE IF i < k /\ k <= j THEN k - 1
                      ELSE IF j <= k /\ k < i THEN k + 1 ELSE k
<1>1. n \in Nat /\ Len(m) = n
  BY LenProperties, MoveIsSeq
<1>2. \A k \in 1 .. n : from(k) \in 1 .. n /\ m[k] = s[from(k)]
  BY <1>1 DEF Move
<1>3. \A k \in 1 .. n : into(k) \in 1 .. n /\ from(into(k)) = k
  BY <1>1
<1>4. \A k, l \in 1 .. n : from(k) = from(l) => k = l
  BY <1>1
<1>5. NoTwice(m)
  BY SMTT(30), <1>1, <1>2, <1>4 DEF NoTwice
<1>6. Elements(m) \subseteq Elements(s)
  BY <1>1, <1>2 DEF Elements
<1>7. Elements(s) \subseteq Elements(m)
  <2>1. \A k \in 1 .. n : into(k) \in 1 .. n /\ m[into(k)] = s[k]
    <3> HIDE DEF m, n, from, into
    <3> QED BY <1>2, <1>3
  <2> HIDE DEF m, n, into
  <2> QED BY ZenonT(30), <1>1, <2>1 DEF Elements, n
<1> QED BY <1>5, <1>6, <1>7

(* chanfixdb_chanuser_create: the chain grows by the new record, and stays *)
(* in order but for it.                                                    *)
LEMMA PushFrontKeeps ==
  ASSUME NEW S, NEW s \in Seq(S), NEW u \in S, NoTwice(s), u \notin Elements(s)
  PROVE  /\ PushFront(u, s) \in Seq(S)
         /\ Len(PushFront(u, s)) = Len(s) + 1
         /\ NoTwice(PushFront(u, s))
         /\ Elements(PushFront(u, s)) = Elements(s) \cup {u}
<1> DEFINE p == PushFront(u, s)
           n == Len(s)
<1>1. n \in Nat /\ \A k \in 1 .. n : s[k] \in S
  BY LenProperties, ElementOfSeq
<1>2. p \in [1 .. n + 1 -> S]
  BY <1>1 DEF PushFront
<1>3. p \in Seq(S) /\ Len(p) = n + 1
  BY <1>1, <1>2, SeqDef, LenProperties
<1>4. p[1] = u /\ \A k \in 1 .. n : p[k + 1] = s[k]
  BY <1>1 DEF PushFront
<1>5. \A k \in 2 .. n + 1 : k - 1 \in 1 .. n /\ p[k] = s[k - 1]
  BY <1>1 DEF PushFront
<1>6. NoTwice(p)
  <2>1. \A k \in 2 .. n + 1 : p[k] # u
    BY <1>5 DEF Elements
  <2>2. ASSUME NEW k \in 2 .. n + 1, NEW l \in 2 .. n + 1, p[k] = p[l]
        PROVE  k = l
    <3>1. k - 1 \in 1 .. n /\ l - 1 \in 1 .. n /\ s[k - 1] = s[l - 1]
      BY <1>5, <2>2
    <3>2. k - 1 = l - 1
      BY <3>1 DEF NoTwice
    <3> QED BY <1>1, <3>2
  <2> HIDE DEF p, n
  <2> QED BY <1>1, <1>3, <1>4, <2>1, <2>2 DEF NoTwice
<1>7. Elements(p) \subseteq Elements(s) \cup {u}
  BY SMTT(30), <1>1, <1>3, <1>4, <1>5 DEF Elements
<1>8. Elements(s) \subseteq Elements(p)
  <2>1. \A k \in 1 .. n : k + 1 \in 1 .. Len(p)
    BY <1>1, <1>3
  <2> HIDE DEF p, n
  <2> QED BY <1>4, <2>1 DEF Elements, n
<1>9. u \in Elements(p)
  BY <1>1, <1>3, <1>4 DEF Elements
<1> QED BY <1>3, <1>6, <1>7, <1>8, <1>9

(* chanfixdb_chanuser_remove: the chain loses one record and nothing else. *)
LEMMA UnlinkKeeps ==
  ASSUME NEW S, NEW s \in Seq(S), NEW i \in 1 .. Len(s), NoTwice(s)
  PROVE  /\ Unlink(s, i) \in Seq(S)
         /\ Len(Unlink(s, i)) = Len(s) - 1
         /\ NoTwice(Unlink(s, i))
         /\ Elements(Unlink(s, i)) = Elements(s) \ {s[i]}
<1> DEFINE r == Unlink(s, i)
           n == Len(s)
           from(k) == IF k < i THEN k ELSE k + 1
           into(k) == IF k < i THEN k ELSE k - 1
<1>1. n \in Nat /\ n - 1 \in Nat /\ \A k \in 1 .. n : s[k] \in S
  BY LenProperties, ElementOfSeq
<1>2. \A k \in 1 .. n - 1 : from(k) \in 1 .. n /\ from(k) # i /\ r[k] = s[from(k)]
  BY <1>1 DEF Unlink
<1>3. r \in [1 .. n - 1 -> S]
  BY <1>1 DEF Unlink
<1>4. r \in Seq(S) /\ Len(r) = n - 1
  BY <1>1, <1>3, SeqDef, LenProperties
<1>5. \A k, l \in 1 .. n - 1 : from(k) = from(l) => k = l
  BY <1>1
<1>6. \A k \in 1 .. n : k # i => into(k) \in 1 .. n - 1 /\ from(into(k)) = k
  BY <1>1
<1>7. NoTwice(r)
  BY <1>1, <1>2, <1>4, <1>5 DEF NoTwice
<1>8. Elements(r) \subseteq Elements(s) \ {s[i]}
  BY <1>1, <1>2, <1>4 DEF Elements, NoTwice
<1>9. Elements(s) \ {s[i]} \subseteq Elements(r)
  <2>1. \A k \in 1 .. n : k # i => into(k) \in 1 .. n - 1 /\ r[into(k)] = s[k]
    <3> HIDE DEF r, n, from, into
    <3> QED BY <1>2, <1>6
  <2> HIDE DEF r, n, into
  <2> QED BY <1>4, <2>1 DEF Elements, n
<1> QED BY <1>4, <1>7, <1>8, <1>9

-----------------------------------------------------------------------------
(* All records but the one at place i are in ascending order.              *)
AscendingBut(s, t, i) ==
  \A a, b \in 1 .. Len(s) : a < b /\ a # i /\ b # i => t[s[a]] <= t[s[b]]

(* The totals v at the places 1 .. n of a chain, in order but for place i. *)
OrderedBut(n, i, v) ==
  /\ n \in Nat /\ i \in 1 .. n
  /\ \A k \in 1 .. n : v[k] \in Int
  /\ \A k, l \in 1 .. n : k < l /\ k # i /\ l # i => v[k] <= v[l]

Ordered(n, v) == \A a, b \in 1 .. n : a < b => v[a] <= v[b]

(* The totals m after the record of place i went to place j.               *)
Moved(n, i, j, v, m) ==
  \A k \in 1 .. n : m[k] = IF k = j THEN v[i]
                          ELSE IF i <= k /\ k < j THEN v[k + 1]
                          ELSE IF j < k /\ k <= i THEN v[k - 1] ELSE v[k]

FromBelow(n, i, j, v) ==
  /\ i < j /\ j <= n
  /\ \A k \in i + 1 .. j : v[k] < v[i]
  /\ j < n => v[j + 1] >= v[i]

FromAbove(n, i, j, v) ==
  /\ 1 <= j /\ j < i
  /\ \A k \in j .. i - 1 : v[k] > v[i]
  /\ j > 1 => v[j - 1] <= v[i]

InPlace(n, i, v) ==
  /\ i < n => v[i] <= v[i + 1]
  /\ i > 1 => v[i - 1] <= v[i]

(* Places and totals alone: a record moved past all lower totals after it, *)
(* up to one that is not lower, is in order.                               *)
LEMMA ForwardOrder ==
  ASSUME NEW n, NEW i, NEW j \in Int, NEW v, NEW m,
         OrderedBut(n, i, v), FromBelow(n, i, j, v), Moved(n, i, j, v, m)
  PROVE  Ordered(n, m)
BY DEF OrderedBut, FromBelow, Moved, Ordered

(* The same for a record moved back past all higher totals.                *)
LEMMA BackwardOrder ==
  ASSUME NEW n, NEW i, NEW j \in Int, NEW v, NEW m,
         OrderedBut(n, i, v), FromAbove(n, i, j, v), Moved(n, i, j, v, m)
  PROVE  Ordered(n, m)
BY DEF OrderedBut, FromAbove, Moved, Ordered

(* A record between neighbours that are in order with it is in order.      *)
LEMMA InPlaceOrder ==
  ASSUME NEW n, NEW i, NEW v, OrderedBut(n, i, v), InPlace(n, i, v)
  PROVE  Ordered(n, v)
BY DEF OrderedBut, InPlace, Ordered

(* chanfixdb_chanuser_sort on the only record that may be out of place     *)
(* leaves the whole chain in ascending order.                              *)
LEMMA SortSorts ==
  ASSUME NEW S, NEW s \in Seq(S), NEW t \in [S -> Int],
         NEW i \in 1 .. Len(s), NEW j \in 1 .. Len(s),
         AscendingBut(s, t, i), Lands(s, t, i, j)
  PROVE  Ascending(Move(s, i, j), t)
<1> DEFINE n == Len(s)
           v == [k \in 1 .. n |-> t[s[k]]]
           m == [k \in 1 .. n |-> t[Move(s, i, j)[k]]]
<1>1. n \in Nat /\ Len(Move(s, i, j)) = n
  BY LenProperties, MoveIsSeq
<1>n. n \in Nat /\ i \in 1 .. n /\ j \in 1 .. n
  BY <1>1
<1>2. \A k \in 1 .. n : s[k] \in S
  BY <1>1, ElementOfSeq
<1>3. \A k \in 1 .. n : v[k] = t[s[k]]
  OBVIOUS
<1>i. \A k \in 1 .. n : v[k] \in Int
  BY <1>2, <1>3
<1>4. OrderedBut(n, i, v)
  BY <1>n, <1>3, <1>i DEF AscendingBut, OrderedBut
<1>5. Moved(n, i, j, v, m)
  BY SMTT(30), <1>1 DEF Move, Moved
<1>6. SUFFICES Ordered(n, m)
  BY <1>1 DEF Ascending, Ordered
<1>7. CASE GoesForward(s, t, i) /\ StopsForward(s, t, i, j)
  <2>1. FromBelow(n, i, j, v)
    BY <1>1, <1>3, <1>i, <1>7 DEF StopsForward, FromBelow
  <2> HIDE DEF n, v, m
  <2> QED BY <1>n, <1>4, <1>5, <2>1, ForwardOrder
<1>8. CASE GoesBackward(s, t, i) /\ StopsBackward(s, t, i, j)
  <2>1. FromAbove(n, i, j, v)
    BY <1>1, <1>3, <1>i, <1>8 DEF StopsBackward, FromAbove
  <2> HIDE DEF n, v, m
  <2> QED BY <1>n, <1>4, <1>5, <2>1, BackwardOrder
<1>9. CASE ~ GoesForward(s, t, i) /\ ~ GoesBackward(s, t, i) /\ j = i
  <2>1. InPlace(n, i, v)
    BY <1>1, <1>3, <1>i, <1>9 DEF GoesForward, GoesBackward, InPlace
  <2>2. \A k \in 1 .. n : m[k] = v[k]
    BY <1>n, <1>9, MoveIsSeq DEF Move
  <2> HIDE DEF n, v, m
  <2>3. Ordered(n, v)
    BY <1>4, <2>1, InPlaceOrder
  <2> QED BY <2>2, <2>3 DEF Ordered
<1> QED BY <1>7, <1>8, <1>9 DEF Lands

(* What is left of an ordered chain is ordered.                            *)
LEMMA UnlinkAscending ==
  ASSUME NEW S, NEW s \in Seq(S), NEW t \in [S -> Int],
         NEW i \in 1 .. Len(s), AscendingBut(s, t, i)
  PROVE  Ascending(Unlink(s, i), t)
<1> DEFINE r == Unlink(s, i)
           n == Len(s)
           from(k) == IF k < i THEN k ELSE k + 1
<1>1. n \in Nat /\ \A k \in 1 .. n : s[k] \in S
  BY LenProperties, ElementOfSeq
<1>2. r \in [1 .. n - 1 -> S]
  BY <1>1 DEF Unlink
<1>3. Len(r) = n - 1
  BY <1>1, <1>2, SeqDef, LenProperties
<1>4. \A k \in 1 .. n - 1 : from(k) \in 1 .. n /\ from(k) # i /\ r[k] = s[from(k)]
  BY <1>1 DEF Unlink
<1>5. \A k, l \in 1 .. n - 1 : k < l => from(k) < from(l)
  BY <1>1
<1>6. \A a, b \in 1 .. n - 1 : a < b => t[s[from(a)]] <= t[s[from(b)]]
  <2> HIDE DEF from
  <2> QED BY <1>4, <1>5 DEF AscendingBut
<1>7. \A a, b \in 1 .. n - 1 : a < b => t[r[a]] <= t[r[b]]
  <2> HIDE DEF from, r
  <2> QED BY <1>4, <1>6
<1> QED BY <1>3, <1>7 DEF Ascending

(* The pairs of places of s whose totals are the wrong way round.          *)
WrongPairs(s, t) ==
  {p \in (1 .. Len(s)) \X (1 .. Len(s)) : p[1] < p[2] /\ t[s[p[1]]] > t[s[p[2]]]}

(* The place of s that place k of Move(s, i, j) comes from.                *)
CameFrom(i, j, k) ==
  IF k = j THEN i
  ELSE IF i <= k /\ k < j THEN k + 1
  ELSE IF j < k /\ k <= i THEN k - 1 ELSE k

(* A move changes the order of the moved record and those it passes only.  *)
LEMMA CameFromFacts ==
  ASSUME NEW n \in Nat, NEW i \in 1 .. n, NEW j \in 1 .. n
  PROVE  /\ \A k \in 1 .. n : CameFrom(i, j, k) \in 1 .. n
         /\ \A k, l \in 1 .. n : CameFrom(i, j, k) = CameFrom(i, j, l) => k = l
         /\ CameFrom(i, j, j) = i
         /\ i < j => /\ CameFrom(i, j, i) = i + 1
                     /\ \A k, l \in 1 .. n : k < l /\ CameFrom(i, j, k) >= CameFrom(i, j, l)
                                             => l = j /\ CameFrom(i, j, k) \in i + 1 .. j
         /\ j < i => /\ CameFrom(i, j, i) = i - 1
                     /\ \A k, l \in 1 .. n : k < l /\ CameFrom(i, j, k) >= CameFrom(i, j, l)
                                             => k = j /\ CameFrom(i, j, l) \in j .. i - 1
<1>1. \A k \in 1 .. n : CameFrom(i, j, k) \in 1 .. n
  BY DEF CameFrom
<1>2. \A k, l \in 1 .. n : CameFrom(i, j, k) = CameFrom(i, j, l) => k = l
  BY DEF CameFrom
<1>3. CameFrom(i, j, j) = i
  BY DEF CameFrom
<1>4. ASSUME i < j PROVE /\ CameFrom(i, j, i) = i + 1
                         /\ \A k, l \in 1 .. n : k < l /\ CameFrom(i, j, k) >= CameFrom(i, j, l)
                                             => l = j /\ CameFrom(i, j, k) \in i + 1 .. j
  BY <1>4 DEF CameFrom
<1>5. ASSUME j < i PROVE /\ CameFrom(i, j, i) = i - 1
                         /\ \A k, l \in 1 .. n : k < l /\ CameFrom(i, j, k) >= CameFrom(i, j, l)
                                             => k = j /\ CameFrom(i, j, l) \in j .. i - 1
  BY <1>5 DEF CameFrom
<1> QED BY <1>1, <1>2, <1>3, <1>4, <1>5

(* A record that moves past the lower ones after it, or past the higher    *)
(* ones before it, leaves fewer pairs the wrong way round.                 *)
LEMMA MoveHelps ==
  ASSUME NEW S, NEW s \in Seq(S), NEW t \in [S -> Int],
         NEW i \in 1 .. Len(s), NEW j \in 1 .. Len(s), i # j, Lands(s, t, i, j)
  PROVE  Cardinality(WrongPairs(Move(s, i, j), t)) < Cardinality(WrongPairs(s, t))
<1> DEFINE n == Len(s)
           m == Move(s, i, j)
           P == WrongPairs(s, t)
           Q == WrongPairs(m, t)
           from(k) == CameFrom(i, j, k)
           w == IF i < j THEN <<i, i + 1>> ELSE <<i - 1, i>>
           f == [p \in Q |-> <<from(p[1]), from(p[2])>>]
<1>0. n \in Nat /\ \A k \in 1 .. n : s[k] \in S /\ t[s[k]] \in Int
  BY LenProperties, ElementOfSeq
<1>1. Len(m) = n
  BY MoveIsSeq
<1>2. \A k \in 1 .. n : m[k] = s[from(k)]
  BY DEF Move, CameFrom
<1>3. /\ \A k \in 1 .. n : from(k) \in 1 .. n
      /\ \A k, l \in 1 .. n : from(k) = from(l) => k = l
      /\ from(j) = i
      /\ i < j => /\ from(i) = i + 1
                  /\ \A k, l \in 1 .. n : k < l /\ from(k) >= from(l)
                                          => l = j /\ from(k) \in i + 1 .. j
      /\ j < i => /\ from(i) = i - 1
                  /\ \A k, l \in 1 .. n : k < l /\ from(k) >= from(l)
                                          => k = j /\ from(l) \in j .. i - 1
  <2> HIDE DEF n
  <2> QED BY <1>0, CameFromFacts DEF n
<1>4. P = {p \in (1 .. n) \X (1 .. n) : p[1] < p[2] /\ t[s[p[1]]] > t[s[p[2]]]}
  BY DEF WrongPairs
<1>5. Q = {p \in (1 .. n) \X (1 .. n) : p[1] < p[2] /\ t[m[p[1]]] > t[m[p[2]]]}
  BY <1>1 DEF WrongPairs
<1>6. /\ i < j => \A k \in i + 1 .. j : t[s[k]] < t[s[i]]
      /\ j < i => \A k \in j .. i - 1 : t[s[k]] > t[s[i]]
  <2>1. (i < j /\ StopsForward(s, t, i, j)) \/ (j < i /\ StopsBackward(s, t, i, j))
    BY DEF Lands, StopsForward, StopsBackward
  <2> QED BY <1>0, <2>1 DEF StopsForward, StopsBackward
<1>7. i < j \/ j < i
  BY <1>0
<1> HIDE DEF m, P, Q, from, n
<1>8. ASSUME NEW p \in Q
      PROVE  /\ p = <<p[1], p[2]>> /\ p[1] \in 1 .. n /\ p[2] \in 1 .. n /\ p[1] < p[2]
             /\ from(p[1]) \in 1 .. n /\ from(p[2]) \in 1 .. n
             /\ from(p[1]) < from(p[2]) /\ t[s[from(p[1])]] > t[s[from(p[2])]]
  <2>1. p = <<p[1], p[2]>> /\ p[1] \in 1 .. n /\ p[2] \in 1 .. n /\ p[1] < p[2]
        /\ t[m[p[1]]] > t[m[p[2]]]
    BY <1>5
  <2>2. from(p[1]) \in 1 .. n /\ from(p[2]) \in 1 .. n /\ t[s[from(p[1])]] > t[s[from(p[2])]]
    BY <1>2, <1>3, <2>1
  <2>3. from(p[1]) < from(p[2])
    <3> DEFINE a == from(p[1])
               c == from(p[2])
    <3>1. SUFFICES ASSUME a >= c PROVE FALSE
      BY <1>0, <2>2
    <3>2. t[s[a]] \in Int /\ t[s[c]] \in Int /\ t[s[a]] > t[s[c]]
      BY <1>0, <2>2
    <3>3. CASE i < j
      <4>1. p[2] = j /\ a \in i + 1 .. j
        BY <1>3, <2>1, <3>1, <3>3
      <4>2. c = i
        BY <1>3, <4>1
      <4>3. t[s[a]] < t[s[c]]
        BY <1>6, <3>3, <4>1, <4>2
      <4> QED BY <3>2, <4>3
    <3>4. CASE j < i
      <4>1. p[1] = j /\ c \in j .. i - 1
        BY <1>3, <2>1, <3>1, <3>4
      <4>2. a = i
        BY <1>3, <4>1
      <4>3. t[s[c]] > t[s[a]]
        BY <1>6, <3>4, <4>1, <4>2
      <4> QED BY <3>2, <4>3
    <3> QED BY <1>7, <3>3, <3>4
  <2> QED BY <2>1, <2>2, <2>3
<1>9. w \in P
  <2>1. CASE i < j
    <3>1. i + 1 \in 1 .. n /\ i + 1 \in i + 1 .. j /\ i < i + 1 /\ i \in 1 .. n
      BY <1>0, <2>1 DEF n
    <3>2. t[s[i]] > t[s[i + 1]]
      BY <1>0, <1>6, <2>1, <3>1
    <3>3. w = <<i, i + 1>>
      BY <2>1
    <3> QED BY <1>4, <3>1, <3>2, <3>3
  <2>2. CASE j < i
    <3>1. i - 1 \in 1 .. n /\ i - 1 \in j .. i - 1 /\ i - 1 < i /\ i \in 1 .. n
      BY <1>0, <2>2 DEF n
    <3>2. t[s[i - 1]] > t[s[i]]
      BY <1>6, <2>2, <3>1
    <3>3. w = <<i - 1, i>>
      BY <1>0, <2>2
    <3> QED BY <1>4, <3>1, <3>2, <3>3
  <2> QED BY <1>7, <2>1, <2>2
<1>10. \A p \in Q : f[p] \in P \ {w}
  <2> SUFFICES ASSUME NEW p \in Q PROVE f[p] \in P /\ f[p] # w
    OBVIOUS
  <2>1. f[p] = <<from(p[1]), from(p[2])>>
    OBVIOUS
  <2>2. f[p] \in P
    BY <1>4, <1>8, <2>1
  <2>3. ASSUME f[p] = w PROVE FALSE
    <3>0. i \in 1 .. n /\ j \in 1 .. n
      BY DEF n
    <3>1. CASE i < j
      <4>1. from(p[1]) = i /\ from(p[2]) = i + 1
        BY <2>1, <2>3, <3>1
      <4>2. p[1] = j /\ p[2] = i
        BY <1>3, <1>8, <3>0, <3>1, <4>1
      <4> QED BY <1>8, <3>0, <3>1, <4>2
    <3>2. CASE j < i
      <4>0. w = <<i - 1, i>>
        BY <3>0, <3>2
      <4>1. from(p[1]) = i - 1 /\ from(p[2]) = i
        BY <2>1, <2>3, <4>0
      <4>2. p[1] = i /\ p[2] = j
        BY <1>3, <1>8, <3>0, <3>2, <4>1
      <4> QED BY <1>8, <3>0, <3>2, <4>2
    <3> QED BY <1>7, <3>1, <3>2
  <2> QED BY <2>2, <2>3
<1>11. \A p, q \in Q : f[p] = f[q] => p = q
  <2> SUFFICES ASSUME NEW p \in Q, NEW q \in Q, f[p] = f[q] PROVE p = q
    OBVIOUS
  <2>1. from(p[1]) = from(q[1]) /\ from(p[2]) = from(q[2])
    OBVIOUS
  <2>2. p[1] = q[1] /\ p[2] = q[2]
    BY <1>3, <1>8, <2>1
  <2> QED BY <1>8, <2>2
<1> DEFINE B == P \ {w}
<1>12. f \in Injection(Q, B)
  <2>1. f = [p \in Q |-> f[p]]
    OBVIOUS
  <2> HIDE DEF f, w
  <2> QED BY <1>10, <1>11, <2>1 DEF Injection, IsInjective
<1>13. IsFiniteSet(P) /\ IsFiniteSet(B) /\ Cardinality(B) = Cardinality(P) - 1
  <2>1. IsFiniteSet(1 .. n)
    BY <1>0, FS_Interval
  <2>2. IsFiniteSet((1 .. n) \X (1 .. n))
    BY <2>1, FS_Product
  <2>3. IsFiniteSet(P)
    BY <1>4, <2>2, FS_Subset
  <2> HIDE DEF w
  <2> QED BY <1>9, <2>3, FS_RemoveElement
<1> HIDE DEF f, B
<1>14. IsFiniteSet(Q) /\ Cardinality(Q) <= Cardinality(B)
  BY <1>12, <1>13, FS_Injection
<1>15. Cardinality(P) \in Nat /\ Cardinality(Q) \in Nat
  BY <1>13, <1>14, FS_CardinalityType
<1>16. Cardinality(Q) < Cardinality(P)
  BY <1>13, <1>14, <1>15
<1> QED BY <1>16 DEF P, Q, m

-----------------------------------------------------------------------------
(* A set of numbers that is not empty has a least one, which Min returns.  *)
LEMMA MinIsLeast ==
  ASSUME NEW S, S \subseteq Nat, S # {}
  PROVE  Min(S) \in S /\ \A k \in S : Min(S) <= k
<1> DEFINE R == {p \in Nat \X Nat : p[1] < p[2]}
<1>1. IsWellFoundedOn(R, Nat)
  BY NatLessThanWellFounded DEF OpToRel
<1>2. PICK x \in S : \A y \in S : <<y, x>> \notin R
  BY <1>1, WFMin
<1>3. ASSUME NEW y \in S PROVE x <= y
  <2>1. x \in Nat /\ y \in Nat /\ <<y, x>> \notin R
    BY <1>2
  <2>2. ~ y < x
    BY <2>1
  <2> QED BY <2>1, <2>2
<1> QED BY <1>3 DEF Min

(* Induction, of a set of numbers instead of a formula.                    *)
LEMMA Induction ==
  ASSUME NEW A, 0 \in A, \A n \in Nat : n \in A => n + 1 \in A
  PROVE  Nat \subseteq A
<1> DEFINE B == {n \in Nat : n \notin A}
<1>1. SUFFICES ASSUME B # {} PROVE FALSE
  OBVIOUS
<1>2. Min(B) \in B /\ \A k \in B : Min(B) <= k
  BY <1>1, MinIsLeast
<1> DEFINE m == Min(B)
<1>3. m \in Nat /\ m \notin A /\ \A k \in Nat : k < m => k \in A
  <2> HIDE DEF m
  <2>1. m \in B /\ \A k \in B : m <= k
    BY <1>2 DEF m
  <2> QED BY <2>1
<1> HIDE DEF m
<1>4. m # 0 /\ m - 1 \in Nat /\ m - 1 < m
  BY <1>3
<1>5. (m - 1) + 1 = m
  BY <1>3
<1> QED BY <1>3, <1>4, <1>5

(* Induction from the last place of a list to its first.                   *)
LEMMA DownFromLast ==
  ASSUME NEW n \in Nat, NEW A,
         \A k \in 1 .. n : (k = n \/ k + 1 \in A) => k \in A
  PROVE  \A k \in 1 .. n : k \in A
<1> DEFINE B == {m \in Nat : \A k \in 1 .. n : n - k <= m => k \in A}
<1>1. 0 \in B
  OBVIOUS
<1>2. ASSUME NEW m \in Nat, m \in B PROVE m + 1 \in B
  <2>1. ASSUME NEW k \in 1 .. n, n - k <= m + 1 PROVE k \in A
    <3>1. CASE k = n
      BY <3>1
    <3>2. CASE k # n
      <4>1. k + 1 \in 1 .. n /\ n - (k + 1) <= m
        BY <2>1, <3>2
      <4> QED BY <1>2, <4>1
    <3> QED BY <3>1, <3>2
  <2> QED BY <2>1
<1> HIDE DEF B
<1>3. Nat \subseteq B
  BY <1>1, <1>2, Induction
<1>4. n \in B
  BY <1>3
<1> QED BY <1>4 DEF B

(* What is left of a chain from place k on.                                *)
Rest(s, k) == [i \in 1 .. (Len(s) - k) + 1 |-> s[(k + i) - 1]]

(* It shrinks by one at each place.                                        *)
LEMMA RestSteps ==
  ASSUME NEW S, NEW s \in Seq(S)
  PROVE  /\ Rest(s, 1) = s /\ Rest(s, Len(s) + 1) = <<>>
         /\ \A k \in 1 .. Len(s) : /\ Rest(s, k + 1) \in Seq(S)
                                   /\ Rest(s, k) = <<s[k]>> \o Rest(s, k + 1)
<1> DEFINE n == Len(s)
<1>0. n \in Nat /\ s = [i \in 1 .. n |-> s[i]] /\ \A i \in 1 .. n : s[i] \in S
  BY LenProperties, ElementOfSeq
<1>1. Rest(s, 1) = s
  <2>1. (n - 1) + 1 = n /\ \A i \in 1 .. n : (1 + i) - 1 = i
    BY <1>0
  <2> QED BY <1>0, <2>1 DEF Rest
<1>2. Rest(s, n + 1) = <<>>
  <2>1. (n - (n + 1)) + 1 = 0
    BY <1>0
  <2>2. 1 .. 0 = {}
    OBVIOUS
  <2> QED BY <2>1, <2>2 DEF Rest
<1>3. ASSUME NEW k \in 1 .. n
      PROVE  Rest(s, k + 1) \in Seq(S) /\ Rest(s, k) = <<s[k]>> \o Rest(s, k + 1)
  <2> DEFINE m == n - k
             r == Rest(s, k + 1)
             o == <<s[k]>>
  <2>1. m \in Nat /\ (n - (k + 1)) + 1 = m /\ (n - k) + 1 = m + 1
    BY <1>0
  <2>2. r = [i \in 1 .. m |-> s[((k + 1) + i) - 1]]
    BY <2>1 DEF Rest
  <2>3. Rest(s, k) = [i \in 1 .. m + 1 |-> s[(k + i) - 1]]
    BY <2>1 DEF Rest
  <2>4. \A i \in 1 .. m : ((k + 1) + i) - 1 \in 1 .. n /\ s[((k + 1) + i) - 1] \in S
    BY <1>0
  <2>5. r \in Seq(S) /\ Len(r) = m /\ \A i \in 1 .. m : r[i] = s[k + i]
    <3>1. r \in [1 .. m -> S]
      BY <2>2, <2>4
    <3>2. \A i \in 1 .. m : ((k + 1) + i) - 1 = k + i
      BY <1>0
    <3> HIDE DEF r
    <3> QED BY <2>1, <2>2, <3>1, <3>2, SeqDef, LenProperties
  <2>6. o \in Seq(S) /\ Len(o) = 1 /\ o[1] = s[k]
    BY <1>0
  <2> HIDE DEF r, o
  <2> DEFINE c == o \o r
  <2>7. /\ c \in Seq(S) /\ Len(c) = Len(o) + Len(r)
        /\ \A i \in 1 .. Len(o) + Len(r) : c[i] = IF i <= Len(o) THEN o[i] ELSE r[i - Len(o)]
    BY <2>5, <2>6, ConcatProperties
  <2> HIDE DEF c, m
  <2>8. ASSUME NEW i \in 1 .. m + 1 PROVE c[i] = s[(k + i) - 1]
    <3>1. c[i] = IF i <= 1 THEN s[k] ELSE r[i - 1]
      BY <2>1, <2>5, <2>6, <2>7
    <3>2. CASE i = 1
      BY <3>1, <3>2, <1>0
    <3>3. CASE i # 1
      <4>1. i - 1 \in 1 .. m /\ k + (i - 1) = (k + i) - 1 /\ ~ (i <= 1)
        BY <1>0, <2>1, <3>3
      <4>2. r[i - 1] = s[k + (i - 1)]
        BY <2>5, <4>1
      <4> QED BY <3>1, <4>1, <4>2
    <3> QED BY <3>2, <3>3
  <2>10. Len(c) = m + 1 /\ c = [i \in 1 .. m + 1 |-> c[i]]
    <3>1. Len(c) = m + 1
      BY <2>1, <2>5, <2>6, <2>7
    <3>2. c = [i \in 1 .. Len(c) |-> c[i]]
      BY <2>7, LenProperties
    <3> QED BY <3>1, <3>2
  <2>9. c = Rest(s, k)
    BY <2>3, <2>8, <2>10
  <2> QED BY <2>5, <2>9 DEF o, r, c
<1> QED BY <1>1, <1>2, <1>3

(* A set of subsets that has {} and can take in any element has them all.  *)
LEMMA SetInduction ==
  ASSUME NEW S, IsFiniteSet(S), NEW A, {} \in A,
         \A T \in SUBSET S : \A x \in S \ T : T \in A => T \cup {x} \in A
  PROVE  S \in A
<1> DEFINE N == {n \in Nat : \A T \in SUBSET S : Cardinality(T) = n => T \in A}
<1>1. 0 \in N
  <2>1. \A T \in SUBSET S : Cardinality(T) = 0 => T = {}
    BY FS_EmptySet, FS_Subset
  <2> QED BY <2>1
<1>2. ASSUME NEW n \in Nat, n \in N PROVE n + 1 \in N
  <2>1. ASSUME NEW T \in SUBSET S, Cardinality(T) = n + 1 PROVE T \in A
    <3>1. IsFiniteSet(T) /\ T # {}
      <4>1. IsFiniteSet(T)
        BY FS_Subset
      <4>2. n + 1 # 0
        OBVIOUS
      <4> QED BY <4>1, <4>2, <2>1, FS_EmptySet
    <3>2. PICK x \in T : TRUE
      BY <3>1
    <3>3. Cardinality(T \ {x}) = n
      <4>1. Cardinality(T \ {x}) = Cardinality(T) - 1
        BY <3>1, FS_RemoveElement
      <4>2. Cardinality(T) - 1 = n
        BY <2>1
      <4> QED BY <4>1, <4>2
    <3>4. T \ {x} \in A
      BY <3>3, <1>2
    <3>5. (T \ {x}) \cup {x} \in A
      BY <3>4
    <3>6. (T \ {x}) \cup {x} = T
      OBVIOUS
    <3> QED BY <3>5, <3>6
  <2> QED BY <2>1
<1>3. Nat \subseteq N
  <2> HIDE DEF N
  <2> QED BY <1>1, <1>2, Induction
<1>4. Cardinality(S) \in Nat
  BY FS_CardinalityType
<1> QED BY <1>3, <1>4

-----------------------------------------------------------------------------
(* The element that a fold over T takes first.                             *)
Chosen(T) == CHOOSE x \in T : TRUE

LEMMA ChosenOf ==
  ASSUME NEW S, IsFiniteSet(S), NEW U \in SUBSET S, NEW n \in Nat,
         Cardinality(U) = n + 1
  PROVE  /\ U # {} /\ Chosen(U) \in U /\ IsFiniteSet(U)
         /\ \A x \in U : Cardinality(U \ {x}) = n
<1>1. IsFiniteSet(U) /\ U # {}
  <2>1. n + 1 # 0
    OBVIOUS
  <2> QED BY <2>1, FS_EmptySet, FS_Subset
<1>2. Chosen(U) \in U
  BY <1>1 DEF Chosen
<1>3. \A x \in U : Cardinality(U \ {x}) = Cardinality(U) - 1
  BY <1>1, FS_RemoveElement
<1>4. Cardinality(U) - 1 = n
  OBVIOUS
<1> QED BY <1>1, <1>2, <1>3, <1>4

(* g sums f up over the sets of D.                                         *)
SumsUp(f, D, g) ==
  g = [T \in D |-> IF T = {} THEN 0 ELSE f[Chosen(T)] + g[T \ {Chosen(T)}]]

(* The function that SumFunctionOnSet chooses exists.                      *)
LEMMA SumExists ==
  ASSUME NEW S, IsFiniteSet(S), NEW f
  PROVE  \E g : SumsUp(f, SUBSET S, g)
<1> DEFINE D(n) == {T \in SUBSET S : Cardinality(T) <= n}
           N == {n \in Nat : \E g : SumsUp(f, D(n), g)}
<1>1. 0 \in N
  <2>1. \A T \in SUBSET S : Cardinality(T) <= 0 => T = {}
    BY FS_EmptySet, FS_Subset, FS_CardinalityType
  <2>2. SumsUp(f, D(0), [T \in D(0) |-> 0])
    BY <2>1 DEF SumsUp
  <2> QED BY <2>2
<1>2. ASSUME NEW n \in Nat, n \in N PROVE n + 1 \in N
  <2>1. PICK g : SumsUp(f, D(n), g)
    BY <1>2
  <2> DEFINE h == [T \in D(n + 1) |->
                     IF T = {} THEN 0 ELSE f[Chosen(T)] + g[T \ {Chosen(T)}]]
  <2>2. \A T \in D(n + 1) : T # {} => T \ {Chosen(T)} \in D(n)
    <3>1. SUFFICES ASSUME NEW T \in SUBSET S, Cardinality(T) <= n + 1, T # {}
                   PROVE  Cardinality(T \ {Chosen(T)}) <= n
      OBVIOUS
    <3>2. Chosen(T) \in T /\ IsFiniteSet(T)
      BY <3>1, FS_Subset DEF Chosen
    <3>3. Cardinality(T \ {Chosen(T)}) = Cardinality(T) - 1 /\ Cardinality(T) \in Nat
      BY <3>2, FS_RemoveElement, FS_CardinalityType
    <3> QED BY <3>1, <3>3
  <2>3. \A T \in D(n) : T \in D(n + 1) /\ h[T] = g[T]
    <3>1. \A T \in D(n) : T \in D(n + 1)
      BY FS_CardinalityType, FS_Subset
    <3>2. \A T \in D(n) : g[T] = IF T = {} THEN 0 ELSE f[Chosen(T)] + g[T \ {Chosen(T)}]
      BY <2>1 DEF SumsUp
    <3> HIDE DEF D
    <3> QED BY <3>1, <3>2
  <2>4. SumsUp(f, D(n + 1), h)
    <3>1. \A T \in D(n + 1) : T # {} => h[T \ {Chosen(T)}] = g[T \ {Chosen(T)}]
      BY <2>2, <2>3
    <3> HIDE DEF D
    <3>2. h = [T \in D(n + 1) |-> IF T = {} THEN 0 ELSE f[Chosen(T)] + h[T \ {Chosen(T)}]]
      BY <3>1
    <3> QED BY <3>2 DEF SumsUp
  <2> HIDE DEF D, h
  <2> QED BY <2>4
<1>3. Nat \subseteq N
  <2> HIDE DEF N
  <2> QED BY <1>1, <1>2, Induction
<1>4. Cardinality(S) \in Nat /\ \A T \in SUBSET S : Cardinality(T) <= Cardinality(S)
  BY FS_CardinalityType, FS_Subset
<1>5. D(Cardinality(S)) = SUBSET S
  BY <1>4
<1>6. Cardinality(S) \in N
  BY <1>3, <1>4
<1> QED BY <1>5, <1>6

(* The sum is what such a function says of the whole set.                  *)
LEMMA SumIs ==
  ASSUME NEW S, IsFiniteSet(S), NEW f
  PROVE  \E g : SumsUp(f, SUBSET S, g) /\ SumFunctionOnSet(f, S) = g[S]
<1> DEFINE g == CHOOSE h : SumsUp(f, SUBSET S, h)
<1>1. SumsUp(f, SUBSET S, g)
  BY SumExists
<1>2. SumFunctionOnSet(f, S) = g[S]
  BY DEF SumFunctionOnSet, FoldFunctionOnSet, MapThenFoldSet, SumsUp, Chosen
<1> QED BY <1>1, <1>2

LEMMA SumEmpty == \A f : SumFunctionOnSet(f, {}) = 0
<1> TAKE f
<1>1. PICK g : SumsUp(f, SUBSET {}, g) /\ SumFunctionOnSet(f, {}) = g[{}]
  BY FS_EmptySet, SumIs
<1> QED BY <1>1 DEF SumsUp

(* Sums of smaller sets are the same function's.                           *)
LEMMA SumAgrees ==
  ASSUME NEW S, IsFiniteSet(S), NEW f, NEW g, SumsUp(f, SUBSET S, g),
         NEW T \in SUBSET S
  PROVE  SumFunctionOnSet(f, T) = g[T]
<1>0. IsFiniteSet(T)
  BY FS_Subset
<1>1. PICK h : SumsUp(f, SUBSET T, h) /\ SumFunctionOnSet(f, T) = h[T]
  BY <1>0, SumIs
<1> DEFINE N == {n \in Nat : \A U \in SUBSET T : Cardinality(U) = n => h[U] = g[U]}
<1>g. \A U \in SUBSET T : /\ g[U] = IF U = {} THEN 0 ELSE f[Chosen(U)] + g[U \ {Chosen(U)}]
                         /\ h[U] = IF U = {} THEN 0 ELSE f[Chosen(U)] + h[U \ {Chosen(U)}]
  BY <1>1 DEF SumsUp
<1>2. 0 \in N
  <2>1. \A U \in SUBSET T : Cardinality(U) = 0 => U = {}
    BY <1>0, FS_EmptySet, FS_Subset
  <2> QED BY <2>1, <1>g
<1>3. ASSUME NEW n \in Nat, n \in N PROVE n + 1 \in N
  <2>1. ASSUME NEW U \in SUBSET T, Cardinality(U) = n + 1 PROVE h[U] = g[U]
    <3>1. U # {} /\ Chosen(U) \in U /\ Cardinality(U \ {Chosen(U)}) = n
      BY <2>1, <1>0, ChosenOf
    <3>4. h[U \ {Chosen(U)}] = g[U \ {Chosen(U)}]
      BY <3>1, <1>3
    <3> QED BY <3>1, <3>4, <1>g
  <2> QED BY <2>1
<1>4. Nat \subseteq N
  <2> HIDE DEF N
  <2> QED BY <1>2, <1>3, Induction
<1>5. Cardinality(T) \in Nat
  BY <1>0, FS_CardinalityType
<1> QED BY <1>1, <1>4, <1>5

(* A sum of integers is an integer.                                        *)
LEMMA SumsAreInt ==
  ASSUME NEW S, IsFiniteSet(S), NEW f, \A x \in S : f[x] \in Int,
         NEW g, SumsUp(f, SUBSET S, g)
  PROVE  \A U \in SUBSET S : g[U] \in Int
<1>1. \A U \in SUBSET S : g[U] = IF U = {} THEN 0 ELSE f[Chosen(U)] + g[U \ {Chosen(U)}]
  BY DEF SumsUp
<1> DEFINE N == {n \in Nat : \A U \in SUBSET S : Cardinality(U) = n => g[U] \in Int}
<1>2. 0 \in N
  <2>1. \A U \in SUBSET S : Cardinality(U) = 0 => U = {}
    BY FS_EmptySet, FS_Subset
  <2>2. g[{}] = 0
    BY <1>1
  <2>3. ASSUME NEW U \in SUBSET S, Cardinality(U) = 0 PROVE g[U] \in Int
    <3>1. U = {}
      BY <2>1, <2>3
    <3> QED BY <3>1, <2>2
  <2> QED BY <2>3
<1>3. ASSUME NEW n \in Nat, n \in N PROVE n + 1 \in N
  <2>1. ASSUME NEW U \in SUBSET S, Cardinality(U) = n + 1 PROVE g[U] \in Int
    <3> DEFINE a == Chosen(U)
    <3>1. a \in U /\ g[U] = f[a] + g[U \ {a}] /\ Cardinality(U \ {a}) = n
      BY SMTT(30), <2>1, <1>1, ChosenOf
    <3>2. f[a] \in Int /\ g[U \ {a}] \in Int
      BY <3>1, <1>3
    <3> HIDE DEF a
    <3> QED BY <3>1, <3>2
  <2> QED BY <2>1
<1>4. Nat \subseteq N
  <2> HIDE DEF N
  <2> QED BY <1>2, <1>3, Induction
<1>5. \A U \in SUBSET S : Cardinality(U) \in Nat
  BY FS_CardinalityType, FS_Subset
<1> QED BY <1>4, <1>5

(* The sum grows by the value of the element that is added, whichever it   *)
(* is.                                                                     *)
LEMMA SumWithout ==
  ASSUME NEW S, IsFiniteSet(S), NEW f, \A x \in S : f[x] \in Int
  PROVE  /\ SumFunctionOnSet(f, S) \in Int
         /\ \A x \in S : SumFunctionOnSet(f, S) = f[x] + SumFunctionOnSet(f, S \ {x})
<1>1. PICK g : SumsUp(f, SUBSET S, g) /\ SumFunctionOnSet(f, S) = g[S]
  BY SumIs
<1>2. \A T \in SUBSET S : SumFunctionOnSet(f, T) = g[T]
  BY <1>1, SumAgrees
<1>i. \A U \in SUBSET S : g[U] \in Int /\ \A x \in U : f[x] \in Int
  BY <1>1, SumsAreInt
<1> DEFINE N == {n \in Nat : \A U \in SUBSET S : Cardinality(U) = n =>
                   \A x \in U : g[U] = f[x] + g[U \ {x}]}
<1>4. 0 \in N
  <2>1. \A U \in SUBSET S : Cardinality(U) = 0 => U = {}
    BY FS_EmptySet, FS_Subset
  <2>2. \A U \in SUBSET S : Cardinality(U) = 0 =>
          \A x \in U : g[U] = f[x] + g[U \ {x}]
    BY <2>1
  <2> QED BY <2>2
<1>5. ASSUME NEW n \in Nat, n \in N PROVE n + 1 \in N
  <2>1. ASSUME NEW U \in SUBSET S, Cardinality(U) = n + 1, NEW x \in U
        PROVE  g[U] = f[x] + g[U \ {x}]
    <3> DEFINE a == Chosen(U)
               V == (U \ {a}) \ {x}
    <3>1. a \in U /\ g[U] = f[a] + g[U \ {a}] /\ Cardinality(U \ {a}) = n
      BY <2>1, <1>1, ChosenOf DEF SumsUp
    <3>2. Cardinality(U \ {x}) = n
      BY <2>1, ChosenOf
    <3>3. CASE x = a
      BY <3>3, <3>1
    <3>4. CASE x # a
      <4>1. x \in U \ {a} /\ a \in U \ {x} /\ (U \ {x}) \ {a} = V
        BY <3>1, <3>4
      <4>2. g[U \ {a}] = f[x] + g[V]
        BY <4>1, <3>1, <1>5
      <4>3. g[U \ {x}] = f[a] + g[V]
        BY <4>1, <3>2, <1>5
      <4>4. g[V] \in Int /\ f[x] \in Int /\ f[a] \in Int
        BY <3>1, <1>i
      <4> HIDE DEF a, V
      <4> QED BY <3>1, <4>2, <4>3, <4>4
    <3> QED BY <3>3, <3>4
  <2> QED BY <2>1
<1>6. Nat \subseteq N
  <2> HIDE DEF N
  <2> QED BY <1>4, <1>5, Induction
<1>7. Cardinality(S) \in Nat
  BY FS_CardinalityType
<1>8. g[S] \in Int /\ \A x \in S : g[S] = f[x] + g[S \ {x}]
  BY <1>6, <1>7, <1>i
<1> QED BY <1>1, <1>2, <1>8

(* Adding an element that was not there.                                   *)
LEMMA SumWith ==
  ASSUME NEW S, IsFiniteSet(S), NEW x, x \notin S,
         NEW f, \A y \in S \cup {x} : f[y] \in Int
  PROVE  SumFunctionOnSet(f, S \cup {x}) = f[x] + SumFunctionOnSet(f, S)
<1>1. IsFiniteSet(S \cup {x}) /\ (S \cup {x}) \ {x} = S
  BY FS_AddElement
<1> QED BY <1>1, SumWithout

(* Only the values that are summed count.                                  *)
LEMMA SumEqual ==
  ASSUME NEW S, IsFiniteSet(S), NEW f, NEW g,
         \A x \in S : f[x] \in Int /\ g[x] = f[x]
  PROVE  SumFunctionOnSet(g, S) = SumFunctionOnSet(f, S)
<1> DEFINE A == {T \in SUBSET S : SumFunctionOnSet(g, T) = SumFunctionOnSet(f, T)}
<1>1. {} \in A
  BY SumEmpty
<1>2. ASSUME NEW T \in SUBSET S, NEW x \in S \ T, T \in A PROVE T \cup {x} \in A
  <2>1. IsFiniteSet(T)
    BY FS_Subset
  <2>2. /\ SumFunctionOnSet(f, T \cup {x}) = f[x] + SumFunctionOnSet(f, T)
        /\ SumFunctionOnSet(g, T \cup {x}) = g[x] + SumFunctionOnSet(g, T)
    BY <2>1, SumWith
  <2> QED BY <2>2, <1>2
<1> HIDE DEF A
<1>3. S \in A
  BY <1>1, <1>2, SetInduction
<1> QED BY <1>3 DEF A

LEMMA SumOfZeros ==
  ASSUME NEW S, IsFiniteSet(S), NEW f, \A x \in S : f[x] = 0
  PROVE  SumFunctionOnSet(f, S) = 0
<1> DEFINE A == {T \in SUBSET S : SumFunctionOnSet(f, T) = 0}
<1>1. {} \in A
  BY SumEmpty
<1>2. ASSUME NEW T \in SUBSET S, NEW x \in S \ T, T \in A PROVE T \cup {x} \in A
  <2>1. IsFiniteSet(T) /\ \A y \in T \cup {x} : f[y] \in Int
    BY FS_Subset
  <2>2. SumFunctionOnSet(f, T \cup {x}) = f[x] + SumFunctionOnSet(f, T)
    BY <2>1, SumWith
  <2> QED BY <2>2, <1>2
<1> HIDE DEF A
<1>3. S \in A
  BY <1>1, <1>2, SetInduction
<1> QED BY <1>3 DEF A

(* The sum of a whole function is that over its domain.                    *)
LEMMA SumOfFunction ==
  ASSUME NEW S, IsFiniteSet(S), NEW f, NEW g, DOMAIN g = S,
         \A x \in S : f[x] \in Int /\ g[x] = f[x]
  PROVE  SumFunction(g) = SumFunctionOnSet(f, S)
<1>1. SumFunction(g) = SumFunctionOnSet(g, S)
  BY DEF SumFunction
<1> QED BY <1>1, SumEqual

(* One value changes.                                                      *)
LEMMA SumExcept ==
  ASSUME NEW S, IsFiniteSet(S), NEW f, NEW g, NEW x \in S,
         \A y \in S : f[y] \in Int /\ g[y] \in Int,
         \A y \in S \ {x} : g[y] = f[y]
  PROVE  SumFunctionOnSet(g, S) = SumFunctionOnSet(f, S) - f[x] + g[x]
<1> DEFINE T == S \ {x}
<1>1. IsFiniteSet(T)
  BY FS_Subset
<1>2. SumFunctionOnSet(g, T) = SumFunctionOnSet(f, T) /\ SumFunctionOnSet(f, T) \in Int
  BY <1>1, SumEqual, SumWithout
<1>3. /\ SumFunctionOnSet(f, S) = f[x] + SumFunctionOnSet(f, T)
      /\ SumFunctionOnSet(g, S) = g[x] + SumFunctionOnSet(g, T)
  BY SumWithout
<1> HIDE DEF T
<1> QED BY <1>2, <1>3

(* A sum of naturals is one, and no smaller than any of them.              *)
LEMMA SumOfNats ==
  ASSUME NEW S, IsFiniteSet(S), NEW f, \A x \in S : f[x] \in Nat
  PROVE  /\ SumFunctionOnSet(f, S) \in Nat
         /\ \A x \in S : f[x] <= SumFunctionOnSet(f, S)
<1> DEFINE A == {T \in SUBSET S : SumFunctionOnSet(f, T) \in Nat}
<1>1. {} \in A
  BY SumEmpty
<1>2. ASSUME NEW T \in SUBSET S, NEW x \in S \ T, T \in A PROVE T \cup {x} \in A
  <2>1. IsFiniteSet(T)
    BY FS_Subset
  <2>2. \A y \in T \cup {x} : f[y] \in Int /\ f[y] \in Nat
    OBVIOUS
  <2>3. SumFunctionOnSet(f, T \cup {x}) = f[x] + SumFunctionOnSet(f, T)
    BY <2>1, <2>2, SumWith
  <2> QED BY <2>2, <2>3, <1>2
<1> HIDE DEF A
<1>3. ASSUME NEW T \in SUBSET S PROVE SumFunctionOnSet(f, T) \in Nat
  <2>1. IsFiniteSet(T)
    BY FS_Subset
  <2> DEFINE B == {U \in SUBSET T : U \in A}
  <2>2. T \in B
    <3>1. {} \in B /\ \A U \in SUBSET T : \A x \in T \ U : U \in B => U \cup {x} \in B
      BY <1>1, <1>2
    <3> HIDE DEF B
    <3> QED BY <2>1, <3>1, SetInduction
  <2> QED BY <2>2 DEF A
<1>4. ASSUME NEW x \in S PROVE f[x] <= SumFunctionOnSet(f, S)
  <2>1. SumFunctionOnSet(f, S) = f[x] + SumFunctionOnSet(f, S \ {x})
    BY SumWithout
  <2>2. SumFunctionOnSet(f, S \ {x}) \in Nat /\ f[x] \in Nat
    BY <1>3
  <2> QED BY <2>1, <2>2
<1> QED BY <1>3, <1>4

(* Sums over the places of an array, one place more at a time.             *)
LEMMA SumUpTo ==
  ASSUME NEW n \in Nat, NEW f, \A k \in 1 .. n + 1 : f[k] \in Int
  PROVE  /\ SumFunctionOnSet(f, 1 .. n) \in Int
         /\ SumFunctionOnSet(f, 1 .. n + 1) = f[n + 1] + SumFunctionOnSet(f, 1 .. n)
<1>1. IsFiniteSet(1 .. n) /\ IsFiniteSet(1 .. n + 1)
  <2>1. n \in Int /\ n + 1 \in Int /\ 1 \in Int
    OBVIOUS
  <2> QED BY <2>1, FS_Interval
<1>2. (1 .. n + 1) \ {n + 1} = 1 .. n /\ n + 1 \in 1 .. n + 1
  OBVIOUS
<1>3. \A k \in 1 .. n : f[k] \in Int
  OBVIOUS
<1>4. SumFunctionOnSet(f, 1 .. n) \in Int
  BY <1>1, <1>3, SumWithout
<1>5. \A x \in 1 .. n + 1 :
        SumFunctionOnSet(f, 1 .. n + 1) = f[x] + SumFunctionOnSet(f, (1 .. n + 1) \ {x})
  BY <1>1, SumWithout
<1> QED BY <1>2, <1>4, <1>5

(* What is left of a sum over 1 .. n + 1 when every value moves one place  *)
(* up and the last one goes.                                               *)
LEMMA SumShift ==
  ASSUME NEW n \in Nat, NEW f, NEW g, \A k \in 1 .. n + 1 : f[k] \in Int,
         g[1] = 0, \A k \in 2 .. n + 1 : g[k] = f[k - 1]
  PROVE  SumFunctionOnSet(g, 1 .. n + 1) = SumFunctionOnSet(f, 1 .. n + 1) - f[n + 1]
<1> DEFINE sum(h, m) == SumFunctionOnSet(h, 1 .. m)
           A == {m \in Nat : m <= n => sum(g, m + 1) = sum(f, m)}
<1>g. \A k \in 1 .. n + 1 : g[k] \in Int
  <2> TAKE k \in 1 .. n + 1
  <2>1. CASE k = 1
    BY <2>1
  <2>2. CASE k # 1
    <3>1. k \in 2 .. n + 1 /\ k - 1 \in 1 .. n + 1
      BY <2>2
    <3> QED BY <3>1
  <2> QED BY <2>1, <2>2
<1>f. \A m \in Nat : m <= n =>
        /\ sum(f, m) \in Int
        /\ sum(f, m + 1) = f[m + 1] + sum(f, m)
        /\ sum(g, m + 1) = g[m + 1] + sum(g, m)
  <2> SUFFICES ASSUME NEW m \in Nat, m <= n
               PROVE  /\ sum(f, m) \in Int
                      /\ sum(f, m + 1) = f[m + 1] + sum(f, m)
                      /\ sum(g, m + 1) = g[m + 1] + sum(g, m)
    OBVIOUS
  <2>1. \A k \in 1 .. m + 1 : f[k] \in Int /\ g[k] \in Int
    BY <1>g
  <2> QED BY <2>1, SumUpTo
<1>0. sum(g, 0) = 0 /\ sum(f, 0) = 0
  <2>1. 1 .. 0 = {}
    OBVIOUS
  <2> QED BY <2>1, SumEmpty
<1> HIDE DEF sum
<1>1. 0 \in A
  <2>1. sum(g, 0 + 1) = g[0 + 1] + sum(g, 0)
    BY <1>f
  <2> QED BY <2>1, <1>0
<1>2. ASSUME NEW m \in Nat, m \in A PROVE m + 1 \in A
  <2> SUFFICES ASSUME m + 1 <= n PROVE sum(g, (m + 1) + 1) = sum(f, m + 1)
    OBVIOUS
  <2>1. sum(g, m + 1) = sum(f, m)
    BY <1>2
  <2>2. sum(f, m + 1) = f[m + 1] + sum(f, m)
    BY <1>f
  <2>3. m + 1 \in Nat /\ sum(g, (m + 1) + 1) = g[(m + 1) + 1] + sum(g, m + 1)
    BY <1>f
  <2>4. g[(m + 1) + 1] = f[m + 1]
    <3>1. (m + 1) + 1 \in 2 .. n + 1 /\ ((m + 1) + 1) - 1 = m + 1
      OBVIOUS
    <3> QED BY <3>1
  <2> QED BY <2>1, <2>2, <2>3, <2>4
<1>3. n \in A
  <2> HIDE DEF A
  <2> QED BY <1>1, <1>2, Induction
<1>4. sum(g, n + 1) = sum(f, n)
  BY <1>3
<1>5. sum(f, n + 1) = f[n + 1] + sum(f, n) /\ sum(f, n) \in Int /\ f[n + 1] \in Int
  BY <1>f
<1>6. sum(g, n + 1) = sum(f, n + 1) - f[n + 1]
  BY <1>4, <1>5
<1> QED BY <1>6 DEF sum
-----------------------------------------------------------------------------
LEMMA MaxOfTwo ==
  ASSUME NEW a \in Int, NEW b \in Int
  PROVE  Max({a, b}) = IF a <= b THEN b ELSE a
BY DEF Max

LEMMA MinOfTwo ==
  ASSUME NEW a \in Int, NEW b \in Int
  PROVE  Min({a, b}) = IF a <= b THEN a ELSE b
BY DEF Min

(* Ranks 1 to n, given to n elements, no rank twice: every rank is given.  *)
LEMMA RankHits ==
  ASSUME NEW K, IsFiniteSet(K), NEW w \in [K -> 1 .. Cardinality(K)],
         \A k, l \in K : w[k] = w[l] => k = l,
         NEW r \in 1 .. Cardinality(K)
  PROVE  \E k \in K : w[k] = r
<1> DEFINE T == 1 .. Cardinality(K)
<1>1. Cardinality(K) \in Nat
  BY FS_CardinalityType
<1>2. IsFiniteSet(T) /\ Cardinality(T) = Cardinality(K)
  BY <1>1, FS_Interval
<1>3. w \in Injection(K, T)
  BY DEF Injection, IsInjective
<1>4. w \in Surjection(K, T)
  <2> HIDE DEF T
  <2> QED BY <1>2, <1>3, FS_Injection
<1> QED BY <1>4 DEF Surjection

(* InOrder puts every element of K somewhere, and those that are before    *)
(* others in R before them.                                                *)
LEMMA InOrderOrders ==
  ASSUME NEW K, IsFiniteSet(K), NEW R,
         \A k \in K : <<k, k>> \notin R,
         \A k, l, m \in K : <<k, l>> \in R /\ <<l, m>> \in R => <<k, m>> \in R,
         \A k, l \in K : k = l \/ <<k, l>> \in R \/ <<l, k>> \in R
  PROVE  /\ InOrder(K, R) \in [1 .. Cardinality(K) -> K]
         /\ \A i, j \in 1 .. Cardinality(K) :
              i < j => <<InOrder(K, R)[i], InOrder(K, R)[j]>> \in R
         /\ \A k \in K : \E i \in 1 .. Cardinality(K) : InOrder(K, R)[i] = k
<1> DEFINE s == InOrder(K, R)
           n == Cardinality(K)
           before(k) == {l \in K : <<l, k>> \in R}
           rank == [k \in K |-> Cardinality(before(k)) + 1]
<1>1. n \in Nat
  BY FS_CardinalityType
<1>2. \A k \in K : IsFiniteSet(before(k)) /\ Cardinality(before(k)) \in Nat
  BY FS_Subset, FS_CardinalityType
<1>3. \A k \in K : Cardinality(before(k)) < n
  <2>1. ASSUME NEW k \in K PROVE Cardinality(before(k)) < n
    <3>1. IsFiniteSet(K \ {k}) /\ Cardinality(K \ {k}) = n - 1
      BY FS_RemoveElement
    <3>2. before(k) \in SUBSET (K \ {k})
      OBVIOUS
    <3>3. Cardinality(before(k)) <= n - 1
      <4> HIDE DEF before, n
      <4> QED BY <3>1, <3>2, FS_Subset
    <3> HIDE DEF before, n
    <3> QED BY <1>1, <1>2, <3>3
  <2> QED BY <2>1
<1>4. \A k, l \in K : <<k, l>> \in R => Cardinality(before(k)) < Cardinality(before(l))
  <2>1. ASSUME NEW k \in K, NEW l \in K, <<k, l>> \in R
        PROVE  Cardinality(before(k)) < Cardinality(before(l))
    <3>1. before(k) \in SUBSET before(l) /\ before(k) # before(l)
      BY <2>1
    <3> HIDE DEF before
    <3>2. Cardinality(before(k)) <= Cardinality(before(l))
      BY <1>2, <3>1, FS_Subset
    <3>3. Cardinality(before(k)) # Cardinality(before(l))
      BY <1>2, <3>1, FS_Subset
    <3> QED BY <1>2, <3>2, <3>3
  <2> QED BY <2>1
<1>5. rank \in [K -> 1 .. n]
  <2> HIDE DEF before, n
  <2> QED BY <1>1, <1>2, <1>3
<1>6. \A k, l \in K : <<k, l>> \in R => rank[k] < rank[l]
  <2> HIDE DEF before
  <2> QED BY <1>2, <1>4
<1>7. \A k, l \in K : rank[k] = rank[l] => k = l
  <2>1. \A k \in K : rank[k] \in Int
    BY <1>1, <1>5
  <2>2. ASSUME NEW k \in K, NEW l \in K, rank[k] = rank[l] PROVE k = l
    <3> HIDE DEF rank
    <3>1. ~ rank[k] < rank[l] /\ ~ rank[l] < rank[k]
      BY <2>1, <2>2
    <3> QED BY <1>6, <3>1
  <2> QED BY <2>2
<1>8. \A r \in 1 .. n : s[r] \in K /\ rank[s[r]] = r
  <2>1. ASSUME NEW r \in 1 .. n PROVE s[r] \in K /\ rank[s[r]] = r
    <3>1. PICK k \in K : rank[k] = r
      <4> HIDE DEF rank
      <4> QED BY <1>5, <1>7, RankHits
    <3>2. Cardinality(before(k)) = r - 1
      <4> HIDE DEF before
      <4> QED BY <1>2, <3>1
    <3>3. s[r] = CHOOSE x \in K : Cardinality(before(x)) = r - 1
      BY DEF InOrder
    <3>4. s[r] \in K /\ Cardinality(before(s[r])) = r - 1
      <4> HIDE DEF before, s
      <4> QED BY <3>2, <3>3
    <3>5. (r - 1) + 1 = r
      BY <1>1
    <3> HIDE DEF before, s
    <3> QED BY <3>4, <3>5
  <2> QED BY <2>1
<1>9. s \in [1 .. n -> K]
  <2>1. s = [r \in 1 .. n |-> CHOOSE k \in K : Cardinality(before(k)) = r - 1]
    BY DEF InOrder
  <2>2. \A r \in 1 .. n : s[r] \in K
    <3> HIDE DEF s, rank
    <3> QED BY <1>8
  <2>3. \A r \in 1 .. n : s[r] = CHOOSE k \in K : Cardinality(before(k)) = r - 1
    BY DEF InOrder
  <2> HIDE DEF s, before
  <2> QED BY <2>1, <2>2, <2>3
<1>10. \A i, j \in 1 .. n : i < j => <<s[i], s[j]>> \in R
  <2>1. ASSUME NEW i \in 1 .. n, NEW j \in 1 .. n, i < j PROVE <<s[i], s[j]>> \in R
    <3> HIDE DEF s, rank
    <3>1. s[i] \in K /\ s[j] \in K /\ rank[s[i]] = i /\ rank[s[j]] = j
      BY <1>8
    <3>2. s[i] # s[j]
      BY <2>1, <3>1, <1>1
    <3>3. <<s[j], s[i]>> \notin R
      <4>1. <<s[j], s[i]>> \in R => j < i
        BY <1>6, <3>1
      <4> QED BY <4>1, <2>1, <1>1
    <3> QED BY <3>1, <3>2, <3>3
  <2> QED BY <2>1
<1>11. \A k \in K : \E i \in 1 .. n : s[i] = k
  <2>1. \A k \in K : rank[k] \in 1 .. n
    BY <1>5
  <2> HIDE DEF s, rank
  <2> QED BY <1>7, <1>8, <2>1
<1> QED BY <1>9, <1>10, <1>11

(* The places that Keep takes its elements from, in their order.           *)
KeptFrom(s, K, t, at) ==
  /\ at \in [1 .. Len(t) -> 1 .. Len(s)] /\ Len(t) <= Len(s)
  /\ \A r \in 1 .. Len(t) : t[r] = s[at[r]] /\ t[r] \in K
  /\ \A q, r \in 1 .. Len(t) : q < r => at[q] < at[r]
  /\ \A k \in 1 .. Len(s) : s[k] \in K => \E r \in 1 .. Len(t) : at[r] = k

LEMMA KeepPlaces ==
  ASSUME NEW S, NEW s \in Seq(S), NEW K
  PROVE  Keep(s, K) \in Seq(S) /\ \E at : KeptFrom(s, K, Keep(s, K), at)
<1> DEFINE n == Len(s)
           P == {k \in 1 .. n : s[k] \in K}
           m == Cardinality(P)
           upto(k) == P \cap (1 .. k)
           rank == [k \in P |-> Cardinality(upto(k))]
           t == Keep(s, K)
           at(r) == CHOOSE k \in P : Cardinality(upto(k)) = r
<1>1. n \in Nat /\ \A k \in 1 .. n : s[k] \in S
  BY LenProperties, ElementOfSeq
<1>2. IsFiniteSet(P) /\ m \in Nat
  <2>1. P \in SUBSET (1 .. n) /\ IsFiniteSet(1 .. n)
    BY <1>1, FS_Interval
  <2> HIDE DEF P, n
  <2> QED BY <2>1, FS_Subset, FS_CardinalityType
<1>3. \A k \in P : k \in Int /\ k >= 1 /\ k \in 1 .. n /\ s[k] \in K
  BY <1>1
<1>4. \A k \in P : IsFiniteSet(upto(k)) /\ Cardinality(upto(k)) \in Nat
                   /\ Cardinality(upto(k)) <= m /\ k \in upto(k)
  <2>1. ASSUME NEW k \in P
        PROVE  IsFiniteSet(upto(k)) /\ Cardinality(upto(k)) \in Nat
               /\ Cardinality(upto(k)) <= m /\ k \in upto(k)
    <3>1. upto(k) \in SUBSET P /\ k \in upto(k)
      BY <1>3
    <3> HIDE DEF P, upto
    <3> QED BY <1>2, <3>1, FS_Subset, FS_CardinalityType
  <2> QED BY <2>1
<1>5. \A k, l \in P : k < l => Cardinality(upto(k)) < Cardinality(upto(l))
  <2>1. ASSUME NEW k \in P, NEW l \in P, k < l
        PROVE  Cardinality(upto(k)) < Cardinality(upto(l))
    <3>1. upto(k) \in SUBSET upto(l) /\ l \notin upto(k) /\ l \in upto(l)
      BY <1>3, <2>1
    <3> HIDE DEF P, upto
    <3>2. Cardinality(upto(k)) <= Cardinality(upto(l))
      BY <1>4, <3>1, FS_Subset
    <3>3. Cardinality(upto(k)) # Cardinality(upto(l))
      BY <1>4, <3>1, FS_Subset
    <3> QED BY <1>4, <3>2, <3>3
  <2> QED BY <2>1
<1>6. \A k \in P : Cardinality(upto(k)) >= 1
  <2>1. ASSUME NEW k \in P PROVE Cardinality(upto(k)) >= 1
    <3> HIDE DEF P, upto
    <3>1. Cardinality(upto(k)) # 0
      BY <1>4, FS_EmptySet
    <3> QED BY <1>4, <3>1
  <2> QED BY <2>1
<1>7. rank \in [P -> 1 .. m]
  <2> HIDE DEF P, upto, m
  <2> QED BY <1>2, <1>4, <1>6
<1>8. \A k, l \in P : rank[k] = rank[l] => k = l
  <2>1. ASSUME NEW k \in P, NEW l \in P, rank[k] = rank[l] PROVE k = l
    <3>1. k \in Int /\ l \in Int
      BY <1>3
    <3>2. Cardinality(upto(k)) = Cardinality(upto(l))
      BY <2>1
    <3> HIDE DEF P, upto
    <3> QED BY <1>4, <1>5, <3>1, <3>2
  <2> QED BY <2>1
<1>9. \A r \in 1 .. m : at(r) \in P /\ Cardinality(upto(at(r))) = r
  <2>1. ASSUME NEW r \in 1 .. m PROVE at(r) \in P /\ Cardinality(upto(at(r))) = r
    <3>1. PICK k \in P : rank[k] = r
      <4> HIDE DEF rank, P
      <4> QED BY <1>2, <1>7, <1>8, RankHits DEF m
    <3>2. Cardinality(upto(k)) = r
      BY <3>1
    <3> HIDE DEF P, upto
    <3> QED BY <3>2
  <2> QED BY <2>1
<1>10. t = [r \in 1 .. m |-> s[at(r)]]
  BY DEF Keep
<1> HIDE DEF t, at
<1>11. \A r \in 1 .. m : t[r] = s[at(r)] /\ s[at(r)] \in S /\ s[at(r)] \in K
                         /\ at(r) \in 1 .. n
  <2>1. ASSUME NEW r \in 1 .. m
        PROVE  t[r] = s[at(r)] /\ s[at(r)] \in S /\ s[at(r)] \in K /\ at(r) \in 1 .. n
    <3> HIDE DEF m
    <3>1. at(r) \in P
      BY <1>9, <2>1
    <3>2. t[r] = s[at(r)]
      BY <1>10, <2>1
    <3> QED BY <3>1, <3>2, <1>1, <1>3
  <2> QED BY <2>1
<1>12. t \in Seq(S) /\ Len(t) = m
  <2> HIDE DEF m, n
  <2>1. t \in [1 .. m -> S]
    BY <1>10, <1>11
  <2>2. t \in Seq(S)
    BY <2>1, <1>2, SeqDef
  <2> QED BY <2>1, <2>2, <1>2, LenProperties
<1>13. m <= n
  <2>1. P \in SUBSET (1 .. n)
    OBVIOUS
  <2> HIDE DEF P, n
  <2>2. IsFiniteSet(1 .. n) /\ Cardinality(1 .. n) = n
    BY <1>1, FS_Interval
  <2> QED BY <2>1, <2>2, FS_Subset
<1>14. ASSUME NEW q \in 1 .. m, NEW r \in 1 .. m, q < r PROVE at(q) < at(r)
  <2>1. /\ at(q) \in P /\ Cardinality(upto(at(q))) = q
        /\ at(r) \in P /\ Cardinality(upto(at(r))) = r
    BY <1>9
  <2>2. at(q) \in Int /\ at(r) \in Int /\ q \in Int /\ r \in Int
    BY <1>2, <1>3, <2>1
  <2> HIDE DEF P, upto, m
  <2>3. ~ (at(q) = at(r))
    BY <1>14, <2>1, <2>2
  <2>4. ~ (at(r) < at(q))
    BY <1>5, <1>14, <2>1, <2>2
  <2> QED BY <2>2, <2>3, <2>4
<1>15. ASSUME NEW k \in 1 .. n, s[k] \in K PROVE \E r \in 1 .. m : at(r) = k
  <2>1. k \in P
    BY <1>15
  <2> DEFINE r == Cardinality(upto(k))
  <2>2. r \in 1 .. m
    <3> HIDE DEF P, upto
    <3> QED BY <1>2, <1>4, <1>6, <2>1
  <2>3. at(r) = k
    <3> HIDE DEF P, upto
    <3>1. at(r) \in P /\ Cardinality(upto(at(r))) = Cardinality(upto(k))
      BY <1>9, <2>2
    <3>2. rank[at(r)] = rank[k]
      BY <2>1, <3>1 DEF rank
    <3> HIDE DEF rank, r
    <3> QED BY <1>8, <2>1, <3>1, <3>2
  <2> HIDE DEF r
  <2> QED BY <2>2, <2>3
<1> DEFINE places == [r \in 1 .. m |-> at(r)]
<1> HIDE DEF m, n, P, upto, rank
<1>16. places \in [1 .. m -> 1 .. n] /\ \A r \in 1 .. m : places[r] = at(r)
  BY <1>11
<1> HIDE DEF places
<1>17. \A r \in 1 .. m : t[r] = s[places[r]] /\ t[r] \in K
  BY <1>11, <1>16
<1>18. \A q, r \in 1 .. m : q < r => places[q] < places[r]
  BY <1>14, <1>16
<1>19. \A k \in 1 .. n : s[k] \in K => \E r \in 1 .. m : places[r] = k
  BY <1>15, <1>16
<1>20. KeptFrom(s, K, t, places)
  BY <1>12, <1>13, <1>16, <1>17, <1>18, <1>19 DEF KeptFrom, n
<1> QED BY <1>12, <1>20 DEF t

(* Keep drops what is not in K, and nothing else.                          *)
LEMMA KeepKeeps ==
  ASSUME NEW S, NEW s \in Seq(S), NEW K
  PROVE  /\ Keep(s, K) \in Seq(S)
         /\ Elements(Keep(s, K)) = Elements(s) \cap K
         /\ NoTwice(s) => NoTwice(Keep(s, K))
<1> DEFINE t == Keep(s, K)
<1>1. t \in Seq(S) /\ Len(t) \in Nat /\ Len(s) \in Nat
  BY KeepPlaces
<1>2. PICK at : KeptFrom(s, K, t, at)
  BY KeepPlaces
<1> HIDE DEF t
<1>3. Elements(t) \subseteq Elements(s) \cap K
  BY <1>2 DEF KeptFrom, Elements
<1>4. Elements(s) \cap K \subseteq Elements(t)
  BY <1>2 DEF KeptFrom, Elements
<1>5. ASSUME NoTwice(s) PROVE NoTwice(t)
  <2>1. SUFFICES ASSUME NEW i \in 1 .. Len(t), NEW j \in 1 .. Len(t), t[i] = t[j]
                 PROVE  i = j
    BY DEF NoTwice
  <2>2. at[i] = at[j] /\ at[i] \in Int /\ at[j] \in Int
    BY <1>2, <1>5, <2>1 DEF KeptFrom, NoTwice
  <2>3. ~ (i < j) /\ ~ (j < i)
    BY <1>2, <2>2 DEF KeptFrom
  <2> QED BY <1>1, <2>3
<1> QED BY <1>1, <1>3, <1>4, <1>5 DEF t

(* Two lists one after the other.                                          *)
LEMMA JoinedLists ==
  ASSUME NEW S, NEW s \in Seq(S), NEW t \in Seq(S)
  PROVE  /\ s \o t \in Seq(S)
         /\ Elements(s \o t) = Elements(s) \cup Elements(t)
         /\ NoTwice(s \o t) <=> /\ NoTwice(s) /\ NoTwice(t)
                                /\ Elements(s) \cap Elements(t) = {}
<1> DEFINE n == Len(s)
           m == Len(t)
           u == s \o t
<1>1. n \in Nat /\ m \in Nat
  BY LenProperties
<1>2. u \in Seq(S) /\ Len(u) = n + m
  BY ConcatProperties
<1>3. /\ \A i \in 1 .. n : i \in 1 .. n + m /\ u[i] = s[i]
      /\ \A i \in 1 .. m : n + i \in 1 .. n + m /\ u[n + i] = t[i]
  BY <1>1, ConcatProperties
<1>4. \A i \in 1 .. n + m : i \in 1 .. n \/ (i - n \in 1 .. m /\ n + (i - n) = i)
  BY <1>1
<1> HIDE DEF u
<1>5. Elements(u) = {u[i] : i \in 1 .. n + m}
  BY <1>2 DEF Elements
<1>6. Elements(u) = Elements(s) \cup Elements(t)
  <2> HIDE DEF n, m
  <2>1. Elements(s) = {s[i] : i \in 1 .. n} /\ Elements(t) = {t[i] : i \in 1 .. m}
    BY DEF Elements, n, m
  <2>2. \A i \in 1 .. n + m : u[i] \in Elements(s) \cup Elements(t)
    BY <1>3, <1>4, <2>1
  <2>3. \A i \in 1 .. n : s[i] \in Elements(u)
    BY <1>3, <1>5
  <2>4. \A i \in 1 .. m : t[i] \in Elements(u)
    BY <1>3, <1>5
  <2> QED BY <1>5, <2>1, <2>2, <2>3, <2>4
<1>7. ASSUME NoTwice(u)
      PROVE  NoTwice(s) /\ NoTwice(t) /\ Elements(s) \cap Elements(t) = {}
  <2>1. \A i, j \in 1 .. n + m : u[i] = u[j] => i = j
    BY <1>2, <1>7 DEF NoTwice
  <2>2. NoTwice(s)
    BY <1>3, <2>1 DEF NoTwice
  <2>3. \A i, j \in 1 .. m : t[i] = t[j] => n + i = n + j
    BY ZenonT(30), <1>3, <2>1
  <2>4. \A i, j \in 1 .. m : n + i = n + j => i = j
    BY <1>1
  <2>5. NoTwice(t)
    BY <2>3, <2>4 DEF NoTwice
  <2>6. \A i \in 1 .. n, j \in 1 .. m : s[i] # t[j]
    <3>1. ASSUME NEW i \in 1 .. n, NEW j \in 1 .. m, s[i] = t[j] PROVE FALSE
      <4>1. i = n + j
        BY <1>3, <2>1, <3>1
      <4> QED BY <1>1, <4>1
    <3> QED BY <3>1
  <2> QED BY <2>2, <2>5, <2>6 DEF Elements
<1>8. ASSUME NoTwice(s), NoTwice(t), Elements(s) \cap Elements(t) = {}
      PROVE  NoTwice(u)
  <2>1. \A i \in 1 .. n, j \in 1 .. m : s[i] # t[j]
    BY <1>8 DEF Elements
  <2>2. (\A i, j \in 1 .. n : s[i] = s[j] => i = j)
        /\ (\A i, j \in 1 .. m : t[i] = t[j] => i = j)
    BY <1>8 DEF NoTwice
  <2>3. ASSUME NEW i \in 1 .. n + m, NEW j \in 1 .. n + m, u[i] = u[j] PROVE i = j
    <3> HIDE DEF n, m
    <3>1. CASE i \in 1 .. n /\ j \in 1 .. n
      BY <3>1, <1>3, <2>2, <2>3
    <3>2. CASE i \in 1 .. n /\ j - n \in 1 .. m
      <4>1. u[i] = s[i] /\ u[n + (j - n)] = t[j - n] /\ n + (j - n) = j
        BY <3>2, <1>1, <1>3
      <4> QED BY <4>1, <3>2, <2>1, <2>3
    <3>3. CASE i - n \in 1 .. m /\ j \in 1 .. n
      <4>1. u[j] = s[j] /\ u[n + (i - n)] = t[i - n] /\ n + (i - n) = i
        BY <3>3, <1>1, <1>3
      <4> QED BY <4>1, <3>3, <2>1, <2>3
    <3>4. CASE i - n \in 1 .. m /\ j - n \in 1 .. m
      <4>1. /\ u[n + (j - n)] = t[j - n] /\ n + (j - n) = j
            /\ u[n + (i - n)] = t[i - n] /\ n + (i - n) = i
        BY <3>4, <1>1, <1>3
      <4>2. i - n = j - n
        BY <4>1, <3>4, <2>2, <2>3
      <4> QED BY <4>1, <4>2
    <3> QED BY <1>4, <3>1, <3>2, <3>3, <3>4
  <2> QED BY <1>2, <2>3 DEF NoTwice
<1> QED BY <1>2, <1>6, <1>7, <1>8 DEF u

-----------------------------------------------------------------------------
(* A sequence of two parts, cut between them.                              *)
LEMMA CutBetween ==
  ASSUME NEW S, NEW x \in Seq(S), NEW y \in Seq(S)
  PROVE  /\ SubSeq(x \o y, 1, Len(x)) = x
         /\ SubSeq(x \o y, Len(x) + 1, Len(x \o y)) = y
<1> DEFINE z == x \o y
           a == SubSeq(z, 1, Len(x))
           b == SubSeq(z, Len(x) + 1, Len(z))
<1>1. Len(x) \in Nat /\ Len(y) \in Nat
  BY LenProperties
<1>2. /\ z \in Seq(S) /\ Len(z) = Len(x) + Len(y)
      /\ \A i \in 1 .. Len(x) + Len(y) : z[i] = IF i <= Len(x) THEN x[i] ELSE y[i - Len(x)]
  BY ConcatProperties
<1> HIDE DEF z
<1>3. \A i \in 1 .. Len(z) : z[i] \in S
  BY <1>2, ElementOfSeq
<1>4. /\ a \in Seq(S) /\ Len(a) = IF 1 <= Len(x) THEN Len(x) - 1 + 1 ELSE 0
      /\ \A i \in 1 .. Len(x) - 1 + 1 : a[i] = z[1 + i - 1]
  <2>1. 1 \in Int /\ Len(x) \in Int /\ \A i \in 1 .. Len(x) : z[i] \in S
    BY <1>1, <1>2, <1>3
  <2> QED BY <2>1, SubSeqProperties
<1>5. /\ b \in Seq(S) /\ Len(b) = IF Len(x) + 1 <= Len(z) THEN Len(z) - (Len(x) + 1) + 1 ELSE 0
      /\ \A i \in 1 .. Len(z) - (Len(x) + 1) + 1 : b[i] = z[(Len(x) + 1) + i - 1]
  <2>1. Len(x) + 1 \in Int /\ Len(z) \in Int /\ \A i \in Len(x) + 1 .. Len(z) : z[i] \in S
    BY <1>1, <1>2, <1>3
  <2> QED BY <2>1, SubSeqProperties
<1> HIDE DEF a, b
<1>6. a = x
  <2>1. Len(a) = Len(x)
    BY <1>1, <1>4
  <2>2. ASSUME NEW i \in 1 .. Len(x) PROVE a[i] = x[i]
    <3>1. i \in 1 .. Len(x) - 1 + 1 /\ 1 + i - 1 = i /\ i \in 1 .. Len(x) + Len(y) /\ i <= Len(x)
      BY <1>1
    <3> QED BY <1>2, <1>4, <3>1
  <2> QED BY <1>4, <2>1, <2>2, SeqEqual
<1>7. b = y
  <2>1. Len(b) = Len(y)
    BY <1>1, <1>2, <1>5
  <2>2. ASSUME NEW i \in 1 .. Len(y) PROVE b[i] = y[i]
    <3>1. /\ i \in 1 .. Len(z) - (Len(x) + 1) + 1 /\ (Len(x) + 1) + i - 1 = Len(x) + i
          /\ Len(x) + i \in 1 .. Len(x) + Len(y) /\ ~ (Len(x) + i <= Len(x))
          /\ (Len(x) + i) - Len(x) = i
      BY <1>1, <1>2
    <3>2. b[i] = z[Len(x) + i]
      BY <1>5, <3>1
    <3>3. z[Len(x) + i] = y[(Len(x) + i) - Len(x)]
      BY <1>2, <3>1
    <3> QED BY <3>1, <3>2, <3>3
  <2> QED BY <1>5, <2>1, <2>2, SeqEqual
<1> QED BY <1>6, <1>7 DEF a, b, z

(* A sequence is what comes before a place and what comes after it.        *)
LEMMA CutAt ==
  ASSUME NEW S, NEW x \in Seq(S), NEW n \in 0 .. Len(x)
  PROVE  /\ SubSeq(x, 1, n) \in Seq(S) /\ SubSeq(x, n + 1, Len(x)) \in Seq(S)
         /\ Len(SubSeq(x, 1, n)) = n /\ Len(SubSeq(x, n + 1, Len(x))) = Len(x) - n
         /\ x = SubSeq(x, 1, n) \o SubSeq(x, n + 1, Len(x))
<1>1. Len(x) \in Nat /\ n \in Int /\ n \in Nat /\ n <= Len(x) /\ \A i \in 1 .. Len(x) : x[i] \in S
  BY LenProperties, ElementOfSeq
<1>2. SubSeq(x, 1, n) \in Seq(S) /\ Len(SubSeq(x, 1, n)) = n
  <2>1. \A i \in 1 .. n : x[i] \in S
    BY <1>1
  <2>2. SubSeq(x, 1, n) \in Seq(S) /\ Len(SubSeq(x, 1, n)) = IF 1 <= n THEN n - 1 + 1 ELSE 0
    BY <1>1, <2>1, SubSeqProperties
  <2> QED BY <1>1, <2>2
<1>3. SubSeq(x, n + 1, Len(x)) \in Seq(S) /\ Len(SubSeq(x, n + 1, Len(x))) = Len(x) - n
  <2> DEFINE L == Len(x)
             r == SubSeq(x, n + 1, L)
  <2>1. n + 1 \in Int /\ L \in Int /\ \A i \in n + 1 .. L : x[i] \in S
    BY <1>1
  <2>2. L \in Nat /\ n <= L
    BY <1>1
  <2> HIDE DEF L
  <2>3. r \in Seq(S) /\ Len(r) = IF n + 1 <= L THEN L - (n + 1) + 1 ELSE 0
    BY <2>1, SubSeqProperties
  <2>4. Len(r) = L - n
    BY <1>1, <2>2, <2>3
  <2> QED BY <2>3, <2>4 DEF L
<1>4. 1 \in 1 .. Len(x) + 1 /\ n \in 1 - 1 .. Len(x) /\ Len(x) \in n .. Len(x)
  BY <1>1
<1>5. SubSeq(x, 1, n) \o SubSeq(x, n + 1, Len(x)) = SubSeq(x, 1, Len(x))
  BY <1>4, ConcatAdjacentSubSeq
<1> QED BY <1>2, <1>3, <1>5, SubSeqFull

(* The greatest of some numbers that have a bound is one of them.          *)
LEMMA MaxIsOne ==
  ASSUME NEW n \in Nat, NEW S, S \subseteq 0 .. n, S # {}
  PROVE  Max(S) \in S /\ \A k \in S : Max(S) >= k
<1> DEFINE T == {n - k : k \in S}
<1>1. T \subseteq Nat /\ T # {}
  <2>1. \A k \in S : k \in 0 .. n
    OBVIOUS
  <2>2. \A k \in 0 .. n : n - k \in Nat
    OBVIOUS
  <2> QED BY <2>1, <2>2
<1>2. Min(T) \in T /\ \A k \in T : Min(T) <= k
  BY <1>1, MinIsLeast
<1>3. PICK x \in S : Min(T) = n - x
  BY <1>2
<1>4. \A y \in S : x >= y
  <2> SUFFICES ASSUME NEW y \in S PROVE x >= y
    OBVIOUS
  <2>1. n - y \in T /\ x \in 0 .. n /\ y \in 0 .. n
    OBVIOUS
  <2>2. n - x <= n - y
    BY <1>2, <1>3, <2>1
  <2> QED BY <2>1, <2>2
<1> QED BY <1>4 DEF Max
=============================================================================
