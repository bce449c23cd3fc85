---------------------------- MODULE ChanfixProofs ----------------------------
(***************************************************************************)
(* Theorems about the reop protocol of mod_chanfix.c (module Chanfix), for *)
(* any clients, scores, configuration and limits: the network agrees with  *)
(* the services after every step, a pass is fair, a fix is thorough.       *)
(*                                                                         *)
(* All three rest on what one pass makes of a channel (PassIsGood).  The   *)
(* inductive invariant adds to them that a fix under way has made fewer    *)
(* passes than there are recorded users: every pass reaches at least one   *)
(* more of the best users, and the one that has reached all is the last.   *)
(***************************************************************************)
EXTENDS Chanfix, DataProofs

USE ChanfixAssumption

(* A client list backwards.                                                *)
LEMMA ReverseKeeps ==
  ASSUME NEW S, NEW s \in Seq(S)
  PROVE  /\ Reverse(s) \in Seq(S) /\ Len(Reverse(s)) = Len(s)
         /\ Elements(Reverse(s)) = Elements(s)
         /\ NoTwice(s) => NoTwice(Reverse(s))
<1> DEFINE n == Len(s)
           t == Reverse(s)
<1>1. n \in Nat /\ \A k \in 1 .. n : s[k] \in S
  BY LenProperties, ElementOfSeq
<1>2. \A k \in 1 .. n : (n - k) + 1 \in 1 .. n /\ (n - ((n - k) + 1)) + 1 = k
  BY <1>1
<1>3. t = [k \in 1 .. n |-> s[(n - k) + 1]]
  BY DEF Reverse
<1> HIDE DEF t
<1>4. t \in Seq(S) /\ Len(t) = n
  <2> HIDE DEF n
  <2>1. t \in [1 .. n -> S]
    BY <1>1, <1>2, <1>3
  <2> QED BY <1>1, <2>1, SeqDef, LenProperties
<1>5. Elements(t) = Elements(s)
  <2>0. Elements(s) = {s[k] : k \in 1 .. n} /\ Elements(t) = {t[k] : k \in 1 .. n}
    BY <1>4 DEF Elements
  <2> HIDE DEF n
  <2>1. \A k \in 1 .. n : t[k] \in Elements(s)
    BY <1>2, <1>3, <2>0
  <2>2. \A k \in 1 .. n : t[(n - k) + 1] = s[k]
    BY <1>2, <1>3
  <2>3. \A k \in 1 .. n : s[k] \in Elements(t)
    BY <1>2, <2>0, <2>2
  <2> QED BY <2>0, <2>1, <2>3
<1>6. ASSUME NoTwice(s) PROVE NoTwice(t)
  <2>1. ASSUME NEW i \in 1 .. n, NEW j \in 1 .. n, t[i] = t[j] PROVE i = j
    <3>1. (n - i) + 1 = (n - j) + 1
      <4> HIDE DEF n
      <4>1. s[(n - i) + 1] = s[(n - j) + 1]
        BY <1>3, <2>1
      <4> QED BY <1>2, <1>6, <4>1 DEF NoTwice, n
    <3> QED BY <1>1, <3>1
  <2> QED BY <1>4, <2>1 DEF NoTwice
<1> QED BY <1>4, <1>5, <1>6 DEF t

(* A client taken out of a list (channel_remove_client and the like).      *)
LEMMA WithoutKeeps ==
  ASSUME NEW S, NEW s \in Seq(S), NEW u
  PROVE  /\ Without(u, s) \in Seq(S)
         /\ Elements(Without(u, s)) = Elements(s) \ {u}
         /\ NoTwice(s) => NoTwice(Without(u, s))
BY KeepKeeps DEF Without

(* A client put at the head of a list.                                     *)
LEMMA HeadAdds ==
  ASSUME NEW S, NEW s \in Seq(S), NEW u \in S
  PROVE  /\ <<u>> \o s \in Seq(S)
         /\ Elements(<<u>> \o s) = {u} \cup Elements(s)
         /\ NoTwice(s) /\ u \notin Elements(s) => NoTwice(<<u>> \o s)
<1> DEFINE h == <<u>>
<1>1. h \in Seq(S) /\ Len(h) = 1 /\ h[1] = u
  OBVIOUS
<1> HIDE DEF h
<1>2. Elements(h) = {u} /\ NoTwice(h)
  BY <1>1 DEF Elements, NoTwice
<1>3. /\ h \o s \in Seq(S)
      /\ Elements(h \o s) = Elements(h) \cup Elements(s)
      /\ NoTwice(h \o s) <=> /\ NoTwice(h) /\ NoTwice(s)
                             /\ Elements(h) \cap Elements(s) = {}
  BY <1>1, JoinedLists
<1>4. u \notin Elements(s) => Elements(h) \cap Elements(s) = {}
  BY <1>2
<1> QED BY <1>2, <1>3, <1>4 DEF h
-----------------------------------------------------------------------------
(* The records of a channel can be counted.                                *)
LEMMA UsersAreCounted ==
  ASSUME board \in Boards
  PROVE  /\ IsFiniteSet(DOMAIN board) /\ UsersNum \in Nat
         /\ \A u \in DOMAIN board : board[u] \in Nat
BY FS_CardinalityType DEF UsersNum, ChanfixAssumption

(* A pass reaches at least one user.                                       *)
LEMMA PassReachesOne ==
  ASSUME board \in Boards, NEW since \in Int
  PROVE  UsersPerPass(since) \in Nat /\ UsersPerPass(since) >= 1
<1>1. UsersNum \in Nat
  BY UsersAreCounted
<1>2. \A n \in Nat : n \div WaitMin \in Int
  BY DEF ChanfixAssumption
<1>3. \A n \in Nat : n \div WaitMax \in Int
  BY DEF ChanfixAssumption
<1> DEFINE early == Min({UsersNum \div WaitMin, NicksToOp})
           late == UsersNum \div WaitMax
           num == IF since <= WaitMin THEN early ELSE late
<1>4. early \in Int
  BY <1>1, <1>2, MinOfTwo DEF ChanfixAssumption
<1>5. late \in Int
  BY <1>1, <1>3
<1>6. num \in Int
  <2> HIDE DEF early, late
  <2> QED BY <1>4, <1>5
<1>7. UsersPerPass(since) = Max({1, num})
  BY DEF UsersPerPass
<1> HIDE DEF num
<1> QED BY <1>6, <1>7, MaxOfTwo

(* The threshold is the score of a recorded user, or 0 once all of them    *)
(* are reached.                                                            *)
LEMMA Threshold ==
  ASSUME board \in Boards, NEW k \in Nat \ {0}
  PROVE  /\ ScoreNeeded(SortedChain, board, k) \in Int
         /\ k >= UsersNum => ScoreNeeded(SortedChain, board, k) = 0
<1> DEFINE n == UsersNum
           D == DOMAIN board
           users == SetToSeq(D)
           places == 1 .. n
           R == {p \in places \X places :
                   \/ board[users[p[1]]] < board[users[p[2]]]
                   \/ board[users[p[1]]] = board[users[p[2]]] /\ p[1] < p[2]}
           s == SortedChain
<1>1. n \in Nat /\ n = Cardinality(D) /\ \A u \in D : board[u] \in Nat
  BY UsersAreCounted DEF UsersNum
<1>2. users \in [places -> D]
  <2>1. \E f \in [places -> D] : IsInjective(f)
    <3>1. ExistsBijection(1 .. Cardinality(D), D)
      BY UsersAreCounted, FS_CardinalityType
    <3> HIDE DEF D, n
    <3> QED BY <1>1, <3>1 DEF ExistsBijection, Bijection, Injection
  <2>2. users = CHOOSE f \in [places -> D] : IsInjective(f)
    <3> HIDE DEF D, n
    <3> QED BY <1>1 DEF SetToSeq
  <2> HIDE DEF users, places, D
  <2> QED BY <2>1, <2>2
<1>3. InOrder(places, R) \in [1 .. n -> places]
  <2>1. IsFiniteSet(places) /\ Cardinality(places) = n
    <3> HIDE DEF n
    <3> QED BY <1>1, FS_Interval
  <2>2. \A i \in places : i \in Int /\ board[users[i]] \in Int
    <3> HIDE DEF n, users, D
    <3> QED BY <1>1, <1>2
  <2>3. \A i, j \in places : <<i, j>> \in R <=>
           \/ board[users[i]] < board[users[j]]
           \/ board[users[i]] = board[users[j]] /\ i < j
    <3> HIDE DEF n, users
    <3> QED OBVIOUS
  <2> HIDE DEF places, users, R, n
  <2>4. \A i \in places : <<i, i>> \notin R
    BY <2>2, <2>3
  <2>5. \A i, j, l \in places : <<i, j>> \in R /\ <<j, l>> \in R => <<i, l>> \in R
    BY <2>2, <2>3
  <2>6. \A i, j \in places : i = j \/ <<i, j>> \in R \/ <<j, i>> \in R
    <3>1. ASSUME NEW i \in places, NEW j \in places, i # j
          PROVE  <<i, j>> \in R \/ <<j, i>> \in R
      <4>1. i \in Int /\ j \in Int /\ board[users[i]] \in Int /\ board[users[j]] \in Int
        BY <2>2
      <4>2. CASE board[users[i]] < board[users[j]]
        BY <2>3, <4>2
      <4>3. CASE board[users[j]] < board[users[i]]
        BY <2>3, <4>3
      <4>4. CASE board[users[i]] = board[users[j]]
        <5>1. i < j \/ j < i
          BY <3>1, <4>1
        <5> QED BY <2>3, <4>4, <5>1
      <4> QED BY <4>1, <4>2, <4>3, <4>4
    <3> QED BY <3>1
  <2> QED BY <2>1, <2>4, <2>5, <2>6, InOrderOrders
<1>4. s = [r \in places |-> users[InOrder(places, R)[r]]]
  BY DEF SortedChain
<1>5. \A r \in 1 .. n : board[s[r]] \in Nat
  <2> HIDE DEF users, R, s, n, D
  <2> QED BY <1>1, <1>2, <1>3, <1>4
<1>6. Len(s) = n
  <2> HIDE DEF users, R, s, n, D
  <2>1. s \in [1 .. n -> D]
    BY <1>2, <1>3, <1>4
  <2> QED BY <1>1, <2>1, SeqDef, LenProperties
<1> HIDE DEF s, n
<1>7. k < n => 1 + n - k \in 1 .. n /\ n - (k - 1) \in 1 .. n
  BY <1>1
<1>8. ScoreNeeded(s, board, k) = IF k >= n THEN 0
                                 ELSE IF 1 + n - k < k THEN board[s[1 + n - k]]
                                 ELSE board[s[n - (k - 1)]]
  BY <1>6 DEF ScoreNeeded
<1> QED BY <1>1, <1>5, <1>7, <1>8 DEF s, n

(* _chanfix_get_scores finds, among those in line, the best of those with  *)
(* the score, and all of them when there is room.                          *)
LEMMA BestAreBest ==
  ASSUME board \in Boards, NEW line \in Seq(Clients), NoTwice(line),
         NEW least \in Int, NEW max \in Nat
  PROVE  LET chosen == Best(line, least, max) IN
         /\ chosen \in Seq(Clients) /\ NoTwice(chosen) /\ Len(chosen) <= max
         /\ Elements(chosen) \subseteq Elements(line) \cap DOMAIN board
         /\ \A k \in 1 .. Len(chosen) :
              \A u \in Elements(line) \cap DOMAIN board :
                u \notin Elements(chosen) => board[u] <= board[chosen[k]]
         /\ least = 0 /\ Len(chosen) # max
              => Elements(line) \cap DOMAIN board \subseteq Elements(chosen)
<1> DEFINE E == Eligible(line, least)
           n == Cardinality(E)
           m == Min({max, n})
           R == {p \in E \X E :
                   \/ board[line[p[1]]] > board[line[p[2]]]
                   \/ board[line[p[1]]] = board[line[p[2]]] /\ p[1] < p[2]}
           ranked == InOrder(E, R)
           chosen == Best(line, least, max)
<1>1. Len(line) \in Nat /\ \A k \in 1 .. Len(line) : line[k] \in Clients
  BY LenProperties, ElementOfSeq
<1>2. E \subseteq 1 .. Len(line) /\ IsFiniteSet(E) /\ n \in Nat
  <2>1. E \in SUBSET (1 .. Len(line))
    BY DEF Eligible
  <2>2. IsFiniteSet(1 .. Len(line))
    BY <1>1, FS_Interval
  <2> HIDE DEF E
  <2>3. IsFiniteSet(E)
    BY <2>1, <2>2, FS_Subset
  <2> QED BY <2>1, <2>3, FS_CardinalityType
<1>3. \A k \in E : /\ k \in 1 .. Len(line) /\ k \in Int /\ line[k] \in DOMAIN board
                   /\ board[line[k]] \in Int /\ board[line[k]] >= least
  BY <1>1, UsersAreCounted DEF Eligible
<1>4. \A k \in 1 .. Len(line) :
        line[k] \in DOMAIN board /\ k \notin E => board[line[k]] < least
  BY UsersAreCounted DEF Eligible
<1>5. \A k, l \in E : <<k, l>> \in R <=>
        \/ board[line[k]] > board[line[l]]
        \/ board[line[k]] = board[line[l]] /\ k < l
  <2> HIDE DEF E
  <2> QED OBVIOUS
<1>6. /\ ranked \in [1 .. n -> E]
      /\ \A i, j \in 1 .. n : i < j => <<ranked[i], ranked[j]>> \in R
      /\ \A k \in E : \E i \in 1 .. n : ranked[i] = k
  <2> HIDE DEF E, R
  <2>1. \A k \in E : <<k, k>> \notin R
    BY <1>3, <1>5
  <2>2. \A i, j, l \in E : <<i, j>> \in R /\ <<j, l>> \in R => <<i, l>> \in R
    <3>1. ASSUME NEW i \in E, NEW j \in E, NEW l \in E, <<i, j>> \in R, <<j, l>> \in R
          PROVE  <<i, l>> \in R
      <4>1. /\ i \in Int /\ j \in Int /\ l \in Int /\ board[line[i]] \in Int
            /\ board[line[j]] \in Int /\ board[line[l]] \in Int
        BY <1>3
      <4>2. \/ board[line[i]] > board[line[j]]
            \/ board[line[i]] = board[line[j]] /\ i < j
        BY <1>5, <3>1
      <4>3. \/ board[line[j]] > board[line[l]]
            \/ board[line[j]] = board[line[l]] /\ j < l
        BY <1>5, <3>1
      <4>4. \/ board[line[i]] > board[line[l]]
            \/ board[line[i]] = board[line[l]] /\ i < l
        BY <4>1, <4>2, <4>3
      <4> QED BY <1>5, <4>4
    <3> QED BY <3>1
  <2>3. \A i, j \in E : i = j \/ <<i, j>> \in R \/ <<j, i>> \in R
    <3>1. ASSUME NEW i \in E, NEW j \in E, i # j PROVE <<i, j>> \in R \/ <<j, i>> \in R
      <4>1. i \in Int /\ j \in Int /\ board[line[i]] \in Int /\ board[line[j]] \in Int
        BY <1>3
      <4>2. CASE board[line[i]] > board[line[j]]
        BY <1>5, <4>2
      <4>3. CASE board[line[j]] > board[line[i]]
        BY <1>5, <4>3
      <4>4. CASE board[line[i]] = board[line[j]]
        <5>1. i < j \/ j < i
          BY <3>1, <4>1
        <5> QED BY <1>5, <4>4, <5>1
      <4> QED BY <4>1, <4>2, <4>3, <4>4
    <3> QED BY <3>1
  <2>4. IsFiniteSet(E)
    BY <1>2
  <2> HIDE DEF n, m, ranked, chosen
  <2>5. /\ InOrder(E, R) \in [1 .. Cardinality(E) -> E]
        /\ \A i, j \in 1 .. Cardinality(E) :
             i < j => <<InOrder(E, R)[i], InOrder(E, R)[j]>> \in R
        /\ \A k \in E : \E i \in 1 .. Cardinality(E) : InOrder(E, R)[i] = k
    BY <2>1, <2>2, <2>3, <2>4, InOrderOrders
  <2> QED BY <2>5 DEF ranked, n
<1>7. m \in Nat /\ m <= max /\ m <= n /\ (m = max \/ m = n)
  <2> HIDE DEF n
  <2> QED BY <1>2, MinOfTwo
<1>8. chosen = [r \in 1 .. m |-> line[ranked[r]]]
  BY DEF Best
<1> HIDE DEF E, R, ranked, chosen, m, n
<1>9. \A r \in 1 .. m : r \in 1 .. n
  BY <1>2, <1>7
<1>10. \A r \in 1 .. m : /\ chosen[r] = line[ranked[r]] /\ ranked[r] \in E
                         /\ ranked[r] \in 1 .. Len(line) /\ chosen[r] \in Clients
                         /\ chosen[r] \in DOMAIN board
                         /\ board[chosen[r]] \in Int /\ board[chosen[r]] >= least
  BY <1>1, <1>3, <1>6, <1>8, <1>9
<1>11. chosen \in Seq(Clients) /\ Len(chosen) = m
  <2>1. chosen \in [1 .. m -> Clients]
    BY <1>8, <1>10
  <2> QED BY <1>7, <2>1, SeqDef, LenProperties
<1>12. Elements(chosen) = {chosen[r] : r \in 1 .. m}
  BY <1>11 DEF Elements
<1>13. \A i, j \in 1 .. m : i < j => chosen[i] # chosen[j]
  <2>1. ASSUME NEW i \in 1 .. m, NEW j \in 1 .. m, i < j, chosen[i] = chosen[j]
        PROVE  FALSE
    <3>1. <<ranked[i], ranked[j]>> \in R
      BY <1>6, <1>9, <2>1
    <3>2. ranked[i] = ranked[j]
      BY <1>10, <2>1 DEF NoTwice
    <3> QED BY <1>3, <1>5, <1>10, <3>1, <3>2
  <2> QED BY <2>1
<1>14. NoTwice(chosen)
  <2>1. ASSUME NEW i \in 1 .. m, NEW j \in 1 .. m, chosen[i] = chosen[j] PROVE i = j
    <3>1. ~ i < j /\ ~ j < i
      BY <1>13, <2>1
    <3> QED BY <1>7, <3>1
  <2> QED BY <1>11, <2>1 DEF NoTwice
<1>15. Elements(chosen) \subseteq Elements(line) \cap DOMAIN board
  <2>1. ASSUME NEW r \in 1 .. m PROVE chosen[r] \in Elements(line) \cap DOMAIN board
    BY <1>10 DEF Elements
  <2> QED BY <1>12, <2>1
<1>16. ASSUME NEW k \in E, line[k] \notin Elements(chosen)
       PROVE  m = max /\ \A r \in 1 .. m : board[line[k]] <= board[chosen[r]]
  <2>1. PICK i \in 1 .. n : ranked[i] = k
    BY <1>6
  <2>2. i \notin 1 .. m
    BY <1>10, <1>12, <1>16, <2>1
  <2>3. i \in Nat /\ i > m
    BY <1>2, <1>7, <2>2
  <2>4. ASSUME NEW r \in 1 .. m PROVE board[line[k]] <= board[chosen[r]]
    <3>1. r < i
      BY <1>7, <2>3
    <3>2. <<ranked[r], k>> \in R
      BY <1>6, <1>9, <2>1, <3>1
    <3>3. board[chosen[r]] \in Int /\ board[line[k]] \in Int
      BY <1>3, <1>10
    <3>4. ranked[r] \in E /\ chosen[r] = line[ranked[r]]
      BY <1>10
    <3>5. \/ board[line[ranked[r]]] > board[line[k]]
          \/ board[line[ranked[r]]] = board[line[k]]
      BY <1>5, <3>2, <3>4
    <3> QED BY <3>3, <3>4, <3>5
  <2>5. m # n
    BY <1>2, <2>3
  <2> QED BY <1>7, <2>4, <2>5
<1>17. ASSUME NEW k \in 1 .. Len(chosen), NEW u \in Elements(line) \cap DOMAIN board,
              u \notin Elements(chosen)
       PROVE  board[u] <= board[chosen[k]]
  <2>1. PICK i \in 1 .. Len(line) : line[i] = u
    BY DEF Elements
  <2>2. k \in 1 .. m
    BY <1>11
  <2>3. CASE i \in E
    BY <1>16, <1>17, <2>1, <2>2, <2>3
  <2>4. CASE i \notin E
    <3>1. board[u] < least /\ board[u] \in Nat
      BY <1>4, <2>1, <2>4, UsersAreCounted
    <3> QED BY <1>10, <2>2, <3>1
  <2> QED BY <2>3, <2>4
<1>18. ASSUME least = 0, Len(chosen) # max, NEW u \in Elements(line) \cap DOMAIN board
       PROVE  u \in Elements(chosen)
  <2>1. PICK i \in 1 .. Len(line) : line[i] = u
    BY DEF Elements
  <2>2. i \in E
    <3>1. board[u] \in Nat
      BY UsersAreCounted
    <3> QED BY <1>4, <1>18, <2>1, <3>1
  <2> QED BY <1>11, <1>16, <1>18, <2>1, <2>2
<1>19. Len(chosen) <= max
  BY <1>7, <1>11
<1> QED BY <1>11, <1>14, <1>15, <1>17, <1>18, <1>19 DEF chosen
-----------------------------------------------------------------------------
(* What SI_CHANNEL holds, and a client is in one of the lists once.        *)
Channels == [non_ops : Seq(Clients), ops : Seq(Clients),
             modes : SUBSET ChanModes, creation : 1 .. FirstTS]
Legal(c) == c \in Channels /\ NoTwice(c.non_ops \o c.ops)

LEMMA LegalLists ==
  ASSUME NEW c, c \in Channels
  PROVE  Legal(c) <=> /\ NoTwice(c.non_ops) /\ NoTwice(c.ops)
                      /\ Elements(c.non_ops) \cap Elements(c.ops) = {}
<1>1. c.non_ops \in Seq(Clients) /\ c.ops \in Seq(Clients)
  BY DEF Channels
<1> QED BY <1>1, JoinedLists DEF Legal

(* The lists of the channel after a pass.                                  *)
LEMMA ReoppedLists ==
  ASSUME NEW c, Legal(c), NEW deop \in BOOLEAN, NEW chosen \in Seq(Clients),
         NoTwice(chosen),
         Elements(chosen) \subseteq Elements(c.non_ops) \cup
                                    (IF deop THEN Elements(c.ops) ELSE {})
  PROVE  LET after == Reopped(c, deop, chosen) IN
         /\ Legal(after)
         /\ after.modes = c.modes /\ after.creation = c.creation
         /\ Elements(after.non_ops) =
              (Elements(c.non_ops) \cup (IF deop THEN Elements(c.ops) ELSE {}))
                \ Elements(chosen)
         /\ Elements(after.ops) =
              (IF deop THEN {} ELSE Elements(c.ops)) \cup Elements(chosen)
         /\ Len(after.ops) = Len(chosen) + (IF deop THEN 0 ELSE Len(c.ops))
<1> DEFINE none == IF deop THEN Reverse(c.ops) \o c.non_ops ELSE c.non_ops
           some == IF deop THEN <<>> ELSE c.ops
           left == Keep(none, Elements(none) \ Elements(chosen))
           ops == Reverse(chosen) \o some
           after == Reopped(c, deop, chosen)
<1>1. /\ c \in Channels /\ c.non_ops \in Seq(Clients) /\ c.ops \in Seq(Clients)
      /\ NoTwice(c.non_ops) /\ NoTwice(c.ops)
      /\ Elements(c.non_ops) \cap Elements(c.ops) = {}
  BY LegalLists DEF Legal, Channels
<1>2. after = [c EXCEPT !.non_ops = left, !.ops = ops]
  BY <1>1 DEF Reopped, Channels
<1>3. /\ none \in Seq(Clients) /\ NoTwice(none)
      /\ Elements(none) = Elements(c.non_ops) \cup (IF deop THEN Elements(c.ops) ELSE {})
  <2>1. CASE deop
    <3> DEFINE back == Reverse(c.ops)
    <3>1. back \in Seq(Clients) /\ NoTwice(back) /\ Elements(back) = Elements(c.ops)
      BY <1>1, ReverseKeeps
    <3>2. none = back \o c.non_ops
      BY <2>1
    <3> HIDE DEF back, none
    <3>3. /\ back \o c.non_ops \in Seq(Clients)
          /\ Elements(back \o c.non_ops) = Elements(back) \cup Elements(c.non_ops)
          /\ NoTwice(back \o c.non_ops) <=>
               /\ NoTwice(back) /\ NoTwice(c.non_ops)
               /\ Elements(back) \cap Elements(c.non_ops) = {}
      BY <1>1, <3>1, JoinedLists
    <3> QED BY <1>1, <2>1, <3>1, <3>2, <3>3
  <2>2. CASE ~ deop
    BY <1>1, <2>2
  <2> QED BY <2>1, <2>2
<1>4. /\ some \in Seq(Clients) /\ NoTwice(some)
      /\ Elements(some) = IF deop THEN {} ELSE Elements(c.ops)
      /\ Len(some) = IF deop THEN 0 ELSE Len(c.ops)
      /\ Elements(some) \cap Elements(none) = {}
  <2>1. CASE deop
    <3>1. <<>> \in Seq(Clients) /\ Len(<<>>) = 0
      OBVIOUS
    <3>2. Elements(<<>>) = {} /\ NoTwice(<<>>)
      BY DEF Elements, NoTwice
    <3> QED BY <2>1, <3>1, <3>2
  <2>2. CASE ~ deop
    <3> HIDE DEF none
    <3> QED BY <1>1, <1>3, <2>2
  <2> QED BY <2>1, <2>2
<1> HIDE DEF none, some
<1>5. /\ left \in Seq(Clients) /\ NoTwice(left)
      /\ Elements(left) = Elements(none) \ Elements(chosen)
  BY <1>3, KeepKeeps
<1> DEFINE back == Reverse(chosen)
<1>6. /\ back \in Seq(Clients) /\ NoTwice(back) /\ Len(back) = Len(chosen)
      /\ Elements(back) = Elements(chosen)
  BY ReverseKeeps
<1>7. ops = back \o some
  OBVIOUS
<1> HIDE DEF left, ops, back, after
<1>8. /\ ops \in Seq(Clients) /\ NoTwice(ops)
      /\ Elements(ops) = Elements(some) \cup Elements(chosen)
  <2>1. /\ back \o some \in Seq(Clients)
        /\ Elements(back \o some) = Elements(back) \cup Elements(some)
        /\ NoTwice(back \o some) <=>
             /\ NoTwice(back) /\ NoTwice(some) /\ Elements(back) \cap Elements(some) = {}
    BY <1>4, <1>6, JoinedLists
  <2>2. Elements(back) \cap Elements(some) = {}
    BY <1>3, <1>4, <1>6
  <2> QED BY <1>4, <1>6, <1>7, <2>1, <2>2
<1>9. Len(ops) = Len(chosen) + Len(some)
  <2>1. Len(back \o some) = Len(back) + Len(some)
    <3>1. back \in Seq(Clients) /\ some \in Seq(Clients)
      BY <1>4, <1>6
    <3> QED BY <3>1, ConcatProperties
  <2> QED BY <1>6, <1>7, <2>1
<1>10. /\ after.non_ops = left /\ after.ops = ops /\ after.modes = c.modes
       /\ after.creation = c.creation /\ after \in Channels
  BY <1>1, <1>2, <1>5, <1>8 DEF Channels
<1>11. Legal(after)
  <2>1. Elements(left) \cap Elements(ops) = {}
    BY <1>4, <1>5, <1>8
  <2> QED BY <1>5, <1>8, <1>10, <2>1, LegalLists
<1> QED BY <1>3, <1>4, <1>5, <1>8, <1>9, <1>10, <1>11 DEF after
-----------------------------------------------------------------------------
(* A fix under way has not yet made as many passes as there are users.     *)
Fixes == [fixing : BOOLEAN, manual : BOOLEAN, since : 0 .. Horizon,
          passes : 0 .. Max({1, UsersNum})]
Begun(f) == f \in Fixes /\ (f.fixing => f.passes < UsersNum)

(* What is sent gives ops to the best and to no more than wanted, and with *)
(* reop_disable nothing is sent.                                           *)
Fair(r) ==
  /\ \A k \in 1 .. Len(r.sent.ops) :
       /\ r.sent.ops[k] \in DOMAIN board
       /\ \A u \in Elements(r.ch.non_ops) \cap DOMAIN board :
            board[u] <= board[r.sent.ops[k]]
  /\ r.sent.ops # <<>> => Len(r.ch.ops) <= NicksToOp
  /\ "reop_disable" \in conf => r.sent = Silence

(* A fix that has ended was through.                                       *)
Thorough(f, r) ==
  Doit /\ (f.fixing \/ r.sent.joins) /\ ~ r.fix.fixing
    => \/ Len(r.ch.ops) >= NicksToOp
       \/ Elements(r.ch.non_ops) \cap DOMAIN board = {}

(* The outcome r of a step that began with channel c and fix f.            *)
Good(c, f, r) ==
  /\ Legal(r.ch) /\ Begun(r.fix) /\ Fair(r) /\ Thorough(f, r)
  /\ Heard(Seen(c), r.sent) = Seen(r.ch)

LEMMA HorizonIsTime ==
  Horizon \in Nat /\ WaitMin < Horizon /\ TimeBetween < Horizon
BY MaxOfTwo DEF Horizon, ChanfixAssumption

LEMMA PassesAreCounted ==
  ASSUME board \in Boards
  PROVE  /\ Max({1, UsersNum}) \in Nat /\ 1 <= Max({1, UsersNum})
         /\ UsersNum <= Max({1, UsersNum})
BY UsersAreCounted, MaxOfTwo

(* A step that starts no pass.                                             *)
LEMMA NothingIsGood ==
  ASSUME NEW c, Legal(c), NEW f, Begun(f), NEW g, g.fixing = f.fixing \/ g.fixing = FALSE
  PROVE  Good(c, g, Nothing(c, f))
<1> DEFINE r == Nothing(c, f)
<1>1. r.ch = c /\ r.fix = f /\ r.sent = Silence
  BY DEF Nothing
<1>2. Silence.ops = <<>> /\ Silence.joins = FALSE
  BY DEF Silence
<1>3. Fair(r)
  <2>1. Len(<<>>) = 0 /\ 1 .. 0 = {}
    OBVIOUS
  <2> QED BY <1>1, <1>2, <2>1 DEF Fair
<1>4. Heard(Seen(c), Silence) = Seen(c)
  BY <1>2 DEF Heard
<1> HIDE DEF r
<1>5. Thorough(g, r)
  BY <1>1, <1>2 DEF Thorough
<1> QED BY <1>1, <1>3, <1>4, <1>5 DEF Good, r

(* The fix that a pass begins, restarts or continues.                      *)
LEMMA CountedIsFix ==
  ASSUME board \in Boards, NEW f, Begun(f), NEW byOper \in BOOLEAN
  PROVE  /\ Counted(f, byOper) \in Fixes
         /\ Counted(f, byOper).fixing = TRUE
         /\ Counted(f, byOper).passes >= 1
<1>1. /\ f \in Fixes /\ f.fixing \in BOOLEAN /\ f.passes \in Nat
      /\ f.fixing => f.passes < UsersNum
  BY DEF Begun, Fixes
<1>2. UsersNum \in Nat
  BY UsersAreCounted
<1> DEFINE top == Max({1, UsersNum})
<1>3. top \in Nat /\ 1 <= top /\ UsersNum <= top
  BY PassesAreCounted
<1>4. 0 \in 0 .. Horizon
  BY HorizonIsTime
<1>5. Fixes = [fixing : BOOLEAN, manual : BOOLEAN, since : 0 .. Horizon, passes : 0 .. top]
  BY DEF Fixes
<1> HIDE DEF top
<1>6. CASE byOper \/ ~ f.fixing
  <2>1. Counted(f, byOper) = [fixing |-> TRUE, manual |-> byOper, since |-> 0, passes |-> 1]
    BY <1>6 DEF Counted
  <2> QED BY <1>3, <1>4, <1>5, <2>1
<1>7. CASE ~ (byOper \/ ~ f.fixing)
  <2>1. Counted(f, byOper) = [f EXCEPT !.passes = f.passes + 1]
    BY <1>7 DEF Counted
  <2>2. f.passes + 1 \in 0 .. top /\ f.passes + 1 >= 1
    BY <1>1, <1>2, <1>3, <1>7
  <2> QED BY <1>1, <1>5, <1>7, <2>1, <2>2
<1> QED BY <1>6, <1>7

(* A pass (_chanfix_channel_reop) on any channel, in any state of its fix. *)
LEMMA PassIsGood ==
  ASSUME board \in Boards, conf \in Confs, NEW c, Legal(c), NEW f, Begun(f),
         NEW deop \in BOOLEAN
  PROVE  Good(c, f, Reop(c, f, deop))
<1> DEFINE counted == Counted(f, deop)
           reach == UsersPerPass(counted.since) * counted.passes
           least == ScoreNeeded(SortedChain, board, reach)
           room == Room(c, deop)
           line == IF deop THEN c.non_ops \o c.ops ELSE c.non_ops
           chosen == Best(line, least, room)
           last == LastPass(least, chosen, room)
           modes == IF Doit /\ (~ last \/ chosen = <<>>) THEN Opened ELSE c.modes
           lowers == deop /\ c.creation > 1
           ts == IF lowers THEN c.creation - 1 ELSE c.creation
           done == IF last THEN [counted EXCEPT !.fixing = FALSE, !.since = 0] ELSE counted
           clears == IF modes # c.modes /\ ~ lowers
                     THEN ChanModes \ (modes \cap {"moderated"}) ELSE {}
           deops == IF deop /\ ~ lowers THEN Elements(c.ops) ELSE {}
           message == [joins |-> TRUE, ts |-> ts, modes |-> modes, ops |-> chosen,
                       clears |-> clears, deops |-> deops]
           opened == [c EXCEPT !.modes = modes, !.creation = ts]
           after == Reopped(opened, deop, chosen)
           r == Reop(c, f, deop)
<1> SUFFICES Good(c, f, r)
  OBVIOUS
<1>1. /\ c \in Channels /\ c.non_ops \in Seq(Clients) /\ c.ops \in Seq(Clients)
      /\ c.modes \subseteq ChanModes /\ c.creation \in 1 .. FirstTS
      /\ NoTwice(c.non_ops) /\ NoTwice(c.ops)
      /\ Elements(c.non_ops) \cap Elements(c.ops) = {}
  BY LegalLists DEF Legal, Channels
<1>2. counted \in Fixes /\ counted.fixing = TRUE /\ counted.passes >= 1
  BY CountedIsFix
<1>3. UsersNum \in Nat /\ counted.since \in Int /\ counted.passes \in Nat
  <2>1. counted.since \in 0 .. Horizon /\ counted.passes \in 0 .. Max({1, UsersNum})
    <3> HIDE DEF counted
    <3> QED BY <1>2 DEF Fixes
  <2>2. Horizon \in Nat /\ Max({1, UsersNum}) \in Nat
    BY HorizonIsTime, PassesAreCounted
  <2> HIDE DEF counted
  <2> QED BY <2>1, <2>2, UsersAreCounted
<1> HIDE DEF counted
<1>4. reach \in Nat \ {0} /\ reach >= counted.passes
  <2> DEFINE per == UsersPerPass(counted.since)
  <2>1. per \in Nat /\ per >= 1
    BY <1>3, PassReachesOne
  <2> HIDE DEF per
  <2>2. per * counted.passes >= counted.passes /\ per * counted.passes \in Nat
    <3>1. \A a, b \in Nat : a >= 1 => a * b >= b /\ a * b \in Nat
      OBVIOUS
    <3> QED BY <1>3, <2>1, <3>1
  <2> QED BY <1>2, <1>3, <2>2 DEF per
<1> HIDE DEF reach
<1>5. least \in Int /\ (reach >= UsersNum => least = 0)
  BY <1>4, Threshold
<1> HIDE DEF least
<1>6. least # 0 => counted.passes < UsersNum
  BY <1>3, <1>4, <1>5
<1>7. room \in Int /\ Len(c.ops) \in Nat /\ room = IF deop THEN NicksToOp ELSE NicksToOp - Len(c.ops)
  BY <1>1, LenProperties DEF Room, ChanfixAssumption
<1> HIDE DEF room
<1>8. r = IF room <= 0
          THEN [ch |-> c, fix |-> [counted EXCEPT !.fixing = FALSE], sent |-> Silence]
          ELSE IF Acts(c, deop, modes, chosen)
          THEN [ch |-> after, fix |-> done, sent |-> message]
          ELSE [ch |-> c, fix |-> done, sent |-> Silence]
  BY DEF Reop, counted, reach, least, room
<1>9. /\ line \in Seq(Clients) /\ NoTwice(line)
      /\ Elements(line) = Elements(c.non_ops) \cup (IF deop THEN Elements(c.ops) ELSE {})
  BY <1>1, JoinedLists
<1> HIDE DEF line, r, chosen, last, modes, after, message
<1>10. last <=> (least = 0 \/ Len(chosen) = room)
  BY DEF LastPass, last
<1>11. Silence.ops = <<>> /\ Silence.joins = FALSE /\ Len(<<>>) = 0
  BY DEF Silence
<1>12. CASE room <= 0
  <2>1. r = [ch |-> c, fix |-> [counted EXCEPT !.fixing = FALSE], sent |-> Silence]
    <3> HIDE DEF done
    <3> QED BY <1>8, <1>12
  <2>2. ~ deop
    BY <1>7, <1>12 DEF ChanfixAssumption
  <2>3. Len(c.ops) >= NicksToOp
    BY <1>7, <1>12, <2>2 DEF ChanfixAssumption
  <2>4. Begun(r.fix)
    BY <1>2, <2>1 DEF Begun, Fixes
  <2>5. Fair(r)
    BY <1>11, <2>1 DEF Fair
  <2>6. Thorough(f, r)
    BY <2>1, <2>3 DEF Thorough
  <2>7. Heard(Seen(c), r.sent) = Seen(r.ch)
    BY <1>11, <2>1 DEF Heard
  <2>8. Legal(r.ch)
    BY <2>1
  <2> QED BY <2>4, <2>5, <2>6, <2>7, <2>8 DEF Good
<1>13. CASE room > 0
  <2>1. /\ chosen \in Seq(Clients) /\ NoTwice(chosen) /\ Len(chosen) <= room
        /\ Elements(chosen) \subseteq Elements(line) \cap DOMAIN board
        /\ \A k \in 1 .. Len(chosen) :
             \A u \in Elements(line) \cap DOMAIN board :
               u \notin Elements(chosen) => board[u] <= board[chosen[k]]
        /\ least = 0 /\ Len(chosen) # room
             => Elements(line) \cap DOMAIN board \subseteq Elements(chosen)
    <3>1. room \in Nat
      BY <1>7, <1>13
    <3> QED BY <1>5, <1>9, <3>1, BestAreBest DEF chosen
  <2>2. Begun(done)
    <3>1. CASE last
      <4> DEFINE top == Max({1, UsersNum})
      <4>1. Fixes = [fixing : BOOLEAN, manual : BOOLEAN, since : 0 .. Horizon, passes : 0 .. top]
        BY DEF Fixes
      <4>2. 0 \in 0 .. Horizon
        BY HorizonIsTime
      <4>3. done = [counted EXCEPT !.fixing = FALSE, !.since = 0]
        BY <3>1
      <4> HIDE DEF top, done
      <4>4. done \in Fixes /\ done.fixing = FALSE
        BY <1>2, <4>1, <4>2, <4>3
      <4> QED BY <4>4 DEF Begun
    <3>2. CASE ~ last
      BY <1>2, <1>6, <1>10, <3>2 DEF Begun
    <3> QED BY <3>1, <3>2
  <2>3. done.fixing = FALSE <=> last
    BY <1>2 DEF Fixes
  <2> HIDE DEF done
  <2>4. modes \subseteq ChanModes /\ (modes # c.modes => modes \subseteq {"moderated"})
    BY <1>1 DEF modes, Opened, ChanModes
  <2>5. ts \in 1 .. FirstTS
    BY <1>1 DEF ChanfixAssumption
  <2>6. CASE Acts(c, deop, modes, chosen)
    <3>1. r = [ch |-> after, fix |-> done, sent |-> message]
      BY <1>7, <1>8, <1>13, <2>6
    <3>2. opened \in Channels /\ opened.non_ops = c.non_ops /\ opened.ops = c.ops
          /\ opened.modes = modes /\ opened.creation = ts
      <4> HIDE DEF ts
      <4> QED BY <1>1, <2>4, <2>5 DEF Channels
    <3> HIDE DEF opened, ts, clears, deops
    <3>3. Legal(opened)
      BY <3>2, <1>1, LegalLists
    <3>4. /\ Legal(after) /\ after.modes = modes /\ after.creation = ts
          /\ Elements(after.non_ops) = Elements(line) \ Elements(chosen)
          /\ Elements(after.ops) = (IF deop THEN {} ELSE Elements(c.ops)) \cup Elements(chosen)
          /\ Len(after.ops) = Len(chosen) + (IF deop THEN 0 ELSE Len(c.ops))
      <4>1. Elements(chosen) \subseteq Elements(opened.non_ops) \cup
                                        (IF deop THEN Elements(opened.ops) ELSE {})
        BY <1>9, <2>1, <3>2
      <4>2. /\ Legal(after) /\ after.modes = opened.modes
            /\ after.creation = opened.creation
            /\ Elements(after.non_ops) =
                 (Elements(opened.non_ops) \cup (IF deop THEN Elements(opened.ops) ELSE {}))
                   \ Elements(chosen)
            /\ Elements(after.ops) =
                 (IF deop THEN {} ELSE Elements(opened.ops)) \cup Elements(chosen)
            /\ Len(after.ops) = Len(chosen) + (IF deop THEN 0 ELSE Len(opened.ops))
        BY <2>1, <3>3, <4>1, ReoppedLists DEF after
      <4> QED BY <1>9, <3>2, <4>2
    <3>5. Len(chosen) \in Nat
      BY <2>1, LenProperties
    <3>6. /\ r.ch = after /\ r.fix = done /\ r.sent = message
          /\ r.sent.ops = chosen /\ r.sent.joins = TRUE
      BY <3>1 DEF message
    <3>7. Fair(r)
      <4>1. ASSUME NEW k \in 1 .. Len(chosen)
            PROVE  /\ chosen[k] \in DOMAIN board
                   /\ \A u \in Elements(after.non_ops) \cap DOMAIN board :
                        board[u] <= board[chosen[k]]
        <5>1. chosen[k] \in Elements(chosen)
          BY DEF Elements
        <5> QED BY <2>1, <3>4, <5>1
      <4>2. Len(after.ops) <= NicksToOp
        BY <1>7, <2>1, <3>4, <3>5 DEF ChanfixAssumption
      <4>3. ~ "reop_disable" \in conf
        BY <2>6 DEF Acts, Doit
      <4> QED BY <3>6, <4>1, <4>2, <4>3 DEF Fair
    <3>8. Thorough(f, r)
      <4>1. ASSUME last
            PROVE  Len(after.ops) >= NicksToOp \/ Elements(after.non_ops) \cap DOMAIN board = {}
        <5>1. CASE Len(chosen) = room
          BY <1>7, <3>4, <3>5, <5>1 DEF ChanfixAssumption
        <5>2. CASE Len(chosen) # room
          BY <1>10, <2>1, <3>4, <4>1, <5>2
        <5> QED BY <5>1, <5>2
      <4> QED BY <2>3, <3>6, <4>1 DEF Thorough
    <3>9. Heard(Seen(c), r.sent) = Seen(r.ch)
      <4> DEFINE n == Seen(c)
                 before == IF ts < c.creation
                           THEN [ops |-> {}, modes |-> modes, creation |-> ts]
                           ELSE [ops |-> Elements(c.ops), modes |-> c.modes \cup modes,
                                 creation |-> c.creation]
      <4>1. n.ops = Elements(c.ops) /\ n.modes = c.modes /\ n.creation = c.creation
        BY DEF Seen
      <4>2. message.joins = TRUE /\ message.ts = ts /\ message.modes = modes
            /\ message.ops = chosen /\ message.clears = clears /\ message.deops = deops
        BY DEF message
      <4>3. [n EXCEPT !.modes = n.modes \cup modes] =
              [ops |-> Elements(c.ops), modes |-> c.modes \cup modes, creation |-> c.creation]
        <5>1. n = [ops |-> Elements(c.ops), modes |-> c.modes, creation |-> c.creation]
          BY DEF Seen
        <5>2. \A o, m, t, x : [[ops |-> o, modes |-> m, creation |-> t] EXCEPT !.modes = x]
                                = [ops |-> o, modes |-> x, creation |-> t]
          OBVIOUS
        <5>3. n.modes = c.modes
          BY <4>1
        <5> HIDE DEF n
        <5>4. [[ops |-> Elements(c.ops), modes |-> c.modes, creation |-> c.creation]
                 EXCEPT !.modes = c.modes \cup modes] =
                [ops |-> Elements(c.ops), modes |-> c.modes \cup modes, creation |-> c.creation]
          BY <5>2
        <5> QED BY <5>1, <5>3, <5>4, Zenon
      <4>8. \A o, m, t, x, y :
              [[ops |-> o, modes |-> m, creation |-> t] EXCEPT !.modes = x, !.ops = y]
                = [ops |-> y, modes |-> x, creation |-> t]
        <5> TAKE o, m, t, x, y
        <5> DEFINE rec == [ops |-> o, modes |-> m, creation |-> t]
                   mid == [rec EXCEPT !.modes = x]
        <5>1. mid = [ops |-> o, modes |-> x, creation |-> t]
          OBVIOUS
        <5>2. [rec EXCEPT !.modes = x, !.ops = y] = [mid EXCEPT !.ops = y]
          OBVIOUS
        <5> HIDE DEF mid
        <5>3. [mid EXCEPT !.ops = y] = [ops |-> y, modes |-> x, creation |-> t]
          BY <5>1
        <5> QED BY <5>2, <5>3
      <4> HIDE DEF n
      <4>4. Heard(n, message) =
              [before EXCEPT !.modes = before.modes \ clears,
                             !.ops = (before.ops \ deops) \cup Elements(chosen)]
        BY <4>1, <4>2, <4>3 DEF Heard
      <4>5. Seen(after) = [ops |-> (IF deop THEN {} ELSE Elements(c.ops)) \cup Elements(chosen),
                           modes |-> modes, creation |-> ts]
        BY <3>4 DEF Seen
      <4>6. CASE lowers
        <5>1. ts < c.creation /\ deop /\ clears = {} /\ deops = {}
          BY <1>1, <4>6 DEF ts, clears, deops, ChanfixAssumption
        <5>2. before = [ops |-> {}, modes |-> modes, creation |-> ts]
          BY <5>1
        <5> HIDE DEF before
        <5>3. Heard(n, message) = [ops |-> Elements(chosen), modes |-> modes, creation |-> ts]
          <6>1. /\ before.ops = {} /\ before.modes = modes
                /\ before.modes \ clears = modes
                /\ (before.ops \ deops) \cup Elements(chosen) = Elements(chosen)
            BY <5>1, <5>2
          <6> QED BY <4>4, <4>8, <5>2, <6>1
        <5> QED BY <3>6, <4>5, <5>1, <5>3 DEF n
      <4>7. CASE ~ lowers
        <5>1. /\ ts = c.creation /\ ~ ts < c.creation
              /\ deops = (IF deop THEN Elements(c.ops) ELSE {})
              /\ clears = IF modes # c.modes THEN ChanModes \ (modes \cap {"moderated"}) ELSE {}
          BY <1>1, <4>7 DEF ts, clears, deops
        <5>2. before = [ops |-> Elements(c.ops), modes |-> c.modes \cup modes,
                        creation |-> ts]
          BY <5>1
        <5> HIDE DEF before
        <5>3. Heard(n, message) = [ops |-> (Elements(c.ops) \ deops) \cup Elements(chosen),
                                   modes |-> (c.modes \cup modes) \ clears, creation |-> ts]
          <6>1. before.ops = Elements(c.ops) /\ before.modes = c.modes \cup modes
            BY <5>2
          <6> QED BY <4>4, <4>8, <5>2, <6>1
        <5>4. (c.modes \cup modes) \ clears = modes
          BY <1>1, <2>4, <5>1
        <5>5. Elements(c.ops) \ deops = IF deop THEN {} ELSE Elements(c.ops)
          BY <5>1
        <5> QED BY <3>6, <4>5, <5>3, <5>4, <5>5 DEF n
      <4> QED BY <4>6, <4>7
    <3>10. Legal(r.ch) /\ Begun(r.fix)
      BY <2>2, <3>4, <3>6
    <3> QED BY <3>7, <3>8, <3>9, <3>10 DEF Good
  <2>7. CASE ~ Acts(c, deop, modes, chosen)
    <3>1. r = [ch |-> c, fix |-> done, sent |-> Silence]
      BY <1>7, <1>8, <1>13, <2>7
    <3>2. Fair(r)
      BY <1>11, <3>1 DEF Fair
    <3>3. Heard(Seen(c), r.sent) = Seen(r.ch)
      BY <1>11, <3>1 DEF Heard
    <3>4. ASSUME Doit, last PROVE Elements(c.non_ops) \cap DOMAIN board = {}
      <4>1. chosen = <<>>
        BY <2>7, <3>4 DEF Acts
      <4>2. Elements(chosen) = {} /\ Len(chosen) = 0
        BY <1>11, <4>1 DEF Elements
      <4>3. least = 0 /\ Len(chosen) # room
        BY <1>10, <1>13, <1>7, <3>4, <4>2
      <4> QED BY <1>9, <2>1, <4>2, <4>3
    <3>5. Thorough(f, r)
      BY <2>3, <3>1, <3>4 DEF Thorough
    <3>6. Legal(r.ch) /\ Begun(r.fix)
      BY <2>2, <3>1
    <3> QED BY <3>2, <3>3, <3>5, <3>6 DEF Good
  <2> QED BY <2>6, <2>7
<1>14. room <= 0 \/ room > 0
  BY <1>7
<1> QED BY <1>12, <1>13, <1>14

(* Whatever _chanfix_automatic_reop decides.                               *)
LEMMA AutoReopIsGood ==
  ASSUME board \in Boards, conf \in Confs, NEW c, Legal(c), NEW f, Begun(f)
  PROVE  Good(c, f, AutoReop(c, f))
<1>1. Good(c, f, Nothing(c, f))
  BY NothingIsGood
<1>2. Good(c, f, Reop(c, f, FALSE))
  BY PassIsGood
<1> QED BY <1>1, <1>2 DEF AutoReop
-----------------------------------------------------------------------------
(* The inductive invariant: the types, the two facts about fixes and lists *)
(* that a pass relies on, and what it leaves.                              *)
IInv ==
  /\ conf \in Confs /\ board \in Boards
  /\ Legal(ch) /\ Begun(fix)
  /\ checks \in 0 .. ChecksNeeded /\ enabled \in BOOLEAN /\ due \in BOOLEAN
  /\ NetworkAgrees /\ BestFirst /\ NoSurplus /\ OnlyLogs

(* What FixIsThorough asks of a step.                                      *)
Through ==
  Doit /\ (fix.fixing \/ sent'.joins) /\ ~ fix'.fixing
    => \/ Len(ch'.ops) >= NicksToOp
       \/ Elements(ch'.non_ops) \cap DOMAIN board = {}

LEMMA NewChannelIsLegal ==
  /\ Legal(NewChannel) /\ NewChannel.ops = <<>> /\ NewChannel.non_ops = <<>>
  /\ Elements(<<>>) = {}
<1> DEFINE e == <<>>
<1>1. e \in Seq(Clients) /\ Len(e) = 0
  OBVIOUS
<1>2. NewChannel = [non_ops |-> e, ops |-> e, modes |-> {}, creation |-> FirstTS]
  BY DEF NewChannel
<1>3. FirstTS \in 1 .. FirstTS
  BY DEF ChanfixAssumption
<1> HIDE DEF e
<1>4. NewChannel \in Channels
  BY <1>1, <1>2, <1>3 DEF Channels
<1>5. Elements(e) = {} /\ NoTwice(e)
  BY <1>1 DEF Elements, NoTwice
<1>6. NewChannel.ops = e /\ NewChannel.non_ops = e
  BY <1>2
<1>7. Legal(NewChannel)
  BY <1>4, <1>5, <1>6, LegalLists
<1> QED BY <1>5, <1>6, <1>7 DEF e

(* A step whose outcome is r.                                              *)
LEMMA OutcomeHolds ==
  ASSUME NEW r, conf \in Confs, board \in Boards,
         Legal(r.ch), Begun(r.fix), Fair(r), Thorough(fix, r),
         ch' = r.ch, fix' = r.fix, sent' = r.sent, net' = Seen(r.ch),
         UNCHANGED <<conf, board>>,
         checks' \in 0 .. ChecksNeeded, enabled' \in BOOLEAN, due' \in BOOLEAN
  PROVE  IInv' /\ Through
<1>1. Legal(ch') /\ Begun(fix)' /\ NetworkAgrees'
  BY DEF Begun, Fixes, UsersNum, NetworkAgrees
<1>2. BestFirst' /\ NoSurplus' /\ OnlyLogs'
  BY DEF Fair, BestFirst, NoSurplus, OnlyLogs
<1>3. Through
  BY DEF Thorough, Through
<1> QED BY <1>1, <1>2, <1>3 DEF IInv

LEMMA InitHolds == Init => IInv
<1> SUFFICES ASSUME Init PROVE IInv
  OBVIOUS
<1>1. Legal(ch)
  BY NewChannelIsLegal DEF Init
<1>2. Begun(fix)
  <2> DEFINE top == Max({1, UsersNum})
  <2>1. top \in Nat /\ Horizon \in Nat
    BY PassesAreCounted, HorizonIsTime DEF Init
  <2>2. Fixes = [fixing : BOOLEAN, manual : BOOLEAN, since : 0 .. Horizon, passes : 0 .. top]
    BY DEF Fixes
  <2> HIDE DEF top
  <2> QED BY <2>1, <2>2 DEF Init, Begun
<1>3. NetworkAgrees /\ BestFirst /\ NoSurplus /\ OnlyLogs
  <2>1. Silence.ops = <<>> /\ Len(<<>>) = 0 /\ 1 .. 0 = {}
    BY DEF Silence
  <2> QED BY <2>1 DEF Init, NetworkAgrees, BestFirst, NoSurplus, OnlyLogs
<1>4. checks \in 0 .. ChecksNeeded /\ enabled \in BOOLEAN /\ due \in BOOLEAN
  <2>1. ChecksNeeded \in Nat
    BY DEF ChanfixAssumption
  <2>2. 0 \in 0 .. ChecksNeeded
    BY <2>1
  <2> QED BY <2>2 DEF Init
<1> QED BY <1>1, <1>2, <1>3, <1>4 DEF Init, IInv

(* The lists after a client has come, gone, been opped or deopped.         *)
LEMMA JoinedIsLegal ==
  ASSUME NEW c, Legal(c), NEW u \in Clients, u \notin Members(c)
  PROVE  /\ Legal([c EXCEPT !.ops = <<u>> \o @])
         /\ Legal([c EXCEPT !.non_ops = <<u>> \o @])
<1>1. /\ c \in Channels /\ c.non_ops \in Seq(Clients) /\ c.ops \in Seq(Clients)
      /\ NoTwice(c.non_ops) /\ NoTwice(c.ops)
      /\ Elements(c.non_ops) \cap Elements(c.ops) = {}
      /\ u \notin Elements(c.non_ops) /\ u \notin Elements(c.ops)
  BY LegalLists DEF Legal, Channels, Members
<1> DEFINE first == <<u>> \o c.ops
           second == <<u>> \o c.non_ops
<1>2. /\ first \in Seq(Clients) /\ NoTwice(first)
      /\ Elements(first) = {u} \cup Elements(c.ops)
  BY <1>1, HeadAdds
<1>3. /\ second \in Seq(Clients) /\ NoTwice(second)
      /\ Elements(second) = {u} \cup Elements(c.non_ops)
  BY <1>1, HeadAdds
<1>4. [c EXCEPT !.ops = <<u>> \o @] = [c EXCEPT !.ops = first]
      /\ [c EXCEPT !.non_ops = <<u>> \o @] = [c EXCEPT !.non_ops = second]
  OBVIOUS
<1> HIDE DEF first, second
<1> DEFINE d == [c EXCEPT !.ops = first]
           e == [c EXCEPT !.non_ops = second]
<1>5. d \in Channels /\ d.ops = first /\ d.non_ops = c.non_ops
  BY <1>1, <1>2 DEF Channels
<1>6. e \in Channels /\ e.ops = c.ops /\ e.non_ops = second
  BY <1>1, <1>3 DEF Channels
<1> HIDE DEF d, e
<1>7. Legal(d)
  BY <1>1, <1>2, <1>5, LegalLists
<1>8. Legal(e)
  BY <1>1, <1>3, <1>6, LegalLists
<1> QED BY <1>4, <1>7, <1>8 DEF d, e

LEMMA OppedIsLegal ==
  ASSUME NEW c, Legal(c), NEW u \in Clients
  PROVE  /\ u \in Elements(c.non_ops) =>
              Legal([c EXCEPT !.non_ops = Without(u, @), !.ops = <<u>> \o @])
         /\ u \in Elements(c.ops) =>
              Legal([c EXCEPT !.ops = Without(u, @), !.non_ops = <<u>> \o @])
         /\ Legal([c EXCEPT !.ops = Without(u, @), !.non_ops = Without(u, @)])
<1>1. /\ c \in Channels /\ c.non_ops \in Seq(Clients) /\ c.ops \in Seq(Clients)
      /\ NoTwice(c.non_ops) /\ NoTwice(c.ops)
      /\ Elements(c.non_ops) \cap Elements(c.ops) = {}
  BY LegalLists DEF Legal, Channels
<1> DEFINE fewerNon == Without(u, c.non_ops)
           fewerOps == Without(u, c.ops)
           moreNon == <<u>> \o c.non_ops
           moreOps == <<u>> \o c.ops
<1>2. /\ fewerNon \in Seq(Clients) /\ NoTwice(fewerNon)
      /\ Elements(fewerNon) = Elements(c.non_ops) \ {u}
  BY <1>1, WithoutKeeps
<1>3. /\ fewerOps \in Seq(Clients) /\ NoTwice(fewerOps)
      /\ Elements(fewerOps) = Elements(c.ops) \ {u}
  BY <1>1, WithoutKeeps
<1>4. /\ moreNon \in Seq(Clients) /\ Elements(moreNon) = {u} \cup Elements(c.non_ops)
      /\ u \in Elements(c.ops) => NoTwice(moreNon)
  BY <1>1, HeadAdds
<1>5. /\ moreOps \in Seq(Clients) /\ Elements(moreOps) = {u} \cup Elements(c.ops)
      /\ u \in Elements(c.non_ops) => NoTwice(moreOps)
  BY <1>1, HeadAdds
<1> DEFINE opped == [c EXCEPT !.non_ops = fewerNon, !.ops = moreOps]
           deopped == [c EXCEPT !.ops = fewerOps, !.non_ops = moreNon]
           left == [c EXCEPT !.ops = fewerOps, !.non_ops = fewerNon]
<1>6. /\ [c EXCEPT !.non_ops = Without(u, @), !.ops = <<u>> \o @] = opped
      /\ [c EXCEPT !.ops = Without(u, @), !.non_ops = <<u>> \o @] = deopped
      /\ [c EXCEPT !.ops = Without(u, @), !.non_ops = Without(u, @)] = left
  BY <1>1 DEF Channels
<1> HIDE DEF fewerNon, fewerOps, moreNon, moreOps
<1>7. opped \in Channels /\ opped.non_ops = fewerNon /\ opped.ops = moreOps
  BY <1>1, <1>2, <1>5 DEF Channels
<1>8. deopped \in Channels /\ deopped.non_ops = moreNon /\ deopped.ops = fewerOps
  BY <1>1, <1>3, <1>4 DEF Channels
<1>9. left \in Channels /\ left.non_ops = fewerNon /\ left.ops = fewerOps
  BY <1>1, <1>2, <1>3 DEF Channels
<1> HIDE DEF opped, deopped, left
<1>10. u \in Elements(c.non_ops) => Legal(opped)
  BY <1>1, <1>2, <1>5, <1>7, LegalLists
<1>11. u \in Elements(c.ops) => Legal(deopped)
  BY <1>1, <1>3, <1>4, <1>8, LegalLists
<1>12. Legal(left)
  BY <1>1, <1>2, <1>3, <1>9, LegalLists
<1> QED BY <1>6, <1>10, <1>11, <1>12
-----------------------------------------------------------------------------
(* Every step keeps the invariant, and ends no fix that is not through.    *)
LEMMA StepHolds ==
  ASSUME IInv, Next
  PROVE  IInv' /\ Through
<1>1. /\ conf \in Confs /\ board \in Boards /\ Legal(ch) /\ Begun(fix)
      /\ checks \in 0 .. ChecksNeeded /\ enabled \in BOOLEAN /\ due \in BOOLEAN
      /\ net = Seen(ch)
  BY DEF IInv, NetworkAgrees
<1>2. fix \in Fixes /\ ChecksNeeded \in Nat
  BY <1>1 DEF Begun, ChanfixAssumption
<1>3. Good(ch, fix, Nothing(ch, fix)) /\ Good(ch, fix, AutoReop(ch, fix))
  BY <1>1, NothingIsGood, AutoReopIsGood
<1>4. ASSUME NEW c, NEW r, Good(c, fix, r), Becomes(r, Seen(c)), UNCHANGED <<conf, board>>,
             checks' \in 0 .. ChecksNeeded, enabled' \in BOOLEAN, due' \in BOOLEAN
      PROVE  IInv' /\ Through
  <2>1. /\ ch' = r.ch /\ fix' = r.fix /\ sent' = r.sent /\ net' = Seen(r.ch)
        /\ Legal(r.ch) /\ Begun(r.fix) /\ Fair(r) /\ Thorough(fix, r)
    BY <1>4 DEF Becomes, Good
  <2> QED BY <1>1, <1>4, <2>1, OutcomeHolds
<1>5. CASE Tick
  <2> DEFINE f == [fix EXCEPT !.since = Min({@ + 1, Horizon})]
  <2>1. PICK r : r = Nothing(ch, f)
    OBVIOUS
  <2>2. Begun(f) /\ f.fixing = fix.fixing
    <3> DEFINE top == Max({1, UsersNum})
               later == Min({fix.since + 1, Horizon})
    <3>1. Fixes = [fixing : BOOLEAN, manual : BOOLEAN, since : 0 .. Horizon, passes : 0 .. top]
      BY DEF Fixes
    <3>2. f = [fix EXCEPT !.since = later]
      BY <1>2 DEF Fixes
    <3>3. fix.since \in 0 .. Horizon
      BY <1>2 DEF Fixes
    <3>4. later \in 0 .. Horizon
      BY <3>3, HorizonIsTime, MinOfTwo
    <3> HIDE DEF top, later, f
    <3>5. f \in Fixes /\ f.fixing = fix.fixing /\ f.passes = fix.passes
      BY <1>2, <3>1, <3>2, <3>4
    <3> QED BY <1>1, <3>5 DEF Begun
  <2>3. Good(ch, fix, r)
    <3> HIDE DEF f
    <3> QED BY <1>1, <2>1, <2>2, NothingIsGood
  <2>4. Becomes(r, Seen(ch))
    BY <1>1, <1>5, <2>1 DEF Tick
  <2> QED BY <1>1, <1>4, <1>5, <2>3, <2>4 DEF Tick
<1>6. CASE Check
  <2>1. PICK r : r = IF enabled /\ Enough(ch) /\ (ch.ops = <<>> \/ fix.fixing)
                     THEN AutoReop(ch, fix) ELSE Nothing(ch, fix)
    OBVIOUS
  <2>2. Good(ch, fix, r)
    BY <1>3, <2>1
  <2>3. Becomes(r, Seen(ch)) /\ due' \in BOOLEAN
    BY <1>1, <1>6, <2>1 DEF Check
  <2>4. checks' \in 0 .. ChecksNeeded
    <3>1. checks' = Min({checks + 1, ChecksNeeded}) \/ checks' = checks
      BY <1>6 DEF Check
    <3>2. Min({checks + 1, ChecksNeeded}) \in 0 .. ChecksNeeded
      BY <1>1, <1>2, MinOfTwo
    <3> QED BY <1>1, <3>1, <3>2
  <2> QED BY <1>1, <1>4, <1>6, <2>2, <2>3, <2>4 DEF Check
<1>7. CASE Servers
  <2>1. PICK r : r = Nothing(ch, fix)
    OBVIOUS
  <2>2. Becomes(r, Seen(ch)) /\ enabled' \in BOOLEAN
    BY <1>1, <1>7, <2>1 DEF Servers
  <2> QED BY <1>1, <1>3, <1>4, <1>7, <2>1, <2>2 DEF Servers
<1>8. ASSUME NEW override \in BOOLEAN, Manual(override) PROVE IInv' /\ Through
  <2>1. PICK r : r = Reop(ch, fix, TRUE)
    OBVIOUS
  <2>2. Good(ch, fix, r)
    BY <1>1, <2>1, PassIsGood
  <2>3. Becomes(r, Seen(ch))
    BY <1>1, <1>8, <2>1 DEF Manual
  <2> QED BY <1>1, <1>4, <1>8, <2>2, <2>3 DEF Manual
<1>9. ASSUME NEW u \in Clients, NEW op \in BOOLEAN, Join(u, op) PROVE IInv' /\ Through
  <2>1. PICK c : c = IF op THEN [ch EXCEPT !.ops = <<u>> \o @]
                     ELSE [ch EXCEPT !.non_ops = <<u>> \o @]
    OBVIOUS
  <2>2. u \notin Members(ch) /\ Becomes(Nothing(c, fix), Seen(c))
    BY <1>9, <2>1 DEF Join
  <2>3. Legal(c)
    BY <1>1, <2>1, <2>2, JoinedIsLegal
  <2>4. PICK r : r = Nothing(c, fix)
    OBVIOUS
  <2>5. Good(c, fix, r)
    BY <1>1, <2>3, <2>4, NothingIsGood
  <2> QED BY <1>1, <1>4, <1>9, <2>2, <2>4, <2>5 DEF Join
<1>10. ASSUME NEW u \in Clients, Op(u) PROVE IInv' /\ Through
  <2>1. PICK c : c = [ch EXCEPT !.non_ops = Without(u, @), !.ops = <<u>> \o @]
    OBVIOUS
  <2>2. u \in Elements(ch.non_ops) /\ Becomes(Nothing(c, fix), Seen(c))
    BY <1>10, <2>1 DEF Op
  <2>3. Legal(c)
    BY <1>1, <2>1, <2>2, OppedIsLegal
  <2>4. PICK r : r = Nothing(c, fix)
    OBVIOUS
  <2>5. Good(c, fix, r)
    BY <1>1, <2>3, <2>4, NothingIsGood
  <2> QED BY <1>1, <1>4, <1>10, <2>2, <2>4, <2>5 DEF Op
<1>11. ASSUME NEW u \in Clients, Deop(u) PROVE IInv' /\ Through
  <2>1. PICK c : c = [ch EXCEPT !.ops = Without(u, @), !.non_ops = <<u>> \o @]
    OBVIOUS
  <2>2. PICK r : r = IF c.ops = <<>> /\ Enough(ch) THEN AutoReop(c, fix) ELSE Nothing(c, fix)
    OBVIOUS
  <2>3. u \in Elements(ch.ops) /\ Becomes(r, Seen(c))
    BY <1>11, <2>1, <2>2 DEF Deop
  <2>4. Legal(c)
    BY <1>1, <2>1, <2>3, OppedIsLegal
  <2>5. Good(c, fix, r)
    BY <1>1, <2>2, <2>4, NothingIsGood, AutoReopIsGood
  <2> QED BY <1>1, <1>4, <1>11, <2>3, <2>5 DEF Deop
<1>12. ASSUME NEW u \in Clients, NEW split \in BOOLEAN, Leave(u, split)
       PROVE  IInv' /\ Through
  <2>1. PICK c : c = [ch EXCEPT !.ops = Without(u, @), !.non_ops = Without(u, @)]
    OBVIOUS
  <2>2. PICK r : r = IF /\ u \in Elements(ch.ops) /\ c.ops = <<>>
                        /\ ~ split /\ Enough(ch)
                     THEN AutoReop(c, fix) ELSE Nothing(c, fix)
    OBVIOUS
  <2>3. IF Members(c) = {}
        THEN /\ ch' = NewChannel /\ net' = Seen(NewChannel)
             /\ fix' = r.fix /\ sent' = r.sent
        ELSE Becomes(r, Seen(c))
    BY <1>12, <2>1, <2>2 DEF Leave
  <2>4. UNCHANGED <<conf, board, checks, enabled, due>>
    BY <1>12 DEF Leave
  <2>5. Legal(c)
    BY <1>1, <2>1, OppedIsLegal
  <2>6. Good(c, fix, r)
    BY <1>1, <2>2, <2>5, NothingIsGood, AutoReopIsGood
  <2>7. CASE Members(c) = {}
    <3>1. PICK s : s = [ch |-> NewChannel, fix |-> r.fix, sent |-> r.sent]
      OBVIOUS
    <3>2. s.ch = NewChannel /\ s.fix = r.fix /\ s.sent = r.sent
      BY <3>1
    <3>3. Fair(s)
      <4>1. Elements(s.ch.non_ops) = {} /\ Len(s.ch.ops) = 0
        BY <3>2, NewChannelIsLegal
      <4>2. NicksToOp \in Nat
        BY DEF ChanfixAssumption
      <4> QED BY <2>6, <3>2, <4>1, <4>2 DEF Good, Fair
    <3>4. Thorough(fix, s)
      BY <3>2, NewChannelIsLegal DEF Thorough
    <3>5. Legal(s.ch) /\ Begun(s.fix)
      BY <2>6, <3>2, NewChannelIsLegal DEF Good
    <3> QED BY <1>1, <2>3, <2>4, <2>7, <3>2, <3>3, <3>4, <3>5, OutcomeHolds
  <2>8. CASE Members(c) # {}
    BY <1>1, <1>4, <2>3, <2>4, <2>6, <2>8
  <2> QED BY <2>7, <2>8
<1>13. ASSUME NEW modes \in SUBSET ChanModes, SetModes(modes) PROVE IInv' /\ Through
  <2>1. PICK c : c = [ch EXCEPT !.modes = modes]
    OBVIOUS
  <2>2. Becomes(Nothing(c, fix), Seen(c))
    BY <1>13, <2>1 DEF SetModes
  <2>3. Legal(c)
    BY <1>1, <2>1 DEF Legal, Channels
  <2>4. PICK r : r = Nothing(c, fix)
    OBVIOUS
  <2>5. Good(c, fix, r)
    BY <1>1, <2>3, <2>4, NothingIsGood
  <2> QED BY <1>1, <1>4, <1>13, <2>2, <2>4, <2>5 DEF SetModes
<1> QED
  BY <1>5, <1>6, <1>7, <1>8, <1>9, <1>10, <1>11, <1>12, <1>13 DEF Next

LEMMA StutterHolds == IInv /\ UNCHANGED vars => IInv'
BY DEF IInv, vars, Legal, Channels, Begun, Fixes, UsersNum, NetworkAgrees, BestFirst,
       NoSurplus, OnlyLogs

(* The invariant holds always.                                             *)
THEOREM FixInvariance == Spec => []IInv
<1>1. IInv /\ [Next]_vars => IInv'
  BY StepHolds, StutterHolds
<1> QED BY <1>1, InitHolds, PTL DEF Spec

(* The type invariant of the module follows from it.                       *)
LEMMA TypesHold == IInv => TypeOK
<1> SUFFICES ASSUME IInv PROVE TypeOK
  OBVIOUS
<1>1. /\ ch \in Channels /\ NoTwice(ch.non_ops \o ch.ops) /\ fix \in Fixes
      /\ conf \in Confs /\ board \in Boards /\ checks \in 0 .. ChecksNeeded
      /\ enabled \in BOOLEAN /\ due \in BOOLEAN
  BY DEF IInv, Legal, Begun
<1>2. /\ ch.non_ops \in Seq(Clients) /\ ch.ops \in Seq(Clients)
      /\ ch.modes \subseteq ChanModes /\ ch.creation \in 1 .. FirstTS
  BY <1>1 DEF Channels
<1>3. /\ fix.fixing \in BOOLEAN /\ fix.manual \in BOOLEAN
      /\ fix.since \in 0 .. Horizon /\ fix.passes \in 0 .. Max({1, UsersNum})
  BY <1>1 DEF Fixes
<1> QED BY <1>1, <1>2, <1>3 DEF TypeOK

(* After every step, whatever was sent and whoever came and went, the rest *)
(* of the network and the services agree on the ops, the modes and the     *)
(* creation time (do_mode, and the SJOIN of _chanfix_channel_reop).        *)
THEOREM NetworkAlwaysAgrees == Spec => []NetworkAgrees
<1>1. IInv => NetworkAgrees
  BY DEF IInv
<1> QED BY <1>1, FixInvariance, PTL

(* Ops go to the users with the best scores and to no more of them than    *)
(* are wanted, and with reop_disable nothing is done, for any scores and   *)
(* any configuration (_chanfix_channel_reop, _chanfix_get_scores).         *)
THEOREM PassesAreFair == Spec => []PassIsFair
<1>1. IInv => PassIsFair
  BY TypesHold DEF IInv, PassIsFair
<1> QED BY <1>1, FixInvariance, PTL

(* A fix ends only with enough ops on the channel or nobody left to op     *)
(* (the last pass of _chanfix_channel_reop).                               *)
THEOREM FixesAreThorough == Spec => FixIsThorough
<1>1. IInv /\ [Next]_vars =>
        [Doit /\ (fix.fixing \/ sent'.joins) /\ ~ fix'.fixing
           => \/ Len(ch'.ops) >= NicksToOp
              \/ Elements(ch'.non_ops) \cap DOMAIN board = {}]_vars
  BY StepHolds DEF Through
<1> QED BY <1>1, FixInvariance, PTL DEF Spec, FixIsThorough
=============================================================================
