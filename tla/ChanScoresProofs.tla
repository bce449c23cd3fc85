--------------------------- MODULE ChanScoresProofs ---------------------------
(***************************************************************************)
(* Proofs about ChanScores for every number of channels, users and days,   *)
(* any roll frequency and any number of crashes, between the updates of    *)
(* records and inside them: the score chains are well formed, and in order *)
(* where no crash came between a change of a total and its sort.           *)
(*                                                                         *)
(* SortedOK is not inductive alone: that a bump leaves at most one record  *)
(* out of place needs the chain to hold each record once, and that         *)
(* chanfixdb_chanuser_create may push a user in front needs the chain to   *)
(* hold no more than the hash table does, and no total below 0.            *)
(*                                                                         *)
(* On top of that the records are right (RecordsAreSound), and every step  *)
(* is a step of the score board or none (BoardIsImplemented).              *)
(***************************************************************************)
EXTENDS ChanScores, DataProofs

(* The chain s of a channel with records T and count n, in any order.      *)
Linked(s, T, n) ==
  /\ s \in Seq(Users)
  /\ NoTwice(s)
  /\ Elements(s) = T
  /\ n = Len(s)

(* Ops left to count belong to a channel.                                  *)
CurOK == (\E u \in Users : visits[u] > 0) => cur \in Chans

IInv ==
  /\ TypeOK
  /\ CurOK
  /\ \A c \in Chans : Linked(sorted[c], table[c], users_num[c])
  /\ SortedOK

-----------------------------------------------------------------------------
(* A new total for one record leaves the others in order.                  *)
LEMMA BumpLeavesOne ==
  ASSUME NEW s \in Seq(Users), NEW t \in [Users -> Int], NEW t2 \in [Users -> Int],
         NEW i \in 1 .. Len(s), Ascending(s, t), NoTwice(s),
         \A x \in Users : x # s[i] => t2[x] = t[x]
  PROVE  AscendingBut(s, t2, i)
<1>1. \A k \in 1 .. Len(s) : s[k] \in Users
  BY ElementOfSeq
<1>2. \A k \in 1 .. Len(s) : k # i => s[k] # s[i]
  BY DEF NoTwice
<1>3. \A k \in 1 .. Len(s) : k # i => t2[s[k]] = t[s[k]]
  BY <1>1, <1>2
<1> QED BY <1>3 DEF Ascending, AscendingBut

(* chanfixdb_chanuser_sort on the one record whose total changed.          *)
LEMMA MovedChain ==
  ASSUME NEW s, NEW t \in [Users -> Int], NEW T, NEW n, Linked(s, T, n),
         NEW i \in 1 .. Len(s), NEW j \in 1 .. Len(s), Lands(s, t, i, j)
  PROVE  /\ Linked(Move(s, i, j), T, n)
         /\ AscendingBut(s, t, i) => Ascending(Move(s, i, j), t)
BY MoveIsSeq, MoveKeeps, SortSorts DEF Linked

(* chanfixdb_chanuser_remove, whatever total the record had.               *)
LEMMA DroppedChain ==
  ASSUME NEW s, NEW t \in [Users -> Int], NEW t2 \in [Users -> Int], NEW T, NEW n,
         Linked(s, T, n), NEW i \in 1 .. Len(s),
         \A x \in Users : x # s[i] => t2[x] = t[x]
  PROVE  /\ Linked(Unlink(s, i), T \ {s[i]}, n - 1)
         /\ Ascending(s, t) => Ascending(Unlink(s, i), t2)
<1>1. s \in Seq(Users) /\ NoTwice(s) /\ Elements(s) = T /\ n = Len(s)
  BY DEF Linked
<1>2. Ascending(s, t) => AscendingBut(s, t2, i)
  BY <1>1, BumpLeavesOne
<1>3. Ascending(s, t) => Ascending(Unlink(s, i), t2)
  BY <1>1, <1>2, UnlinkAscending
<1> QED BY <1>1, <1>3, UnlinkKeeps DEF Linked

(* chanfixdb_chanuser_create: the chain gains the new record,              *)
LEMMA PushedChain ==
  ASSUME NEW s, NEW T, NEW n, Linked(s, T, n), NEW u \in Users, u \notin T
  PROVE  /\ Linked(PushFront(u, s), T \cup {u}, n + 1)
         /\ PushFront(u, s)[1] = u
<1>1. s \in Seq(Users) /\ NoTwice(s) /\ Elements(s) = T /\ n = Len(s)
  BY DEF Linked
<1>2. PushFront(u, s)[1] = u
  BY <1>1, LenProperties DEF PushFront
<1> QED BY <1>1, <1>2, PushFrontKeeps DEF Linked

(* ... and no other record can be out of place,                            *)
LEMMA GrownChain ==
  ASSUME NEW s, NEW t \in [Users -> Int], NEW t2 \in [Users -> Int], NEW T, NEW n,
         Linked(s, T, n), Ascending(s, t), NEW u \in Users, u \notin T,
         \A x \in Users : x # u => t2[x] = t[x]
  PROVE  AscendingBut(PushFront(u, s), t2, 1)
<1> DEFINE p == PushFront(u, s)
<1>1. s \in Seq(Users) /\ Ascending(s, t) /\ Elements(s) = T /\ n = Len(s)
  BY DEF Linked
<1>2. Len(p) = n + 1
  BY PushedChain DEF Linked
<1>3. n \in Nat /\ \A k \in 1 .. n : s[k] \in Users /\ s[k] \in T
  BY <1>1, LenProperties, ElementOfSeq DEF Elements
<1>4. \A k \in 2 .. n + 1 : k - 1 \in 1 .. n /\ p[k] = s[k - 1]
  BY <1>1, <1>3 DEF PushFront
<1>5. \A k \in 1 .. n : t2[s[k]] = t[s[k]]
  BY <1>3
<1>6. ASSUME NEW a \in 2 .. n + 1, NEW b \in 2 .. n + 1, a < b
      PROVE  t2[p[a]] <= t2[p[b]]
  <2>1. a - 1 \in 1 .. n /\ b - 1 \in 1 .. n /\ a - 1 < b - 1
    BY <1>3, <1>6
  <2>2. t[s[a - 1]] <= t[s[b - 1]]
    BY <2>1, <1>1 DEF Ascending
  <2> QED BY <1>4, <1>5, <2>1, <2>2
<1> HIDE DEF p
<1>7. AscendingBut(p, t2, 1)
  BY <1>2, <1>3, <1>6 DEF AscendingBut
<1> QED BY <1>7 DEF p

(* ... nor is the new one while it has no point.                           *)
LEMMA GrownByNothing ==
  ASSUME NEW s, NEW t \in [Users -> Nat], NEW t2 \in [Users -> Nat], NEW T, NEW n,
         Linked(s, T, n), Ascending(s, t), NEW u \in Users, u \notin T, t2[u] = 0,
         \A x \in Users : x # u => t2[x] = t[x]
  PROVE  Ascending(PushFront(u, s), t2)
<1> DEFINE p == PushFront(u, s)
<1>0. t \in [Users -> Int] /\ t2 \in [Users -> Int]
  OBVIOUS
<1>1. AscendingBut(p, t2, 1)
  BY <1>0, GrownChain
<1>2. p \in Seq(Users) /\ p[1] = u
  BY PushedChain DEF Linked
<1> HIDE DEF p
<1>3. \A k \in 1 .. Len(p) : p[k] \in Users /\ t2[p[k]] \in Nat
  BY <1>2, ElementOfSeq
<1>4. \A k \in 1 .. Len(p) : t2[p[1]] <= t2[p[k]]
  BY <1>2, <1>3
<1>5. Len(p) \in Nat
  BY <1>2, LenProperties
<1>6. Ascending(p, t2)
  BY <1>1, <1>4, <1>5 DEF AscendingBut, Ascending
<1> QED BY <1>6 DEF p

-----------------------------------------------------------------------------
(* The empty database is well formed.                                      *)
LEMMA InitIInv == Init => IInv
<1> SUFFICES ASSUME Init PROVE IInv
  OBVIOUS
<1> USE ChanScoresAssumption
<1>1. <<>> \in Seq(Users) /\ Len(<<>>) = 0
  BY EmptySeq
<1>2. NoScores \in [1 .. Days -> Nat] /\ NoVisits \in [Users -> Nat]
  BY DEF NoScores, NoVisits
<1>3. TypeOK
  BY <1>1, <1>2 DEF Init, TypeOK
<1>4. CurOK
  BY DEF Init, CurOK, NoVisits
<1>5. Linked(<<>>, {}, 0) /\ \A c \in Chans : Ascending(<<>>, tot[c])
  BY <1>1 DEF Linked, Ascending, NoTwice, Elements
<1> QED BY <1>3, <1>4, <1>5 DEF Init, IInv, SortedOK

(* The arithmetic of the 16 and 32 bits of a count.                        *)
LEMMA Widths ==
  /\ \A x \in Int : x % TotLimit \in Nat
  /\ \A x \in Int : x % ScoreLimit \in Nat
  /\ \A x \in Nat : x < TotLimit => x % TotLimit = x
  /\ TotLimit \in Nat \ {0} /\ ScoreLimit \in Nat \ {0}
<1>1. ScoreLimit \in Nat \ {0}
  BY ChanScoresAssumption
<1>2. TotLimit \in Nat \ {0}
  <2> DEFINE most == RollFreq * (Days + MaxCrashes)
  <2>1. Days + MaxCrashes \in Nat /\ RollFreq \in Nat
    BY ChanScoresAssumption
  <2>2. most \in Nat
    BY <2>1
  <2>3. most < TotLimit /\ TotLimit \in Nat
    BY ChanScoresAssumption
  <2> HIDE DEF most
  <2> QED BY <2>2, <2>3
<1> QED BY ONLY <1>1, <1>2

LEMMA DayTypes ==
  ASSUME NEW w \in [1 .. Days -> Nat]
  PROVE  /\ Shift(w) \in [1 .. Days -> Nat] /\ DaysUp(w) \in [1 .. Days -> Nat]
         /\ Pointed(w) \in [1 .. Days -> Nat] /\ w[Days] \in Nat
         /\ NoScores \in [1 .. Days -> Nat]
<1>1. Days \in Nat \ {0}
  BY ChanScoresAssumption
<1>2. \A d \in 1 .. Days : d # 1 => d - 1 \in 1 .. Days
  BY <1>1
<1>3. 1 \in 1 .. Days /\ Days \in 1 .. Days
  BY <1>1
<1>4. (w[1] + 1) % ScoreLimit \in Nat
  BY <1>3, Widths
<1> QED BY <1>2, <1>3, <1>4 DEF Shift, DaysUp, Pointed, NoScores

(* A step that touches one channel keeps the invariant if that channel's   *)
(* chain stays well formed.                                                *)
LEMMA OneChannel ==
  ASSUME IInv, NEW c \in Chans, TypeOK', CurOK', unsorted \subseteq unsorted',
         \A d \in Chans : d # c =>
           /\ sorted'[d] = sorted[d] /\ tot'[d] = tot[d]
           /\ table'[d] = table[d] /\ users_num'[d] = users_num[d],
         Linked(sorted'[c], table'[c], users_num'[c]),
         c \notin unsorted' => Ascending(sorted'[c], tot'[c])
  PROVE  IInv'
<1>1. ASSUME NEW d \in Chans PROVE Linked(sorted'[d], table'[d], users_num'[d])
  BY DEF IInv
<1>2. ASSUME NEW d \in Chans \ unsorted' PROVE Ascending(sorted'[d], tot'[d])
  BY DEF IInv, SortedOK
<1> QED BY <1>1, <1>2 DEF IInv, SortedOK

(* The roll of one record, or its first half, changes its channel only.    *)
LEMMA RollIInv ==
  ASSUME IInv, NEW c \in Chans, NEW u \in Users,
         RollUser(c, u) \/ CutRoll(c, u)
  PROVE  IInv'
<1> USE ChanScoresAssumption
<1>t. TypeOK /\ CurOK /\ Linked(sorted[c], table[c], users_num[c])
      /\ (c \notin unsorted => Ascending(sorted[c], tot[c]))
  BY DEF IInv, SortedOK
<1>0. /\ table \in [Chans -> SUBSET Users] /\ sorted \in [Chans -> Seq(Users)]
      /\ scores \in [Chans -> [Users -> [1 .. Days -> Nat]]]
      /\ tot \in [Chans -> [Users -> Nat]] /\ users_num \in [Chans -> Int]
      /\ num_chanusers \in Int /\ unsorted \subseteq Chans
      /\ torn \subseteq Chans \X Users
  BY <1>t DEF TypeOK
<1>1. scores[c][u] \in [1 .. Days -> Nat] /\ tot[c][u] \in Nat
  BY <1>0
<1>2. Left(c, u) \in Nat
  <2>1. scores[c][u][Days] \in Nat
    BY <1>1, DayTypes
  <2>2. tot[c][u] - scores[c][u][Days] \in Int
    BY <1>1, <2>1
  <2> QED BY <2>2, Widths DEF Left
<1>3. CurOK' /\ unsorted \subseteq unsorted'
  <2>1. NoVisits[u] = 0 /\ \A x \in Users : NoVisits[x] = 0
    BY DEF NoVisits
  <2> QED BY <1>t, <2>1 DEF RollUser, RollKeep, RollDrop, CutRoll, Dies, CurOK
<1>4. PICK w \in [1 .. Days -> Nat] : scores' = [scores EXCEPT ![c][u] = w]
  BY <1>1, DayTypes DEF RollUser, CutRoll
<1>5. scores' \in [Chans -> [Users -> [1 .. Days -> Nat]]]
  <2>1. scores' = [scores EXCEPT ![c] = [scores[c] EXCEPT ![u] = w]]
    BY <1>0, <1>4
  <2> QED BY <1>0, <2>1
<1>6. PICK l \in Nat : tot' = [tot EXCEPT ![c][u] = l]
  BY <1>2 DEF RollUser, RollKeep, RollDrop, CutRoll
<1>7. /\ tot' \in [Chans -> [Users -> Nat]] /\ tot'[c] \in [Users -> Int]
      /\ tot[c] \in [Users -> Int]
      /\ \A d \in Chans : d # c => tot'[d] = tot[d]
      /\ \A x \in Users : x # u => tot'[c][x] = tot[c][x]
  BY <1>0, <1>6
<1>8. unsorted' \subseteq Chans /\ torn' \subseteq Chans \X Users
  BY <1>0 DEF RollUser, RollKeep, RollDrop, CutRoll
<1>9. CASE RollUser(c, u) /\ RollKeep(c, u)
  <2>1. PICK i \in 1 .. Len(sorted[c]), j \in 1 .. Len(sorted[c]) :
          /\ sorted[c][i] = u
          /\ Lands(sorted[c], tot'[c], i, j)
          /\ sorted' = [sorted EXCEPT ![c] = Move(sorted[c], i, j)]
    BY <1>9 DEF RollKeep
  <2>2. /\ Linked(Move(sorted[c], i, j), table[c], users_num[c])
        /\ AscendingBut(sorted[c], tot'[c], i) => Ascending(Move(sorted[c], i, j), tot'[c])
    BY <1>t, <1>7, <2>1, MovedChain
  <2>3. c \notin unsorted => AscendingBut(sorted[c], tot'[c], i)
    BY <1>t, <1>7, <2>1, BumpLeavesOne DEF Linked
  <2>4. UNCHANGED <<table, users_num, num_chanusers, unsorted>>
    BY <1>9 DEF RollUser, RollKeep
  <2>5. sorted' \in [Chans -> Seq(Users)]
    BY <1>0, <2>1, <2>2 DEF Linked
  <2>6. TypeOK'
    BY <1>t, <1>5, <1>7, <1>8, <1>9, <2>4, <2>5 DEF TypeOK, RollUser
  <2>7. /\ sorted'[c] = Move(sorted[c], i, j)
        /\ \A d \in Chans : d # c => sorted'[d] = sorted[d]
    BY <1>0, <2>1
  <2> QED BY <1>3, <1>7, <2>2, <2>3, <2>4, <2>6, <2>7, OneChannel
<1>10. CASE RollUser(c, u) /\ RollDrop(c, u)
  <2>1. PICK i \in 1 .. Len(sorted[c]) :
          /\ sorted[c][i] = u
          /\ sorted' = [sorted EXCEPT ![c] = Unlink(sorted[c], i)]
    BY <1>10 DEF RollDrop
  <2>2. /\ table' = [table EXCEPT ![c] = table[c] \ {u}]
        /\ users_num' = [users_num EXCEPT ![c] = users_num[c] - 1]
        /\ num_chanusers' = num_chanusers - 1 /\ unsorted' = unsorted
    BY <1>10 DEF RollUser, RollDrop
  <2>3. /\ Linked(Unlink(sorted[c], i), table[c] \ {u}, users_num[c] - 1)
        /\ Ascending(sorted[c], tot[c]) => Ascending(Unlink(sorted[c], i), tot'[c])
    BY <1>t, <1>7, <2>1, DroppedChain
  <2>5. sorted' \in [Chans -> Seq(Users)]
    BY <1>0, <2>1, <2>3 DEF Linked
  <2>4. /\ table' \in [Chans -> SUBSET Users]
        /\ users_num' \in [Chans -> Int] /\ num_chanusers' \in Int
    BY <1>0, <2>2, SMTT(30)
  <2>6. TypeOK'
    BY <1>t, <1>5, <1>7, <1>8, <1>10, <2>4, <2>5 DEF TypeOK, RollUser
  <2>7. /\ sorted'[c] = Unlink(sorted[c], i) /\ table'[c] = table[c] \ {u}
        /\ users_num'[c] = users_num[c] - 1
        /\ \A d \in Chans : d # c => /\ sorted'[d] = sorted[d] /\ table'[d] = table[d]
                                     /\ users_num'[d] = users_num[d]
    BY <1>0, <2>1, <2>2
  <2> QED BY <1>t, <1>3, <1>7, <2>2, <2>3, <2>6, <2>7, OneChannel
<1>11. CASE CutRoll(c, u)
  <2>1. /\ unsorted' = unsorted \cup {c}
        /\ UNCHANGED <<channels, table, sorted, users_num, num_chanusers, checks>>
    BY <1>11 DEF CutRoll
  <2>2. NoVisits \in [Users -> Nat] /\ crashes' \in 0 .. MaxCrashes
    BY <1>t, <1>11 DEF NoVisits, CutRoll, Dies, TypeOK
  <2>3. TypeOK'
    BY <1>t, <1>5, <1>7, <1>8, <1>11, <2>1, <2>2 DEF TypeOK, CutRoll, Dies
  <2> QED BY <1>t, <1>3, <1>7, <2>1, <2>3, OneChannel
<1> QED BY <1>9, <1>10, <1>11 DEF RollUser

(* What a visit finds or creates: the chain s, the totals t and the days w *)
(* of the channel c, in order but for the op u if they were in order.      *)
Found(c, u, s, t, w) ==
  /\ t \in [Users -> Nat] /\ w \in [1 .. Days -> Nat]
  /\ \A x \in Users : x # u => t[x] = tot[c][x]
  /\ Linked(s, table'[c], users_num'[c])
  /\ \A i \in 1 .. Len(s), t2 \in [Users -> Int] :
       /\ c \notin unsorted
       /\ s[i] = u
       /\ \A x \in Users : x # u => t2[x] = t[x]
       => AscendingBut(s, t2, i)
  /\ \A d \in Chans : d # c => table'[d] = table[d] /\ users_num'[d] = users_num[d]
  /\ table' \in [Chans -> SUBSET Users]
  /\ users_num' \in [Chans -> Int] /\ num_chanusers' \in Int

LEMMA FindFound ==
  ASSUME IInv, NEW u \in Users, cur \in Chans, Find(u)
  PROVE  Found(cur, u, sorted[cur], tot[cur], scores[cur][u])
<1>1. /\ table \in [Chans -> SUBSET Users] /\ users_num \in [Chans -> Int]
      /\ num_chanusers \in Int /\ tot[cur] \in [Users -> Nat] /\ tot[cur] \in [Users -> Int]
      /\ scores[cur][u] \in [1 .. Days -> Nat]
  BY DEF IInv, TypeOK
<1>2. /\ Linked(sorted[cur], table[cur], users_num[cur])
      /\ cur \notin unsorted => Ascending(sorted[cur], tot[cur])
  BY DEF IInv, SortedOK
<1>3. UNCHANGED <<table, users_num, num_chanusers>>
  BY DEF Find
<1>4. ASSUME NEW i \in 1 .. Len(sorted[cur]), NEW t2 \in [Users -> Int],
             cur \notin unsorted, sorted[cur][i] = u,
             \A x \in Users : x # u => t2[x] = tot[cur][x]
      PROVE  AscendingBut(sorted[cur], t2, i)
  BY <1>1, <1>2, <1>4, BumpLeavesOne DEF Linked
<1> QED BY <1>1, <1>2, <1>3, <1>4 DEF Found

LEMMA CreateFound ==
  ASSUME IInv, NEW u \in Users, cur \in Chans, Create(u)
  PROVE  Found(cur, u, PushFront(u, sorted[cur]), [tot[cur] EXCEPT ![u] = 0], NoScores)
<1> DEFINE p == PushFront(u, sorted[cur])
           t == [tot[cur] EXCEPT ![u] = 0]
<1>1. /\ table \in [Chans -> SUBSET Users] /\ users_num \in [Chans -> Int]
      /\ num_chanusers \in Int /\ tot[cur] \in [Users -> Nat] /\ tot[cur] \in [Users -> Int]
      /\ scores[cur][u] \in [1 .. Days -> Nat]
  BY DEF IInv, TypeOK
<1>2. /\ Linked(sorted[cur], table[cur], users_num[cur])
      /\ cur \notin unsorted => Ascending(sorted[cur], tot[cur])
  BY DEF IInv, SortedOK
<1>3. /\ u \notin table[cur]
      /\ table' = [table EXCEPT ![cur] = table[cur] \cup {u}]
      /\ users_num' = [users_num EXCEPT ![cur] = users_num[cur] + 1]
      /\ num_chanusers' = num_chanusers + 1
  BY DEF Create
<1>4. Linked(p, table[cur] \cup {u}, users_num[cur] + 1) /\ p[1] = u
  BY <1>2, <1>3, PushedChain
<1>5. t \in [Users -> Nat] /\ \A x \in Users : x # u => t[x] = tot[cur][x]
  BY <1>1
<1> HIDE DEF p, t
<1>6. ASSUME NEW i \in 1 .. Len(p), NEW t2 \in [Users -> Int],
             cur \notin unsorted, p[i] = u, \A x \in Users : x # u => t2[x] = t[x]
      PROVE  AscendingBut(p, t2, i)
  <2>1. \A x \in Users : x # u => t2[x] = tot[cur][x]
    BY <1>5, <1>6
  <2>2. AscendingBut(p, t2, 1)
    BY <1>1, <1>2, <1>3, <1>6, <2>1, GrownChain DEF p
  <2>3. i = 1
    <3>1. 1 \in 1 .. Len(p) /\ NoTwice(p)
      BY <1>4, <1>6 DEF Linked
    <3> QED BY <1>4, <1>6, <3>1 DEF NoTwice
  <2> QED BY <2>2, <2>3
<1>7. /\ table' \in [Chans -> SUBSET Users]
      /\ users_num' \in [Chans -> Int] /\ num_chanusers' \in Int
      /\ \A d \in Chans : d # cur => table'[d] = table[d] /\ users_num'[d] = users_num[d]
      /\ table'[cur] = table[cur] \cup {u} /\ users_num'[cur] = users_num[cur] + 1
  BY <1>1, <1>3
<1>8. NoScores \in [1 .. Days -> Nat]
  BY <1>1, DayTypes
<1>9. Found(cur, u, p, t, NoScores)
  BY <1>4, <1>5, <1>6, <1>7, <1>8 DEF Found
<1> QED BY <1>9 DEF p, t

(* Counting the op of a visit.                                             *)
LEMMA CountOpChain ==
  ASSUME IInv, NEW c \in Chans, NEW u \in Users, NEW s, NEW t, NEW w,
         Found(c, u, s, t, w), CountOp(c, u, s, t, w)
  PROVE  /\ seen' \subseteq Chans \X Users
         /\ tot' \in [Chans -> [Users -> Nat]]
         /\ scores' \in [Chans -> [Users -> [1 .. Days -> Nat]]]
         /\ sorted' \in [Chans -> Seq(Users)]
         /\ Linked(sorted'[c], table'[c], users_num'[c])
         /\ c \notin unsorted => Ascending(sorted'[c], tot'[c])
         /\ \A d \in Chans : d # c => sorted'[d] = sorted[d] /\ tot'[d] = tot[d]
<1> USE ChanScoresAssumption
<1> DEFINE fresh == <<c, u>> \notin seen
           t2 == IF fresh THEN [t EXCEPT ![u] = (@ + 1) % TotLimit] ELSE t
           w2 == IF fresh THEN Pointed(w) ELSE w
<1>1. /\ seen \subseteq Chans \X Users /\ tot \in [Chans -> [Users -> Nat]]
      /\ scores \in [Chans -> [Users -> [1 .. Days -> Nat]]]
      /\ sorted \in [Chans -> Seq(Users)]
  BY DEF IInv, TypeOK
<1>f. /\ t \in [Users -> Nat] /\ w \in [1 .. Days -> Nat]
      /\ Linked(s, table'[c], users_num'[c])
      /\ \A i \in 1 .. Len(s), q \in [Users -> Int] :
           /\ c \notin unsorted
           /\ s[i] = u
           /\ \A x \in Users : x # u => q[x] = t[x]
           => AscendingBut(s, q, i)
  BY DEF Found
<1>2. /\ t2 \in [Users -> Nat] /\ t2 \in [Users -> Int]
      /\ \A x \in Users : x # u => t2[x] = t[x]
  <2>1. t[u] + 1 \in Int
    BY <1>f
  <2>2. (t[u] + 1) % TotLimit \in Nat
    BY <2>1, Widths
  <2> QED BY <1>f, <2>2
<1>3. w2 \in [1 .. Days -> Nat]
  BY <1>f, DayTypes
<1>4. /\ seen' = seen \cup {<<c, u>>}
      /\ tot' = [tot EXCEPT ![c] = t2]
      /\ scores' = [scores EXCEPT ![c][u] = w2]
  BY DEF CountOp
<1>5. PICK i \in 1 .. Len(s), j \in 1 .. Len(s) :
        /\ s[i] = u
        /\ Lands(s, t2, i, j)
        /\ sorted' = [sorted EXCEPT ![c] = Move(s, i, j)]
  BY DEF CountOp
<1> HIDE DEF t2, w2, fresh
<1>6. c \notin unsorted => AscendingBut(s, t2, i)
  BY <1>f, <1>2, <1>5
<1>7. /\ Linked(Move(s, i, j), table'[c], users_num'[c])
      /\ AscendingBut(s, t2, i) => Ascending(Move(s, i, j), t2)
  BY <1>f, <1>2, <1>5, MovedChain
<1>8. sorted' \in [Chans -> Seq(Users)]
  BY <1>1, <1>5, <1>7 DEF Linked
<1>9. scores' \in [Chans -> [Users -> [1 .. Days -> Nat]]]
  <2>1. scores' = [scores EXCEPT ![c] = [scores[c] EXCEPT ![u] = w2]]
    BY <1>4
  <2>2. [scores[c] EXCEPT ![u] = w2] \in [Users -> [1 .. Days -> Nat]]
    BY <1>1, <1>3
  <2> QED BY <1>1, <2>1, <2>2
<1>10. tot' \in [Chans -> [Users -> Nat]] /\ seen' \subseteq Chans \X Users
  <2>1. tot' \in [Chans -> [Users -> Nat]]
    BY <1>1, <1>2, <1>4
  <2>2. <<c, u>> \in Chans \X Users /\ seen \subseteq Chans \X Users
    BY <1>1
  <2>3. seen' = seen \cup {<<c, u>>}
    BY <1>4
  <2>4. seen' \subseteq Chans \X Users
    BY ONLY <2>2, <2>3
  <2> QED BY <2>1, <2>4
<1>11. sorted'[c] = Move(s, i, j) /\ tot'[c] = t2
  BY <1>1, <1>4, <1>5
<1>12. \A d \in Chans : d # c => sorted'[d] = sorted[d] /\ tot'[d] = tot[d]
  BY <1>1, <1>4, <1>5
<1> QED BY <1>6, <1>7, <1>8, <1>9, <1>10, <1>11, <1>12

(* Counting one op, with or without a record of his, keeps the chains well *)
(* formed.                                                                 *)
LEMMA VisitOpIInv ==
  ASSUME IInv, NEW u \in Users, VisitOp(u)
  PROVE  IInv'
<1> USE ChanScoresAssumption
<1>1. TypeOK /\ cur \in Chans /\ visits \in [Users -> Nat] /\ visits[u] > 0
  BY DEF IInv, CurOK, VisitOp, TypeOK
<1>2. UNCHANGED <<channels, checks, pc, todo, pending, cur, crashes, unsorted, torn>>
  BY DEF VisitOp, cutVars
<1>3. visits' \in [Users -> Nat] /\ CurOK'
  <2>1. visits[u] - 1 \in Nat
    BY <1>1
  <2>2. visits' = [visits EXCEPT ![u] = visits[u] - 1] /\ cur' = cur
    BY DEF VisitOp, cutVars
  <2> QED BY <1>1, <2>1, <2>2 DEF CurOK
<1>4. ASSUME NEW s, NEW t, NEW w, Found(cur, u, s, t, w), CountOp(cur, u, s, t, w)
      PROVE  IInv'
  <2>1. /\ seen' \subseteq Chans \X Users
        /\ tot' \in [Chans -> [Users -> Nat]]
        /\ scores' \in [Chans -> [Users -> [1 .. Days -> Nat]]]
        /\ sorted' \in [Chans -> Seq(Users)]
        /\ Linked(sorted'[cur], table'[cur], users_num'[cur])
        /\ cur \notin unsorted => Ascending(sorted'[cur], tot'[cur])
        /\ \A d \in Chans : d # cur => sorted'[d] = sorted[d] /\ tot'[d] = tot[d]
    BY <1>1, <1>4, CountOpChain
  <2>2. /\ \A d \in Chans : d # cur => table'[d] = table[d] /\ users_num'[d] = users_num[d]
        /\ table' \in [Chans -> SUBSET Users]
        /\ users_num' \in [Chans -> Int] /\ num_chanusers' \in Int
    BY <1>4 DEF Found
  <2>3. TypeOK'
    BY <1>1, <1>2, <1>3, <2>1, <2>2 DEF TypeOK
  <2> QED BY <1>1, <1>2, <1>3, <2>1, <2>2, <2>3, OneChannel
<1>5. CASE VisitKnown(u)
  BY <1>1, <1>4, <1>5, FindFound DEF VisitKnown
<1>6. CASE VisitNew(u)
  BY <1>1, <1>4, <1>6, CreateFound DEF VisitNew
<1>7. CASE VisitFails(u)
  <2>1. UNCHANGED <<table, sorted, scores, tot, users_num, num_chanusers, seen>>
    BY <1>7 DEF VisitFails
  <2>2. TypeOK'
    BY <1>1, <1>2, <1>3, <2>1 DEF TypeOK
  <2> QED BY <1>2, <1>3, <2>1, <2>2 DEF IInv, SortedOK
<1> QED BY <1>5, <1>6, <1>7 DEF VisitOp

(* A crash inside a visit leaves the chain well formed, and in order if it *)
(* falls before the point.                                                 *)
LEMMA CutVisitIInv ==
  ASSUME IInv, NEW u \in Users, CutVisit(u)
  PROVE  IInv'
<1> USE ChanScoresAssumption
<1>1. TypeOK /\ cur \in Chans
  BY DEF IInv, CurOK, CutVisit, TypeOK
<1>2. /\ tot \in [Chans -> [Users -> Nat]] /\ unsorted \subseteq Chans
      /\ scores \in [Chans -> [Users -> [1 .. Days -> Nat]]]
      /\ sorted \in [Chans -> Seq(Users)] /\ torn \subseteq Chans \X Users
  BY <1>1 DEF TypeOK
<1>3. /\ pc' = "idle" /\ todo' = {} /\ seen' = {} /\ pending' = {} /\ cur' = NoChan
      /\ visits' = NoVisits /\ visits' \in [Users -> Nat] /\ crashes' \in 0 .. MaxCrashes
      /\ UNCHANGED <<channels, checks>>
  BY <1>1 DEF CutVisit, Dies, NoVisits, TypeOK
<1>4. CurOK'
  BY <1>3 DEF CurOK, NoVisits
<1>5. ASSUME NEW s, NEW t, NEW w, Found(cur, u, s, t, w), CutCount(u, s, t, w)
      PROVE  IInv'
  <2>1. /\ t \in [Users -> Nat] /\ w \in [1 .. Days -> Nat]
        /\ Linked(s, table'[cur], users_num'[cur])
        /\ \A d \in Chans : d # cur => table'[d] = table[d] /\ users_num'[d] = users_num[d]
        /\ table' \in [Chans -> SUBSET Users]
        /\ users_num' \in [Chans -> Int] /\ num_chanusers' \in Int
    BY <1>5 DEF Found
  <2>2. /\ sorted' = [sorted EXCEPT ![cur] = s]
        /\ unsorted' = unsorted \cup {cur} /\ torn' \subseteq Chans \X Users
    BY <1>1, <1>2, <1>5 DEF CutCount
  <2>3. PICK t2 \in [Users -> Nat] : tot' = [tot EXCEPT ![cur] = t2]
    <3>0. t[u] + 1 \in Int
      BY <2>1
    <3>1. (t[u] + 1) % TotLimit \in Nat
      BY <3>0, Widths
    <3>2. [t EXCEPT ![u] = (@ + 1) % TotLimit] \in [Users -> Nat]
      BY <2>1, <3>1
    <3> QED BY <1>5, <3>2 DEF CutCount
  <2>4. PICK w2 \in [1 .. Days -> Nat] : scores' = [scores EXCEPT ![cur][u] = w2]
    BY <1>5, <2>1, DayTypes DEF CutCount
  <2>5. scores' \in [Chans -> [Users -> [1 .. Days -> Nat]]]
    <3>1. scores' = [scores EXCEPT ![cur] = [scores[cur] EXCEPT ![u] = w2]]
      BY <1>1, <1>2, <2>4
    <3> QED BY <1>2, <3>1
  <2>6. sorted' \in [Chans -> Seq(Users)] /\ tot' \in [Chans -> [Users -> Nat]]
    BY <1>1, <1>2, <2>1, <2>2, <2>3 DEF Linked
  <2>7. TypeOK'
    BY <1>1, <1>2, <1>3, <2>1, <2>2, <2>5, <2>6 DEF TypeOK
  <2>8. /\ sorted'[cur] = s
        /\ \A d \in Chans : d # cur => sorted'[d] = sorted[d] /\ tot'[d] = tot[d]
    BY <1>1, <1>2, <2>2, <2>3
  <2> QED BY <1>1, <1>4, <2>1, <2>2, <2>7, <2>8, OneChannel
<1>6. CASE Create(u) /\ CutCreate(u)
  <2> DEFINE p == PushFront(u, sorted[cur])
             t == [tot[cur] EXCEPT ![u] = 0]
  <2>1. /\ t \in [Users -> Nat] /\ NoScores \in [1 .. Days -> Nat]
        /\ Linked(p, table'[cur], users_num'[cur])
        /\ \A x \in Users : x # u => t[x] = tot[cur][x]
        /\ \A d \in Chans : d # cur => table'[d] = table[d] /\ users_num'[d] = users_num[d]
        /\ table' \in [Chans -> SUBSET Users]
        /\ users_num' \in [Chans -> Int] /\ num_chanusers' \in Int
    BY <1>1, <1>6, CreateFound DEF Found
  <2>2. /\ sorted' = [sorted EXCEPT ![cur] = p] /\ tot' = [tot EXCEPT ![cur] = t]
        /\ scores' = [scores EXCEPT ![cur][u] = NoScores] /\ UNCHANGED <<unsorted, torn>>
    BY <1>1, <1>2, <1>6 DEF CutCreate
  <2>3. Ascending(sorted[cur], tot[cur]) => Ascending(p, t)
    <3>1. Linked(sorted[cur], table[cur], users_num[cur]) /\ u \notin table[cur]
          /\ tot[cur] \in [Users -> Nat] /\ t[u] = 0
      BY <1>1, <1>2, <1>6 DEF IInv, Create
    <3>2. t \in [Users -> Nat] /\ \A x \in Users : x # u => t[x] = tot[cur][x]
      BY <2>1
    <3> DEFINE q == sorted[cur]
               t0 == tot[cur]
               T == table[cur]
               n == users_num[cur]
    <3>3. Linked(q, T, n) /\ u \notin T /\ t0 \in [Users -> Nat] /\ t[u] = 0
          /\ \A x \in Users : x # u => t[x] = t0[x]
      BY <3>1, <3>2
    <3> HIDE DEF t, q, t0, T, n
    <3>4. Ascending(q, t0) => Ascending(PushFront(u, q), t)
      BY <3>2, <3>3, GrownByNothing
    <3> QED BY <3>4 DEF q, t0
  <2> HIDE DEF p, t
  <2>5. scores' \in [Chans -> [Users -> [1 .. Days -> Nat]]]
    <3>1. scores' = [scores EXCEPT ![cur] = [scores[cur] EXCEPT ![u] = NoScores]]
      BY <1>1, <1>2, <2>2
    <3> QED BY <1>2, <2>1, <3>1
  <2>6. sorted' \in [Chans -> Seq(Users)] /\ tot' \in [Chans -> [Users -> Nat]]
    BY <1>1, <1>2, <2>1, <2>2 DEF Linked
  <2>7. TypeOK'
    BY <1>1, <1>2, <1>3, <2>1, <2>2, <2>5, <2>6 DEF TypeOK
  <2>8. /\ sorted'[cur] = p /\ tot'[cur] = t
        /\ \A d \in Chans : d # cur => sorted'[d] = sorted[d] /\ tot'[d] = tot[d]
    BY <1>1, <1>2, <2>2
  <2>9. cur \notin unsorted' => Ascending(sorted'[cur], tot'[cur])
    BY <1>1, <2>2, <2>3, <2>8 DEF IInv, SortedOK
  <2>10. unsorted \subseteq unsorted'
    BY <2>2
  <2> QED BY <1>1, <1>4, <2>1, <2>7, <2>8, <2>9, <2>10, OneChannel
<1>7. Found(cur, u, sorted[cur], tot[cur], scores[cur][u]) \/ ~ Find(u)
  BY <1>1, FindFound
<1>8. \/ Found(cur, u, PushFront(u, sorted[cur]), [tot[cur] EXCEPT ![u] = 0], NoScores)
      \/ ~ Create(u)
  BY <1>1, CreateFound
<1> QED BY <1>5, <1>6, <1>7, <1>8 DEF CutVisit

(* Every step keeps the invariant.                                         *)
LEMMA NextIInv == IInv /\ [Next]_vars => IInv'
<1> SUFFICES ASSUME IInv, [Next]_vars PROVE IInv'
  OBVIOUS
<1> USE ChanScoresAssumption DEF cutVars
<1>1. TypeOK /\ CurOK /\ NoVisits \in [Users -> Nat]
  BY DEF IInv, NoVisits
<1>2. ASSUME NEW present \in SUBSET Chans, CheckBegin(present) PROVE IInv'
  <2>1. checks' \in 0 .. RollFreq - 1
    BY <1>1, <1>2 DEF CheckBegin, TypeOK
  <2>2. Records \subseteq Chans \X Users
    BY DEF Records
  <2>3. TypeOK'
    BY <1>1, <1>2, <2>1, <2>2 DEF CheckBegin, TypeOK
  <2>4. UNCHANGED <<table, sorted, tot, users_num, cur, visits, unsorted>>
    BY <1>2 DEF CheckBegin
  <2> QED BY <2>3, <2>4 DEF IInv, SortedOK, CurOK
<1>3. ASSUME NEW c \in Chans, NEW u \in Users, RollUser(c, u) \/ CutRoll(c, u)
      PROVE  IInv'
  BY <1>3, RollIInv
<1>4. CASE RollDone
  <2>1. TypeOK'
    BY <1>1, <1>4 DEF RollDone, TypeOK, dbVars
  <2> QED BY <2>1, <1>4 DEF IInv, SortedOK, CurOK, RollDone, dbVars
<1>5. ASSUME NEW c \in Chans, NEW v \in [Users -> 0 .. MaxClones],
             NEW hasOps \in BOOLEAN, EnterChannel(c, v, hasOps)
      PROVE  IInv'
  <2>1. v \in [Users -> Nat]
    OBVIOUS
  <2>2. TypeOK'
    BY <1>1, <1>5, <2>1 DEF EnterChannel, TypeOK
  <2>3. UNCHANGED <<table, sorted, tot, users_num, unsorted>> /\ cur' \in Chans
    BY <1>5 DEF EnterChannel
  <2> QED BY <2>2, <2>3 DEF IInv, SortedOK, CurOK
<1>6. ASSUME NEW c \in Chans, SkipChannel(c) PROVE IInv'
  <2>1. TypeOK'
    BY <1>1, <1>6 DEF SkipChannel, TypeOK, dbVars
  <2> QED BY <2>1, <1>6 DEF IInv, SortedOK, CurOK, SkipChannel, dbVars
<1>7. ASSUME NEW u \in Users, VisitOp(u) PROVE IInv'
  BY <1>7, VisitOpIInv
<1>8. CASE CheckDone
  <2>1. TypeOK'
    BY <1>1, <1>8 DEF CheckDone, TypeOK, dbVars
  <2>2. CurOK'
    BY <1>8 DEF CheckDone, CurOK, NoVisits
  <2> QED BY <2>1, <2>2, <1>8 DEF IInv, SortedOK, CheckDone, dbVars
<1>9. CASE Crash
  <2>1. TypeOK'
    BY <1>1, <1>9 DEF Crash, Dies, TypeOK, dbVars
  <2>2. CurOK'
    BY <1>9 DEF Crash, Dies, CurOK, NoVisits
  <2> QED BY <2>1, <2>2, <1>9 DEF IInv, SortedOK, Crash, Dies, dbVars
<1>10. ASSUME NEW u \in Users, CutVisit(u) PROVE IInv'
  BY <1>10, CutVisitIInv
<1>11. CASE UNCHANGED vars
  BY <1>11 DEF IInv, SortedOK, TypeOK, CurOK, vars, dbVars, runVars
<1> QED BY <1>2, <1>3, <1>4, <1>5, <1>6, <1>7, <1>8, <1>9, <1>10, <1>11 DEF Next

-----------------------------------------------------------------------------
(* The inductive invariant holds in every state of every behaviour.        *)
THEOREM Invariance == Spec => []IInv
BY InitIInv, NextIInv, PTL DEF Spec

(* Every variable keeps its type.                                          *)
THEOREM TypeCorrect == Spec => []TypeOK
<1>1. IInv => TypeOK
  BY DEF IInv
<1> QED BY <1>1, Invariance, PTL

(* The chain of a channel is in ascending order of score after every       *)
(* record update, whatever checks, rolls and crashes came before, as long  *)
(* as none of the crashes fell between the change of a total in it and the *)
(* sort that follows.                                                      *)
THEOREM ChainsSorted == Spec => []SortedOK
<1>1. IInv => SortedOK
  BY DEF IInv
<1> QED BY <1>1, Invariance, PTL

(* The chain holds exactly the records of the hash table, each once.       *)
THEOREM ChainsComplete == Spec => []ChainMatchesTable
<1>1. IInv => ChainMatchesTable
  BY DEF IInv, ChainMatchesTable, Linked, Elements
<1> QED BY <1>1, Invariance, PTL

-----------------------------------------------------------------------------
(* The days w of a record and its total t: t is the sum of the days, and   *)
(* the last j days have no more points than j times RollFreq, with         *)
(* RollFreq more for each of n crashes; p is what may be used of the       *)
(* current RollFreq.                                                       *)
Tallied(w, t, n, p) ==
  /\ w \in [1 .. Days -> Nat]
  /\ t = SumFunctionOnSet(w, 1 .. Days)
  /\ \A j \in 1 .. Days : SumFunctionOnSet(w, 1 .. j) <= RollFreq * (j - 1 + n) + p

LEMMA Quota ==
  /\ RollFreq \in Nat \ {0}
  /\ \A k \in Nat : RollFreq * k \in Nat /\ RollFreq * (k + 1) = RollFreq * k + RollFreq
BY ChanScoresAssumption

(* Sums over the first j days.                                             *)
LEMMA DaySums ==
  ASSUME NEW w \in [1 .. Days -> Nat], NEW j \in 1 .. Days
  PROVE  /\ SumFunctionOnSet(w, 1 .. j) \in Nat
         /\ SumFunctionOnSet(w, 1 .. j - 1) \in Nat
         /\ SumFunctionOnSet(w, 1 .. j) = w[j] + SumFunctionOnSet(w, 1 .. j - 1)
<1>1. Days \in Nat /\ j - 1 \in Nat /\ (j - 1) + 1 = j
  BY ChanScoresAssumption
<1>2. /\ \A k \in 1 .. j : w[k] \in Nat /\ w[k] \in Int
      /\ \A k \in 1 .. j - 1 : w[k] \in Nat
  BY <1>1
<1>3. IsFiniteSet(1 .. j) /\ IsFiniteSet(1 .. j - 1)
  BY <1>1, FS_Interval
<1>4. SumFunctionOnSet(w, 1 .. j) \in Nat /\ SumFunctionOnSet(w, 1 .. j - 1) \in Nat
  BY <1>2, <1>3, SumOfNats
<1>5. \A m \in Nat : m + 1 = j =>
        SumFunctionOnSet(w, 1 .. m + 1) = w[m + 1] + SumFunctionOnSet(w, 1 .. m)
  BY <1>2, SumUpTo
<1> QED BY <1>1, <1>4, <1>5

(* One roll: the sums are those of one day less.                           *)
LEMMA ShiftSums ==
  ASSUME NEW w \in [1 .. Days -> Nat], NEW j \in 1 .. Days
  PROVE  /\ Shift(w) \in [1 .. Days -> Nat]
         /\ SumFunctionOnSet(Shift(w), 1 .. j) = SumFunctionOnSet(w, 1 .. j - 1)
<1>1. Days \in Nat /\ j - 1 \in Nat /\ (j - 1) + 1 = j
  BY ChanScoresAssumption
<1>2. Shift(w) \in [1 .. Days -> Nat]
  <2>1. \A d \in 1 .. Days : d # 1 => d - 1 \in 1 .. Days
    BY <1>1
  <2> QED BY <2>1 DEF Shift
<1>3. /\ \A k \in 1 .. j : w[k] \in Int
      /\ Shift(w)[1] = 0 /\ \A k \in 2 .. j : Shift(w)[k] = w[k - 1]
  BY <1>1 DEF Shift
<1>4. \A m \in Nat : m + 1 = j =>
        SumFunctionOnSet(Shift(w), 1 .. m + 1) = SumFunctionOnSet(w, 1 .. m + 1) - w[m + 1]
  BY <1>3, SumShift
<1>5. SumFunctionOnSet(Shift(w), 1 .. j) = SumFunctionOnSet(w, 1 .. j) - w[j]
  BY <1>1, <1>4
<1>6. /\ SumFunctionOnSet(w, 1 .. j) = w[j] + SumFunctionOnSet(w, 1 .. j - 1)
      /\ SumFunctionOnSet(w, 1 .. j - 1) \in Nat /\ w[j] \in Nat
  BY DaySums
<1> DEFINE all == SumFunctionOnSet(w, 1 .. j)
           less == SumFunctionOnSet(w, 1 .. j - 1)
           moved == SumFunctionOnSet(Shift(w), 1 .. j)
<1>7. moved = all - w[j] /\ all = w[j] + less /\ less \in Nat /\ w[j] \in Nat
  BY <1>5, <1>6
<1> HIDE DEF all, less, moved
<1>8. moved = less
  BY <1>7
<1> QED BY <1>2, <1>8 DEF moved, less

(* chanfixdb_chanuser_roll on any record ...                               *)
LEMMA TalliedShift ==
  ASSUME NEW w, NEW t, NEW n \in Nat, Tallied(w, t, n, RollFreq)
  PROVE  Tallied(Shift(w), t - w[Days], n, 0)
<1> DEFINE sum(j) == SumFunctionOnSet(w, 1 .. j)
<1>1. /\ w \in [1 .. Days -> Nat] /\ t = sum(Days)
      /\ \A j \in 1 .. Days : sum(j) <= RollFreq * (j - 1 + n) + RollFreq
  BY DEF Tallied
<1>2. Days \in 1 .. Days /\ Days \in Nat
  BY ChanScoresAssumption
<1>3. \A j \in 1 .. Days : /\ sum(j) \in Nat /\ sum(j - 1) \in Nat
                           /\ sum(j) = w[j] + sum(j - 1) /\ w[j] \in Nat
                           /\ SumFunctionOnSet(Shift(w), 1 .. j) = sum(j - 1)
  BY <1>1, DaySums, ShiftSums
<1>0. sum(0) = 0
  <2>1. 1 .. 0 = {}
    OBVIOUS
  <2> QED BY <2>1, SumEmpty
<1> HIDE DEF sum
<1>4. t - w[Days] = sum(Days - 1)
  BY <1>1, <1>2, <1>3
<1>5. ASSUME NEW j \in 1 .. Days PROVE sum(j - 1) <= RollFreq * (j - 1 + n) + 0
  <2>1. CASE j = 1
    <3>1. j - 1 = 0 /\ RollFreq * (j - 1 + n) \in Nat
      BY <2>1, Quota
    <3> QED BY <1>0, <3>1
  <2>2. CASE j # 1
    <3>1. j - 1 \in 1 .. Days /\ (j - 1) - 1 + n \in Nat /\ ((j - 1) - 1 + n) + 1 = j - 1 + n
      BY <1>2, <2>2
    <3>2. sum(j - 1) <= RollFreq * ((j - 1) - 1 + n) + RollFreq
      BY <1>1, <3>1
    <3>3. RollFreq * (j - 1 + n) = RollFreq * ((j - 1) - 1 + n) + RollFreq
      BY <3>1, Quota
    <3>4. RollFreq * (j - 1 + n) \in Nat
      BY <3>1, Quota
    <3> QED BY <3>2, <3>3, <3>4
  <2> QED BY <2>1, <2>2
<1>6. Shift(w) \in [1 .. Days -> Nat] /\ SumFunctionOnSet(Shift(w), 1 .. Days) = sum(Days - 1)
  BY <1>1, <1>2, <1>3, ShiftSums
<1> QED BY <1>3, <1>4, <1>5, <1>6 DEF Tallied

(* ... and on one that has only the oldest day's.                          *)
LEMMA TalliedEmpty ==
  ASSUME NEW w, NEW t, NEW n, NEW p, Tallied(w, t, n, p), t - w[Days] = 0
  PROVE  Shift(w) = NoScores
<1>1. w \in [1 .. Days -> Nat] /\ t = SumFunctionOnSet(w, 1 .. Days)
  BY DEF Tallied
<1>2. Days \in 1 .. Days /\ Days \in Nat /\ w[Days] \in Nat
  BY <1>1, ChanScoresAssumption
<1>3. SumFunctionOnSet(w, 1 .. Days - 1) = 0
  BY <1>1, <1>2, DaySums, SMTT(30)
<1>4. \A k \in 1 .. Days - 1 : w[k] \in Nat
  BY <1>1, <1>2
<1>5. IsFiniteSet(1 .. Days - 1)
  BY <1>2, FS_Interval
<1>6. \A k \in 1 .. Days - 1 : w[k] <= 0
  BY <1>3, <1>4, <1>5, SumOfNats
<1>7. \A k \in 1 .. Days - 1 : w[k] = 0
  BY <1>4, <1>6
<1>8. \A d \in 1 .. Days : d # 1 => d - 1 \in 1 .. Days - 1
  BY <1>2
<1> QED BY <1>7, <1>8 DEF Shift, NoScores

(* A point for today, in a day without a limit.                            *)
Point(w) == [w EXCEPT ![1] = @ + 1]

LEMMA PointSums ==
  ASSUME NEW w \in [1 .. Days -> Nat], NEW j \in 1 .. Days
  PROVE  /\ Point(w) \in [1 .. Days -> Nat]
         /\ SumFunctionOnSet(Point(w), 1 .. j) = SumFunctionOnSet(w, 1 .. j) + 1
<1> DEFINE g == Point(w)
           S == 1 .. j
<1>1. Days \in Nat \ {0} /\ 1 \in 1 .. Days /\ j \in Nat /\ S \subseteq 1 .. Days /\ 1 \in S
  BY ChanScoresAssumption
<1>2. g \in [1 .. Days -> Nat] /\ g[1] = w[1] + 1 /\ \A d \in (1 .. Days) \ {1} : g[d] = w[d]
  BY <1>1 DEF Point
<1>3. IsFiniteSet(S)
  BY <1>1, FS_Interval
<1>4. /\ \A d \in S : w[d] \in Int /\ g[d] \in Int
      /\ \A d \in S \ {1} : g[d] = w[d]
  BY <1>1, <1>2
<1>5. SumFunctionOnSet(w, S) \in Nat /\ w[1] \in Nat
  BY <1>1, DaySums
<1>0. 1 \in S
  BY <1>1
<1> HIDE DEF g, S
<1>6. SumFunctionOnSet(g, S) = SumFunctionOnSet(w, S) - w[1] + g[1]
  <2> DEFINE today == 1
  <2>1. /\ today \in S /\ \A d \in S : w[d] \in Int /\ g[d] \in Int
        /\ \A d \in S \ {today} : g[d] = w[d]
    BY <1>0, <1>4
  <2> HIDE DEF today
  <2>2. SumFunctionOnSet(g, S) = SumFunctionOnSet(w, S) - w[today] + g[today]
    <3>1. \A f, h : /\ \A y \in S : f[y] \in Int /\ h[y] \in Int
                    /\ \A y \in S \ {today} : h[y] = f[y]
                    => SumFunctionOnSet(h, S) = SumFunctionOnSet(f, S) - f[today] + h[today]
      BY ONLY <1>3, <2>1, SumExcept
    <3> QED BY <2>1, <3>1
  <2> QED BY <2>2 DEF today
<1>7. SumFunctionOnSet(g, S) = SumFunctionOnSet(w, S) + 1
  BY <1>2, <1>5, <1>6
<1> QED BY <1>2, <1>7 DEF g, S

LEMMA TalliedPoint ==
  ASSUME NEW w, NEW t, NEW n \in Nat, NEW p \in Nat, Tallied(w, t, n, p)
  PROVE  Tallied(Point(w), t + 1, n, p + 1)
<1> DEFINE g == Point(w)
           sum(j) == SumFunctionOnSet(w, 1 .. j)
<1>1. /\ w \in [1 .. Days -> Nat] /\ t = sum(Days) /\ Days \in 1 .. Days
      /\ \A j \in 1 .. Days : sum(j) <= RollFreq * (j - 1 + n) + p
  BY ChanScoresAssumption DEF Tallied
<1>2. \A j \in 1 .. Days : sum(j) \in Nat /\ SumFunctionOnSet(g, 1 .. j) = sum(j) + 1
  BY <1>1, DaySums, PointSums
<1>3. g \in [1 .. Days -> Nat]
  BY <1>1, PointSums
<1>4. \A j \in 1 .. Days : RollFreq * (j - 1 + n) \in Nat
  BY Quota, ChanScoresAssumption
<1> HIDE DEF g, sum
<1>5. t + 1 = SumFunctionOnSet(g, 1 .. Days)
  BY <1>1, <1>2
<1>6. \A j \in 1 .. Days : SumFunctionOnSet(g, 1 .. j) <= RollFreq * (j - 1 + n) + (p + 1)
  BY <1>1, <1>2, <1>4, SMTT(30)
<1> QED BY <1>3, <1>5, <1>6 DEF Tallied, g

(* A new record.                                                           *)
LEMMA TalliedNothing ==
  ASSUME NEW n \in Nat, NEW p \in Nat
  PROVE  Tallied(NoScores, 0, n, p)
<1>1. NoScores \in [1 .. Days -> Nat] /\ \A d \in 1 .. Days : NoScores[d] = 0
  BY DEF NoScores
<1>2. \A j \in 1 .. Days : IsFiniteSet(1 .. j) /\ 1 .. j \subseteq 1 .. Days
  BY FS_Interval, ChanScoresAssumption
<1>3. \A j \in 1 .. Days : SumFunctionOnSet(NoScores, 1 .. j) = 0
  BY <1>1, <1>2, SumOfZeros
<1>4. Days \in 1 .. Days /\ \A j \in 1 .. Days : RollFreq * (j - 1 + n) \in Nat
  BY Quota, ChanScoresAssumption
<1> QED BY <1>1, <1>3, <1>4 DEF Tallied

(* More may be used than was.                                              *)
LEMMA TalliedMore ==
  ASSUME NEW w, NEW t, NEW n \in Nat, NEW p \in Nat, NEW q \in Nat, p <= q,
         Tallied(w, t, n, p)
  PROVE  Tallied(w, t, n, q)
<1>1. \A j \in 1 .. Days : /\ RollFreq * (j - 1 + n) \in Nat
                           /\ w \in [1 .. Days -> Nat] => SumFunctionOnSet(w, 1 .. j) \in Nat
  BY Quota, DaySums, ChanScoresAssumption
<1> QED BY <1>1 DEF Tallied

(* A crash may have cost the record the move of its days.                  *)
LEMMA TalliedCrash ==
  ASSUME NEW w, NEW t, NEW n \in Nat, Tallied(w, t, n, RollFreq)
  PROVE  Tallied(w, t, n + 1, 0)
<1>1. \A j \in 1 .. Days : /\ j - 1 + n \in Nat /\ j - 1 + (n + 1) = (j - 1 + n) + 1
                           /\ RollFreq * (j - 1 + (n + 1)) = RollFreq * (j - 1 + n) + RollFreq
                           /\ RollFreq * (j - 1 + (n + 1)) \in Nat
  <2> TAKE j \in 1 .. Days
  <2>1. j - 1 + n \in Nat /\ j - 1 + (n + 1) = (j - 1 + n) + 1
    BY ChanScoresAssumption
  <2> QED BY <2>1, Quota
<1>2. \A j \in 1 .. Days : RollFreq * (j - 1 + (n + 1)) + 0 = RollFreq * (j - 1 + n) + RollFreq
  BY <1>1
<1> QED BY <1>2 DEF Tallied

(* Today's count does not wrap.                                            *)
LEMMA TalliedFits ==
  ASSUME NEW w, NEW t, NEW n \in 0 .. MaxCrashes, NEW p \in 0 .. RollFreq - 1,
         Tallied(w, t, n, p)
  PROVE  (w[1] + 1) % ScoreLimit = w[1] + 1
<1>1. Days \in Nat \ {0} /\ 1 \in 1 .. Days /\ n \in Nat /\ MaxCrashes \in Nat
  BY ChanScoresAssumption
<1>2. w[1] \in Nat /\ SumFunctionOnSet(w, 1 .. 1) <= RollFreq * (1 - 1 + n) + p
  BY <1>1 DEF Tallied
<1>3. SumFunctionOnSet(w, 1 .. 1) = w[1]
  <2>1. 1 .. 1 - 1 = {}
    OBVIOUS
  <2>2. SumFunctionOnSet(w, 1 .. 1) = w[1] + SumFunctionOnSet(w, 1 .. 1 - 1)
    BY <1>1, DaySums DEF Tallied
  <2> QED BY <1>2, <2>1, <2>2, SumEmpty
<1>4. RollFreq * (n + 1) = RollFreq * n + RollFreq /\ RollFreq * n \in Nat
  BY <1>1, Quota
<1>5. RollFreq * (n + 1) <= RollFreq * (MaxCrashes + 1)
  BY <1>1, Quota
<1>6. w[1] + 1 <= RollFreq * (n + 1)
  <2>1. 1 - 1 + n = n
    BY <1>1
  <2> QED BY <1>2, <1>3, <1>4, <2>1, Quota
<1>7. RollFreq * (MaxCrashes + 1) < ScoreLimit /\ RollFreq * (MaxCrashes + 1) \in Nat
      /\ ScoreLimit \in Nat \ {0}
  BY <1>1, Quota, ChanScoresAssumption
<1> DEFINE most == RollFreq * (MaxCrashes + 1)
           used == RollFreq * (n + 1)
<1>9. w[1] + 1 <= used /\ used <= most /\ most < ScoreLimit /\ most \in Nat /\ used \in Nat
  BY <1>4, <1>5, <1>6, <1>7, Quota
<1> HIDE DEF most, used
<1>8. w[1] + 1 < ScoreLimit
  BY ONLY <1>2, <1>7, <1>9
<1> QED BY <1>2, <1>7, <1>8

(* Nor does a total, and it is no less than its oldest day.                *)
LEMMA TotalFits ==
  ASSUME NEW w, NEW t, NEW n \in 0 .. MaxCrashes, NEW p \in 0 .. RollFreq,
         Tallied(w, t, n, p)
  PROVE  /\ t \in Nat /\ t - w[Days] \in Nat /\ t <= RollFreq * (Days + n)
         /\ (t - w[Days]) % TotLimit = t - w[Days]
         /\ p < RollFreq => (t + 1) % TotLimit = t + 1
<1>1. Days \in Nat \ {0} /\ Days \in 1 .. Days /\ n \in Nat /\ MaxCrashes \in Nat
      /\ Days - 1 + n \in Nat /\ (Days - 1 + n) + 1 = Days + n /\ p \in Nat
      /\ p <= RollFreq /\ n <= MaxCrashes /\ RollFreq \in Nat
  BY ChanScoresAssumption
<1>2. /\ w \in [1 .. Days -> Nat] /\ t = SumFunctionOnSet(w, 1 .. Days)
      /\ SumFunctionOnSet(w, 1 .. Days) <= RollFreq * (Days - 1 + n) + p
  BY <1>1 DEF Tallied
<1>3. t \in Nat /\ w[Days] \in Nat /\ t - w[Days] \in Nat
  <2>1. /\ SumFunctionOnSet(w, 1 .. Days) \in Nat
        /\ SumFunctionOnSet(w, 1 .. Days - 1) \in Nat
        /\ SumFunctionOnSet(w, 1 .. Days) = w[Days] + SumFunctionOnSet(w, 1 .. Days - 1)
    BY <1>1, <1>2, DaySums
  <2>2. w[Days] \in Nat
    BY <1>1, <1>2
  <2> DEFINE less == SumFunctionOnSet(w, 1 .. Days - 1)
  <2>3. less \in Nat /\ t = w[Days] + less
    BY <1>2, <2>1
  <2> HIDE DEF less
  <2> QED BY <2>2, <2>3
<1> DEFINE most == RollFreq * (Days + MaxCrashes)
           used == RollFreq * (Days + n)
           before == RollFreq * (Days - 1 + n)
<1>4. used = before + RollFreq /\ before \in Nat
  BY <1>1, Quota
<1>5. used <= most /\ most \in Nat
  BY <1>1, Quota
<1>6. most < TotLimit /\ TotLimit \in Nat
  BY ChanScoresAssumption
<1>7. t <= before + p
  BY <1>2
<1> HIDE DEF most, used, before
<1>8. t <= used /\ t < TotLimit /\ t - w[Days] < TotLimit
      /\ (p < RollFreq => t + 1 < TotLimit)
  BY <1>1, <1>3, <1>4, <1>5, <1>6, <1>7
<1>9. (t - w[Days]) % TotLimit = t - w[Days]
  BY <1>3, <1>8, Widths
<1>10. p < RollFreq => (t + 1) % TotLimit = t + 1
  <2>1. t + 1 \in Nat
    BY <1>3
  <2> QED BY <1>8, <2>1, Widths
<1> QED BY <1>3, <1>8, <1>9, <1>10 DEF used
-----------------------------------------------------------------------------
(* How much of the current RollFreq the record of u in c may have used:    *)
(* one point for each check since the last roll, if it was moved by it.    *)
Used(c, u) ==
  IF pc = "idle" \/ <<c, u>> \in seen THEN checks + 1
  ELSE IF <<c, u>> \in todo THEN RollFreq
  ELSE checks

(* What the roll and the check still have to do belongs to records.        *)
Marks ==
  /\ todo \subseteq Records /\ seen \subseteq Records /\ torn \subseteq Records
  /\ todo # {} => pc = "roll"
  /\ pc = "roll" => checks = 0 /\ seen = {}
  /\ cur \in Chans => cur \in channels

(* cfi_num_chanusers counts the records.                                   *)
Counted == IsFiniteSet(Records) /\ num_chanusers = Cardinality(Records)

RecordOK(c, u) ==
  /\ c \in channels
  /\ <<c, u>> \notin torn => Tallied(scores[c][u], tot[c][u], crashes, Used(c, u))

(* Each crash left at most one record without a score, and a roll that has *)
(* not reached it yet removes it.                                          *)
FewDead ==
  /\ Cardinality(Dead) <= crashes
  /\ pc # "idle" /\ checks = 0 => Dead \subseteq todo

(* The records of the database, inductive with the chains.  TotalsAddUp    *)
(* alone is not: that a day does not wrap needs a bound for each day, and  *)
(* that needs one for every number of days, since a roll moves them.       *)
RecInv ==
  /\ IInv
  /\ Marks
  /\ Counted
  /\ \A c \in Chans : \A u \in table[c] : RecordOK(c, u)
  /\ FewDead

LEMMA UsedIsFew ==
  ASSUME TypeOK, NEW c, NEW u
  PROVE  /\ Used(c, u) \in 0 .. RollFreq /\ Used(c, u) \in Nat
         /\ crashes \in 0 .. MaxCrashes /\ crashes \in Nat
         /\ checks \in 0 .. RollFreq - 1 /\ checks \in Nat /\ checks + 1 \in 0 .. RollFreq
<1>1. checks \in 0 .. RollFreq - 1 /\ RollFreq \in Nat \ {0} /\ crashes \in 0 .. MaxCrashes
      /\ MaxCrashes \in Nat
  BY ChanScoresAssumption DEF TypeOK
<1> QED BY <1>1 DEF Used

(* Who is dead.                                                            *)
LEMMA DeadIs ==
  ASSUME NEW c \in Chans, NEW u \in Users
  PROVE  /\ <<c, u>> \in Dead <=> u \in table[c] /\ <<c, u>> \notin torn /\ tot[c][u] = 0
         /\ <<c, u>> \in Dead' <=> u \in table'[c] /\ <<c, u>> \notin torn' /\ tot'[c][u] = 0
BY DEF Dead, Records

LEMMA DeadPairs ==
  /\ \A r \in Dead : \E c \in Chans, u \in Users : r = <<c, u>>
  /\ \A r \in Dead' : \E c \in Chans, u \in Users : r = <<c, u>>
BY DEF Dead, Records

(* A step that no crash is, or one that is.                                *)
LEMMA DeadAreFew ==
  ASSUME RecInv, NEW r,
         \/ Dead' \subseteq Dead /\ crashes' = crashes
         \/ Dead' \subseteq Dead \cup {r} /\ crashes' = crashes + 1
  PROVE  Cardinality(Dead') <= crashes'
<1>1. IsFiniteSet(Dead) /\ crashes \in Nat /\ Cardinality(Dead) <= crashes
  <2>1. IsFiniteSet(Records) /\ Dead \subseteq Records
    BY DEF RecInv, Counted, Dead
  <2>2. IsFiniteSet(Dead)
    BY <2>1, FS_Subset
  <2> QED BY <2>2, UsedIsFew DEF RecInv, IInv, FewDead
<1> DEFINE D == Dead
           E == Dead'
<1>2. IsFiniteSet(D) /\ Cardinality(D) <= crashes /\ Cardinality(D) \in Nat
  BY <1>1, FS_CardinalityType
<1> HIDE DEF D, E
<1>3. CASE E \subseteq D /\ crashes' = crashes
  <2>1. IsFiniteSet(E) /\ Cardinality(E) <= Cardinality(D)
    BY <1>2, <1>3, FS_Subset
  <2>2. Cardinality(E) \in Nat
    BY <2>1, FS_CardinalityType
  <2> QED BY <1>1, <1>2, <1>3, <2>1, <2>2 DEF E
<1>4. CASE E \subseteq D \cup {r} /\ crashes' = crashes + 1
  <2> DEFINE F == D \cup {r}
  <2>1. IsFiniteSet(F) /\ Cardinality(F) <= Cardinality(D) + 1
    <3>1. r \notin D => IsFiniteSet(F) /\ Cardinality(F) = Cardinality(D) + 1
      BY <1>2, FS_AddElement
    <3>2. r \in D => F = D
      OBVIOUS
    <3> HIDE DEF F
    <3> QED BY <1>2, <3>1, <3>2
  <2> HIDE DEF F
  <2>2. IsFiniteSet(E) /\ Cardinality(E) <= Cardinality(F)
    BY <1>4, <2>1, FS_Subset DEF F
  <2>3. Cardinality(E) \in Nat /\ Cardinality(F) \in Nat
    BY <2>1, <2>2, FS_CardinalityType
  <2> QED BY <1>1, <1>2, <1>4, <2>1, <2>2, <2>3 DEF E
<1> QED BY <1>3, <1>4 DEF D, E

(* A record that nothing happened to.                                      *)
LEMMA SameRecord ==
  ASSUME TypeOK, NEW c, NEW u, RecordOK(c, u), c \in channels',
         scores'[c][u] = scores[c][u], tot'[c][u] = tot[c][u], crashes' = crashes,
         <<c, u>> \notin torn' => <<c, u>> \notin torn,
         Used(c, u)' \in Nat, Used(c, u) <= Used(c, u)'
  PROVE  RecordOK(c, u)'
<1>1. Used(c, u) \in Nat /\ crashes \in Nat
  BY UsedIsFew
<1>2. <<c, u>> \notin torn' =>
        Tallied(scores[c][u], tot[c][u], crashes, Used(c, u))
  BY DEF RecordOK
<1>3. <<c, u>> \notin torn' =>
        Tallied(scores[c][u], tot[c][u], crashes, Used(c, u)')
  BY <1>1, <1>2, TalliedMore
<1> QED BY <1>3 DEF RecordOK

(* A crash costs a record at most the roll it had coming.                  *)
LEMMA CrashTallied ==
  ASSUME TypeOK, NEW w, NEW t, NEW p \in 0 .. RollFreq, Tallied(w, t, crashes, p)
  PROVE  Tallied(w, t, crashes + 1, checks + 1)
<1>1. crashes \in Nat /\ checks + 1 \in Nat /\ p \in Nat /\ RollFreq \in Nat /\ p <= RollFreq
      /\ crashes + 1 \in Nat /\ 0 <= checks + 1
  BY UsedIsFew, ChanScoresAssumption
<1>2. Tallied(w, t, crashes, RollFreq)
  BY <1>1, TalliedMore
<1>3. Tallied(w, t, crashes + 1, 0)
  BY <1>1, <1>2, TalliedCrash
<1> QED BY <1>1, <1>3, TalliedMore

LEMMA CrashRecord ==
  ASSUME TypeOK, NEW c, NEW u, RecordOK(c, u), c \in channels',
         scores'[c][u] = scores[c][u], tot'[c][u] = tot[c][u],
         crashes' = crashes + 1, pc' = "idle", checks' = checks,
         <<c, u>> \notin torn' => <<c, u>> \notin torn
  PROVE  RecordOK(c, u)'
<1>1. <<c, u>> \notin torn' =>
        Tallied(scores[c][u], tot[c][u], crashes + 1, checks + 1)
  BY UsedIsFew, CrashTallied DEF RecordOK
<1>2. Used(c, u)' = checks + 1
  BY DEF Used
<1> QED BY <1>1, <1>2 DEF RecordOK

LEMMA InitRecInv == Init => RecInv
<1> SUFFICES ASSUME Init PROVE RecInv
  OBVIOUS
<1>1. Records = {} /\ Dead = {}
  BY DEF Init, Records, Dead
<1>2. Counted
  BY <1>1, FS_EmptySet DEF Init, Counted
<1>3. Marks
  BY ChanScoresAssumption DEF Init, Marks
<1>4. \A c \in Chans : table[c] = {}
  BY DEF Init
<1>5. FewDead
  BY <1>1, FS_EmptySet DEF Init, FewDead
<1> QED BY <1>2, <1>3, <1>4, <1>5, InitIInv DEF RecInv

(* A step that touches one record: all the others are as they were.        *)
Elsewhere(c, u) ==
  \A d \in Chans, x \in Users : <<d, x>> # <<c, u>> =>
    /\ scores'[d][x] = scores[d][x] /\ tot'[d][x] = tot[d][x]
    /\ x \in table'[d] <=> x \in table[d]
    /\ <<d, x>> \in torn' <=> <<d, x>> \in torn

(* ... so that the other records stay sound, and none of them dies.        *)
LEMMA OthersKeep ==
  ASSUME RecInv, TypeOK', NEW c, NEW u, Elsewhere(c, u), channels' = channels,
         checks' = checks,
         \/ crashes' = crashes + 1 /\ pc' = "idle"
         \/ /\ crashes' = crashes /\ pc' = pc
            /\ \A r : r # <<c, u>> => (r \in seen' <=> r \in seen) /\ (r \in todo' <=> r \in todo)
  PROVE  /\ \A d \in Chans : \A x \in table'[d] : <<d, x>> # <<c, u>> => RecordOK(d, x)'
         /\ Dead' \subseteq Dead \cup {<<c, u>>}
<1>1. TypeOK /\ table \in [Chans -> SUBSET Users] /\ table' \in [Chans -> SUBSET Users]
  BY DEF RecInv, IInv, TypeOK
<1>2. ASSUME NEW d \in Chans, NEW x \in table'[d], <<d, x>> # <<c, u>>
      PROVE  RecordOK(d, x)'
  <2>1. x \in Users /\ x \in table[d]
    BY <1>1, <1>2 DEF Elsewhere
  <2>2. /\ scores'[d][x] = scores[d][x] /\ tot'[d][x] = tot[d][x]
        /\ <<d, x>> \in torn' <=> <<d, x>> \in torn
    BY <1>2, <2>1 DEF Elsewhere
  <2>3. RecordOK(d, x) /\ d \in channels'
    BY <2>1 DEF RecInv, RecordOK
  <2>4. CASE crashes' = crashes + 1 /\ pc' = "idle"
    BY <1>1, <2>2, <2>3, <2>4, CrashRecord
  <2>5. CASE crashes' = crashes /\ pc' = pc /\ (<<d, x>> \in seen' <=> <<d, x>> \in seen)
             /\ (<<d, x>> \in todo' <=> <<d, x>> \in todo)
    <3>1. Used(d, x)' = Used(d, x)
      BY <2>5 DEF Used
    <3>2. Used(d, x) \in Nat
      BY <1>1, UsedIsFew
    <3>3. Used(d, x)' \in Nat /\ Used(d, x) <= Used(d, x)'
      BY <3>1, <3>2
    <3> QED BY <1>1, <2>2, <2>3, <2>5, <3>3, SameRecord
  <2> QED BY <1>2, <2>4, <2>5
<1>3. ASSUME NEW r \in Dead', r # <<c, u>> PROVE r \in Dead
  <2>1. PICK d \in Chans, x \in Users : r = <<d, x>>
    BY <1>3, DeadPairs
  <2> QED BY <1>3, <2>1, DeadIs DEF Elsewhere
<1> QED BY <1>2, <1>3

(* Every step of the roll keeps the records sound, and so does a crash     *)
(* inside one but for the record it tears.                                 *)
LEMMA RollRecInv ==
  ASSUME RecInv, NEW c \in Chans, NEW u \in Users,
         RollUser(c, u) \/ CutRoll(c, u)
  PROVE  RecInv'
<1> DEFINE w == scores[c][u]
           left == Left(c, u)
<1>1. IInv /\ IInv' /\ TypeOK /\ TypeOK'
  BY RollIInv DEF RecInv, IInv
<1>2. /\ pc = "roll" /\ checks = 0 /\ seen = {} /\ <<c, u>> \in todo
      /\ todo \subseteq Records /\ torn \subseteq Records /\ seen' = {}
      /\ UNCHANGED <<channels, checks>>
  BY DEF RollUser, CutRoll, Dies, RecInv, Marks
<1>3. /\ scores \in [Chans -> [Users -> [1 .. Days -> Nat]]]
      /\ tot \in [Chans -> [Users -> Nat]] /\ table \in [Chans -> SUBSET Users]
  BY <1>1 DEF TypeOK
<1>4. u \in table[c] /\ c \in channels /\ <<c, u>> \in Records
      /\ (<<c, u>> \notin torn => Tallied(w, tot[c][u], crashes, RollFreq))
  <2>1. u \in table[c] /\ <<c, u>> \in Records
    BY <1>2 DEF Records
  <2>2. Used(c, u) = RollFreq
    BY <1>2 DEF Used
  <2> QED BY <2>1, <2>2 DEF RecInv, RecordOK
<1>5. /\ crashes \in Nat /\ crashes \in 0 .. MaxCrashes /\ RollFreq \in 0 .. RollFreq
      /\ 0 \in 0 .. RollFreq
  BY <1>1, UsedIsFew, ChanScoresAssumption
<1>6. <<c, u>> \notin torn => Tallied(Shift(w), left, crashes, 0)
  <2> SUFFICES ASSUME <<c, u>> \notin torn PROVE Tallied(Shift(w), left, crashes, 0)
    OBVIOUS
  <2> DEFINE t == tot[c][u]
  <2>1. Tallied(w, t, crashes, RollFreq) /\ left = (t - w[Days]) % TotLimit
    BY <1>4 DEF Left
  <2> HIDE DEF w, t, left
  <2>2. (t - w[Days]) % TotLimit = t - w[Days]
    BY <1>5, <2>1, TotalFits
  <2> QED BY <1>5, <2>1, <2>2, TalliedShift
<1>7. PICK w2 : scores' = [scores EXCEPT ![c][u] = w2]
  BY DEF RollUser, CutRoll
<1>8. PICK l : tot' = [tot EXCEPT ![c][u] = l]
  BY DEF RollUser, RollKeep, RollDrop, CutRoll
<1>9. table' = table \/ table' = [table EXCEPT ![c] = table[c] \ {u}]
  BY DEF RollUser, RollKeep, RollDrop, CutRoll
<1>10. torn' \cup {<<c, u>>} = torn \cup {<<c, u>>}
  BY DEF RollUser, RollKeep, RollDrop, CutRoll
<1>11. Elsewhere(c, u)
  <2> SUFFICES ASSUME NEW d \in Chans, NEW x \in Users, <<d, x>> # <<c, u>>
               PROVE  /\ scores'[d][x] = scores[d][x] /\ tot'[d][x] = tot[d][x]
                      /\ x \in table'[d] <=> x \in table[d]
                      /\ <<d, x>> \in torn' <=> <<d, x>> \in torn
    BY DEF Elsewhere
  <2>1. <<d, x>> \in torn' <=> <<d, x>> \in torn
    BY <1>10
  <2>2. CASE d = c
    BY <1>3, <1>7, <1>8, <1>9, <2>1, <2>2
  <2>3. CASE d # c
    BY <1>3, <1>7, <1>8, <1>9, <2>1, <2>3
  <2> QED BY <2>2, <2>3
<1>12. \/ crashes' = crashes + 1 /\ pc' = "idle"
       \/ /\ crashes' = crashes /\ pc' = pc
          /\ \A r : r # <<c, u>> => (r \in seen' <=> r \in seen) /\ (r \in todo' <=> r \in todo)
  BY <1>2 DEF RollUser, CutRoll, Dies
<1>13. /\ \A d \in Chans : \A x \in table'[d] : <<d, x>> # <<c, u>> => RecordOK(d, x)'
       /\ Dead' \subseteq Dead \cup {<<c, u>>}
  BY <1>1, <1>2, <1>11, <1>12, OthersKeep
<1> HIDE DEF w, left
<1>14. CASE RollUser(c, u)
  <2>1. /\ todo' = todo \ {<<c, u>>} /\ scores'[c][u] = Shift(w)
        /\ UNCHANGED <<crashes, pc, cur>>
    BY <1>3, <1>14 DEF RollUser, w
  <2>2. <<c, u>> \notin Dead' => Dead' \subseteq Dead
    BY <1>13
  <2>3. Dead \subseteq todo
    BY <1>2 DEF RecInv, FewDead
  <2>4. <<c, u>> \notin Dead' => FewDead'
    <3> SUFFICES ASSUME <<c, u>> \notin Dead' PROVE FewDead'
      OBVIOUS
    <3>1. Cardinality(Dead') <= crashes'
      BY <2>1, <2>2, DeadAreFew
    <3>2. Dead' \subseteq todo'
      BY <2>1, <2>2, <2>3
    <3> QED BY <3>1, <3>2 DEF FewDead
  <2>5. CASE RollKeep(c, u)
    <3>1. left # 0 /\ UNCHANGED <<table, num_chanusers, torn>> /\ tot'[c][u] = left
      BY <1>3, <2>5 DEF RollKeep, left
    <3>2. Used(c, u)' = 0
      BY <1>2, <2>1 DEF Used
    <3>3. RecordOK(c, u)'
      BY <1>2, <1>4, <1>6, <2>1, <3>1, <3>2 DEF RecordOK
    <3>4. Records' = Records
      BY <3>1 DEF Records
    <3>5. Marks' /\ Counted'
      BY <1>2, <2>1, <3>1, <3>4 DEF RecInv, Marks, Counted
    <3>6. <<c, u>> \notin Dead'
      BY <3>1, DeadIs
    <3> QED BY <1>1, <1>13, <2>4, <3>3, <3>5, <3>6 DEF RecInv
  <2>6. CASE RollDrop(c, u)
    <3>1. table' = [table EXCEPT ![c] = table[c] \ {u}] /\ num_chanusers' = num_chanusers - 1
          /\ torn' = torn \ {<<c, u>>}
      BY <2>6 DEF RollDrop
    <3>2. Records' = Records \ {<<c, u>>}
      BY <1>3, <3>1 DEF Records
    <3>3. Marks'
      BY <1>2, <2>1, <3>1, <3>2 DEF RecInv, Marks
    <3>4. Counted'
      <4>1. IsFiniteSet(Records) /\ num_chanusers = Cardinality(Records)
        BY DEF RecInv, Counted
      <4> QED BY <1>4, <3>1, <3>2, <4>1, FS_RemoveElement DEF Counted
    <3>5. u \notin table'[c]
      BY <1>3, <3>1
    <3>6. <<c, u>> \notin Dead'
      BY <3>5, DeadIs
    <3> QED BY <1>1, <1>13, <2>4, <3>3, <3>4, <3>5, <3>6 DEF RecInv
  <2> QED BY <1>14, <2>5, <2>6 DEF RollUser
<1>15. CASE CutRoll(c, u)
  <2>1. /\ crashes' = crashes + 1 /\ pc' = "idle" /\ todo' = {} /\ cur' = NoChan
        /\ UNCHANGED <<table, num_chanusers>> /\ tot'[c][u] = left
    BY <1>3, <1>15 DEF CutRoll, Dies, left
  <2>2. Records' = Records
    BY <2>1 DEF Records
  <2>3. torn' \subseteq Records
    BY <1>2, <1>4, <1>15 DEF CutRoll
  <2>4. Marks' /\ Counted'
    BY <1>2, <2>1, <2>2, <2>3, ChanScoresAssumption DEF RecInv, Marks, Counted
  <2>5. RecordOK(c, u)'
    <3>1. CASE <<c, u>> \in torn'
      BY <1>2, <1>4, <3>1 DEF RecordOK
    <3>2. CASE <<c, u>> \notin torn'
      <4>1. <<c, u>> \notin torn /\ scores'[c][u] = Shift(w)
        BY <1>3, <1>15, <3>2 DEF CutRoll, w
      <4>2. Used(c, u)' = checks + 1
        BY <1>2, <2>1 DEF Used
      <4>3. Tallied(Shift(w), left, crashes + 1, checks + 1)
        BY <1>1, <1>5, <1>6, <4>1, CrashTallied
      <4> QED BY <1>2, <1>4, <2>1, <4>1, <4>2, <4>3 DEF RecordOK
    <3> QED BY <3>1, <3>2
  <2>6. FewDead'
    BY <1>13, <2>1, DeadAreFew DEF FewDead
  <2> QED BY <1>1, <1>13, <2>4, <2>5, <2>6 DEF RecInv
<1> QED BY <1>14, <1>15

(* What a visit finds or creates for the op u of channel c: totals t and   *)
(* days w, sound but for a torn record.                                    *)
Base(c, u, t, w) ==
  /\ t \in [Users -> Nat] /\ w \in [1 .. Days -> Nat]
  /\ \A x \in Users : x # u => t[x] = tot[c][x]
  /\ <<c, u>> \notin torn => Tallied(w, t[u], crashes, Used(c, u))
  /\ <<c, u>> \in seen => w = scores[c][u] /\ t[u] = tot[c][u]
  /\ <<c, u>> \in torn => <<c, u>> \in Records
  /\ Records' = Records \cup {<<c, u>>}
  /\ Counted'
  /\ \A d \in Chans, x \in Users : <<d, x>> # <<c, u>> => (x \in table'[d] <=> x \in table[d])

LEMMA FindBase ==
  ASSUME RecInv, NEW u \in Users, cur \in Chans, Find(u)
  PROVE  Base(cur, u, tot[cur], scores[cur][u])
<1>1. /\ tot[cur] \in [Users -> Nat] /\ scores[cur][u] \in [1 .. Days -> Nat]
      /\ torn \subseteq Records
  BY DEF RecInv, IInv, TypeOK, Marks
<1>2. u \in table[cur] /\ UNCHANGED <<table, num_chanusers>>
  BY DEF Find
<1>3. Records' = Records /\ <<cur, u>> \in Records
  BY <1>2 DEF Records
<1>4. Counted'
  BY <1>2, <1>3 DEF RecInv, Counted
<1>5. <<cur, u>> \notin torn => Tallied(scores[cur][u], tot[cur][u], crashes, Used(cur, u))
  BY <1>2 DEF RecInv, RecordOK
<1>6. Records' = Records \cup {<<cur, u>>}
  BY <1>3
<1> QED BY <1>1, <1>2, <1>4, <1>5, <1>6 DEF Base

LEMMA CreateBase ==
  ASSUME RecInv, NEW u \in Users, cur \in Chans, Create(u)
  PROVE  /\ Base(cur, u, [tot[cur] EXCEPT ![u] = 0], NoScores)
         /\ <<cur, u>> \notin seen /\ <<cur, u>> \notin torn
<1> DEFINE t == [tot[cur] EXCEPT ![u] = 0]
<1>1. /\ tot[cur] \in [Users -> Nat] /\ table \in [Chans -> SUBSET Users]
      /\ torn \subseteq Records /\ seen \subseteq Records /\ TypeOK
  BY DEF RecInv, IInv, TypeOK, Marks
<1>2. /\ u \notin table[cur]
      /\ table' = [table EXCEPT ![cur] = table[cur] \cup {u}]
      /\ num_chanusers' = num_chanusers + 1
  BY DEF Create
<1>3. <<cur, u>> \notin Records
  BY <1>2 DEF Records
<1>4. Records' = Records \cup {<<cur, u>>}
  BY <1>1, <1>2 DEF Records
<1>5. Counted'
  <2>1. IsFiniteSet(Records) /\ num_chanusers = Cardinality(Records)
    BY DEF RecInv, Counted
  <2> QED BY <1>2, <1>3, <1>4, <2>1, FS_AddElement DEF Counted
<1>6. /\ t \in [Users -> Nat] /\ t[u] = 0
      /\ \A x \in Users : x # u => t[x] = tot[cur][x]
  BY <1>1
<1>7. Used(cur, u) \in Nat /\ crashes \in Nat
  BY <1>1, UsedIsFew
<1>8. Tallied(NoScores, 0, crashes, Used(cur, u))
  BY <1>7, TalliedNothing
<1>9. ASSUME NEW d \in Chans, NEW x \in Users, <<d, x>> # <<cur, u>>
      PROVE  x \in table'[d] <=> x \in table[d]
  <2>1. CASE d = cur
    BY <1>1, <1>2, <1>9, <2>1
  <2>2. CASE d # cur
    BY <1>1, <1>2, <2>2
  <2> QED BY <2>1, <2>2
<1>10. <<cur, u>> \notin seen /\ <<cur, u>> \notin torn
  BY <1>1, <1>3
<1>11. NoScores \in [1 .. Days -> Nat]
  BY DEF NoScores
<1> HIDE DEF t
<1>12. Base(cur, u, t, NoScores)
  BY <1>4, <1>5, <1>6, <1>8, <1>9, <1>10, <1>11 DEF Base
<1> QED BY <1>10, <1>12 DEF t

(* A point on what is there is counted right.                              *)
LEMMA Pointing ==
  ASSUME RecInv, NEW c, NEW u, NEW t, NEW w, Base(c, u, t, w), NEW p \in 0 .. RollFreq - 1,
         <<c, u>> \notin torn, Used(c, u) = p
  PROVE  /\ Tallied(Pointed(w), (t[u] + 1) % TotLimit, crashes, p + 1)
         /\ (t[u] + 1) % TotLimit # 0
         /\ Pointed(w) = Point(w)
<1>1. Tallied(w, t[u], crashes, p) /\ crashes \in 0 .. MaxCrashes /\ crashes \in Nat
      /\ p \in Nat /\ p \in 0 .. RollFreq /\ p < RollFreq /\ TypeOK
  BY UsedIsFew, ChanScoresAssumption DEF Base, RecInv, IInv
<1> DEFINE k == t[u]
<1>2. Tallied(w, k, crashes, p)
  BY <1>1
<1> HIDE DEF k
<1>3. (k + 1) % TotLimit = k + 1 /\ k \in Nat
  BY <1>1, <1>2, TotalFits
<1>4. Pointed(w) = Point(w)
  BY <1>1, <1>2, TalliedFits DEF Pointed, Point
<1>5. Tallied(Point(w), k + 1, crashes, p + 1)
  BY <1>1, <1>2, TalliedPoint
<1>6. (k + 1) % TotLimit # 0
  BY <1>3
<1> QED BY <1>3, <1>4, <1>5, <1>6 DEF k

(* What the point of a visit does to the records.                          *)
Credits(c, u, t, w) ==
  /\ seen' = seen \cup {<<c, u>>}
  /\ \A d \in Chans, x \in Users : <<d, x>> # <<c, u>> =>
       scores'[d][x] = scores[d][x] /\ tot'[d][x] = tot[d][x]
  /\ <<c, u>> \notin seen => scores'[c][u] = Pointed(w) /\ tot'[c][u] = (t[u] + 1) % TotLimit
  /\ <<c, u>> \in seen => scores'[c][u] = w /\ tot'[c][u] = t[u]

(* The total k and the days w2 are stored for u in channel c only.         *)
Stored(c, u, k, w2) ==
  /\ \A d \in Chans, x \in Users : <<d, x>> # <<c, u>> =>
       scores'[d][x] = scores[d][x] /\ tot'[d][x] = tot[d][x]
  /\ scores'[c][u] = w2 /\ tot'[c][u] = k

LEMMA Stores ==
  ASSUME TypeOK, NEW c \in Chans, NEW u \in Users, NEW t2, NEW w2,
         tot' = [tot EXCEPT ![c] = t2], scores' = [scores EXCEPT ![c][u] = w2],
         \A x \in Users : x # u => t2[x] = tot[c][x]
  PROVE  Stored(c, u, t2[u], w2)
<1>1. /\ tot \in [Chans -> [Users -> Nat]]
      /\ scores \in [Chans -> [Users -> [1 .. Days -> Nat]]]
  BY DEF TypeOK
<1>2. tot'[c] = t2 /\ \A d \in Chans : d # c => tot'[d] = tot[d]
  BY <1>1
<1>3. ASSUME NEW d \in Chans, NEW x \in Users, <<d, x>> # <<c, u>>
      PROVE  scores'[d][x] = scores[d][x] /\ tot'[d][x] = tot[d][x]
  <2>1. CASE d = c
    BY <2>1, <1>1, <1>2, <1>3
  <2>2. CASE d # c
    BY <2>2, <1>1, <1>2
  <2> QED BY <2>1, <2>2
<1> QED BY <1>1, <1>2, <1>3 DEF Stored

LEMMA CountOpRecords ==
  ASSUME TypeOK, NEW c \in Chans, NEW u \in Users, NEW s, NEW t, NEW w,
         Base(c, u, t, w), CountOp(c, u, s, t, w)
  PROVE  Credits(c, u, t, w)
<1>1. t \in [Users -> Nat] /\ \A x \in Users : x # u => t[x] = tot[c][x]
  BY DEF Base
<1>2. seen' = seen \cup {<<c, u>>}
  BY DEF CountOp
<1>3. CASE <<c, u>> \notin seen
  <2> DEFINE t2 == [t EXCEPT ![u] = (@ + 1) % TotLimit]
             w2 == Pointed(w)
  <2>1. /\ tot' = [tot EXCEPT ![c] = t2] /\ scores' = [scores EXCEPT ![c][u] = w2]
    BY <1>3 DEF CountOp
  <2>2. t2[u] = (t[u] + 1) % TotLimit /\ \A x \in Users : x # u => t2[x] = tot[c][x]
    BY <1>1
  <2> HIDE DEF t2, w2
  <2>3. Stored(c, u, t2[u], w2)
    BY <2>1, <2>2, Stores
  <2> QED BY <1>2, <1>3, <2>2, <2>3 DEF Credits, Stored, w2
<1>4. CASE <<c, u>> \in seen
  <2>1. /\ tot' = [tot EXCEPT ![c] = t] /\ scores' = [scores EXCEPT ![c][u] = w]
    BY <1>4 DEF CountOp
  <2>2. Stored(c, u, t[u], w)
    BY <1>1, <2>1, Stores
  <2> QED BY <1>2, <1>4, <2>2 DEF Credits, Stored
<1> QED BY <1>3, <1>4

(* Counting one op keeps the records sound.                                *)
LEMMA VisitOpRecInv ==
  ASSUME RecInv, NEW u \in Users, VisitOp(u)
  PROVE  RecInv'
<1>0. cur \in Chans
  BY DEF RecInv, IInv, TypeOK, VisitOp, CurOK
<1>c. PICK c \in Chans : c = cur
  BY <1>0
<1>1. IInv /\ IInv' /\ TypeOK /\ TypeOK'
  BY VisitOpIInv DEF RecInv, IInv
<1>2. /\ pc = "check" /\ UNCHANGED <<channels, checks, pc, todo, cur, crashes, torn>>
      /\ todo = {} /\ seen \subseteq Records /\ torn \subseteq Records /\ c \in channels
      /\ (checks = 0 => Dead = {})
  BY <1>0, <1>c DEF VisitOp, cutVars, RecInv, Marks, FewDead
<1>3. checks \in 0 .. RollFreq - 1 /\ checks \in Nat /\ crashes \in Nat
  BY <1>1, UsedIsFew
<1>4. ASSUME NEW s, NEW t, NEW w, Base(c, u, t, w), CountOp(c, u, s, t, w)
      PROVE  RecInv'
  <2>1. Credits(c, u, t, w)
    BY <1>1, <1>4, CountOpRecords
  <2>2. /\ seen' = seen \cup {<<c, u>>}
        /\ \A d \in Chans, x \in Users : <<d, x>> # <<c, u>> =>
              scores'[d][x] = scores[d][x] /\ tot'[d][x] = tot[d][x]
        /\ <<c, u>> \notin seen => /\ scores'[c][u] = Pointed(w)
                                   /\ tot'[c][u] = (t[u] + 1) % TotLimit
        /\ <<c, u>> \in seen => scores'[c][u] = w /\ tot'[c][u] = t[u]
    BY ONLY <2>1 DEF Credits
  <2>3. /\ <<c, u>> \notin torn => Tallied(w, t[u], crashes, Used(c, u))
        /\ <<c, u>> \in seen => w = scores[c][u] /\ t[u] = tot[c][u]
        /\ Records' = Records \cup {<<c, u>>} /\ Counted'
        /\ \A d \in Chans, x \in Users : <<d, x>> # <<c, u>> =>
              (x \in table'[d] <=> x \in table[d])
    BY <1>4 DEF Base
  <2>4. Elsewhere(c, u)
    BY <1>2, <2>2, <2>3 DEF Elsewhere
  <2>5. /\ \A d \in Chans : \A x \in table'[d] : <<d, x>> # <<c, u>> => RecordOK(d, x)'
        /\ Dead' \subseteq Dead \cup {<<c, u>>}
    BY <1>1, <1>2, <2>2, <2>4, OthersKeep
  <2>6. CASE <<c, u>> \in seen
    <3>1. seen' = seen /\ scores'[c][u] = scores[c][u] /\ tot'[c][u] = tot[c][u]
      BY <2>2, <2>3, <2>6
    <3>2. u \in table[c] /\ u \in table'[c] /\ Records' = Records
      BY <1>2, <2>3, <2>6 DEF Records
    <3>3. RecordOK(c, u) /\ Used(c, u)' = Used(c, u) /\ Used(c, u) \in Nat
      BY <1>1, <1>2, <3>1, <3>2, UsedIsFew DEF RecInv, Used
    <3>4. Used(c, u)' \in Nat /\ Used(c, u) <= Used(c, u)'
      BY <3>3
    <3>5. RecordOK(c, u)'
      BY <1>1, <1>2, <3>1, <3>3, <3>4, SameRecord
    <3>6. Dead' \subseteq Dead
      BY <1>2, <2>5, <3>1, <3>2, DeadIs
    <3>7. Marks'
      BY <1>2, <3>1, <3>2 DEF RecInv, Marks
    <3>8. FewDead'
      <4>1. Cardinality(Dead') <= crashes'
        BY <1>2, <3>6, DeadAreFew
      <4> QED BY <1>2, <3>6, <4>1 DEF FewDead
    <3> QED BY <1>1, <2>3, <2>5, <3>5, <3>7, <3>8 DEF RecInv
  <2>7. CASE <<c, u>> \notin seen
    <3>1. Used(c, u) = checks /\ Used(c, u)' = checks + 1
      BY <1>2, <2>2, <2>7 DEF Used
    <3>2. <<c, u>> \notin torn =>
            /\ Tallied(scores'[c][u], tot'[c][u], crashes, checks + 1)
            /\ tot'[c][u] # 0
      BY <1>3, <1>4, <2>2, <2>7, <3>1, Pointing
    <3>3. RecordOK(c, u)'
      BY <1>2, <3>1, <3>2 DEF RecordOK
    <3>4. Dead' \subseteq Dead
      BY <1>2, <2>5, <3>2, DeadIs
    <3>5. FewDead'
      <4>1. Cardinality(Dead') <= crashes'
        BY <1>2, <3>4, DeadAreFew
      <4> QED BY <1>2, <3>4, <4>1 DEF FewDead
    <3>6. seen' \subseteq Records' /\ torn' \subseteq Records' /\ todo' = {}
          /\ pc' = "check" /\ cur' \in channels'
      BY <1>2, <1>c, <2>2, <2>3
    <3>7. Marks'
      BY <3>6 DEF Marks
    <3> QED BY <1>1, <2>3, <2>5, <3>3, <3>5, <3>7 DEF RecInv
  <2> QED BY <2>6, <2>7
<1>5. CASE VisitKnown(u)
  BY <1>0, <1>c, <1>4, <1>5, FindBase DEF VisitKnown
<1>6. CASE VisitNew(u)
  BY <1>0, <1>c, <1>4, <1>6, CreateBase DEF VisitNew
<1>7. CASE VisitFails(u)
  <2>1. UNCHANGED <<table, scores, tot, num_chanusers, seen>>
    BY <1>7 DEF VisitFails
  <2>2. Records' = Records
    BY <2>1 DEF Records
  <2>3. Dead' = Dead
    BY <1>2, <2>1, <2>2 DEF Dead
  <2>4. Marks' /\ Counted' /\ FewDead'
    BY <1>2, <2>1, <2>2, <2>3 DEF RecInv, Marks, Counted, FewDead
  <2>5. ASSUME NEW d \in Chans, NEW x \in table'[d] PROVE RecordOK(d, x)'
    <3>1. RecordOK(d, x) /\ d \in channels' /\ Used(d, x)' = Used(d, x) /\ Used(d, x) \in Nat
      BY <1>1, <1>2, <2>1, UsedIsFew DEF RecInv, RecordOK, Used
    <3>2. Used(d, x)' \in Nat /\ Used(d, x) <= Used(d, x)'
      BY <3>1
    <3> QED BY <1>1, <1>2, <2>1, <3>1, <3>2, SameRecord
  <2> QED BY <1>1, <2>4, <2>5 DEF RecInv
<1> QED BY <1>5, <1>6, <1>7 DEF VisitOp

(* A crash inside a visit leaves the record torn, or sound.                *)
LEMMA CutVisitRecInv ==
  ASSUME RecInv, NEW u \in Users, CutVisit(u)
  PROVE  RecInv'
<1>0. cur \in Chans
  BY DEF RecInv, IInv, TypeOK, CutVisit, CurOK
<1>c. PICK c \in Chans : c = cur
  BY <1>0
<1>1. IInv /\ IInv' /\ TypeOK /\ TypeOK'
  BY CutVisitIInv DEF RecInv, IInv
<1>2. /\ pc = "check" /\ pc' = "idle" /\ crashes' = crashes + 1 /\ seen' = {} /\ todo' = {}
      /\ cur' = NoChan /\ UNCHANGED <<channels, checks>>
      /\ todo = {} /\ torn \subseteq Records /\ c \in channels
  BY <1>0, <1>c DEF CutVisit, Dies, RecInv, Marks
<1>3. checks \in 0 .. RollFreq - 1 /\ checks \in Nat /\ crashes \in Nat
      /\ checks + 1 \in 0 .. RollFreq
  BY <1>1, UsedIsFew
<1>4. Used(c, u)' = checks + 1
  BY <1>2 DEF Used
<1>5. ASSUME NEW t, NEW w, Base(c, u, t, w), NEW k, NEW w2, Stored(c, u, k, w2),
             torn' \subseteq torn \cup {<<c, u>>}, torn \subseteq torn',
             <<c, u>> \notin torn' => Tallied(w2, k, crashes + 1, checks + 1)
      PROVE  RecInv'
  <2>1. /\ Records' = Records \cup {<<c, u>>} /\ Counted'
        /\ \A d \in Chans, x \in Users : <<d, x>> # <<c, u>> =>
              (x \in table'[d] <=> x \in table[d])
    BY <1>5 DEF Base
  <2>2. Elsewhere(c, u)
    BY <1>5, <2>1 DEF Elsewhere, Stored
  <2>3. /\ \A d \in Chans : \A x \in table'[d] : <<d, x>> # <<c, u>> => RecordOK(d, x)'
        /\ Dead' \subseteq Dead \cup {<<c, u>>}
    BY <1>1, <1>2, <2>2, OthersKeep
  <2>4. RecordOK(c, u)'
    BY <1>2, <1>4, <1>5 DEF RecordOK, Stored
  <2>5. Marks'
    BY <1>2, <1>5, <2>1, ChanScoresAssumption DEF Marks
  <2>6. FewDead'
    BY <1>2, <2>3, DeadAreFew DEF FewDead
  <2> QED BY <1>1, <2>1, <2>3, <2>4, <2>5, <2>6 DEF RecInv
<1>6. ASSUME NEW s, NEW t, NEW w, Base(c, u, t, w), CutCount(u, s, t, w)
      PROVE  RecInv'
  <2>1. /\ t \in [Users -> Nat] /\ \A x \in Users : x # u => t[x] = tot[c][x]
        /\ <<c, u>> \notin seen
    BY <1>c, <1>6 DEF Base, CutCount
  <2> DEFINE t2 == [t EXCEPT ![u] = (@ + 1) % TotLimit]
  <2>2. t2[u] = (t[u] + 1) % TotLimit /\ \A x \in Users : x # u => t2[x] = tot[c][x]
    BY <2>1
  <2>3. tot' = [tot EXCEPT ![c] = t2]
    BY <1>c, <1>6 DEF CutCount
  <2> HIDE DEF t2
  <2>4. Used(c, u) = checks
    BY <1>2, <2>1 DEF Used
  <2>5. CASE scores' = [scores EXCEPT ![c][u] = w] /\ torn' = torn \cup {<<c, u>>}
    <3>1. Stored(c, u, t2[u], w)
      BY <1>1, <2>2, <2>3, <2>5, Stores
    <3> QED BY <1>5, <1>6, <2>5, <3>1
  <2>6. CASE scores' = [scores EXCEPT ![c][u] = Pointed(w)] /\ torn' = torn
    <3> DEFINE w2 == Pointed(w)
               k == t2[u]
    <3>1. scores' = [scores EXCEPT ![c][u] = w2]
      BY <2>6
    <3> HIDE DEF w2
    <3>2. Stored(c, u, k, w2)
      BY <1>1, <2>2, <2>3, <3>1, Stores
    <3>3. <<c, u>> \notin torn => Tallied(w2, k, crashes, checks + 1)
      BY <1>3, <1>6, <2>2, <2>4, Pointing DEF w2
    <3> HIDE DEF k
    <3>4. <<c, u>> \notin torn' => Tallied(w2, k, crashes + 1, checks + 1)
      BY <1>1, <1>3, <2>6, <3>3, CrashTallied
    <3> QED BY <1>5, <1>6, <2>6, <3>2, <3>4
  <2> QED BY <1>c, <1>6, <2>5, <2>6 DEF CutCount
<1>7. CASE Create(u) /\ CutCreate(u)
  <2> DEFINE t == [tot[c] EXCEPT ![u] = 0]
  <2>1. Base(c, u, t, NoScores)
    BY <1>0, <1>c, <1>7, CreateBase
  <2>2. tot \in [Chans -> [Users -> Nat]]
    BY <1>1 DEF TypeOK
  <2>3. /\ tot' = [tot EXCEPT ![c] = t] /\ scores' = [scores EXCEPT ![c][u] = NoScores]
        /\ torn' = torn /\ t[u] = 0 /\ \A x \in Users : x # u => t[x] = tot[c][x]
    BY <1>c, <1>7, <2>2 DEF CutCreate
  <2> HIDE DEF t
  <2>4. Stored(c, u, t[u], NoScores)
    BY <1>1, <2>3, Stores
  <2>5. Stored(c, u, 0, NoScores)
    BY <2>3, <2>4
  <2>6. Tallied(NoScores, 0, crashes + 1, checks + 1)
    <3>1. crashes + 1 \in Nat /\ checks + 1 \in Nat
      BY <1>3
    <3> QED BY <3>1, TalliedNothing
  <2> QED BY <1>5, <2>1, <2>3, <2>5, <2>6
<1>8. Find(u) => Base(c, u, tot[c], scores[c][u])
  BY <1>0, <1>c, FindBase
<1>9. Create(u) => Base(c, u, [tot[c] EXCEPT ![u] = 0], NoScores)
  BY <1>0, <1>c, CreateBase
<1> QED BY <1>c, <1>6, <1>7, <1>8, <1>9 DEF CutVisit

LEMMA CheckBeginRecInv ==
  ASSUME RecInv, NEW present \in SUBSET Chans, CheckBegin(present)
  PROVE  RecInv'
<1>1. IInv /\ IInv' /\ TypeOK
  <2>1. IInv /\ Next
    BY DEF RecInv, Next
  <2> QED BY <2>1, NextIInv DEF IInv
<1>2. /\ pc = "idle" /\ checks' = (checks + 1) % RollFreq
      /\ pc' = IF checks' = 0 THEN "roll" ELSE "check"
      /\ todo' = IF checks' = 0 THEN Records ELSE {}
      /\ seen' = {}
      /\ UNCHANGED <<channels, table, scores, tot, num_chanusers, cur, crashes, torn>>
  BY DEF CheckBegin, cutVars
<1>3. checks \in 0 .. RollFreq - 1 /\ RollFreq \in Nat \ {0}
  BY <1>1, ChanScoresAssumption DEF TypeOK
<1>4. /\ checks' = 0 => checks + 1 = RollFreq
      /\ checks' # 0 => checks' = checks + 1
      /\ checks' \in Nat
  <2>1. CASE checks + 1 = RollFreq
    <3>1. RollFreq % RollFreq = 0
      BY ONLY <1>3
    <3> QED BY <1>2, <1>3, <2>1, <3>1
  <2>2. CASE checks + 1 # RollFreq
    <3>1. checks + 1 \in 0 .. RollFreq - 1
      BY <1>3, <2>2
    <3>2. (checks + 1) % RollFreq = checks + 1
      BY ONLY <1>3, <3>1
    <3> QED BY <1>2, <1>3, <3>1, <3>2
  <2> QED BY <2>1, <2>2
<1>5. Records' = Records /\ Dead' = Dead
  BY <1>2 DEF Records, Dead
<1>6. Marks'
  BY <1>2, <1>5 DEF RecInv, Marks
<1>7. Counted' /\ FewDead'
  <2>1. Dead \subseteq Records
    BY DEF Dead
  <2> QED BY <1>2, <1>5, <2>1 DEF RecInv, Counted, FewDead
<1>8. ASSUME NEW c \in Chans, NEW u \in table'[c] PROVE RecordOK(c, u)'
  <2>1. RecordOK(c, u) /\ c \in channels' /\ u \in table[c]
    BY <1>2 DEF RecInv, RecordOK
  <2>2. Used(c, u) = checks + 1
    BY <1>2 DEF Used
  <2>3. Used(c, u)' = checks + 1
    <3>1. CASE checks' = 0
      <4>1. <<c, u>> \in Records
        BY <1>1, <2>1 DEF Records, TypeOK
      <4>2. <<c, u>> \in todo' /\ pc' # "idle" /\ <<c, u>> \notin seen'
        BY <1>2, <3>1, <4>1
      <4> QED BY <1>4, <3>1, <4>2 DEF Used
    <3>2. CASE checks' # 0
      <4>1. <<c, u>> \notin todo' /\ pc' # "idle" /\ <<c, u>> \notin seen'
        BY <1>2, <3>2
      <4> QED BY <1>4, <3>2, <4>1 DEF Used
    <3> QED BY <3>1, <3>2
  <2>4. checks + 1 \in Nat /\ checks + 1 <= checks + 1
    BY <1>3
  <2> QED BY <1>1, <1>2, <2>1, <2>2, <2>3, <2>4, SameRecord
<1> QED BY <1>1, <1>6, <1>7, <1>8 DEF RecInv

LEMMA CrashRecInv ==
  ASSUME RecInv, Crash
  PROVE  RecInv'
<1>1. IInv /\ IInv' /\ TypeOK
  <2>1. IInv /\ Next
    BY DEF RecInv, Next
  <2> QED BY <2>1, NextIInv DEF IInv
<1>2. /\ crashes' = crashes + 1 /\ pc' = "idle" /\ todo' = {} /\ seen' = {} /\ cur' = NoChan
      /\ UNCHANGED <<channels, table, scores, tot, num_chanusers, checks, torn>>
  BY DEF Crash, Dies, dbVars
<1>3. Records' = Records /\ Dead' = Dead
  BY <1>2 DEF Records, Dead
<1>4. Marks' /\ Counted'
  BY <1>2, <1>3, ChanScoresAssumption DEF RecInv, Marks, Counted
<1>5. FewDead'
  BY <1>2, <1>3, DeadAreFew DEF FewDead
<1>6. ASSUME NEW c \in Chans, NEW u \in table'[c] PROVE RecordOK(c, u)'
  <2>1. RecordOK(c, u) /\ c \in channels'
    BY <1>2 DEF RecInv, RecordOK
  <2> QED BY <1>1, <1>2, <2>1, CrashRecord
<1> QED BY <1>1, <1>4, <1>5, <1>6 DEF RecInv

(* The other steps of a check leave the records alone.                     *)
LEMMA QuietRecInv ==
  ASSUME RecInv, IInv', channels \subseteq channels',
         UNCHANGED <<table, scores, tot, num_chanusers, checks, todo, seen, crashes, torn>>,
         pc' = pc \/ (todo = {} /\ pc # "idle" /\ pc' # "roll"),
         cur' \in Chans => cur' \in channels'
  PROVE  RecInv'
<1>1. TypeOK
  BY DEF RecInv, IInv
<1>2. Records' = Records /\ Dead' = Dead
  BY DEF Records, Dead
<1>3. Marks' /\ Counted' /\ FewDead'
  BY <1>2 DEF RecInv, Marks, Counted, FewDead
<1>4. checks \in Nat
  BY <1>1, ChanScoresAssumption DEF TypeOK
<1>5. ASSUME NEW c \in Chans, NEW u \in table'[c] PROVE RecordOK(c, u)'
  <2>1. RecordOK(c, u) /\ c \in channels'
    BY DEF RecInv, RecordOK
  <2>2. Used(c, u) \in Nat
    BY <1>1, UsedIsFew
  <2>3. Used(c, u)' = Used(c, u) \/ (Used(c, u) = checks /\ Used(c, u)' = checks + 1)
    BY DEF Used
  <2>4. Used(c, u)' \in Nat /\ Used(c, u) <= Used(c, u)'
    BY <1>4, <2>2, <2>3
  <2> QED BY <1>1, <2>1, <2>4, SameRecord
<1> QED BY <1>3, <1>5 DEF RecInv

LEMMA NextRecInv == RecInv /\ [Next]_vars => RecInv'
<1> SUFFICES ASSUME RecInv, [Next]_vars PROVE RecInv'
  OBVIOUS
<1>1. IInv' /\ Marks
  BY NextIInv DEF RecInv
<1>2. ASSUME NEW present \in SUBSET Chans, CheckBegin(present) PROVE RecInv'
  BY <1>2, CheckBeginRecInv
<1>3. ASSUME NEW c \in Chans, NEW u \in Users, RollUser(c, u) \/ CutRoll(c, u)
      PROVE  RecInv'
  BY <1>3, RollRecInv
<1>4. CASE RollDone
  BY <1>1, <1>4, QuietRecInv DEF RollDone, dbVars, cutVars, Marks
<1>5. ASSUME NEW c \in Chans, NEW v \in [Users -> 0 .. MaxClones],
             NEW hasOps \in BOOLEAN, EnterChannel(c, v, hasOps)
      PROVE  RecInv'
  BY <1>1, <1>5, QuietRecInv DEF EnterChannel, cutVars
<1>6. ASSUME NEW c \in Chans, SkipChannel(c) PROVE RecInv'
  BY <1>1, <1>6, QuietRecInv DEF SkipChannel, dbVars, cutVars, Marks
<1>7. ASSUME NEW u \in Users, VisitOp(u) PROVE RecInv'
  BY <1>7, VisitOpRecInv
<1>8. CASE CheckDone
  BY <1>1, <1>8, QuietRecInv, ChanScoresAssumption DEF CheckDone, dbVars, cutVars, Marks
<1>9. CASE Crash
  BY <1>9, CrashRecInv
<1>10. ASSUME NEW u \in Users, CutVisit(u) PROVE RecInv'
  BY <1>10, CutVisitRecInv
<1>11. CASE UNCHANGED vars
  BY <1>1, <1>11, QuietRecInv DEF vars, dbVars, runVars, cutVars, Marks
<1> QED BY <1>2, <1>3, <1>4, <1>5, <1>6, <1>7, <1>8, <1>9, <1>10, <1>11 DEF Next

(* A part of a chain holds as many records as places.                      *)
LEMMA PartOfChain ==
  ASSUME NEW s \in Seq(Users), NoTwice(s), NEW a \in 1 .. Len(s) + 1
  PROVE  /\ IsFiniteSet({s[i] : i \in a .. Len(s)})
         /\ Cardinality({s[i] : i \in a .. Len(s)}) = Len(s) + 1 - a
<1> DEFINE P == a .. Len(s)
           T == {s[i] : i \in P}
           f == [i \in P |-> s[i]]
<1>1. Len(s) \in Nat /\ a \in Int /\ P \subseteq 1 .. Len(s)
  BY LenProperties
<1>2. IsFiniteSet(P) /\ Cardinality(P) = Len(s) + 1 - a
  <2>1. /\ IsFiniteSet(P)
        /\ Cardinality(P) = IF a > Len(s) THEN 0 ELSE Len(s) - a + 1
    <3> DEFINE n == Len(s)
    <3>1. n \in Int
      BY <1>1
    <3> HIDE DEF n
    <3>2. IsFiniteSet(a .. n) /\ Cardinality(a .. n) = IF a > n THEN 0 ELSE n - a + 1
      BY ONLY <1>1, <3>1, FS_Interval
    <3> QED BY <3>2 DEF n
  <2>2. a > Len(s) => Len(s) + 1 - a = 0
    BY <1>1
  <2>3. Len(s) - a + 1 = Len(s) + 1 - a
    BY <1>1
  <2> QED BY <2>1, <2>2, <2>3
<1>3. f \in Bijection(P, T)
  <2>1. f \in [P -> T]
    OBVIOUS
  <2>2. \A i, j \in P : f[i] = f[j] => i = j
    BY <1>1 DEF NoTwice
  <2>3. \A x \in T : \E i \in P : f[i] = x
    OBVIOUS
  <2> HIDE DEF P, T, f
  <2> QED BY <2>1, <2>2, <2>3 DEF Bijection, Injection, Surjection, IsInjective
<1> HIDE DEF P, T, f
<1>4. ExistsBijection(P, T)
  BY <1>3 DEF ExistsBijection
<1>5. IsFiniteSet(T) /\ Cardinality(T) = Len(s) + 1 - a
  BY <1>2, <1>4, FS_Bijection
<1> QED BY <1>5 DEF T, P

(* The walk of _chanfix_channel_reop over a chain in order.                *)
LEMMA KthBest ==
  ASSUME NEW s, NEW t \in [Users -> Int], NEW T, NEW n, Linked(s, T, n),
         Ascending(s, t), NEW k \in 1 .. n - 1
  PROVE  /\ Cardinality({u \in T : t[u] >= ScoreNeeded(s, t, k)}) >= k
         /\ Cardinality({u \in T : t[u] > ScoreNeeded(s, t, k)}) < k
<1> DEFINE least == ScoreNeeded(s, t, k)
           a == n + 1 - k
           atLeast == {u \in T : t[u] >= least}
           above == {u \in T : t[u] > least}
           from(b) == {s[i] : i \in b .. Len(s)}
<1>1. /\ s \in Seq(Users) /\ Ascending(s, t) /\ NoTwice(s)
      /\ T = {s[i] : i \in 1 .. Len(s)} /\ n = Len(s) /\ n \in Nat
  BY LenProperties DEF Linked, Elements
<1>2. a \in 1 .. n /\ a + 1 \in 1 .. Len(s) + 1 /\ a \in 1 .. Len(s) + 1 /\ k \in Nat
      /\ Len(s) + 1 - a = k /\ Len(s) + 1 - (a + 1) = k - 1
  BY <1>1
<1>3. least = t[s[a]]
  <2>1. 1 + Len(s) - k = a /\ Len(s) - (k - 1) = a /\ ~ (k >= Len(s))
    BY <1>1
  <2> QED BY <2>1 DEF ScoreNeeded
<1>4. \A i \in 1 .. n : s[i] \in Users /\ t[s[i]] \in Int
  BY <1>1, ElementOfSeq
<1> HIDE DEF least, a
<1>5. from(a) \subseteq atLeast
  <2> SUFFICES ASSUME NEW i \in a .. Len(s) PROVE s[i] \in T /\ t[s[i]] >= least
    OBVIOUS
  <2>1. i \in 1 .. n /\ (a = i \/ a < i)
    BY <1>1, <1>2
  <2>2. t[s[a]] <= t[s[i]]
    BY <1>1, <1>2, <1>4, <2>1 DEF Ascending
  <2> QED BY <1>1, <1>2, <1>3, <1>4, <2>1, <2>2
<1>6. above \subseteq from(a + 1)
  <2> SUFFICES ASSUME NEW i \in 1 .. Len(s), t[s[i]] > least PROVE i \in a + 1 .. Len(s)
    BY <1>1
  <2>1. CASE i <= a
    <3>1. t[s[i]] <= t[s[a]]
      BY <1>1, <1>2, <1>4, <2>1 DEF Ascending
    <3> QED BY <1>1, <1>2, <1>3, <1>4, <3>1
  <2>2. CASE ~ (i <= a)
    BY <1>1, <1>2, <2>2
  <2> QED BY <2>1, <2>2
<1>7. \A b \in 1 .. Len(s) + 1 : IsFiniteSet(from(b)) /\ Cardinality(from(b)) = Len(s) + 1 - b
  BY <1>1, PartOfChain
<1>8. IsFiniteSet(T)
  <2>1. 1 \in 1 .. Len(s) + 1 /\ from(1) = T
    BY <1>1
  <2> HIDE DEF from
  <2> QED BY <1>7, <2>1
<1>9. IsFiniteSet(atLeast)
  BY <1>8, FS_Subset
<1> HIDE DEF from, atLeast, above
<1>10. Cardinality(from(a)) = k /\ Cardinality(from(a + 1)) = k - 1 /\ IsFiniteSet(from(a + 1))
  BY <1>2, <1>7
<1>11. Cardinality(atLeast) >= k
  <2>1. Cardinality(from(a)) <= Cardinality(atLeast) /\ Cardinality(atLeast) \in Nat
    BY <1>5, <1>9, FS_Subset, FS_CardinalityType
  <2> QED BY <1>2, <1>10, <2>1
<1>12. Cardinality(above) < k
  <2>1. Cardinality(above) <= Cardinality(from(a + 1)) /\ IsFiniteSet(above)
    BY <1>6, <1>10, FS_Subset
  <2>2. Cardinality(above) \in Nat
    BY <2>1, FS_CardinalityType
  <2> QED BY <1>2, <1>10, <2>1, <2>2
<1> QED BY <1>11, <1>12 DEF atLeast, above, least

(* What the records' invariant says of the sums, the bounds and the        *)
(* thresholds.                                                             *)
LEMMA RecInvIsSound == RecInv => RecordsSound
<1> SUFFICES ASSUME RecInv PROVE RecordsSound
  OBVIOUS
<1>1. /\ TypeOK /\ Marks /\ Counted /\ FewDead /\ SortedOK
      /\ \A c \in Chans : Linked(sorted[c], table[c], users_num[c])
      /\ \A c \in Chans : \A u \in table[c] : RecordOK(c, u)
  BY DEF RecInv, IInv
<1>2. ASSUME NEW r \in Records \ torn
      PROVE  \E c \in Chans, u \in Users :
               /\ r = <<c, u>> /\ u \in table[c]
               /\ Tallied(scores[c][u], tot[c][u], crashes, Used(c, u))
  <2>1. PICK c \in Chans, u \in Users : r = <<c, u>> /\ u \in table[c]
    BY DEF Records
  <2> QED BY <1>1, <2>1 DEF RecordOK
<1>3. TotalsAddUp
  <2> SUFFICES ASSUME NEW c \in Chans, NEW u \in Users,
                      Tallied(scores[c][u], tot[c][u], crashes, Used(c, u))
               PROVE  tot[c][u] = SumFunction(scores[c][u])
    BY <1>2 DEF TotalsAddUp
  <2> DEFINE w == scores[c][u]
             D == 1 .. Days
  <2>1. w \in [D -> Nat] /\ tot[c][u] = SumFunctionOnSet(w, D)
    BY DEF Tallied
  <2>2. IsFiniteSet(D)
    <3>1. Days \in Int /\ 1 \in Int
      BY ChanScoresAssumption
    <3> QED BY ONLY <3>1, FS_Interval
  <2>3. DOMAIN w = D /\ \A x \in D : w[x] \in Nat
    BY <2>1
  <2>5. DOMAIN w = D /\ \A x \in D : w[x] \in Int /\ w[x] = w[x]
    <3> HIDE DEF w, D
    <3> QED BY <2>3
  <2> HIDE DEF w, D
  <2>4. SumFunction(w) = SumFunctionOnSet(w, D)
    BY <2>2, <2>5, SumOfFunction
  <2> QED BY <2>1, <2>4 DEF w
<1>4. NoDeadRecords
  BY <1>1 DEF NoDeadRecords, RecordOK, FewDead, Counted
<1>5. ScoresBounded
  <2> SUFFICES ASSUME NEW c \in Chans, NEW u \in Users,
                      Tallied(scores[c][u], tot[c][u], crashes, Used(c, u))
               PROVE  tot[c][u] <= RollFreq * (Days + crashes)
    BY <1>2 DEF ScoresBounded
  <2>1. Used(c, u) \in 0 .. RollFreq /\ crashes \in 0 .. MaxCrashes
    BY <1>1, UsedIsFew
  <2> QED BY <2>1, TotalFits
<1>6. ThresholdIsKthBest
  <2> SUFFICES ASSUME NEW c \in Chans \ unsorted, NEW k \in 1 .. users_num[c] - 1
               PROVE  /\ Cardinality({u \in table[c] :
                           tot[c][u] >= ScoreNeeded(sorted[c], tot[c], k)}) >= k
                      /\ Cardinality({u \in table[c] :
                           tot[c][u] > ScoreNeeded(sorted[c], tot[c], k)}) < k
    BY DEF ThresholdIsKthBest
  <2>1. tot[c] \in [Users -> Int]
    BY <1>1 DEF TypeOK
  <2>2. Ascending(sorted[c], tot[c])
    BY <1>1 DEF SortedOK
  <2> QED BY <1>1, <2>1, <2>2, KthBest
<1> QED BY <1>3, <1>4, <1>5, <1>6 DEF RecordsSound

THEOREM RecordsInvariance == Spec => []RecInv
BY InitRecInv, NextRecInv, PTL DEF Spec

(* Between any two updates of a check, a roll or a crash, and after one    *)
(* inside an update: the totals are the sums of the days and bounded, but  *)
(* for records whose total a crash parted from their days; a crash leaves  *)
(* at most one record without a score and the next roll removes it; the    *)
(* walk for a threshold finds the k-th best, but for channels a crash kept *)
(* from sorting a changed total.                                           *)
THEOREM RecordsAreSound == Spec => []RecordsSound
BY RecInvIsSound, RecordsInvariance, PTL

-----------------------------------------------------------------------------
(* What the board sees of one record.                                      *)
LEMMA WindowOf ==
  ASSUME NEW c \in Chans, NEW u \in Users
  PROVE  /\ u \notin table[c] \/ <<c, u>> \in torn => Window[c][u] = NoScores
         /\ u \in table[c] /\ <<c, u>> \notin torn =>
              Window[c][u] = IF <<c, u>> \in todo THEN Shift(scores[c][u]) ELSE scores[c][u]
         /\ u \notin table'[c] \/ <<c, u>> \in torn' => Window'[c][u] = NoScores
         /\ u \in table'[c] /\ <<c, u>> \notin torn' =>
              Window'[c][u] = IF <<c, u>> \in todo' THEN Shift(scores'[c][u])
                              ELSE scores'[c][u]
BY DEF Window

(* Two boards with the same windows are the same.                          *)
LEMMA SameWindows ==
  ASSUME \A c \in Chans, u \in Users : Window'[c][u] = Window[c][u]
  PROVE  Window' = Window
<1> DEFINE before(c, u) == IF u \notin table[c] \/ <<c, u>> \in torn THEN NoScores
                           ELSE IF <<c, u>> \in todo THEN Shift(scores[c][u])
                           ELSE scores[c][u]
           after(c, u) == IF u \notin table'[c] \/ <<c, u>> \in torn' THEN NoScores
                          ELSE IF <<c, u>> \in todo' THEN Shift(scores'[c][u])
                          ELSE scores'[c][u]
<1>1. Window = [c \in Chans |-> [u \in Users |-> before(c, u)]]
  BY DEF Window
<1>2. Window' = [c \in Chans |-> [u \in Users |-> after(c, u)]]
  BY DEF Window
<1> HIDE DEF before, after
<1>3. \A c \in Chans, u \in Users : after(c, u) = before(c, u)
  BY <1>1, <1>2
<1> QED BY <1>1, <1>2, <1>3

(* One record of which the board did not see anything.                     *)
LEMMA SameRecordOnBoard ==
  ASSUME NEW c \in Chans, NEW u \in Users, scores'[c][u] = scores[c][u],
         u \in table'[c] <=> u \in table[c],
         <<c, u>> \in torn' <=> <<c, u>> \in torn,
         <<c, u>> \in todo' <=> <<c, u>> \in todo
  PROVE  Window'[c][u] = Window[c][u]
BY WindowOf

LEMMA ShiftOfNothing == Shift(NoScores) = NoScores
<1>1. \A d \in 1 .. Days : d # 1 => d - 1 \in 1 .. Days
  BY ChanScoresAssumption
<1> QED BY <1>1 DEF Shift, NoScores

LEMMA LaterIsShift == NoScores = Board!NoCounts /\ \A w : Board!Later(w) = Shift(w)
BY DEF Board!Later, Shift, NoScores, Board!NoCounts

LEMMA InitBoard == Init => Board!BoardInit
<1> SUFFICES ASSUME Init PROVE Board!BoardInit
  OBVIOUS
<1>1. \A c \in Chans : table[c] = {}
  BY DEF Init
<1>2. Window = [c \in Chans |-> [u \in Users |-> NoScores]]
  BY <1>1 DEF Window
<1>3. seen \ torn = {}
  BY DEF Init
<1> QED BY <1>2, <1>3, LaterIsShift DEF Init, Board!BoardInit

(* A check begins by moving every window, or none.                         *)
LEMMA CheckBeginBoard ==
  ASSUME RecInv, NEW present \in SUBSET Chans, CheckBegin(present)
  PROVE  Board!NewCheck
<1>1. /\ pc = "idle" /\ checks' = (checks + 1) % RollFreq
      /\ todo' = IF checks' = 0 THEN Records ELSE {}
      /\ seen' = {} /\ UNCHANGED <<table, scores, torn>>
  BY DEF CheckBegin, cutVars
<1>2. todo = {} /\ table \in [Chans -> SUBSET Users]
  BY <1>1 DEF RecInv, IInv, TypeOK, Marks
<1>3. Window' = IF checks' = 0
                THEN [c \in Chans |-> [u \in Users |-> Shift(Window[c][u])]]
                ELSE Window
  <2>1. CASE checks' = 0
    <3>1. ASSUME NEW c \in Chans, NEW u \in Users
          PROVE  Window'[c][u] = Shift(Window[c][u])
      <4>1. CASE u \in table[c] /\ <<c, u>> \notin torn
        <5>1. <<c, u>> \in todo' /\ <<c, u>> \notin todo
          BY <1>1, <1>2, <2>1, <4>1 DEF Records
        <5> QED BY <1>1, <4>1, <5>1, WindowOf
      <4>2. CASE ~ (u \in table[c] /\ <<c, u>> \notin torn)
        BY <1>1, <4>2, WindowOf, ShiftOfNothing
      <4> QED BY <4>1, <4>2
    <3> DEFINE moved(c, u) == Shift(Window[c][u])
               after(c, u) == IF u \notin table'[c] \/ <<c, u>> \in torn' THEN NoScores
                              ELSE IF <<c, u>> \in todo' THEN Shift(scores'[c][u])
                              ELSE scores'[c][u]
    <3>2. Window' = [c \in Chans |-> [u \in Users |-> after(c, u)]]
      BY DEF Window
    <3>3. \A c \in Chans, u \in Users : Window'[c][u] = moved(c, u)
      BY <3>1
    <3> HIDE DEF moved, after
    <3>4. \A c \in Chans, u \in Users : after(c, u) = moved(c, u)
      BY <3>2, <3>3
    <3>5. Window' = [c \in Chans |-> [u \in Users |-> moved(c, u)]]
      BY <3>2, <3>4
    <3> QED BY <2>1, <3>5 DEF moved
  <2>2. CASE checks' # 0
    <3>1. \A c \in Chans, u \in Users : Window'[c][u] = Window[c][u]
      BY <1>1, <1>2, <2>2, SameRecordOnBoard
    <3> QED BY <2>2, <3>1, SameWindows
  <2> QED BY <2>1, <2>2
<1>4. seen' \ torn' = {}
  BY <1>1
<1> QED BY <1>1, <1>3, <1>4, LaterIsShift DEF Board!NewCheck

(* The roll of one record shows only that it has been done.                *)
LEMMA RollUserBoard ==
  ASSUME RecInv, NEW c \in Chans, NEW u \in Users, RollUser(c, u)
  PROVE  UNCHANGED <<Window, seen \ torn, checks>>
<1> DEFINE w == scores[c][u]
<1>1. TypeOK /\ todo \subseteq Records /\ UNCHANGED <<seen, checks>>
      /\ <<c, u>> \in todo /\ todo' = todo \ {<<c, u>>} /\ pc = "roll" /\ seen = {}
  BY DEF RecInv, IInv, Marks, RollUser
<1>2. /\ scores \in [Chans -> [Users -> [1 .. Days -> Nat]]]
      /\ table \in [Chans -> SUBSET Users]
  BY <1>1 DEF TypeOK
<1>3. /\ scores' = [scores EXCEPT ![c][u] = Shift(w)]
      /\ table' = table \/ table' = [table EXCEPT ![c] = table[c] \ {u}]
      /\ torn' = torn \/ torn' = torn \ {<<c, u>>}
  BY DEF RollUser, RollKeep, RollDrop
<1>4. /\ u \in table[c]
      /\ <<c, u>> \notin torn => Tallied(w, tot[c][u], crashes, Used(c, u))
  <2>1. u \in table[c]
    BY <1>1 DEF Records
  <2> QED BY <2>1 DEF RecInv, RecordOK
<1> HIDE DEF w
<1>5. Window[c][u] = IF <<c, u>> \in torn THEN NoScores ELSE Shift(w)
  BY <1>1, <1>4, WindowOf DEF w
<1>6. Window'[c][u] = Window[c][u]
  <2>1. CASE RollKeep(c, u)
    <3>1. u \in table'[c] /\ <<c, u>> \notin todo' /\ torn' = torn
      BY <1>1, <1>4, <2>1 DEF RollKeep
    <3>2. scores'[c][u] = Shift(w)
      BY <1>2, <1>3
    <3> QED BY <1>5, <3>1, <3>2, WindowOf
  <2>2. CASE RollDrop(c, u)
    <3>1. u \notin table'[c]
      BY <1>2, <2>2 DEF RollDrop
    <3>2. <<c, u>> \notin torn => Shift(w) = NoScores
      <4> SUFFICES ASSUME <<c, u>> \notin torn PROVE Shift(w) = NoScores
        OBVIOUS
      <4> DEFINE t == tot[c][u]
                 p == Used(c, u)
      <4>1. Tallied(w, t, crashes, p) /\ (t - w[Days]) % TotLimit = 0
        BY <1>4, <2>2 DEF RollDrop, Left, w
      <4>2. p \in 0 .. RollFreq /\ crashes \in 0 .. MaxCrashes
        BY <1>1, UsedIsFew
      <4> HIDE DEF t, p
      <4>3. t - w[Days] = 0
        BY <4>1, <4>2, TotalFits
      <4> QED BY <4>1, <4>3, TalliedEmpty
    <3> QED BY <1>5, <3>1, <3>2, WindowOf
  <2> QED BY <2>1, <2>2 DEF RollUser
<1>7. ASSUME NEW d \in Chans, NEW x \in Users, <<d, x>> # <<c, u>>
      PROVE  Window'[d][x] = Window[d][x]
  <2>1. /\ <<d, x>> \in todo' <=> <<d, x>> \in todo
        /\ <<d, x>> \in torn' <=> <<d, x>> \in torn
    BY <1>1, <1>3, <1>7
  <2>2. scores'[d][x] = scores[d][x] /\ (x \in table'[d] <=> x \in table[d])
    <3>1. CASE d = c
      BY <1>2, <1>3, <1>7, <3>1
    <3>2. CASE d # c
      BY <1>2, <1>3, <3>2
    <3> QED BY <3>1, <3>2
  <2> QED BY <2>1, <2>2, SameRecordOnBoard
<1>8. \A d \in Chans, x \in Users : Window'[d][x] = Window[d][x]
  BY <1>6, <1>7
<1> QED BY <1>1, <1>8, SameWindows

(* The windows when a visit stored the days w2 for one record.             *)
LEMMA OneWindow ==
  ASSUME NEW c \in Chans, NEW u \in Users, NEW g, Window'[c][u] = g,
         \A d \in Chans, x \in Users : <<d, x>> # <<c, u>> => Window'[d][x] = Window[d][x]
  PROVE  Window' = [Window EXCEPT ![c][u] = g]
<1> DEFINE after(d, x) == IF x \notin table'[d] \/ <<d, x>> \in torn' THEN NoScores
                          ELSE IF <<d, x>> \in todo' THEN Shift(scores'[d][x])
                          ELSE scores'[d][x]
           before(d, x) == IF x \notin table[d] \/ <<d, x>> \in torn THEN NoScores
                           ELSE IF <<d, x>> \in todo THEN Shift(scores[d][x])
                           ELSE scores[d][x]
<1>1. /\ Window' = [d \in Chans |-> [x \in Users |-> after(d, x)]]
      /\ Window = [d \in Chans |-> [x \in Users |-> before(d, x)]]
  BY DEF Window
<1> HIDE DEF after, before
<1>2. /\ \A d \in Chans, x \in Users : <<d, x>> # <<c, u>> => after(d, x) = before(d, x)
      /\ after(c, u) = g
  BY <1>1
<1>3. [Window EXCEPT ![c][u] = g]
        = [d \in Chans |-> [x \in Users |-> IF d = c /\ x = u THEN g ELSE before(d, x)]]
  BY <1>1
<1>4. \A d \in Chans, x \in Users :
        after(d, x) = IF d = c /\ x = u THEN g ELSE before(d, x)
  BY <1>2
<1>5. Window' = [d \in Chans |-> [x \in Users |-> IF d = c /\ x = u THEN g ELSE before(d, x)]]
  BY <1>1, <1>4
<1> QED BY <1>3, <1>5

(* What the board sees of the record a visit finds or creates.             *)
LEMMA BaseOnBoard ==
  ASSUME RecInv, NEW u \in Users, cur \in Chans, todo = {}
  PROVE  /\ Find(u) => /\ Base(cur, u, tot[cur], scores[cur][u])
                       /\ <<cur, u>> \notin torn => Window[cur][u] = scores[cur][u]
                       /\ u \in table'[cur]
         /\ Create(u) => /\ Base(cur, u, [tot[cur] EXCEPT ![u] = 0], NoScores)
                         /\ Window[cur][u] = NoScores
                         /\ u \in table'[cur]
<1>1. Find(u) => /\ Base(cur, u, tot[cur], scores[cur][u])
                 /\ <<cur, u>> \notin torn => Window[cur][u] = scores[cur][u]
                 /\ u \in table'[cur]
  BY FindBase, WindowOf DEF Find
<1>2. Create(u) => /\ Base(cur, u, [tot[cur] EXCEPT ![u] = 0], NoScores)
                   /\ Window[cur][u] = NoScores
  BY CreateBase, WindowOf DEF Create
<1>3. Create(u) => u \in table'[cur]
  <2>1. table \in [Chans -> SUBSET Users]
    BY DEF RecInv, IInv, TypeOK
  <2> QED BY <2>1 DEF Create
<1> QED BY <1>1, <1>2, <1>3

(* A visit credits the user of the channel, once.                          *)
LEMMA VisitOpBoard ==
  ASSUME RecInv, NEW u \in Users, VisitOp(u)
  PROVE  \/ \E c \in Chans : Board!Credit(c, u)
         \/ UNCHANGED <<Window, seen \ torn, checks>>
<1>0. cur \in Chans
  BY DEF RecInv, IInv, TypeOK, VisitOp, CurOK
<1>c. PICK c \in Chans : c = cur
  BY <1>0
<1>1. TypeOK /\ todo = {} /\ todo' = {} /\ checks' = checks /\ torn' = torn
      /\ pc = "check" /\ seen \subseteq Records
  BY DEF RecInv, IInv, Marks, VisitOp, cutVars
<1>2. checks \in 0 .. RollFreq - 1
  BY <1>1, UsedIsFew
<1>3. ASSUME NEW s, NEW t, NEW w, Base(c, u, t, w), CountOp(c, u, s, t, w),
             u \in table'[c], <<c, u>> \notin torn => Window[c][u] = w
      PROVE  Board!Credit(c, u) \/ UNCHANGED <<Window, seen \ torn, checks>>
  <2>1. Credits(c, u, t, w)
    BY <1>1, <1>3, CountOpRecords
  <2>2. /\ seen' = seen \cup {<<c, u>>}
        /\ <<c, u>> \notin seen => scores'[c][u] = Pointed(w)
        /\ <<c, u>> \in seen => scores'[c][u] = w
    BY <2>1 DEF Credits
  <2>3. ASSUME NEW d \in Chans, NEW x \in Users, <<d, x>> # <<c, u>>
        PROVE  Window'[d][x] = Window[d][x]
    <3>1. scores'[d][x] = scores[d][x]
      BY <2>1, <2>3 DEF Credits
    <3>2. x \in table'[d] <=> x \in table[d]
      BY <1>3, <2>3 DEF Base
    <3> QED BY <1>1, <3>1, <3>2, SameRecordOnBoard
  <2>4. CASE <<c, u>> \in torn \/ <<c, u>> \in seen
    <3>1. Window'[c][u] = Window[c][u]
      BY <1>1, <1>3, <2>2, <2>4, WindowOf
    <3>2. \A d \in Chans, x \in Users : Window'[d][x] = Window[d][x]
      BY <2>3, <3>1
    <3>3. seen' \ torn' = seen \ torn
      BY <1>1, <2>2, <2>4
    <3> QED BY <1>1, <3>2, <3>3, SameWindows
  <2>5. CASE <<c, u>> \notin torn /\ <<c, u>> \notin seen
    <3> DEFINE g == Point(w)
    <3>1. Used(c, u) = checks
      BY <1>1, <2>5 DEF Used
    <3>2. Pointed(w) = g
      BY <1>2, <1>3, <2>5, <3>1, Pointing
    <3>3. Window'[c][u] = g
      BY <1>1, <1>3, <2>2, <2>5, <3>2, WindowOf
    <3>4. [Window EXCEPT ![c][u][1] = @ + 1] = [Window EXCEPT ![c][u] = g]
      BY <1>3, <2>5 DEF Point
    <3> HIDE DEF g
    <3>5. Window' = [Window EXCEPT ![c][u] = g]
      BY <2>3, <3>3, OneWindow
    <3>6. <<c, u>> \notin seen \ torn /\ seen' \ torn' = (seen \ torn) \cup {<<c, u>>}
      BY <1>1, <2>2, <2>5
    <3> QED BY <1>1, <3>4, <3>5, <3>6 DEF Board!Credit
  <2> QED BY <2>4, <2>5
<1>4. CASE VisitKnown(u)
  BY <1>0, <1>c, <1>1, <1>3, <1>4, BaseOnBoard DEF VisitKnown
<1>5. CASE VisitNew(u)
  BY <1>0, <1>c, <1>1, <1>3, <1>5, BaseOnBoard DEF VisitNew
<1>6. CASE VisitFails(u)
  <2>1. UNCHANGED <<table, scores, seen>>
    BY <1>6 DEF VisitFails
  <2>2. \A d \in Chans, x \in Users : Window'[d][x] = Window[d][x]
    BY <1>1, <2>1, SameRecordOnBoard
  <2> QED BY <1>1, <2>1, <2>2, SameWindows
<1> QED BY <1>4, <1>5, <1>6 DEF VisitOp

(* A crash leaves a window the roll had not reached where it was.          *)
LEMMA CrashDelays ==
  ASSUME RecInv, NEW c \in Chans, NEW u \in Users, todo' = {},
         scores'[c][u] = scores[c][u],
         u \in table'[c] <=> u \in table[c],
         <<c, u>> \in torn' <=> <<c, u>> \in torn
  PROVE  Board!Delayed(c, u)
<1>1. todo # {} => checks = 0
  BY DEF RecInv, Marks
<1>2. \/ Window'[c][u] = Window[c][u]
      \/ checks = 0 /\ Shift(Window'[c][u]) = Window[c][u]
  <2>1. CASE u \in table[c] /\ <<c, u>> \notin torn /\ <<c, u>> \in todo
    BY <1>1, <2>1, WindowOf
  <2>2. CASE ~ (u \in table[c] /\ <<c, u>> \notin torn /\ <<c, u>> \in todo)
    BY <2>2, WindowOf
  <2> QED BY <2>1, <2>2
<1> QED BY <1>2, LaterIsShift DEF Board!Delayed

LEMMA CrashBoard ==
  ASSUME RecInv, Crash
  PROVE  Board!CutShort
<1>1. seen' = {} /\ todo' = {} /\ UNCHANGED <<table, scores, checks, torn>>
  BY DEF Crash, Dies, dbVars
<1>2. \A c \in Chans, u \in Users : Board!Delayed(c, u)
  BY <1>1, CrashDelays
<1>3. seen' \ torn' = {}
  BY <1>1
<1> QED BY <1>1, <1>2, <1>3 DEF Board!CutShort

(* A crash inside the roll of a record loses its window, or the record is  *)
(* already moved.                                                          *)
LEMMA CutRollBoard ==
  ASSUME RecInv, NEW c \in Chans, NEW u \in Users, CutRoll(c, u)
  PROVE  Board!CutShort \/ Board!CutShortAt(c, u)
<1>1. /\ seen' \ torn' = {} /\ todo' = {} /\ <<c, u>> \in todo /\ todo \subseteq Records
      /\ UNCHANGED <<table, checks>> /\ TypeOK /\ TypeOK'
  BY RollIInv DEF CutRoll, Dies, RecInv, IInv, Marks
<1>2. scores \in [Chans -> [Users -> [1 .. Days -> Nat]]] /\ u \in table[c]
  BY <1>1 DEF TypeOK, Records
<1>3. PICK w2 : scores' = [scores EXCEPT ![c][u] = w2]
  BY DEF CutRoll
<1>4. torn' = torn \/ torn' = torn \cup {<<c, u>>}
  BY DEF CutRoll
<1>5. ASSUME NEW d \in Chans, NEW x \in Users, <<d, x>> # <<c, u>>
      PROVE  Board!Delayed(d, x)
  <2>1. <<d, x>> \in torn' <=> <<d, x>> \in torn
    BY <1>4, <1>5
  <2>2. scores'[d][x] = scores[d][x]
    <3>1. CASE d = c
      BY <1>2, <1>3, <1>5, <3>1
    <3>2. CASE d # c
      BY <1>2, <1>3, <3>2
    <3> QED BY <3>1, <3>2
  <2> QED BY <1>1, <2>1, <2>2, CrashDelays
<1>6. CASE <<c, u>> \in torn'
  <2>1. Window'[c][u] = Board!NoCounts
    BY <1>6, WindowOf, LaterIsShift
  <2> QED BY <1>1, <1>5, <2>1 DEF Board!CutShortAt
<1>7. CASE <<c, u>> \notin torn'
  <2>1. torn' = torn /\ scores' = [scores EXCEPT ![c][u] = Shift(scores[c][u])]
    BY <1>7 DEF CutRoll
  <2>2. scores'[c][u] = Shift(scores[c][u])
    BY <1>2, <2>1
  <2>3. Window'[c][u] = Window[c][u]
    BY <1>1, <1>2, <1>7, <2>1, <2>2, WindowOf
  <2>4. Board!Delayed(c, u)
    BY <2>3 DEF Board!Delayed
  <2>5. \A d \in Chans, x \in Users : Board!Delayed(d, x)
    BY <1>5, <2>4
  <2> QED BY <1>1, <2>5 DEF Board!CutShort
<1> QED BY <1>6, <1>7

(* A crash inside a visit loses the window, or the user has his credit.    *)
LEMMA CutVisitBoard ==
  ASSUME RecInv, NEW u \in Users, CutVisit(u)
  PROVE  \E c \in Chans : Board!CutShortAt(c, u)
<1>0. cur \in Chans
  BY DEF RecInv, IInv, TypeOK, CutVisit, CurOK
<1>c. PICK c \in Chans : c = cur
  BY <1>0
<1>1. /\ TypeOK /\ todo = {} /\ pc = "check" /\ seen' = {} /\ todo' = {} /\ checks' = checks
      /\ seen' \ torn' = {}
  BY DEF CutVisit, Dies, RecInv, IInv, Marks
<1>2. /\ scores \in [Chans -> [Users -> [1 .. Days -> Nat]]]
      /\ checks \in 0 .. RollFreq - 1
  BY <1>1, UsedIsFew DEF TypeOK
<1>3. ASSUME NEW w2, scores' = [scores EXCEPT ![c][u] = w2], NEW t, NEW w, Base(c, u, t, w),
             torn' = torn \/ torn' = torn \cup {<<c, u>>},
             NEW d \in Chans, NEW x \in Users, <<d, x>> # <<c, u>>
      PROVE  Board!Delayed(d, x)
  <2>1. <<d, x>> \in torn' <=> <<d, x>> \in torn
    BY <1>3
  <2>2. scores'[d][x] = scores[d][x]
    <3>1. CASE d = c
      BY <1>2, <1>3, <3>1
    <3>2. CASE d # c
      BY <1>2, <1>3, <3>2
    <3> QED BY <3>1, <3>2
  <2>3. x \in table'[d] <=> x \in table[d]
    BY <1>3 DEF Base
  <2> QED BY <1>1, <2>1, <2>2, <2>3, CrashDelays
<1>4. ASSUME NEW s, NEW t, NEW w, Base(c, u, t, w), CutCount(u, s, t, w),
             u \in table'[c], <<c, u>> \notin torn => Window[c][u] = w
      PROVE  Board!CutShortAt(c, u)
  <2>1. <<c, u>> \notin seen
    BY <1>c, <1>4 DEF CutCount
  <2>2. PICK w2 : /\ scores' = [scores EXCEPT ![c][u] = w2]
                  /\ \/ torn' = torn \cup {<<c, u>>}
                     \/ torn' = torn /\ w2 = Pointed(w)
    BY <1>c, <1>4 DEF CutCount
  <2>3. \A d \in Chans, x \in Users : <<d, x>> = <<c, u>> \/ Board!Delayed(d, x)
    BY <1>3, <1>4, <2>2
  <2>4. CASE <<c, u>> \in torn'
    <3>1. Window'[c][u] = Board!NoCounts
      BY <2>4, WindowOf, LaterIsShift
    <3> QED BY <1>1, <2>3, <3>1 DEF Board!CutShortAt
  <2>5. CASE <<c, u>> \notin torn'
    <3>1. torn' = torn /\ w2 = Pointed(w) /\ <<c, u>> \notin torn
      BY <2>2, <2>5
    <3>2. Used(c, u) = checks
      BY <1>1, <2>1 DEF Used
    <3>3. Pointed(w) = Point(w)
      BY <1>2, <1>4, <3>1, <3>2, Pointing
    <3>4. scores'[c][u] = w2
      BY <1>2, <2>2
    <3>5. Window'[c][u] = Point(w)
      BY <1>1, <1>4, <2>5, <3>1, <3>3, <3>4, WindowOf
    <3>6. Window'[c][u] = [Window[c][u] EXCEPT ![1] = @ + 1]
      BY <1>4, <3>1, <3>5 DEF Point
    <3>7. <<c, u>> \notin seen \ torn
      BY <2>1
    <3> QED BY <1>1, <2>3, <3>6, <3>7 DEF Board!CutShortAt
  <2> QED BY <2>4, <2>5
<1>5. ASSUME Create(u), CutCreate(u)
      PROVE  Board!CutShortAt(c, u)
  <2>1. scores' = [scores EXCEPT ![c][u] = NoScores] /\ torn' = torn
    BY <1>c, <1>5 DEF CutCreate
  <2>2. \A d \in Chans, x \in Users : <<d, x>> = <<c, u>> \/ Board!Delayed(d, x)
    BY <1>0, <1>1, <1>c, <1>3, <1>5, <2>1, BaseOnBoard
  <2>3. scores'[c][u] = NoScores
    BY <1>2, <2>1
  <2>4. Window'[c][u] = Board!NoCounts
    BY <1>1, <2>3, WindowOf, LaterIsShift
  <2> QED BY <1>1, <2>2, <2>4 DEF Board!CutShortAt
<1>6. CASE Find(u) /\ CutCount(u, sorted[cur], tot[cur], scores[cur][u])
  BY <1>0, <1>1, <1>c, <1>4, <1>6, BaseOnBoard
<1>7. CASE Create(u) /\ CutCount(u, PushFront(u, sorted[cur]),
                                 [tot[cur] EXCEPT ![u] = 0], NoScores)
  BY <1>0, <1>1, <1>c, <1>4, <1>7, BaseOnBoard
<1>8. CASE Create(u) /\ CutCreate(u)
  BY <1>5, <1>8
<1> QED BY <1>6, <1>7, <1>8 DEF CutVisit

(* The other steps of a check show nothing.                                *)
LEMMA QuietBoard ==
  ASSUME UNCHANGED <<table, scores, todo, seen, checks, torn>>
  PROVE  UNCHANGED <<Window, seen \ torn, checks>>
BY DEF Window

LEMMA NextBoard ==
  ASSUME RecInv, [Next]_vars
  PROVE  [Board!BoardNext]_<<Window, seen \ torn, checks>>
<1>1. ASSUME NEW present \in SUBSET Chans, CheckBegin(present) PROVE Board!BoardNext
  BY <1>1, CheckBeginBoard DEF Board!BoardNext
<1>2. ASSUME NEW c \in Chans, NEW u \in Users, RollUser(c, u)
      PROVE  UNCHANGED <<Window, seen \ torn, checks>>
  BY <1>2, RollUserBoard
<1>3. CASE RollDone
  BY <1>3, QuietBoard DEF RollDone, dbVars, cutVars
<1>4. ASSUME NEW c \in Chans, NEW v \in [Users -> 0 .. MaxClones],
             NEW hasOps \in BOOLEAN, EnterChannel(c, v, hasOps)
      PROVE  UNCHANGED <<Window, seen \ torn, checks>>
  BY <1>4, QuietBoard DEF EnterChannel, cutVars
<1>5. ASSUME NEW c \in Chans, SkipChannel(c) PROVE UNCHANGED <<Window, seen \ torn, checks>>
  BY <1>5, QuietBoard DEF SkipChannel, dbVars, cutVars
<1>6. ASSUME NEW u \in Users, VisitOp(u)
      PROVE  Board!BoardNext \/ UNCHANGED <<Window, seen \ torn, checks>>
  BY <1>6, VisitOpBoard DEF Board!BoardNext
<1>7. CASE CheckDone
  BY <1>7, QuietBoard DEF CheckDone, dbVars, cutVars
<1>8. CASE Crash
  BY <1>8, CrashBoard DEF Board!BoardNext
<1>9. ASSUME NEW c \in Chans, NEW u \in Users, CutRoll(c, u) PROVE Board!BoardNext
  BY <1>9, CutRollBoard DEF Board!BoardNext
<1>10. ASSUME NEW u \in Users, CutVisit(u) PROVE Board!BoardNext
  BY <1>10, CutVisitBoard DEF Board!BoardNext
<1>11. CASE UNCHANGED vars
  BY <1>11, QuietBoard DEF vars, dbVars, runVars, cutVars
<1> QED BY <1>1, <1>2, <1>3, <1>4, <1>5, <1>6, <1>7, <1>8, <1>9, <1>10, <1>11 DEF Next

(* The scores are what the abstract score board says: each op of a check   *)
(* is credited once, for the day it was seen, and a roll moves all windows *)
(* at once.  A crash delays the move of some, and the one record it was at *)
(* has its credit already, or its window is lost.                          *)
THEOREM BoardIsImplemented == Spec => ImplementsBoard
<1>1. Init => Board!BoardInit
  BY InitBoard
<1>2. RecInv /\ [Next]_vars => [Board!BoardNext]_Board!boardVars
  BY NextBoard DEF Board!boardVars
<1> QED BY <1>1, <1>2, RecordsInvariance, PTL DEF Spec, ImplementsBoard, Board!BoardSpec

=============================================================================
