------------------------------ MODULE ChanScores ------------------------------
(***************************************************************************)
(* The chanfix score database and the periodic check that feeds it:        *)
(* modules/chanfixdb/chanfixdb.c (records, chains, roll) driven by         *)
(* _chanfix_check of modules/chanfix/mod_chanfix.c.                        *)
(*                                                                         *)
(* The check is one call of a timer callback.  It is split here into one   *)
(* step per database record it touches, in the order the code touches      *)
(* them, because the file is mapped MAP_SHARED: whatever a crash           *)
(* interrupts is what the next start finds.  pc keeps the steps of a       *)
(* check together.  A record is updated by several stores and calls (it is *)
(* created, counted and sorted, or rolled and then sorted or removed): a   *)
(* crash between any two of them is CutVisit or CutRoll, which leave just  *)
(* the first ones done.  chanfixdb_chanuser_create, _sort and _remove and  *)
(* the memmove of the days are taken whole.                                *)
(*                                                                         *)
(* Hash buckets are abstracted to "any order", userhosts and channel names *)
(* to values.  The automatic reop the check may start (module Chanfix) and *)
(* the mode slots (module ModeSlots) do not touch this state.              *)
(***************************************************************************)
EXTENDS Integers, Sequences, FiniteSets, Functions, ScoreList

CONSTANTS
  Chans,       \* channel names
  Users,       \* userhosts that _chanfix_valid_userhost accepts
  NoChan,      \* no channel is being examined
  Days,        \* length of cfcu_scores: 14
  RollFreq,    \* cfc_rollfreq
  ScoreLimit,  \* 2^16: cfcu_scores is an array of u_short
  TotLimit,    \* 2^32: cfcu_tot_score is a u_int
  MaxClones,   \* bound: ops of one channel with the same userhost
  MaxCrashes   \* bound: times the process dies inside a check

ASSUME ChanScoresAssumption ==
  /\ NoChan \notin Chans
  /\ Days \in Nat \ {0}
  /\ RollFreq \in Nat \ {0}
  /\ ScoreLimit \in Nat \ {0}
  /\ MaxClones \in Nat
  /\ MaxCrashes \in Nat
  /\ RollFreq * (MaxCrashes + 1) < ScoreLimit  \* else a day's count wraps,
  /\ TotLimit \in Nat
  /\ RollFreq * (Days + MaxCrashes) < TotLimit  \* or a total does

VARIABLES
  channels,   \* channels that have a record (cfi_channels, cfi_hashtable)
  table,      \* [Chans -> SUBSET Users]: the cfc_users_offset buckets
  sorted,     \* [Chans -> Seq(Users)]: the cfc_users_sorted chain
  scores,     \* [Chans -> [Users -> [1 .. Days -> Nat]]]: cfcu_scores
  tot,        \* [Chans -> [Users -> Nat]]: cfcu_tot_score
  users_num,  \* [Chans -> Int]: cfc_users_num
  num_chanusers,  \* cfi_num_chanusers
  checks,     \* cfi_checks % RollFreq
  pc,         \* "idle", or where the running check is: "roll" or "check"
  todo,       \* records the running roll has still to visit
  seen,       \* records whose cfcu_last_seen is the running check's now
  pending,    \* channels the running check has still to examine
  cur,        \* the channel being examined
  visits,     \* ops of cur still to be counted, per userhost
  crashes,    \* how often the process died inside a check
  unsorted,   \* history: channels a crash kept a changed total unsorted in
  torn        \* history: records a crash left with the total of other days

dbVars == <<channels, table, sorted, scores, tot, users_num, num_chanusers,
            checks>>
runVars == <<pc, todo, seen, pending, cur, visits>>
cutVars == <<crashes, unsorted, torn>>
vars == <<dbVars, runVars, cutVars>>

NoScores == [d \in 1 .. Days |-> 0]
NoVisits == [u \in Users |-> 0]

(* chanfixdb_chanuser_roll: memmove by one day ...                         *)
DaysUp(w) == [d \in 1 .. Days |-> IF d = 1 THEN w[1] ELSE w[d - 1]]

(* ... and today starts at 0.                                              *)
Shift(w) == [d \in 1 .. Days |-> IF d = 1 THEN 0 ELSE w[d - 1]]

(* A point for today.                                                      *)
Pointed(w) == [w EXCEPT ![1] = (@ + 1) % ScoreLimit]

(* The total of a record without its oldest day.                           *)
Left(c, u) == (tot[c][u] - scores[c][u][Days]) % TotLimit

Records == {r \in Chans \X Users : r[2] \in table[r[1]]}

Init ==
  /\ channels = {}
  /\ table = [c \in Chans |-> {}]
  /\ sorted = [c \in Chans |-> <<>>]
  /\ scores = [c \in Chans |-> [u \in Users |-> NoScores]]
  /\ tot = [c \in Chans |-> [u \in Users |-> 0]]
  /\ users_num = [c \in Chans |-> 0]
  /\ num_chanusers = 0
  /\ checks = 0
  /\ pc = "idle"
  /\ todo = {}
  /\ seen = {}
  /\ pending = {}
  /\ cur = NoChan
  /\ visits = NoVisits
  /\ crashes = 0
  /\ unsorted = {}
  /\ torn = {}

(* Variant: the count of checks does not start over after a roll.          *)
CheckBeginOn(present) ==
  /\ pc = "idle"
  /\ checks' = checks + 1
  /\ pc' = IF checks' % RollFreq = 0 THEN "roll" ELSE "check"
  /\ todo' = IF checks' % RollFreq = 0 THEN Records ELSE {}
  /\ pending' = present
  /\ seen' = {}
  /\ UNCHANGED <<channels, table, sorted, scores, tot, users_num,
                 num_chanusers, cur, visits, cutVars>>

(* The timer fires while chanfix is enabled.  present are the channels     *)
(* with at least cfc_clients_needed clients.  Every RollFreq-th check      *)
(* rolls the database before it looks at any channel.                      *)
CheckBegin(present) ==
  /\ pc = "idle"
  /\ checks' = (checks + 1) % RollFreq
  /\ pc' = IF checks' = 0 THEN "roll" ELSE "check"
  /\ todo' = IF checks' = 0 THEN Records ELSE {}
  /\ pending' = present
  /\ seen' = {}
  /\ UNCHANGED <<channels, table, sorted, scores, tot, users_num,
                 num_chanusers, cur, visits, cutVars>>

(* Variant: a record without a score is kept.                              *)
RollKeepAll(c, u) ==
  /\ tot' = [tot EXCEPT ![c][u] = Left(c, u)]
  /\ \E i, j \in 1 .. Len(sorted[c]) :
       /\ sorted[c][i] = u
       /\ Lands(sorted[c], tot'[c], i, j)
       /\ sorted' = [sorted EXCEPT ![c] = Move(@, i, j)]
  /\ UNCHANGED <<table, users_num, num_chanusers, torn>>

(* Variant: the oldest day stays in the total.                             *)
RollKeepTotal(c, u) ==
  /\ tot[c][u] # 0
  /\ UNCHANGED <<tot, sorted, table, users_num, num_chanusers, torn>>

(* chanfixdb_chanuser_roll on a record that keeps a score: its oldest day  *)
(* leaves the total and it is sorted into its new place.                   *)
RollKeep(c, u) ==
  /\ Left(c, u) # 0
  /\ tot' = [tot EXCEPT ![c][u] = Left(c, u)]
  /\ \E i, j \in 1 .. Len(sorted[c]) :
       /\ sorted[c][i] = u
       /\ Lands(sorted[c], tot'[c], i, j)
       /\ sorted' = [sorted EXCEPT ![c] = Move(@, i, j)]
  /\ UNCHANGED <<table, users_num, num_chanusers, torn>>

(* Variant: cfc_users_num still counts the removed record.                 *)
RollDropCounted(c, u) ==
  /\ Left(c, u) = 0
  /\ tot' = [tot EXCEPT ![c][u] = 0]
  /\ \E i \in 1 .. Len(sorted[c]) :
       /\ sorted[c][i] = u
       /\ sorted' = [sorted EXCEPT ![c] = Unlink(@, i)]
  /\ table' = [table EXCEPT ![c] = @ \ {u}]
  /\ num_chanusers' = num_chanusers - 1
  /\ torn' = torn \ {<<c, u>>}
  /\ UNCHANGED users_num

(* ... and on a record whose total reaches 0: chanfixdb_chanuser_remove.   *)
RollDrop(c, u) ==
  /\ Left(c, u) = 0
  /\ tot' = [tot EXCEPT ![c][u] = 0]
  /\ \E i \in 1 .. Len(sorted[c]) :
       /\ sorted[c][i] = u
       /\ sorted' = [sorted EXCEPT ![c] = Unlink(@, i)]
  /\ table' = [table EXCEPT ![c] = @ \ {u}]
  /\ users_num' = [users_num EXCEPT ![c] = @ - 1]
  /\ num_chanusers' = num_chanusers - 1
  /\ torn' = torn \ {<<c, u>>}

RollUser(c, u) ==
  /\ pc = "roll"
  /\ <<c, u>> \in todo
  /\ todo' = todo \ {<<c, u>>}
  /\ scores' = [scores EXCEPT ![c][u] = Shift(@)]
  /\ RollKeep(c, u) \/ RollDrop(c, u)
  /\ UNCHANGED <<channels, checks, pc, seen, pending, cur, visits, crashes,
                 unsorted>>

RollDone ==
  /\ pc = "roll"
  /\ todo = {}
  /\ pc' = "check"
  /\ UNCHANGED <<dbVars, todo, seen, pending, cur, visits, cutVars>>

(* The check moves on to channel c, whose valid ops are given by v.  An    *)
(* unknown channel gets a record if somebody is an op there.               *)
EnterChannel(c, v, hasOps) ==
  /\ pc = "check"
  /\ visits = NoVisits
  /\ c \in pending
  /\ v # NoVisits => hasOps
  /\ c \in channels \/ hasOps
  /\ channels' = channels \cup {c}
  /\ cur' = c
  /\ visits' = v
  /\ pending' = pending \ {c}
  /\ UNCHANGED <<table, sorted, scores, tot, users_num, num_chanusers, checks,
                 pc, todo, seen, cutVars>>

(* The record is missing, and nobody is an op or the file cannot grow.     *)
SkipChannel(c) ==
  /\ pc = "check"
  /\ visits = NoVisits
  /\ c \in pending
  /\ c \notin channels
  /\ pending' = pending \ {c}
  /\ UNCHANGED <<dbVars, pc, todo, seen, cur, visits, cutVars>>

(* Variant: cfcu_last_seen is not asked.                                   *)
CountOpAgain(c, u, s, t, w) ==
  LET t2 == [t EXCEPT ![u] = (@ + 1) % TotLimit]
  IN  /\ seen' = seen \cup {<<c, u>>}
      /\ tot' = [tot EXCEPT ![c] = t2]
      /\ scores' = [scores EXCEPT ![c][u] = Pointed(w)]
      /\ \E i, j \in 1 .. Len(s) :
           /\ s[i] = u
           /\ Lands(s, t2, i, j)
           /\ sorted' = [sorted EXCEPT ![c] = Move(s, i, j)]

(* The part of a visit that counts: a record whose cfcu_last_seen is not   *)
(* this check's time gets a point for today, and it is sorted.  s and t    *)
(* are the chain and the totals of the channel before, w the record's      *)
(* days.                                                                   *)
CountOp(c, u, s, t, w) ==
  LET fresh == <<c, u>> \notin seen
      t2 == IF fresh THEN [t EXCEPT ![u] = (@ + 1) % TotLimit] ELSE t
  IN  /\ seen' = seen \cup {<<c, u>>}
      /\ tot' = [tot EXCEPT ![c] = t2]
      /\ scores' = [scores EXCEPT ![c][u] = IF fresh THEN Pointed(w) ELSE w]
      /\ \E i, j \in 1 .. Len(s) :
           /\ s[i] = u
           /\ Lands(s, t2, i, j)
           /\ sorted' = [sorted EXCEPT ![c] = Move(s, i, j)]

(* The next op in ch_ops has a record: chanfixdb_chanuser_find succeeds.   *)
Find(u) ==
  /\ u \in table[cur]
  /\ UNCHANGED <<table, users_num, num_chanusers>>

(* ... or gets one, linked in front without a score:                       *)
(* chanfixdb_chanuser_create.                                              *)
Create(u) ==
  /\ u \notin table[cur]
  /\ table' = [table EXCEPT ![cur] = @ \cup {u}]
  /\ users_num' = [users_num EXCEPT ![cur] = @ + 1]
  /\ num_chanusers' = num_chanusers + 1

VisitKnown(u) ==
  /\ Find(u)
  /\ CountOp(cur, u, sorted[cur], tot[cur], scores[cur][u])

VisitNew(u) ==
  /\ Create(u)
  /\ CountOp(cur, u, PushFront(u, sorted[cur]), [tot[cur] EXCEPT ![u] = 0],
             NoScores)

(* ... or the file cannot grow and the op is passed over.                  *)
VisitFails(u) ==
  /\ u \notin table[cur]
  /\ UNCHANGED <<table, sorted, scores, tot, users_num, num_chanusers, seen>>

VisitOp(u) ==
  /\ pc = "check"
  /\ visits[u] > 0
  /\ visits' = [visits EXCEPT ![u] = @ - 1]
  /\ VisitKnown(u) \/ VisitNew(u) \/ VisitFails(u)
  /\ UNCHANGED <<channels, checks, pc, todo, pending, cur, cutVars>>

CheckDone ==
  /\ pc = "check"
  /\ visits = NoVisits
  /\ pending = {}
  /\ pc' = "idle"
  /\ cur' = NoChan
  /\ UNCHANGED <<dbVars, todo, seen, pending, visits, cutVars>>

(* The process dies inside a check and is started again; the mapped file   *)
(* keeps what was done, the position in the check is lost.                 *)
Dies ==
  /\ crashes < MaxCrashes
  /\ crashes' = crashes + 1
  /\ pc' = "idle"
  /\ todo' = {}
  /\ seen' = {}
  /\ pending' = {}
  /\ cur' = NoChan
  /\ visits' = NoVisits

(* Between two record updates.                                             *)
Crash ==
  /\ pc # "idle"
  /\ Dies
  /\ UNCHANGED <<dbVars, unsorted, torn>>

(* Inside the roll of a record: its total is lowered, its days are still   *)
(* there, or moved without today being reset, or right, and it is neither  *)
(* sorted nor removed.                                                     *)
CutRoll(c, u) ==
  /\ pc = "roll"
  /\ <<c, u>> \in todo
  /\ Dies
  /\ tot' = [tot EXCEPT ![c][u] = Left(c, u)]
  /\ unsorted' = unsorted \cup {c}
  /\ \/ /\ \E w \in {scores[c][u], DaysUp(scores[c][u])} :
            scores' = [scores EXCEPT ![c][u] = w]
        /\ torn' = torn \cup {<<c, u>>}
     \/ /\ scores' = [scores EXCEPT ![c][u] = Shift(@)]
        /\ UNCHANGED torn
  /\ UNCHANGED <<channels, table, sorted, users_num, num_chanusers, checks>>

(* Inside the visit of an op, between the stores of his point or before    *)
(* the sort.  s and t are the chain and the totals of the channel, w the   *)
(* record's days.                                                          *)
CutCount(u, s, t, w) ==
  /\ <<cur, u>> \notin seen
  /\ sorted' = [sorted EXCEPT ![cur] = s]
  /\ tot' = [tot EXCEPT ![cur] = [t EXCEPT ![u] = (@ + 1) % TotLimit]]
  /\ unsorted' = unsorted \cup {cur}
  /\ \/ /\ scores' = [scores EXCEPT ![cur][u] = w]
        /\ torn' = torn \cup {<<cur, u>>}
     \/ /\ scores' = [scores EXCEPT ![cur][u] = Pointed(w)]
        /\ UNCHANGED torn

(* ... or before there is a point.                                         *)
CutCreate(u) ==
  /\ sorted' = [sorted EXCEPT ![cur] = PushFront(u, @)]
  /\ tot' = [tot EXCEPT ![cur][u] = 0]
  /\ scores' = [scores EXCEPT ![cur][u] = NoScores]
  /\ UNCHANGED <<unsorted, torn>>

CutVisit(u) ==
  /\ pc = "check"
  /\ visits[u] > 0
  /\ Dies
  /\ \/ Find(u) /\ CutCount(u, sorted[cur], tot[cur], scores[cur][u])
     \/ Create(u) /\ CutCount(u, PushFront(u, sorted[cur]),
                              [tot[cur] EXCEPT ![u] = 0], NoScores)
     \/ Create(u) /\ CutCreate(u)
  /\ UNCHANGED <<channels, checks>>

Next ==
  \/ \E present \in SUBSET Chans : CheckBegin(present)
  \/ \E c \in Chans, u \in Users : RollUser(c, u)
  \/ RollDone
  \/ \E c \in Chans, v \in [Users -> 0 .. MaxClones], hasOps \in BOOLEAN :
       EnterChannel(c, v, hasOps)
  \/ \E c \in Chans : SkipChannel(c)
  \/ \E u \in Users : VisitOp(u)
  \/ CheckDone
  \/ Crash
  \/ \E c \in Chans, u \in Users : CutRoll(c, u)
  \/ \E u \in Users : CutVisit(u)

Spec == Init /\ [][Next]_vars

-----------------------------------------------------------------------------
(* Every variable has its type.                                            *)
TypeOK ==
  /\ channels \subseteq Chans
  /\ table \in [Chans -> SUBSET Users]
  /\ sorted \in [Chans -> Seq(Users)]
  /\ scores \in [Chans -> [Users -> [1 .. Days -> Nat]]]
  /\ tot \in [Chans -> [Users -> Nat]]
  /\ users_num \in [Chans -> Int]
  /\ num_chanusers \in Int
  /\ checks \in 0 .. RollFreq - 1
  /\ pc \in {"idle", "roll", "check"}
  /\ todo \subseteq Chans \X Users
  /\ seen \subseteq Chans \X Users
  /\ pending \subseteq Chans
  /\ cur \in Chans \cup {NoChan}
  /\ visits \in [Users -> Nat]
  /\ crashes \in 0 .. MaxCrashes
  /\ unsorted \subseteq Chans
  /\ torn \subseteq Chans \X Users

(* The chain of a channel is in ascending order of score after every       *)
(* record update of a check, in the middle of a roll and after a crash     *)
(* too, unless a crash fell between the change of a total of this channel  *)
(* and the sort that follows it: _chanfix_channel_reop reads score         *)
(* thresholds off the chain.                                               *)
SortedOK == \A c \in Chans \ unsorted : Ascending(sorted[c], tot[c])

(* Moving a record in the chain never loses or doubles one: the chain      *)
(* holds exactly the records the hash buckets hold, each once, and         *)
(* cfc_users_num, which the thresholds are computed from, is its length.   *)
ChainMatchesTable ==
  \A c \in Chans :
    /\ NoTwice(sorted[c])
    /\ {sorted[c][i] : i \in 1 .. Len(sorted[c])} = table[c]
    /\ users_num[c] = Len(sorted[c])

(* A record's total is the sum of its days whatever mixture of checks,     *)
(* rolls and crashes led here, unless a crash fell between the store of    *)
(* its total and those of its days, and no day count has wrapped.          *)
TotalsAddUp ==
  \A r \in Records \ torn :
    tot[r[1]][r[2]] = SumFunction(scores[r[1]][r[2]])

(* Sound records without a score.  Only a crash leaves one: after the      *)
(* create and before the count, or before the remove of a roll.            *)
Dead == {r \in Records \ torn : tot[r[1]][r[2]] = 0}

(* So _do_chanfix does not op somebody for having merely been seen once: a *)
(* crash leaves at most one record without a score, a record the roll has  *)
(* passed has one, whatever crashes there were, and a record only ever     *)
(* belongs to a channel that has one.                                      *)
NoDeadRecords ==
  /\ Cardinality(Dead) <= crashes
  /\ pc # "idle" /\ checks = 0 => Dead \subseteq todo
  /\ \A c \in Chans : table[c] # {} => c \in channels
  /\ num_chanusers = Cardinality(Records)

(* The threshold for the k best users is met by at least k users and       *)
(* exceeded by fewer than k, whichever end the walk started from, while    *)
(* the chain is in order.                                                  *)
ThresholdIsKthBest ==
  \A c \in Chans \ unsorted : \A k \in 1 .. users_num[c] - 1 :
    LET least == ScoreNeeded(sorted[c], tot[c], k)
    IN  /\ Cardinality({u \in table[c] : tot[c][u] >= least}) >= k
        /\ Cardinality({u \in table[c] : tot[c][u] > least}) < k

(* No score outgrows the window: Days * RollFreq points, and RollFreq more *)
(* for each crash, which costs a record at most the one roll it interrupts.*)
ScoresBounded ==
  \A r \in Records \ torn : tot[r[1]][r[2]] <= RollFreq * (Days + crashes)

(* What the reop reads off the records is right, between any two updates   *)
(* of a check, a roll or a crash: the totals are the sums of the days and  *)
(* bounded, the records a crash left without a score are few and go at the *)
(* next roll, and the walk for a threshold finds the k-th best, except     *)
(* where a crash fell inside the update of a record (_chanfix_check,       *)
(* chanfixdb_roll, _chanfix_channel_reop).                                 *)
RecordsSound == TotalsAddUp /\ NoDeadRecords /\ ScoresBounded /\ ThresholdIsKthBest

(* A record's days for the abstract board: a record still in todo counts   *)
(* as already moved, a missing record as all zeros, and so does one whose  *)
(* days a crash parted from its total.                                     *)
Window ==
  [c \in Chans |-> [u \in Users |->
    IF u \notin table[c] \/ <<c, u>> \in torn THEN NoScores
    ELSE IF <<c, u>> \in todo THEN Shift(scores[c][u])
    ELSE scores[c][u]]]

(* The record-by-record roll, with its removals and re-sorting, implements *)
(* one atomic move of every window.                                        *)
Board == INSTANCE ScoreBoard WITH
  phase <- checks, credited <- seen \ torn, window <- Window

(* The scores are what the abstract score board says: each op of a check   *)
(* is credited once, for the day it was seen.  A crash delays the move of  *)
(* some windows, and the one record it was updating may have its credit    *)
(* already, or is lost to the board until the roll removes it.             *)
ImplementsBoard == Board!BoardSpec
=============================================================================
