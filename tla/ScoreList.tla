------------------------------ MODULE ScoreList ------------------------------
(***************************************************************************)
(* The per-channel chain cfc_users_sorted_first .. cfc_users_sorted_last   *)
(* of the chanfix database (modules/chanfixdb/chanfixdb.c), as a sequence  *)
(* of users in ascending order of cfcu_tot_score.  The searches of         *)
(* chanfixdb_chanuser_sort are predicates on the place where they stop.    *)
(***************************************************************************)
EXTENDS Chains

(* The chain s is in ascending order of the totals t.                      *)
Ascending(s, t) ==
  \A i, j \in 1 .. Len(s) : i < j => t[s[i]] <= t[s[j]]

(* Variant: a lead of one point is tolerated.                              *)
GoesForwardLate(s, t, i) == i < Len(s) /\ t[s[i]] > t[s[i + 1]] + 1

(* chanfixdb_chanuser_sort tests the successor first: only when the        *)
(* successor is strictly lower does it search forwards.                    *)
GoesForward(s, t, i) == i < Len(s) /\ t[s[i]] > t[s[i + 1]]

(* ... and searches backwards when there is a strictly higher predecessor. *)
GoesBackward(s, t, i) ==
  ~ GoesForward(s, t, i) /\ i > 1 /\ t[s[i]] < t[s[i - 1]]

(* The forward loop walks over strictly lower totals and stops before the  *)
(* first record that is not, or at the end of the chain.                   *)
StopsForward(s, t, i, j) ==
  /\ i < j
  /\ \A k \in i + 1 .. j : t[s[k]] < t[s[i]]
  /\ j < Len(s) => t[s[j + 1]] >= t[s[i]]

(* The backward loop walks over strictly higher totals.                    *)
StopsBackward(s, t, i, j) ==
  /\ j < i
  /\ \A k \in j .. i - 1 : t[s[k]] > t[s[i]]
  /\ j > 1 => t[s[j - 1]] <= t[s[i]]

(* chanfixdb_chanuser_sort on the record at place i leaves it at place j.  *)
Lands(s, t, i, j) ==
  \/ GoesForward(s, t, i) /\ StopsForward(s, t, i, j)
  \/ GoesBackward(s, t, i) /\ StopsBackward(s, t, i, j)
  \/ ~ GoesForward(s, t, i) /\ ~ GoesBackward(s, t, i) /\ j = i

(* Variant: the walk from the first record is one short.                   *)
ScoreNeededShort(s, t, k) ==
  LET fromFirst == Len(s) - k
  IN  IF k >= Len(s) THEN 0
      ELSE IF fromFirst < k THEN t[s[fromFirst]]
      ELSE t[s[Len(s) - (k - 1)]]

(* The score threshold of a pass that has reached the k best users:        *)
(* _chanfix_channel_reop walks num records from whichever end is nearer    *)
(* and takes the total of the last record it stood on.                     *)
ScoreNeeded(s, t, k) ==
  LET fromFirst == 1 + Len(s) - k
  IN  IF k >= Len(s) THEN 0
      ELSE IF fromFirst < k THEN t[s[fromFirst]]
      ELSE t[s[Len(s) - (k - 1)]]
=============================================================================
