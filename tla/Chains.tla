-------------------------------- MODULE Chains --------------------------------
(***************************************************************************)
(* The doubly linked lists inside the chanfix database file                *)
(* (modules/chanfixdb/chanfixdb.c) as sequences: a link surgery of the     *)
(* code (unlink here, link there) is a permutation of the sequence.        *)
(* Module ScoreLinks shows this of the pointers themselves.  The last two  *)
(* operators are what the modules on lists in memory need of order and     *)
(* removal, written so that their laws can be proved (DataProofs).         *)
(***************************************************************************)
EXTENDS Integers, Sequences, FiniteSets

Elements(s) == {s[k] : k \in 1 .. Len(s)}

(* Nothing is linked twice.                                                *)
NoTwice(s) ==
  \A i, j \in 1 .. Len(s) : s[i] = s[j] => i = j

(* The new element becomes the head of the list.                           *)
PushFront(u, s) ==
  [k \in 1 .. Len(s) + 1 |-> IF k = 1 THEN u ELSE s[k - 1]]

(* The element at place i is unlinked.                                     *)
Unlink(s, i) ==
  [k \in 1 .. Len(s) - 1 |-> IF k < i THEN s[k] ELSE s[k + 1]]

(* The element at place i is unlinked and linked again so that it ends up  *)
(* at place j.                                                             *)
Move(s, i, j) ==
  [k \in 1 .. Len(s) |->
     CASE k = j                -> s[i]
       [] i <= k /\ k < j      -> s[k + 1]
       [] j < k /\ k <= i      -> s[k - 1]
       [] OTHER                -> s[k]]

(* The elements of the finite set K one after the other in the strict      *)
(* order R: at place r the one that r - 1 others are before.               *)
InOrder(K, R) ==
  [r \in 1 .. Cardinality(K) |->
     CHOOSE k \in K : Cardinality({l \in K : <<l, k>> \in R}) = r - 1]

(* What is left of the list s when only the elements of K stay: at place r *)
(* the one whose place is the r-th that stays.                             *)
Keep(s, K) ==
  LET places == {k \in 1 .. Len(s) : s[k] \in K}
  IN  [r \in 1 .. Cardinality(places) |->
         s[CHOOSE k \in places : Cardinality(places \cap (1 .. k)) = r]]
=============================================================================
