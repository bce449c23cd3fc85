------------------------------ MODULE ScoreLinks ------------------------------
(***************************************************************************)
(* The sorted chain of one channel as chanfixdb.c keeps it: the offsets    *)
(* cfc_users_sorted_first and cfc_users_sorted_last in the channel record, *)
(* cfcu_s_next and cfcu_s_prev in the user records.  A surgery is a        *)
(* function from links to links, written for each assignment the code      *)
(* makes.                                                                  *)
(*                                                                         *)
(* The steps are those of the daemon (create, bump or roll followed by a   *)
(* sort, remove) and those of the offline tools, which set totals without  *)
(* sorting and sort records of a chain that is in no order.                *)
(***************************************************************************)
EXTENDS Integers, Sequences, FiniteSets

CONSTANTS
  Recs,      \* offsets of user records
  Nil,       \* (u_int)-1
  MaxScore   \* bound on cfcu_tot_score

ASSUME ScoreLinksAssumption == Nil \notin Recs /\ MaxScore \in Nat

VARIABLES
  links,  \* first, last: offsets; next, prev: [Recs -> offsets]
  total   \* [Recs -> 0 .. MaxScore]

linksVars == <<links, total>>

(* The record r is no longer reached from its neighbours; its own offsets  *)
(* stay.                                                                   *)
Removed(L, r) ==
  [first |-> IF L.prev[r] = Nil THEN L.next[r] ELSE L.first,
   last  |-> IF L.next[r] = Nil THEN L.prev[r] ELSE L.last,
   next  |-> [x \in Recs |-> IF x = L.prev[r] THEN L.next[r] ELSE L.next[x]],
   prev  |-> [x \in Recs |-> IF x = L.next[r] THEN L.prev[r] ELSE L.prev[x]]]

PutFirst(L, r) ==
  [first |-> r,
   last  |-> IF L.first = Nil THEN r ELSE L.last,
   next  |-> [L.next EXCEPT ![r] = L.first],
   prev  |-> [x \in Recs |-> IF x = r THEN Nil
                             ELSE IF x = L.first THEN r ELSE L.prev[x]]]

(* Variant: the record put last does not become the last.                  *)
PutLastForgets(L, r) ==
  [first |-> IF L.last = Nil THEN r ELSE L.first,
   last  |-> L.last,
   next  |-> [x \in Recs |-> IF x = r THEN Nil
                             ELSE IF x = L.last THEN r ELSE L.next[x]],
   prev  |-> [L.prev EXCEPT ![r] = L.last]]

PutLast(L, r) ==
  [first |-> IF L.last = Nil THEN r ELSE L.first,
   last  |-> r,
   next  |-> [x \in Recs |-> IF x = r THEN Nil
                             ELSE IF x = L.last THEN r ELSE L.next[x]],
   prev  |-> [L.prev EXCEPT ![r] = L.last]]

PutBefore(L, r, c) ==
  [first |-> IF L.prev[c] = Nil THEN r ELSE L.first,
   last  |-> L.last,
   next  |-> [x \in Recs |-> IF x = r THEN c
                             ELSE IF x = L.prev[c] THEN r ELSE L.next[x]],
   prev  |-> [L.prev EXCEPT ![r] = L.prev[c], ![c] = r]]

PutAfter(L, r, c) ==
  [first |-> L.first,
   last  |-> IF L.next[c] = Nil THEN r ELSE L.last,
   next  |-> [L.next EXCEPT ![r] = L.next[c], ![c] = r],
   prev  |-> [x \in Recs |-> IF x = r THEN c
                             ELSE IF x = L.next[c] THEN r ELSE L.prev[x]]]

(* The search loops: the first offset on the way from c that is not one of *)
(* the records over, Nil at the end of the chain.                          *)
FirstNotOf(over, next, c) ==
  LET stop[x \in Recs] == IF next[x] \in over THEN stop[next[x]] ELSE next[x]
  IN  stop[c]

(* Variant: the loop walks over equal totals, too.                         *)
HigherAfter(L, t, r, c) == FirstNotOf({x \in Recs : t[r] >= t[x]}, L.next, c)

(* The first record after c (before c) where the comparison with r fails.  *)
NotLowerAfter(L, t, r, c) == FirstNotOf({x \in Recs : t[r] > t[x]}, L.next, c)

NotHigherBefore(L, t, r, c) == FirstNotOf({x \in Recs : t[r] < t[x]}, L.prev, c)

(* Variant: the record goes to the end of the chain.                       *)
SortToEnd(L, t, r) == PutLast(Removed(L, r), r)

(* chanfixdb_chanuser_sort: the successor is looked at first.              *)
SortForward(L, t, r) ==
  LET cu == NotLowerAfter(L, t, r, L.next[r])
      rest == Removed(L, r)
  IN  IF cu = Nil THEN PutLast(rest, r) ELSE PutBefore(rest, r, cu)

SortBackward(L, t, r) ==
  LET cu == NotHigherBefore(L, t, r, L.prev[r])
      rest == Removed(L, r)
  IN  IF cu = Nil THEN PutFirst(rest, r) ELSE PutAfter(rest, r, cu)

Sorted(L, t, r) ==
  IF L.next[r] # Nil /\ t[r] > t[L.next[r]] THEN SortForward(L, t, r)
  ELSE IF L.prev[r] = Nil \/ t[r] >= t[L.prev[r]] THEN L
  ELSE SortBackward(L, t, r)

(* The records on the way from c.                                          *)
Walk(next, c) ==
  LET from[x \in Recs \cup {Nil}] ==
        IF x = Nil THEN <<>> ELSE <<x>> \o from[next[x]]
  IN  from[c]

(* The chain read from its first record.                                   *)
Chain == Walk(links.next, links.first)

Linked(r) == \E i \in 1 .. Len(Chain) : Chain[i] = r

LinksInit ==
  /\ links = [first |-> Nil, last |-> Nil,
              next |-> [r \in Recs |-> Nil], prev |-> [r \in Recs |-> Nil]]
  /\ total = [r \in Recs |-> 0]

(* chanfixdb_chanuser_create, in space that held some other record.        *)
Create(r) ==
  /\ ~ Linked(r)
  /\ links' = PutFirst(links, r)
  /\ total' = [total EXCEPT ![r] = 0]

(* Variant: a total is added to the one that is there.                     *)
RecountAdds(r, n) ==
  /\ Linked(r)
  /\ total' = [total EXCEPT ![r] = @ + n]
  /\ UNCHANGED links

(* A check adds a point, a roll takes a day away, a repair or an import    *)
(* writes the total of another file.                                       *)
Recount(r, n) ==
  /\ Linked(r)
  /\ total' = [total EXCEPT ![r] = n]
  /\ UNCHANGED links

Sort(r) ==
  /\ Linked(r)
  /\ links' = Sorted(links, total, r)
  /\ UNCHANGED total

(* The space of a removed record goes to the free list: what was in it is  *)
(* never read again, and stands here as Nil and 0.                         *)
Remove(r) ==
  /\ Linked(r)
  /\ links' = [Removed(links, r) EXCEPT !.next[r] = Nil, !.prev[r] = Nil]
  /\ total' = [total EXCEPT ![r] = 0]

LinksNext ==
  \E r \in Recs :
    \/ Create(r)
    \/ \E n \in 0 .. MaxScore : Recount(r, n)
    \/ Sort(r)
    \/ Remove(r)

LinksSpec == LinksInit /\ [][LinksNext]_linksVars
-----------------------------------------------------------------------------
(* The offsets are offsets of records.                                     *)
LinksTypeOK ==
  /\ links \in [first : Recs \cup {Nil}, last : Recs \cup {Nil},
                next : [Recs -> Recs \cup {Nil}], prev : [Recs -> Recs \cup {Nil}]]
  /\ total \in [Recs -> 0 .. MaxScore]

(* The chain can be walked from either end: _chanfix_channel_reop reads    *)
(* thresholds from whichever end is nearer, so the backward walk must pass *)
(* the records of the forward walk in reverse.                             *)
BothWaysAgree ==
  Walk(links.prev, links.last) = [k \in DOMAIN Chain |-> Chain[Len(Chain) + 1 - k]]

(* Whatever chanfixdb_chanuser_create, _sort and _remove did to the        *)
(* offsets, they name records, and both walks see the same chain.          *)
LinksSound == LinksTypeOK /\ BothWaysAgree

Inversions ==
  {p \in (DOMAIN Chain) \X (DOMAIN Chain) :
     p[1] < p[2] /\ total[Chain[p[1]]] > total[Chain[p[2]]]}

(* Sorting one record of a chain that is in no order either leaves it or   *)
(* takes the chain closer to being sorted, so running chanfixdb_sort again *)
(* and again does sort a chain in the end.                                 *)
SortNeverHarms ==
  [][total' = total /\ Chain' # Chain /\ DOMAIN Chain' = DOMAIN Chain
       => Cardinality(Inversions') < Cardinality(Inversions)]_linksVars

(* The offsets implement the chain: each surgery is the move its search    *)
(* asks for.                                                               *)
Promised == INSTANCE ScoreChain WITH chain <- Chain

(* Every step on the offsets is a step of the chain they stand for.        *)
ImplementsScoreChain == Promised!ChainSpec
=============================================================================
