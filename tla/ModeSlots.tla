------------------------------- MODULE ModeSlots -------------------------------
(***************************************************************************)
(* The channel modes chanfix remembers: the array cfc_modes of each        *)
(* channel record, scored by _chanfix_check (mod_chanfix.c) and aged by    *)
(* chanfixdb_roll (chanfixdb.c).  Slot 1 stands for cfc_modes[0], day 1    *)
(* for cfcm_scores[0].                                                     *)
(*                                                                         *)
(* The scan for the weakest slot keeps its candidate in isave, a variable  *)
(* of the whole check and not of one channel: a later channel's scan       *)
(* starts from the place an earlier one left behind.                       *)
(***************************************************************************)
EXTENDS Integers, FiniteSets, FiniteSetsExt

CONSTANTS
  Chans,
  Modes,     \* mode sets a channel can have
  NoModes,   \* 0, which is also what an unused slot has
  Slots,     \* places in cfc_modes: 5
  Days,      \* length of cfcm_scores: 14
  RollFreq,  \* cfc_rollfreq
  MaxChecks  \* bound on the number of checks

ASSUME ModeSlotsAssumption ==
  /\ NoModes \in Modes
  /\ Slots \in Nat \ {0} /\ Days \in Nat /\ Slots <= Days
  /\ RollFreq \in Nat \ {0} /\ MaxChecks \in Nat

VARIABLES
  slots,    \* [Chans -> [1 .. Slots -> [modes, scores, tot]]]: cfc_modes
  isave,    \* the running check's isave + 1, 0 while it is -1
  pending,  \* channels the running check has still to score
  checks    \* cfi_checks

slotVars == <<slots, isave, pending, checks>>

NoScores == [d \in 1 .. Days |-> 0]
Unused == [modes |-> NoModes, scores |-> NoScores, tot |-> 0]

(* Variant: the day before is taken for day Slots.                         *)
RolledEarly(m) ==
  [m EXCEPT !.tot = @ - m.scores[Slots - 1],
            !.scores = [d \in 1 .. Days |-> IF d = 1 THEN 0 ELSE m.scores[d - 1]]]

(* The total loses the count of day Slots: the code takes the length of    *)
(* cfc_modes, 5, for that of cfcm_scores, 14.                              *)
Rolled(m) ==
  [m EXCEPT !.tot = @ - m.scores[Slots],
            !.scores = [d \in 1 .. Days |-> IF d = 1 THEN 0 ELSE m.scores[d - 1]]]

SlotsInit ==
  /\ slots = [c \in Chans |-> [i \in 1 .. Slots |-> Unused]]
  /\ isave = 0
  /\ pending = {}
  /\ checks = 0

CheckBegin(present) ==
  /\ pending = {}
  /\ checks < MaxChecks
  /\ checks' = checks + 1
  /\ slots' = IF checks' % RollFreq = 0
              THEN [c \in Chans |-> [i \in 1 .. Slots |-> Rolled(slots[c][i])]]
              ELSE slots
  /\ isave' = 0
  /\ pending' = present

(* Variant: only the first slot is compared.                               *)
MatchingFirst(c, m) == {i \in 1 .. 1 : slots[c][i].modes = m}

(* The scan of channel c for modes m stops at the first slot that has      *)
(* them; of the slots before it, it remembers the first with the least     *)
(* total, unless the remembered place has as little.                       *)
Matching(c, m) == {i \in 1 .. Slots : slots[c][i].modes = m}

Scanned(c, m) ==
  IF Matching(c, m) = {} THEN 1 .. Slots ELSE 1 .. Min(Matching(c, m)) - 1

(* Variant: a candidate once found is not compared again.                  *)
WeakestOnce(c, m) ==
  LET least == {i \in Scanned(c, m) :
                  \A k \in Scanned(c, m) : slots[c][i].tot <= slots[c][k].tot}
  IN  IF Scanned(c, m) = {} \/ isave # 0 THEN isave ELSE Min(least)

Weakest(c, m) ==
  LET least == {i \in Scanned(c, m) :
                  \A k \in Scanned(c, m) : slots[c][i].tot <= slots[c][k].tot}
  IN  IF Scanned(c, m) = {} THEN isave
      ELSE IF isave # 0 /\ slots[c][isave].tot <= slots[c][Min(least)].tot
      THEN isave
      ELSE Min(least)

(* Variant: the point is added to the total twice.                         *)
ScoredTwice(s) == [s EXCEPT !.scores[1] = @ + 1, !.tot = @ + 2]

Scored(s) == [s EXCEPT !.scores[1] = @ + 1, !.tot = @ + 1]

(* The slot is found or taken, scored and swapped to the front.            *)
ScoreModes(c, m) ==
  /\ c \in pending
  /\ pending' = pending \ {c}
  /\ isave' = Weakest(c, m)
  /\ LET found == Matching(c, m) # {}
         i == IF found THEN Min(Matching(c, m)) ELSE isave'
         current == IF found THEN slots[c][i] ELSE [Unused EXCEPT !.modes = m]
     IN  slots' = [slots EXCEPT ![c] =
                     [[@ EXCEPT ![i] = slots[c][1]] EXCEPT ![1] = Scored(current)]]
  /\ UNCHANGED checks

SlotsNext ==
  \/ \E present \in SUBSET Chans : CheckBegin(present)
  \/ \E c \in Chans, m \in Modes : ScoreModes(c, m)

SlotsSpec == SlotsInit /\ [][SlotsNext]_slotVars
-----------------------------------------------------------------------------
(* Every slot has its fields.                                              *)
SlotsTypeOK ==
  /\ slots \in [Chans -> [1 .. Slots -> [modes : Modes, tot : 0 .. MaxChecks,
                                         scores : [1 .. Days -> 0 .. MaxChecks]]]]
  /\ isave \in 0 .. Slots
  /\ pending \subseteq Chans
  /\ checks \in 0 .. MaxChecks

(* A slot's total never goes below zero (it is unsigned): it counts the    *)
(* first Slots days and no more, whatever was evicted and swapped before.  *)
TotalIsRecent ==
  \A c \in Chans : \A i \in 1 .. Slots :
    slots[c][i].tot = SumFunctionOnSet(slots[c][i].scores, 1 .. Slots)

(* Modes are remembered in one slot, so their score is not split; only     *)
(* "no modes", which unused slots have too, can have several.              *)
OneSlotPerModes ==
  \A c \in Chans : \A i, k \in 1 .. Slots :
    slots[c][i].modes = slots[c][k].modes => i = k \/ slots[c][i].modes = NoModes

(* The slots keep their shape through scans, evictions, swaps and rolls:   *)
(* no total underflows or counts a day too many, and no modes have two     *)
(* slots that share their score (_chanfix_check, chanfixdb_roll).          *)
SlotsSound == SlotsTypeOK /\ TotalIsRecent /\ OneSlotPerModes

(* Modes that are forgotten had the least total of their channel, even     *)
(* when the candidate was left behind by the scan of another channel.      *)
ForgetsTheWeakest ==
  [][\A c \in Chans : \A i \in 1 .. Slots :
       (\A k \in 1 .. Slots : slots'[c][k].modes # slots[c][i].modes)
         => \A k \in 1 .. Slots : slots[c][i].tot <= slots[c][k].tot]_slotVars
=============================================================================
