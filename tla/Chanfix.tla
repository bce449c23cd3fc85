------------------------------- MODULE Chanfix -------------------------------
(***************************************************************************)
(* The reop protocol of modules/chanfix/mod_chanfix.c on one channel: the  *)
(* passes of a fix (_chanfix_channel_reop), who may start one              *)
(* (_chanfix_automatic_reop from the timer and from the callbacks,         *)
(* _chanfix_manual_reop from an oper), and what the rest of the network    *)
(* makes of the messages a pass sends.                                     *)
(*                                                                         *)
(* Time is counted in checks: one period is cfc_checkfreq seconds.  The    *)
(* scores stand still (ChanScores is where they change).  A pass is one    *)
(* step, as it is one call in a single-threaded program.                   *)
(***************************************************************************)
EXTENDS Integers, Sequences, SequencesExt, FiniteSets, FiniteSetsExt, ScoreList

CONSTANTS
  Clients,        \* clients that come and go, by their userhost
  Boards,         \* score databases: functions from recorded userhosts to scores
  NicksToOp,      \* cfc_nicks_to_op
  WaitMin,        \* cfc_reop_wait_time_min, in periods
  WaitMax,        \* cfc_reop_wait_time_max, in periods
  TimeBetween,    \* cfc_time_between_fixes, in periods
  ClientsNeeded,  \* cfc_clients_needed
  ChecksNeeded,   \* cfc_checks_needed
  Confs,          \* values of cfc_flags: of REOP_DISABLE, CHANFIX_MODERATE, the
                  \* two OVERRIDEs, with the flags of the channel's entry in
                  \* cfc_chanignores: "ignore_manual", "ignore_auto"
  FirstTS         \* creation time of a new channel

ASSUME ChanfixAssumption ==
  /\ \A b \in Boards :
       IsFiniteSet(DOMAIN b) /\ \A u \in DOMAIN b : b[u] \in Nat \ {0}
  /\ NicksToOp \in Nat \ {0} /\ ClientsNeeded \in Nat /\ ChecksNeeded \in Nat
  /\ WaitMin \in Nat \ {0} /\ WaitMax \in Nat /\ WaitMin <= WaitMax
  /\ TimeBetween \in Nat /\ FirstTS \in Nat \ {0}
  /\ Confs \subseteq SUBSET {"reop_disable", "moderate", "manual_override", "auto_override",
                             "ignore_manual", "ignore_auto"}

VARIABLES
  conf,     \* the module's conf file, read once when it is loaded
  board,    \* the scores of the channel's record, chosen once
  ch,       \* SI_CHANNEL: [non_ops, ops, modes, creation]
  fix,      \* [fixing, manual, since, passes]: cfc_flags, Now - cfc_fixed_time, ..
  checks,   \* cfc_checks, up to ChecksNeeded
  enabled,  \* CHANFIX_ENABLED: enough of the servers are linked
  due,      \* the timer of the next check has run out
  sent,     \* what the last step told the network
  net       \* the channel as the rest of the network sees it

vars == <<conf, board, ch, fix, checks, enabled, due, sent, net>>

(* Longer than any time the code compares with.                            *)
Horizon == Max({WaitMin, TimeBetween}) + 1

(* "closed" stands for +i, a key or a limit.                               *)
ChanModes == {"closed", "moderated"}

NewChannel == [non_ops |-> <<>>, ops |-> <<>>, modes |-> {}, creation |-> FirstTS]
Silence == [joins |-> FALSE, ts |-> 0, modes |-> {}, clears |-> {}, deops |-> {},
            ops |-> <<>>]

Members(c) == Elements(c.non_ops) \cup Elements(c.ops)
Without(u, s) == Keep(s, Elements(s) \ {u})

(* The channel as it looks to a server that has the same information.      *)
Seen(c) == [ops |-> Elements(c.ops), modes |-> c.modes, creation |-> c.creation]

(* cfc_users_num and the sorted chain of the record, equals in any order.  *)
UsersNum == Cardinality(DOMAIN board)
SortedChain ==
  LET users == SetToSeq(DOMAIN board)
      places == 1 .. UsersNum
      ranked == InOrder(places, {p \in places \X places :
                  \/ board[users[p[1]]] < board[users[p[2]]]
                  \/ board[users[p[1]]] = board[users[p[2]]] /\ p[1] < p[2]})
  IN  [r \in places |-> users[ranked[r]]]
-----------------------------------------------------------------------------
(* How many more of the best users a pass may reach, since periods into    *)
(* the fix.                                                                *)
UsersPerPass(since) ==
  LET early == Min({UsersNum \div WaitMin, NicksToOp})
      late == UsersNum \div WaitMax
  IN  Max({1, IF since <= WaitMin THEN early ELSE late})

(* The places of those in line with at least the score least.              *)
Eligible(line, least) ==
  {k \in 1 .. Len(line) : line[k] \in DOMAIN board /\ board[line[k]] >= least}

(* Variant: the comparison of two scores is reversed.                      *)
WorstFirst(line, least, max) ==
  LET eligible == Eligible(line, least)
      ranked == InOrder(eligible, {p \in eligible \X eligible :
                  \/ board[line[p[1]]] < board[line[p[2]]]
                  \/ board[line[p[1]]] = board[line[p[2]]] /\ p[1] < p[2]})
  IN  [r \in 1 .. Min({max, Cardinality(eligible)}) |-> line[ranked[r]]]

(* _chanfix_get_scores: the max best of those in line with at least the    *)
(* score least, best first; of equals the one who is first in line.        *)
Best(line, least, max) ==
  LET eligible == Eligible(line, least)
      ranked == InOrder(eligible, {p \in eligible \X eligible :
                  \/ board[line[p[1]]] > board[line[p[2]]]
                  \/ board[line[p[1]]] = board[line[p[2]]] /\ p[1] < p[2]})
  IN  [r \in 1 .. Min({max, Cardinality(eligible)}) |-> line[ranked[r]]]

(* Variant: a restart forgets to reset cfc_fixed_passes.                   *)
CountedOn(f, byOper) ==
  IF byOper \/ ~ f.fixing
  THEN [f EXCEPT !.fixing = TRUE, !.manual = byOper, !.since = 0, !.passes = @ + 1]
  ELSE [f EXCEPT !.passes = @ + 1]

(* Variant: a pass that continues a fix is not counted.                    *)
CountedOnce(f, byOper) ==
  IF byOper \/ ~ f.fixing
  THEN [fixing |-> TRUE, manual |-> byOper, since |-> 0, passes |-> 1]
  ELSE f

(* A pass begins, restarts or continues a fix.                             *)
Counted(f, byOper) ==
  IF byOper \/ ~ f.fixing
  THEN [fixing |-> TRUE, manual |-> byOper, since |-> 0, passes |-> 1]
  ELSE [f EXCEPT !.passes = @ + 1]

(* Modes that keep users out are cleared, +m is set or cleared.            *)
Opened == IF "moderate" \in conf THEN {"moderated"} ELSE {}

(* Variant: the ops that are told to be deopped stay in ch_ops.            *)
ReoppedOnly(c, deop, chosen) ==
  [c EXCEPT !.non_ops = Keep(@, Elements(@) \ Elements(chosen)),
            !.ops = Reverse(chosen) \o Keep(@, Elements(@) \ Elements(chosen))]

(* The lists after a pass: with deop every op becomes a non-op, then the   *)
(* chosen become ops, each put at the head of its list.                    *)
Reopped(c, deop, chosen) ==
  LET deopped == IF deop THEN [c EXCEPT !.non_ops = Reverse(c.ops) \o @, !.ops = <<>>]
                 ELSE c
  IN  [deopped EXCEPT
         !.non_ops = Keep(@, Elements(@) \ Elements(chosen)),
         !.ops = Reverse(chosen) \o @]

(* Variant: the ops the channel has are not subtracted.                    *)
RoomForAll(c, deop) == NicksToOp

(* How many more ops a pass may give.                                      *)
Room(c, deop) == IF deop THEN NicksToOp ELSE NicksToOp - Len(c.ops)

(* Variant: the first pass that finds somebody is the last.                *)
FoundSome(least, chosen, room) == least = 0 \/ chosen # <<>>

(* Any score will do, or everyone who was wanted was found.                *)
LastPass(least, chosen, room) == least = 0 \/ Len(chosen) = room

Doit == "reop_disable" \notin conf

(* Variant: doit is not asked.                                             *)
ActsAnyway(c, deop, modes, chosen) ==
  modes # c.modes \/ chosen # <<>> \/ (deop /\ c.ops # <<>>)

(* There is something to do on the channel, and it may be done.            *)
Acts(c, deop, modes, chosen) ==
  Doit /\ (modes # c.modes \/ chosen # <<>> \/ (deop /\ c.ops # <<>>))

(* _chanfix_channel_reop: what one pass makes of channel c and fix f.      *)
(* deop is set for the oper's first pass, and only for it.                 *)
Reop(c, f, deop) ==
  LET counted == Counted(f, deop)
      least == ScoreNeeded(SortedChain, board,
                           UsersPerPass(counted.since) * counted.passes)
      room == Room(c, deop)
      chosen == Best(IF deop THEN c.non_ops \o c.ops ELSE c.non_ops, least, room)
      last == LastPass(least, chosen, room)
      modes == IF Doit /\ (~ last \/ chosen = <<>>) THEN Opened ELSE c.modes
      lowers == deop /\ c.creation > 1
      ts == IF lowers THEN c.creation - 1 ELSE c.creation
      done == IF last THEN [counted EXCEPT !.fixing = FALSE, !.since = 0] ELSE counted
      message == [joins |-> TRUE, ts |-> ts, modes |-> modes, ops |-> chosen,
                  clears |-> IF modes # c.modes /\ ~ lowers
                             THEN ChanModes \ (modes \cap {"moderated"}) ELSE {},
                  deops |-> IF deop /\ ~ lowers THEN Elements(c.ops) ELSE {}]
  IN  IF room <= 0   \* enough ops: the fix ends, cfc_fixed_time stays
      THEN [ch |-> c, fix |-> [counted EXCEPT !.fixing = FALSE], sent |-> Silence]
      ELSE IF Acts(c, deop, modes, chosen)
      THEN [ch |-> Reopped([c EXCEPT !.modes = modes, !.creation = ts], deop, chosen),
            fix |-> done, sent |-> message]
      ELSE [ch |-> c, fix |-> done, sent |-> Silence]

Nothing(c, f) == [ch |-> c, fix |-> f, sent |-> Silence]

(* _chanfix_automatic_reop: not on an ignored or a young channel, and a    *)
(* new fix only some time after the last one.                              *)
AutoReop(c, f) ==
  IF \/ "ignore_auto" \in conf
     \/ checks < ChecksNeeded
     \/ ~ f.fixing /\ f.since <= TimeBetween
  THEN Nothing(c, f)
  ELSE Reop(c, f, FALSE)
-----------------------------------------------------------------------------
(* The rest of the network applies an SJOIN, then the MODEs that follow.   *)
(* An older creation time wins: the ops and modes known so far are void.   *)
Heard(n, m) ==
  LET joined == IF m.ts < n.creation
                THEN [ops |-> {}, modes |-> m.modes, creation |-> m.ts]
                ELSE [n EXCEPT !.modes = @ \cup m.modes]
  IN  IF ~ m.joins THEN n
      ELSE [joined EXCEPT !.modes = @ \ m.clears,
                          !.ops = (@ \ m.deops) \cup Elements(m.ops)]

(* The outcome r of a pass, or of none, after the network saw n.           *)
Becomes(r, n) ==
  /\ ch' = r.ch
  /\ fix' = r.fix
  /\ sent' = r.sent
  /\ net' = Heard(n, r.sent)

Init ==
  /\ conf \in Confs
  /\ board \in Boards
  /\ ch = NewChannel
  /\ fix = [fixing |-> FALSE, manual |-> FALSE, since |-> Horizon, passes |-> 0]
  /\ checks = 0
  /\ enabled = TRUE
  /\ due = FALSE
  /\ sent = Silence
  /\ net = Seen(NewChannel)

Enough(c) == Cardinality(Members(c)) >= ClientsNeeded

(* One period passes until the timer runs out.                             *)
Tick ==
  /\ ~ due
  /\ due' = TRUE
  /\ Becomes(Nothing(ch, [fix EXCEPT !.since = Min({@ + 1, Horizon})]), net)
  /\ UNCHANGED <<conf, board, checks, enabled>>

(* Variant: the check only continues a fix and never starts one.           *)
CheckContinues ==
  /\ due
  /\ due' = FALSE
  /\ Becomes(IF enabled /\ Enough(ch) /\ fix.fixing THEN AutoReop(ch, fix)
             ELSE Nothing(ch, fix), net)
  /\ checks' = IF enabled /\ Enough(ch) THEN Min({checks + 1, ChecksNeeded}) ELSE checks
  /\ UNCHANGED <<conf, board, enabled>>

(* _chanfix_check: the channel's part of it.                               *)
Check ==
  /\ due
  /\ due' = FALSE
  /\ Becomes(IF enabled /\ Enough(ch) /\ (ch.ops = <<>> \/ fix.fixing)
             THEN AutoReop(ch, fix) ELSE Nothing(ch, fix), net)
  /\ checks' = IF enabled /\ Enough(ch) THEN Min({checks + 1, ChecksNeeded}) ELSE checks
  /\ UNCHANGED <<conf, board, enabled>>

(* _chanfix_manual_reop, for an oper who may or may not say override.      *)
Manual(override) ==
  /\ enabled
  /\ Members(ch) # {}
  /\ "ignore_manual" \notin conf
  /\ fix.fixing =>
       /\ override
       /\ (IF fix.manual THEN "manual_override" ELSE "auto_override") \in conf
  /\ Becomes(Reop(ch, fix, TRUE), net)
  /\ UNCHANGED <<conf, board, checks, enabled, due>>

(* A client joins, with ops when the channel is new or a split heals.      *)
Join(u, op) ==
  /\ u \notin Members(ch)
  /\ LET joined == IF op THEN [ch EXCEPT !.ops = <<u>> \o @]
                   ELSE [ch EXCEPT !.non_ops = <<u>> \o @]
     IN  Becomes(Nothing(joined, fix), Seen(joined))
  /\ UNCHANGED <<conf, board, checks, enabled, due>>

(* MODE +o from the network.                                               *)
Op(u) ==
  /\ u \in Elements(ch.non_ops)
  /\ LET opped == [ch EXCEPT !.non_ops = Without(u, @), !.ops = <<u>> \o @]
     IN  Becomes(Nothing(opped, fix), Seen(opped))
  /\ UNCHANGED <<conf, board, checks, enabled, due>>

(* MODE -o from the network; _channel_clmode_changed sees the last one go. *)
Deop(u) ==
  /\ u \in Elements(ch.ops)
  /\ LET deopped == [ch EXCEPT !.ops = Without(u, @), !.non_ops = <<u>> \o @]
     IN  Becomes(IF deopped.ops = <<>> /\ Enough(ch) THEN AutoReop(deopped, fix)
                 ELSE Nothing(deopped, fix), Seen(deopped))
  /\ UNCHANGED <<conf, board, checks, enabled, due>>

(* A client leaves; unless a split took it, _channel_client_removed sees   *)
(* the last op go.  It still counts among the channel's clients then.  The *)
(* last client takes the channel along.                                    *)
Leave(u, split) ==
  /\ u \in Members(ch)
  /\ LET left == [ch EXCEPT !.ops = Without(u, @), !.non_ops = Without(u, @)]
         after == IF /\ u \in Elements(ch.ops) /\ left.ops = <<>>
                     /\ ~ split /\ Enough(ch)
                  THEN AutoReop(left, fix) ELSE Nothing(left, fix)
     IN  IF Members(left) = {}
         THEN /\ ch' = NewChannel /\ net' = Seen(NewChannel)
              /\ fix' = after.fix /\ sent' = after.sent
         ELSE Becomes(after, Seen(left))
  /\ UNCHANGED <<conf, board, checks, enabled, due>>

(* The channel's ops change its modes.                                     *)
SetModes(modes) ==
  /\ ch.ops # <<>>
  /\ LET set == [ch EXCEPT !.modes = modes]
     IN  Becomes(Nothing(set, fix), Seen(set))
  /\ UNCHANGED <<conf, board, checks, enabled, due>>

(* Servers split off or link again.                                        *)
Servers ==
  /\ enabled' = ~ enabled
  /\ Becomes(Nothing(ch, fix), net)
  /\ UNCHANGED <<conf, board, checks, due>>

Next ==
  \/ Tick
  \/ Check
  \/ Servers
  \/ \E override \in BOOLEAN : Manual(override)
  \/ \E u \in Clients, op \in BOOLEAN : Join(u, op)
  \/ \E u \in Clients : Op(u)
  \/ \E u \in Clients : Deop(u)
  \/ \E u \in Clients, split \in BOOLEAN : Leave(u, split)
  \/ \E modes \in SUBSET ChanModes : SetModes(modes)

(* Only Tick and Check change due, and one of them is always possible:     *)
(* time passes, and the poll loop runs the timer that has run out, which   *)
(* sets itself again.                                                      *)
Spec == Init /\ [][Next]_vars /\ WF_due(due' = ~ due)
-----------------------------------------------------------------------------
(* Every part of the state has its fields.                                 *)
TypeOK ==
  /\ conf \in Confs /\ board \in Boards
  /\ ch.non_ops \in Seq(Clients) /\ ch.ops \in Seq(Clients)
  /\ NoTwice(ch.non_ops \o ch.ops)
  /\ ch.modes \subseteq ChanModes /\ ch.creation \in 1 .. FirstTS
  /\ fix.fixing \in BOOLEAN /\ fix.manual \in BOOLEAN
  /\ fix.since \in 0 .. Horizon
  /\ fix.passes \in 0 .. Max({1, UsersNum})
  /\ checks \in 0 .. ChecksNeeded /\ enabled \in BOOLEAN /\ due \in BOOLEAN

(* After a pass the services and the rest of the network agree on the ops, *)
(* the modes and the creation time, whether the pass took ops away by an   *)
(* older creation time or, when there is none, by MODE (do_mode).          *)
NetworkAgrees == net = Seen(ch)

(* Nobody with a record is left behind without ops for someone with a      *)
(* lower score, and nobody without a record gets ops.                      *)
BestFirst ==
  \A k \in 1 .. Len(sent.ops) :
    /\ sent.ops[k] \in DOMAIN board
    /\ \A u \in Elements(ch.non_ops) \cap DOMAIN board : board[u] <= board[sent.ops[k]]

(* A pass gives no more ops than bring the channel to cfc_nicks_to_op.     *)
NoSurplus == sent.ops # <<>> => Len(ch.ops) <= NicksToOp

(* With reop_disable the services log what they would do and touch neither *)
(* the channel nor the network.                                            *)
OnlyLogs == "reop_disable" \in conf => sent = Silence

(* A pass (_chanfix_channel_reop) is fair and kept within its limits, with *)
(* any scores and configuration: the best go first, no more than are       *)
(* wanted get ops, and reop_disable is obeyed.                             *)
PassIsFair == TypeOK /\ BestFirst /\ NoSurplus /\ OnlyLogs

(* A fix ends only when the channel has enough ops or nobody is left who   *)
(* could be given them.                                                    *)
FixIsThorough ==
  [][Doit /\ (fix.fixing \/ sent'.joins) /\ ~ fix'.fixing
       => \/ Len(ch'.ops) >= NicksToOp
          \/ Elements(ch'.non_ops) \cap DOMAIN board = {}]_vars

(* From some time on no oper starts a fix over.                            *)
LeftAlone ==
  <>[][~ (fix.fixing /\ \E override \in BOOLEAN : Manual(override))]_vars

(* Every fix ends, while the channel and the servers stay, on a channel    *)
(* the timer does not ignore.  Where it does (SI_IG_FLAGS_AUTO), a fix an  *)
(* oper began gets no second pass: _chanfix_automatic_reop returns at the  *)
(* ignore and FIXING stays set.                                            *)
FixEnds ==
  LeftAlone /\ <>[](enabled /\ Enough(ch)) /\ "ignore_auto" \notin conf
    => [](fix.fixing => <>(~ fix.fixing))

(* An opless channel that has a known user does not stay opless while      *)
(* enough clients and servers are there and fixing is not disabled, for    *)
(* all channels or for this one.                                           *)
Opless ==
  /\ Doit /\ "ignore_auto" \notin conf
  /\ ch.ops = <<>> /\ enabled /\ Enough(ch)
  /\ Elements(ch.non_ops) \cap DOMAIN board # {}

OplessIsFixed == LeftAlone => (Opless ~> ~ Opless)
=============================================================================
