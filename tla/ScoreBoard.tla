------------------------------ MODULE ScoreBoard ------------------------------
(***************************************************************************)
(* What the chanfix score database promises, without lists, records or     *)
(* record-by-record work: for each channel and user a window of per-day    *)
(* counts.  A check credits a user of a channel at most once, for today;   *)
(* every RollFreq-th check first moves every window by one day, all at     *)
(* once.  A check that is cut short may leave windows where they were, and *)
(* the one user it was at may have been credited or lose his window.       *)
(***************************************************************************)
EXTENDS Integers

CONSTANTS Chans, Users, Days, RollFreq

VARIABLES
  window,    \* [Chans -> [Users -> [1 .. Days -> Nat]]], day 1 is today
  credited,  \* the <<channel, user>> pairs this check has credited
  phase      \* number of checks since the windows last moved

boardVars == <<window, credited, phase>>

NoCounts == [d \in 1 .. Days |-> 0]

Later(w) == [d \in 1 .. Days |-> IF d = 1 THEN 0 ELSE w[d - 1]]

BoardInit ==
  /\ window = [c \in Chans |-> [u \in Users |-> NoCounts]]
  /\ credited = {}
  /\ phase = 0

NewCheck ==
  /\ phase' = (phase + 1) % RollFreq
  /\ window' = IF phase' = 0
               THEN [c \in Chans |-> [u \in Users |-> Later(window[c][u])]]
               ELSE window
  /\ credited' = {}

Credit(c, u) ==
  /\ <<c, u>> \notin credited
  /\ credited' = credited \cup {<<c, u>>}
  /\ window' = [window EXCEPT ![c][u][1] = @ + 1]
  /\ UNCHANGED phase

(* The window of u in c stays, or is as if its last move had not been.     *)
Delayed(c, u) ==
  \/ window'[c][u] = window[c][u]
  \/ phase = 0 /\ Later(window'[c][u]) = window[c][u]

CutShort ==
  /\ credited' = {}
  /\ \A c \in Chans, u \in Users : Delayed(c, u)
  /\ UNCHANGED phase

CutShortAt(c, u) ==
  /\ credited' = {}
  /\ \A d \in Chans, x \in Users : <<d, x>> = <<c, u>> \/ Delayed(d, x)
  /\ \/ window'[c][u] = NoCounts
     \/ /\ <<c, u>> \notin credited
        /\ window'[c][u] = [window[c][u] EXCEPT ![1] = @ + 1]
  /\ UNCHANGED phase

BoardNext ==
  \/ NewCheck
  \/ \E c \in Chans, u \in Users : Credit(c, u)
  \/ CutShort
  \/ \E c \in Chans, u \in Users : CutShortAt(c, u)

BoardSpec == BoardInit /\ [][BoardNext]_boardVars
=============================================================================
