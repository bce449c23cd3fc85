------------------------------ MODULE MCChanfix ------------------------------
(* Instances of Chanfix for TLC. x stands for recorded users who stay away. *)
EXTENDS Chanfix, TLC

CONSTANTS a, b, c, x, y

(* Scores that tie, that differ, and that a client or a stranger leads.    *)
MCBoards == {a :> 1 @@ b :> 2 @@ x :> 3 @@ y :> 1,
             a :> 2 @@ b :> 2 @@ c :> 1 @@ x :> 1,
             a :> 1}
=============================================================================
