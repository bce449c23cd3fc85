----------------------------- MODULE MCChanScores -----------------------------
(* TLC instance of ChanScores: model values for channels and userhosts.    *)
EXTENDS ChanScores, TLC

CONSTANTS c1, c2, u1, u2, u3

(* Userhosts are only compared, never ordered.                             *)
Sym == Permutations(Users)
=============================================================================
