----------------------------- MODULE MCModeSlots -----------------------------
(* TLC instance of ModeSlots: model values for channels and mode sets.     *)
EXTENDS ModeSlots, TLC

CONSTANTS c1, c2, m1, m2, m3

(* Channels and mode sets are only compared; "no modes" is special.        *)
Sym == Permutations(Chans) \cup Permutations(Modes \ {NoModes})
=============================================================================
