------------------------------ MODULE MCNetwork ------------------------------
(* Instances of Network for TLC.                                            *)
EXTENDS Network, TLC

CONSTANTS c1, c2, i1, i2, i3, hub, leaf, x, y, ch

Sym == Permutations({c1, c2}) \cup Permutations({i1, i2, i3})
=============================================================================
