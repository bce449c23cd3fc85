------------------------------- MODULE MCAdmin --------------------------------
(* Instances of Admin for TLC: one mask for one host, one for all.         *)
EXTENDS Admin, TLC

CONSTANTS h1, h2, n1, n2, p, q, a

TwoMasks == {{h1}, {h1, h2}}

Sym == Permutations({n1, n2}) \cup Permutations({p, q})
=============================================================================
