------------------------------- MODULE MCJupes -------------------------------
(* Instances of Jupes for TLC. u1 is an admin.                              *)
EXTENDS Jupes

CONSTANTS n1, n2, u1, u2, u3, s1, s2

Sym == Permutations({n1, n2}) \cup Permutations({u2, u3}) \cup Permutations({s1, s2})
=============================================================================
