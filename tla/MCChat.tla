------------------------------ MODULE MCChat ------------------------------
(* Model values for checking Chat. *)
EXTENDS Chat, TLC

CONSTANTS s1, s2, q1, q2

Symmetry == Permutations({s1, s2}) \cup Permutations({q1, q2})
===========================================================================
