---------------------------- MODULE MCDossiers ----------------------------
(* Model values for checking Dossiers. *)
EXTENDS Dossiers, TLC

CONSTANTS a, b, c, d, c1, c2, c3, x1, x2, i1, i2, h1, h2

Symmetry == Permutations({a, b, c, d}) \cup Permutations({c1, c2})
            \cup Permutations({x1, x2}) \cup Permutations({i1, i2})
            \cup Permutations({h1, h2})
===========================================================================
