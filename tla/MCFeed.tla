------------------------------ MODULE MCFeed ------------------------------
(* Feed for TLC *)
EXTENDS Feed, TLC

Symmetric == Permutations(Docs) \cup Permutations(Socks)

\* Bound: once the page was mounted again, one document at most has begun.
Explored == hook.remounts = 0 \/ Cardinality({d \in Docs : task[d].at # "new"}) <= 1
===========================================================================
