----------------------------- MODULE MCFolders -----------------------------
(* Model values for checking Folders. *)
EXTENDS Folders, TLC

CONSTANTS f1, f2, f3, f4, d1, a, b, m1, m2, k1

Symmetric == Permutations(FolderIds) \cup Permutations(Movers)

\* Bound: two moves overlap only among folders of one name, before there is a
\* document and while nobody creates a folder.
Explored ==
  \/ unchecked = {} /\ \E h \in Movers : \A g \in Movers \ {h} : pc[g] = "idle"
  \/ /\ \A h \in Creators : pc[h] = "idle"
     /\ \A f \in FolderIds : name[f] = NoLocal.name
     /\ \A d \in DocIds : home[d] = Unused
===========================================================================
