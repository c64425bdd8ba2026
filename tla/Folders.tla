------------------------------ MODULE Folders ------------------------------
(***************************************************************************)
(* The folder tree of one user and the documents filed in it: the folders  *)
(* API and the part of the documents API that files a document.            *)
(*                                                                         *)
(* Moving a folder walks from the target up to the root, one SELECT per    *)
(* level, and commits if the walk did not meet the folder; other requests  *)
(* commit in between.  Foreign keys are checked at the commit and cascade  *)
(* on deletion, except those of dossiers and correlations to documents:    *)
(* these refuse it.  A request that renames and moves is a Rename just     *)
(* before a MoveCommit.  A folder id is never used again.                  *)
(*                                                                         *)
(* overtaken, unchecked and the field passed are history: they record what *)
(* happened and decide nothing.                                            *)
(***************************************************************************)
EXTENDS Naturals

CONSTANTS
  FolderIds,  \* ids of folders (a bound)
  DocIds,     \* ids of documents (a bound)
  Names,      \* folder names
  Creators,   \* concurrent requests that create a folder (a bound)
  Movers,     \* concurrent requests that move a folder (a bound)
  Root, Unused, Deleted

ASSUME FoldersAssumption ==
  /\ Creators \cap Movers = {}
  /\ {Root, Unused, Deleted} \cap FolderIds = {}
  /\ Root # Unused /\ Root # Deleted /\ Unused # Deleted
  /\ Names # {}

VARIABLES
  parent,   \* parent_id of each folder, Root for NULL
  name,     \* name of each folder
  home,     \* folder_id of each document, Root for NULL
  cited,    \* documents that a dossier or a correlation refers to
  pc, loc,  \* each request's control point and local variables
  overtaken,  \* requests since whose reading another one moved a folder
  unchecked   \* folders that such a request moved

vars == <<parent, name, home, cited, pc, loc, overtaken, unchecked>>
moves == <<overtaken, unchecked>>

Handlers == Creators \cup Movers
NoLocal  == [folder |-> Unused, target |-> Root, seen |-> Root, at |-> Root,
             passed |-> {}, name |-> CHOOSE n \in Names : TRUE]

Live     == {f \in FolderIds : parent[f] \notin {Unused, Deleted}}
Places   == Live \cup {Root}

Init ==
  /\ parent  = [f \in FolderIds |-> Unused]
  /\ name    = [f \in FolderIds |-> NoLocal.name]
  /\ home    = [d \in DocIds |-> Unused]
  /\ cited = {}
  /\ pc      = [h \in Handlers |-> "idle"]
  /\ loc     = [h \in Handlers |-> NoLocal]
  /\ overtaken = {} /\ unchecked = {}

Finish(h) ==
  /\ pc'  = [pc EXCEPT ![h] = "idle"]
  /\ loc' = [loc EXCEPT ![h] = NoLocal]

---------------------------------------------------------------------------
(* Creating, renaming, deleting *)

Homonyms(place, n) == {f \in Live : parent[f] = place /\ name[f] = n}

CreateCheck(h, place, n) ==
  /\ pc[h] = "idle"
  /\ place \in Places
  /\ Homonyms(place, n) = {}
  /\ pc'  = [pc EXCEPT ![h] = "creating"]
  /\ loc' = [loc EXCEPT ![h] = [NoLocal EXCEPT !.target = place, !.name = n]]
  /\ UNCHANGED <<parent, name, home, cited, moves>>

CreateCommit(h, f) ==
  /\ pc[h] = "creating"
  /\ parent[f] = Unused
  /\ IF loc[h].target \in Places
     THEN /\ parent' = [parent EXCEPT ![f] = loc[h].target]
          /\ name'   = [name EXCEPT ![f] = loc[h].name]
     ELSE UNCHANGED <<parent, name>>
  /\ Finish(h)
  /\ UNCHANGED <<home, cited, moves>>

\* No look at the other names.
Rename(f, n) ==
  /\ f \in Live
  /\ name' = [name EXCEPT ![f] = n]
  /\ UNCHANGED <<parent, home, cited, pc, loc, moves>>

\* f and all that is below it.
Subtree(f) ==
  {x \in FolderIds : \A S \in SUBSET FolderIds :
     (f \in S /\ \A y \in Live : parent[y] \in S => y \in S) => x \in S}

\* Mutant of DeleteFolder: only the folder's own documents go.
DeleteFolderShallow(f) ==
  /\ f \in Live
  /\ \A d \in cited : home[d] \notin Subtree(f)
  /\ parent' = [x \in FolderIds |->
                  IF x \in Subtree(f) THEN Deleted ELSE parent[x]]
  /\ home'   = [d \in DocIds |-> IF home[d] = f THEN Deleted ELSE home[d]]
  /\ UNCHANGED <<name, cited, pc, loc, moves>>

\* The foreign keys cascade to subfolders and to documents; a cited document
\* anywhere below makes the deletion fail as a whole.
DeleteFolder(f) ==
  /\ f \in Live
  /\ \A d \in cited : home[d] \notin Subtree(f)
  /\ parent' = [x \in FolderIds |->
                  IF x \in Subtree(f) THEN Deleted ELSE parent[x]]
  /\ home'   = [d \in DocIds |->
                  IF home[d] \in Subtree(f) THEN Deleted ELSE home[d]]
  /\ UNCHANGED <<name, cited, pc, loc, moves>>

---------------------------------------------------------------------------
(* Moving *)

MoveRead(h, f, place) ==
  /\ pc[h] = "idle"
  /\ f \in Live /\ place \in Live \ {f}
  /\ pc'  = [pc EXCEPT ![h] = "walking"]
  /\ loc' = [loc EXCEPT ![h] = [NoLocal EXCEPT
               !.folder = f, !.target = place, !.at = place,
               !.passed = {place}, !.seen = parent[f]]]
  /\ UNCHANGED <<parent, name, home, cited, moves>>

\* parent_id of the folder the walk is at; None if it is gone.
ParentAt(h) == IF loc[h].at \in Live THEN parent[loc[h].at] ELSE Root

WalkRefuses(h) ==
  /\ pc[h] = "walking"
  /\ ParentAt(h) = loc[h].folder
  /\ Finish(h)
  /\ overtaken' = overtaken \ {h}
  /\ UNCHANGED <<parent, name, home, cited, unchecked>>

\* Mutant of WalkGoesOn: the walk does not climb.
WalkGoesOnInPlace(h) ==
  /\ pc[h] = "walking"
  /\ ParentAt(h) \notin {loc[h].folder, Root}
  /\ loc' = [loc EXCEPT ![h] = [loc[h] EXCEPT
               !.at = loc[h].target, !.passed = loc[h].passed \cup {ParentAt(h)}]]
  /\ UNCHANGED <<parent, name, home, cited, pc, moves>>

WalkGoesOn(h) ==
  /\ pc[h] = "walking"
  /\ ParentAt(h) \notin {loc[h].folder, Root}
  /\ loc' = [loc EXCEPT ![h] = [loc[h] EXCEPT
               !.at = ParentAt(h), !.passed = loc[h].passed \cup {ParentAt(h)}]]
  /\ UNCHANGED <<parent, name, home, cited, pc, moves>>

\* Mutant of WalkEnds: the walk only looks at the first level.
WalkEndsShallow(h) ==
  /\ pc[h] = "walking"
  /\ ParentAt(h) # loc[h].folder
  /\ pc'  = [pc EXCEPT ![h] = "moving"]
  /\ loc' = [loc EXCEPT ![h] = [loc[h] EXCEPT !.at = Root, !.passed = {}]]
  /\ UNCHANGED <<parent, name, home, cited, moves>>

WalkEnds(h) ==
  /\ pc[h] = "walking"
  /\ ParentAt(h) = Root
  /\ pc'  = [pc EXCEPT ![h] = "moving"]
  /\ loc' = [loc EXCEPT ![h] = [loc[h] EXCEPT !.at = Root, !.passed = {}]]
  /\ UNCHANGED <<parent, name, home, cited, moves>>

\* A parent equal to the one read is not written; a folder or a target that
\* is gone makes the commit fail.
Written(l) == l.folder \in Live /\ l.target \in Live /\ l.target # l.seen

Moved(h, f) ==
  /\ overtaken' = {g \in Movers \ {h} : pc[g] # "idle"}
  /\ unchecked' = IF h \in overtaken THEN unchecked \cup {f} ELSE unchecked

MoveCommit(h) ==
  LET l == loc[h] IN
  /\ pc[h] = "moving"
  /\ \/ /\ Written(l)
        /\ parent' = [parent EXCEPT ![l.folder] = l.target]
        /\ Moved(h, l.folder)
     \/ /\ ~Written(l)
        /\ overtaken' = overtaken \ {h}
        /\ UNCHANGED <<parent, unchecked>>
  /\ Finish(h)
  /\ UNCHANGED <<name, home, cited>>

MoveToRoot(f) ==
  /\ f \in Live
  /\ parent' = [parent EXCEPT ![f] = Root]
  /\ UNCHANGED <<name, home, cited, pc, loc, moves>>

---------------------------------------------------------------------------
(* Documents *)

Upload(d, place) ==
  /\ home[d] = Unused /\ place \in Places
  /\ home' = [home EXCEPT ![d] = place]
  /\ UNCHANGED <<parent, name, cited, pc, loc, moves>>

File(d, place) ==
  /\ home[d] \notin {Unused, Deleted} /\ place \in Places
  /\ home' = [home EXCEPT ![d] = place]
  /\ UNCHANGED <<parent, name, cited, pc, loc, moves>>

\* A dossier or a correlation refers to d, and lets it go.
Cite(d) ==
  /\ home[d] \notin {Unused, Deleted}
  /\ cited' = cited \cup {d}
  /\ UNCHANGED <<parent, name, home, pc, loc, moves>>

Uncite(d) ==
  /\ cited' = cited \ {d}
  /\ UNCHANGED <<parent, name, home, pc, loc, moves>>

---------------------------------------------------------------------------
Create(h) ==
  \/ \E place \in Places, n \in Names : CreateCheck(h, place, n)
  \/ \E f \in FolderIds : CreateCommit(h, f)

Walk(h) == WalkRefuses(h) \/ WalkGoesOn(h) \/ WalkEnds(h)

Move(h) == \/ \E f, place \in Live : MoveRead(h, f, place)
           \/ Walk(h) \/ MoveCommit(h)

Next ==
  \/ \E h \in Creators : Create(h)
  \/ \E h \in Movers : Move(h)
  \/ \E f \in FolderIds : \/ DeleteFolder(f) \/ MoveToRoot(f)
                          \/ \E n \in Names : Rename(f, n)
  \/ \E d \in DocIds : \/ Cite(d) \/ Uncite(d)
                       \/ \E place \in Places : Upload(d, place) \/ File(d, place)

Spec == Init /\ [][Next]_vars

---------------------------------------------------------------------------
(* Properties *)

\* Every variable holds values of its type.
TypeOK ==
  /\ parent \in [FolderIds -> FolderIds \cup {Root, Unused, Deleted}]
  /\ name \in [FolderIds -> Names]
  /\ home \in [DocIds -> FolderIds \cup {Root, Unused, Deleted}]
  /\ cited \subseteq DocIds
  /\ pc \in [Handlers -> {"idle", "creating", "walking", "moving"}]
  /\ loc \in [Handlers -> [folder : FolderIds \cup {Unused},
                           target : FolderIds \cup {Root},
                           seen : FolderIds \cup {Root},
                           at : FolderIds \cup {Root},
                           passed : SUBSET FolderIds, name : Names]]
  /\ overtaken \subseteq Movers /\ unchecked \subseteq FolderIds

Parents == \A f \in Live : parent[f] \in Places

\* No set of the folders F has all its parents in itself.
NoCycleIn(F) == \A S \in (SUBSET F) \ {{}} : \E f \in S : parent[f] \notin S

\* The folders form a tree.
Tree == Parents /\ NoCycleIn(Live)

\* Every folder's parent exists, and every cycle passes through a folder that
\* an overtaken request moved: one that another's move committed into, between
\* its reading and its commit.  A move that was not overtaken closes no cycle,
\* whatever is created, deleted and moved to the root during its walk, and even
\* where folders are tangled already.
CyclesAreUnchecked == Parents /\ NoCycleIn(Live \ unchecked)

\* A document is in a folder that exists, whatever moves and deletions pass
\* over that folder.
DocumentsAreFiled ==
  \A d \in DocIds : home[d] \notin {Unused, Deleted} => home[d] \in Places

\* The walk comes to an end: it meets no folder twice, whatever is created,
\* deleted and moved to the root meanwhile, if no move of another request
\* commits during it and none was overtaken before.  Below a cycle it goes
\* round for ever: the code keeps no record of where it was.
WalksClimb ==
  \A h \in Movers \ overtaken :
    pc[h] = "walking" /\ unchecked = {} => ParentAt(h) \notin loc[h].passed
===========================================================================
