--------------------------- MODULE FoldersProofs ---------------------------
(***************************************************************************)
(* Theorems about the folder tree, for any folders, documents, names and   *)
(* requests.  Nothing is by induction over paths: a set of folders that    *)
(* holds all its parents is what a cycle amounts to, and what a walk has   *)
(* passed is a set that only lacks the parent of the folder it is at.      *)
(* Moves that were not overtaken are told apart by the history variables.  *)
(***************************************************************************)
EXTENDS Folders, TLAPS

USE FoldersAssumption

Values == FolderIds \cup {Root, Unused, Deleted}

LEMMA LiveFolders ==
  /\ Live \subseteq FolderIds /\ Root \notin Live
  /\ \A f \in Live : parent[f] # Unused /\ parent[f] # Deleted
BY DEF Live

Locals == [folder : FolderIds \cup {Unused}, target : FolderIds \cup {Root},
           seen : FolderIds \cup {Root}, at : FolderIds \cup {Root},
           passed : SUBSET FolderIds, name : Names]

LEMMA NoLocalTyped == NoLocal \in Locals
BY DEF NoLocal, Locals

LEMMA TypeInit == Init => TypeOK
BY NoLocalTyped DEF Init, TypeOK, NoLocal, Locals

LEMMA TypeStep == TypeOK /\ [Next]_vars => TypeOK'
<1> SUFFICES ASSUME TypeOK, [Next]_vars PROVE TypeOK'
  OBVIOUS
<1> USE DEF TypeOK, Locals, moves
<1>1. ASSUME NEW h \in Creators, Create(h) PROVE TypeOK'
  <2>1. ASSUME NEW place \in Places, NEW n \in Names, CreateCheck(h, place, n)
        PROVE  TypeOK'
    <3>1. place \in FolderIds \cup {Root}
      BY DEF Places, Live
    <3>2. [NoLocal EXCEPT !.target = place, !.name = n] \in
            Locals
      BY <3>1, NoLocalTyped
    <3> QED BY <2>1, <3>2 DEF CreateCheck, Handlers
  <2>2. ASSUME NEW f \in FolderIds, CreateCommit(h, f) PROVE TypeOK'
    <3>1. h \in Handlers
      BY DEF Handlers
    <3>2. loc[h].target \in FolderIds \cup {Root} /\ loc[h].name \in Names
      BY <3>1
    <3> QED BY <2>2, <3>1, <3>2, NoLocalTyped DEF CreateCommit, Finish
  <2> QED BY <1>1, <2>1, <2>2 DEF Create
<1>2. ASSUME NEW h \in Movers, Move(h) PROVE TypeOK'
  <2>0. h \in Handlers
    BY DEF Handlers
  <2>1. ASSUME NEW f \in Live, NEW place \in Live, MoveRead(h, f, place)
        PROVE  TypeOK'
    <3>1. f \in FolderIds /\ place \in FolderIds /\ parent[f] \in FolderIds \cup {Root}
      BY DEF Live
    <3>2. [NoLocal EXCEPT !.folder = f, !.target = place, !.at = place,
                          !.passed = {place}, !.seen = parent[f]] \in Locals
      BY <3>1, NoLocalTyped
    <3> QED BY <2>0, <2>1, <3>2 DEF MoveRead
  <2>2. CASE WalkRefuses(h)
    BY <2>0, <2>2, NoLocalTyped DEF WalkRefuses, Finish
  <2>3. CASE WalkGoesOn(h)
    <3>1. ParentAt(h) \in FolderIds
      BY <2>3 DEF WalkGoesOn, ParentAt, Live
    <3>2. [loc[h] EXCEPT !.at = ParentAt(h),
                         !.passed = loc[h].passed \cup {ParentAt(h)}] \in Locals
      BY <2>0, <3>1
    <3> QED BY <2>0, <2>3, <3>2 DEF WalkGoesOn
  <2>4. CASE WalkEnds(h)
    <3>1. [loc[h] EXCEPT !.at = Root, !.passed = {}] \in Locals
      BY <2>0
    <3> QED BY <2>0, <2>4, <3>1 DEF WalkEnds
  <2>5. CASE MoveCommit(h)
    <3>1. /\ pc' = [pc EXCEPT ![h] = "idle"]
          /\ loc' = [loc EXCEPT ![h] = NoLocal]
          /\ UNCHANGED <<name, home, cited>>
      BY <2>5 DEF MoveCommit, Finish
    <3>2. CASE Written(loc[h])
      BY <2>0, <2>5, <3>1, <3>2, NoLocalTyped, LiveFolders
      DEF MoveCommit, Moved, Written
    <3>3. CASE ~Written(loc[h])
      BY <2>0, <2>5, <3>1, <3>3, NoLocalTyped DEF MoveCommit
    <3> QED BY <3>2, <3>3
  <2> QED BY <1>2, <2>1, <2>2, <2>3, <2>4, <2>5 DEF Move, Walk
<1>3. ASSUME NEW f \in FolderIds,
             \/ DeleteFolder(f) \/ MoveToRoot(f)
             \/ \E n \in Names : Rename(f, n)
      PROVE  TypeOK'
  BY <1>3 DEF DeleteFolder, MoveToRoot, Rename
<1>4. ASSUME NEW d \in DocIds,
             \/ Cite(d) \/ Uncite(d)
             \/ \E place \in Places : Upload(d, place) \/ File(d, place)
      PROVE  TypeOK'
  BY <1>4 DEF Cite, Uncite, Upload, File, Places, Live
<1>5. CASE UNCHANGED vars
  BY <1>5 DEF vars
<1> QED BY <1>1, <1>2, <1>3, <1>4, <1>5 DEF Next

\* Every reachable state of folders, documents and requests is well typed.
THEOREM TypeCorrect == Spec => []TypeOK
BY TypeInit, TypeStep, PTL DEF Spec

---------------------------------------------------------------------------
(* What is below a folder, and what refers to it *)

\* A subtree holds its folder, and what has its parent in it.
LEMMA SubtreeClosed ==
  ASSUME NEW f \in FolderIds
  PROVE  /\ f \in Subtree(f)
         /\ \A y \in Live : parent[y] \in Subtree(f) => y \in Subtree(f)
<1>1. f \in Subtree(f)
  BY DEF Subtree
<1>2. ASSUME NEW y \in Live, parent[y] \in Subtree(f) PROVE y \in Subtree(f)
  <2>1. y \in FolderIds
    BY LiveFolders
  <2>2. ASSUME NEW S \in SUBSET FolderIds, f \in S,
               \A z \in Live : parent[z] \in S => z \in S
        PROVE  y \in S
    BY <1>2, <2>2 DEF Subtree
  <2> QED BY <2>1, <2>2 DEF Subtree
<1> QED BY <1>1, <1>2

FiledInv == TypeOK /\ Parents /\ DocumentsAreFiled

\* No folder in use is taken away: parents and documents keep their places.
LEMMA PlacesStay ==
  ASSUME FiledInv, TypeOK', Live \subseteq Live', home' = home,
         \A f \in Live' : parent'[f] \in Places'
  PROVE  FiledInv'
BY DEF FiledInv, Parents, DocumentsAreFiled, Places

\* The folders stay as they are.
LEMMA TreeStays ==
  ASSUME Parents, parent' = parent
  PROVE  Parents' /\ Places' = Places /\ Live' = Live
BY DEF Parents, Places, Live

LEMMA FiledStep == FiledInv /\ [Next]_vars => FiledInv'
<1> SUFFICES ASSUME FiledInv, [Next]_vars PROVE FiledInv'
  OBVIOUS
<1>0. TypeOK /\ TypeOK'
  BY TypeStep DEF FiledInv
<1>a. ASSUME parent' = parent, home' = home PROVE FiledInv'
  BY <1>a, <1>0, TreeStays DEF FiledInv, DocumentsAreFiled
<1>1. ASSUME NEW h \in Creators, Create(h) PROVE FiledInv'
  <2>1. ASSUME NEW place \in Places, NEW n \in Names, CreateCheck(h, place, n)
        PROVE  FiledInv'
    BY <1>a, <2>1 DEF CreateCheck
  <2>2. ASSUME NEW f \in FolderIds, CreateCommit(h, f) PROVE FiledInv'
    <3>1. CASE loc[h].target \in Places
      <4>1. /\ parent' = [parent EXCEPT ![f] = loc[h].target]
            /\ home' = home
            /\ parent[f] = Unused
        BY <2>2, <3>1 DEF CreateCommit
      <4>2. Live' = Live \cup {f}
        BY <1>0, <3>1, <4>1 DEF Live, Places, TypeOK
      <4>3. ASSUME NEW g \in Live' PROVE parent'[g] \in Places'
        BY <1>0, <3>1, <4>1, <4>2 DEF FiledInv, Parents, Places, TypeOK, Live
      <4> QED BY <1>0, <4>1, <4>2, <4>3, PlacesStay
    <3>2. CASE loc[h].target \notin Places
      BY <1>a, <2>2, <3>2 DEF CreateCommit
    <3> QED BY <3>1, <3>2
  <2> QED BY <1>1, <2>1, <2>2 DEF Create
<1>2. ASSUME NEW h \in Movers, Move(h) PROVE FiledInv'
  <2>1. CASE MoveCommit(h)
    <3> DEFINE f == loc[h].folder
               t == loc[h].target
    <3>1. CASE Written(loc[h])
      <4>0. f \in Live /\ t \in Live
        BY <3>1 DEF Written
      <4>1. /\ parent' = [parent EXCEPT ![f] = t]
            /\ home' = home
        BY <2>1, <3>1 DEF MoveCommit
      <4> HIDE DEF f, t
      <4>2. Live' = Live
        BY <1>0, <4>0, <4>1 DEF Live, TypeOK
      <4>3. \A g \in Live' : parent'[g] \in Places'
        BY <1>0, <4>0, <4>1, <4>2 DEF FiledInv, Parents, Places, TypeOK
      <4> QED BY <1>0, <4>1, <4>2, <4>3, PlacesStay
    <3>2. CASE ~Written(loc[h])
      BY <1>a, <2>1, <3>2 DEF MoveCommit
    <3> QED BY <3>1, <3>2
  <2>2. CASE Walk(h) \/ \E f, place \in Live : MoveRead(h, f, place)
    BY <1>a, <2>2 DEF Walk, WalkRefuses, WalkGoesOn, WalkEnds, MoveRead
  <2> QED BY <1>2, <2>1, <2>2 DEF Move
<1>3. ASSUME NEW f \in FolderIds, DeleteFolder(f) PROVE FiledInv'
  <2>1. /\ \A x \in FolderIds :
              parent'[x] = IF x \in Subtree(f) THEN Deleted ELSE parent[x]
        /\ \A d \in DocIds :
              home'[d] = IF home[d] \in Subtree(f) THEN Deleted ELSE home[d]
       
        /\ \A d \in cited : home[d] \notin Subtree(f)
    BY <1>3 DEF DeleteFolder
  <2>2. Live' = Live \ Subtree(f)
    BY <2>1 DEF Live
  <2>3. Parents'
    <3> SUFFICES ASSUME NEW y \in Live' PROVE parent'[y] \in Places'
      BY DEF Parents
    <3>1. y \in Live /\ y \in FolderIds /\ y \notin Subtree(f)
      BY <2>2, LiveFolders
    <3>2. parent'[y] = parent[y] /\ parent[y] \notin Subtree(f)
      BY <2>1, <3>1, SubtreeClosed
    <3>3. parent[y] \in Places
      BY <3>1 DEF FiledInv, Parents
    <3> QED BY <2>2, <3>2, <3>3 DEF Places
  <2>4. DocumentsAreFiled'
    <3> SUFFICES ASSUME NEW d \in DocIds, home'[d] \notin {Unused, Deleted}
                 PROVE  home'[d] \in Places'
      BY DEF DocumentsAreFiled
    <3>1. home'[d] = home[d] /\ home[d] \notin Subtree(f)
      BY <2>1
    <3>2. home[d] \in Places
      BY <3>1 DEF FiledInv, DocumentsAreFiled
    <3> QED BY <2>2, <3>1, <3>2 DEF Places
  <2> QED BY <1>0, <2>3, <2>4 DEF FiledInv
<1>4. ASSUME NEW f \in FolderIds, MoveToRoot(f) PROVE FiledInv'
  <2>1. Live' = Live /\ parent' = [parent EXCEPT ![f] = Root] /\ f \in Live
    BY <1>0, <1>4 DEF MoveToRoot, Live, TypeOK
  <2>2. \A g \in Live' : parent'[g] \in Places'
    BY <1>0, <2>1 DEF FiledInv, Parents, Places, TypeOK
  <2> QED BY <1>0, <1>4, <2>1, <2>2, PlacesStay DEF MoveToRoot
<1>5. ASSUME NEW f \in FolderIds, NEW n \in Names, Rename(f, n) PROVE FiledInv'
  BY <1>a, <1>5 DEF Rename
<1>6. ASSUME NEW d \in DocIds, NEW place \in Places,
             Upload(d, place) \/ File(d, place)
      PROVE  FiledInv'
  <2>1. /\ parent' = parent
        /\ home' = [home EXCEPT ![d] = place]
    BY <1>6 DEF Upload, File
  <2>2. Parents' /\ Places' = Places
    BY <2>1, TreeStays DEF FiledInv
  <2>4. DocumentsAreFiled'
    BY <1>0, <2>1, <2>2 DEF FiledInv, DocumentsAreFiled, TypeOK
  <2> QED BY <1>0, <2>2, <2>4 DEF FiledInv
<1>7. ASSUME NEW d \in DocIds, Cite(d) \/ Uncite(d) PROVE FiledInv'
  BY <1>a, <1>7 DEF Cite, Uncite
<1>8. CASE UNCHANGED vars
  BY <1>8, <1>a DEF vars
<1> QED
  BY <1>1, <1>2, <1>3, <1>4, <1>5, <1>6, <1>7, <1>8 DEF Next

LEMMA FiledInit == Init => FiledInv
BY TypeInit DEF Init, FiledInv, Parents, DocumentsAreFiled, Live

LEMMA FiledAlways == Spec => []FiledInv
BY FiledInit, FiledStep, PTL DEF Spec

\* A document in use is in a folder in use or at the root, however many
\* requests delete, move and file.
THEOREM FiledCorrect == Spec => []DocumentsAreFiled
BY FiledAlways, PTL DEF FiledInv

---------------------------------------------------------------------------
(* A cycle needs a move that was overtaken *)

Checked == Live \ unchecked
NoCycle == NoCycleIn(Checked)

\* A set that h's walk has passed: it holds the target and not the folder,
\* and holds its parents, but for the parent of the folder the walk is at.
Passed(h, P) ==
  /\ loc[h].target \in P /\ loc[h].folder \notin P
  /\ pc[h] = "walking" => loc[h].at \in P
  /\ \A x \in P :
       /\ parent[x] # Unused
       /\ parent[x] \in FolderIds => \/ parent[x] \in P
                                     \/ pc[h] = "walking" /\ x = loc[h].at

WalkInv ==
  \A h \in Movers \ overtaken :
    pc[h] \in {"walking", "moving"} => \E P \in SUBSET FolderIds : Passed(h, P)

\* No set of folders holds its parents by old.
NoLoop(old) == \A S \in (SUBSET FolderIds) \ {{}} : \E x \in S : old[x] \notin S

\* A tree as h may have found it when it began: what is left of it is as it
\* was, and the folders that the walk met follow each other in it.
FoundTree(h, old) ==
  /\ NoLoop(old)
  /\ \A x \in FolderIds :
       /\ old[x] \in FolderIds => old[old[x]] # Unused
       /\ old[x] # Unused =>
            /\ parent[x] # Unused
            /\ parent[x] \in FolderIds => parent[x] = old[x]
  /\ loc[h].at \in loc[h].passed
  /\ \A x \in loc[h].passed :
       old[x] # Unused /\ (x # loc[h].at => old[x] \in loc[h].passed)

ClimbInv ==
  \A h \in Movers \ overtaken :
    pc[h] = "walking" /\ unchecked = {} =>
      \E old \in [FolderIds -> Values] : FoundTree(h, old)

TreeInv == TypeOK /\ Parents /\ NoCycle /\ WalkInv /\ ClimbInv

\* Folders in use stay, go to the root or go away.
Falls ==
  \A x \in FolderIds :
    /\ parent[x] # Unused => parent'[x] # Unused
    /\ (parent[x] # Unused /\ parent'[x] \in FolderIds) => parent'[x] = parent[x]

\* What a walk has passed does not grow by what the others do.
LEMMA PassedStays ==
  ASSUME NEW h \in Movers, pc'[h] = pc[h], loc'[h] = loc[h], Falls,
         NEW P \in SUBSET FolderIds, Passed(h, P)
  PROVE  Passed(h, P)'
BY DEF Passed, Falls

\* Nor does what a walk found change but by falling apart.
LEMMA FoundStays ==
  ASSUME NEW h \in Movers, loc'[h] = loc[h], Falls, TypeOK,
         NEW old \in [FolderIds -> Values], FoundTree(h, old)
  PROVE  FoundTree(h, old)'
BY DEF FoundTree, Falls

\* The requests of Hs go on as they were.
LEMMA WalksStay ==
  ASSUME TypeOK, WalkInv, ClimbInv, Falls, NEW Hs \in SUBSET Movers,
         unchecked \subseteq unchecked',
         \A h \in Hs : pc'[h] = pc[h] /\ loc'[h] = loc[h],
         \A h \in Hs \ overtaken' : pc[h] # "idle" => h \notin overtaken
  PROVE  /\ \A h \in Hs \ overtaken' : pc'[h] \in {"walking", "moving"} =>
              \E P \in SUBSET FolderIds : Passed(h, P)'
         /\ \A h \in Hs \ overtaken' : pc'[h] = "walking" /\ unchecked' = {} =>
              \E old \in [FolderIds -> Values] : FoundTree(h, old)'
<1>1. ASSUME NEW h \in Hs \ overtaken', pc'[h] \in {"walking", "moving"}
      PROVE  \E P \in SUBSET FolderIds : Passed(h, P)'
  <2>1. PICK P \in SUBSET FolderIds : Passed(h, P)
    BY <1>1 DEF WalkInv
  <2> QED BY <1>1, <2>1, PassedStays
<1>2. ASSUME NEW h \in Hs \ overtaken', pc'[h] = "walking", unchecked' = {}
      PROVE  \E old \in [FolderIds -> Values] : FoundTree(h, old)'
  <2>1. unchecked = {} /\ h \in Movers \ overtaken /\ pc[h] = "walking"
    BY <1>2
  <2>2. PICK old \in [FolderIds -> Values] : FoundTree(h, old)
    BY <2>1 DEF ClimbInv
  <2> QED BY <1>2, <2>2, FoundStays
<1> QED BY <1>1, <1>2

\* Folders that lose their parent or go away leave no cycle behind.
LEMMA FewerFolders ==
  ASSUME NoCycle, Checked' \subseteq Checked,
         \A f \in Checked' : parent'[f] \in FolderIds => parent'[f] = parent[f]
  PROVE  NoCycle'
<1> SUFFICES ASSUME NEW S \in (SUBSET Checked') \ {{}}
             PROVE  \E f \in S : parent'[f] \notin S
  BY DEF NoCycle, NoCycleIn
<1>1. PICK f \in S : parent[f] \notin S
  BY DEF NoCycle, NoCycleIn
<1>2. S \subseteq FolderIds
  BY DEF Live, Checked
<1> QED BY <1>1, <1>2

\* A new folder has no folder below it.
LEMMA NewFolder ==
  ASSUME TypeOK, Parents, NoCycle, NEW f \in FolderIds, parent[f] = Unused,
         NEW t \in Places, parent' = [parent EXCEPT ![f] = t],
         unchecked' = unchecked
  PROVE  NoCycle'
<1>1. Live' = Live \cup {f} /\ f \notin Live
  BY DEF Live, Places, TypeOK
<1> SUFFICES ASSUME NEW S \in (SUBSET Checked') \ {{}}, \A x \in S : parent'[x] \in S
             PROVE  FALSE
  BY DEF NoCycle, NoCycleIn
<1>2. f \in FolderIds /\ parent'[f] = t /\ t # f
  BY <1>1, LiveFolders DEF TypeOK, Places
<1>3. \A x \in Live : parent'[x] = parent[x] /\ parent[x] # f
  BY <1>1, LiveFolders DEF Parents, Places, TypeOK
<1>4. S \ {f} # {}
  <2>1. PICK x \in S : TRUE
    OBVIOUS
  <2>2. parent'[x] \in S /\ (x = f => parent'[x] # f)
    BY <1>2
  <2> QED BY <2>1, <2>2
<1>5. S \ {f} \in (SUBSET Checked) \ {{}} /\ S \ {f} \subseteq Live
  BY <1>1, <1>4 DEF Checked
<1>6. \A x \in S \ {f} : parent[x] \in S \ {f}
  BY <1>3, <1>5
<1> QED BY <1>5, <1>6 DEF NoCycle, NoCycleIn

\* A commit that was not overtaken closes no cycle of checked folders: a set
\* of them that holds its parents afterwards would, within what the walk has
\* passed, have held them before.
LEMMA CommitClosesNone ==
  ASSUME TypeOK, NoCycle, WalkInv, NEW h \in Movers, pc[h] = "moving",
         NEW f \in Live, NEW t \in Live, f = loc[h].folder, t = loc[h].target,
         parent' = [parent EXCEPT ![f] = t], Moved(h, f)
  PROVE  NoCycle'
<1>1. Live' = Live
  BY LiveFolders DEF Live, TypeOK
<1>2. Checked' \subseteq Checked
  BY <1>1 DEF Checked, Moved
<1> SUFFICES ASSUME NEW S \in (SUBSET Checked') \ {{}}, \A x \in S : parent'[x] \in S
             PROVE  FALSE
  BY DEF NoCycle, NoCycleIn
<1>3. \A x \in FolderIds : parent'[x] = IF x = f THEN t ELSE parent[x]
  BY DEF TypeOK
<1>4. S \subseteq FolderIds
  BY <1>1, LiveFolders DEF Checked
<1>5. CASE f \notin S
  <2>1. \A x \in S : parent[x] \in S
    BY <1>3, <1>4, <1>5
  <2> QED BY <1>2, <2>1 DEF NoCycle, NoCycleIn
<1>6. CASE f \in S
  <2>0. h \notin overtaken
    BY <1>6 DEF Moved, Checked
  <2>1. PICK P \in SUBSET FolderIds : Passed(h, P)
    BY <2>0 DEF WalkInv
  <2>2. t \in S \cap P
    BY <2>1, <1>3, <1>6, LiveFolders DEF Passed
  <2>3. S \cap P \in (SUBSET Checked) \ {{}}
    BY <1>2, <2>2
  <2>4. ASSUME NEW x \in S \cap P PROVE parent[x] \in S \cap P
    <3>1. x # f /\ x \in FolderIds
      BY <2>1 DEF Passed
    <3>2. parent[x] \in S
      BY <1>3, <3>1
    <3>3. parent[x] \in FolderIds
      BY <1>4, <3>2
    <3> QED BY <2>1, <3>2, <3>3 DEF Passed
  <2> QED BY <2>3, <2>4 DEF NoCycle, NoCycleIn
<1> QED BY <1>5, <1>6

\* A walk begins at what its request finds.
LEMMA BeginFinds ==
  ASSUME TypeOK, Parents, NoCycle, unchecked = {}, NEW h \in Movers,
         NEW place \in Live, parent' = parent,
         loc'[h].at = place, loc'[h].passed = {place}
  PROVE  parent \in [FolderIds -> Values] /\ FoundTree(h, parent)'
<1>1. parent \in [FolderIds -> Values]
  BY DEF TypeOK, Values
<1>2. PICK old \in [FolderIds -> Values] : old = parent
  BY <1>1
<1>3. NoLoop(old)
  <2> SUFFICES ASSUME NEW S \in (SUBSET FolderIds) \ {{}},
                      \A x \in S : old[x] \in S
               PROVE  FALSE
    BY DEF NoLoop
  <2>1. S \in (SUBSET Checked) \ {{}}
    BY <1>2 DEF Checked, Live
  <2> QED BY <1>2, <2>1 DEF NoCycle, NoCycleIn
<1>4. ASSUME NEW x \in FolderIds, old[x] \in FolderIds PROVE old[old[x]] # Unused
  <2>1. x \in Live
    BY <1>2, <1>4 DEF Live
  <2>2. old[x] \in Live
    BY <1>2, <1>4, <2>1 DEF Parents, Places
  <2> QED BY <1>2, <2>2, LiveFolders
<1>5. old[place] # Unused
  BY <1>2, LiveFolders
<1> QED BY <1>1, <1>2, <1>3, <1>4, <1>5 DEF FoundTree

\* A walk goes on within what its request found, and up.
LEMMA GoesUp ==
  ASSUME TypeOK, NEW h \in Movers, NEW old \in [FolderIds -> Values],
         FoundTree(h, old), pc[h] = "walking"
  PROVE  /\ ParentAt(h) \notin loc[h].passed
         /\ WalkGoesOn(h) => FoundTree(h, old)'
<1>0. h \in Handlers
  BY DEF Handlers
<1>1. loc[h].passed \subseteq FolderIds
  BY <1>0 DEF TypeOK
<1>2. PICK q : q = ParentAt(h)
  OBVIOUS
<1>3. ASSUME q \in FolderIds
      PROVE  loc[h].at \in FolderIds /\ q = old[loc[h].at] /\ old[q] # Unused
  <2>1. loc[h].at \in Live /\ q = parent[loc[h].at]
    BY <1>2, <1>3 DEF ParentAt
  <2> QED BY <1>3, <2>1, LiveFolders DEF FoundTree
<1>4. q \notin loc[h].passed
  <2> SUFFICES ASSUME q \in loc[h].passed PROVE FALSE
    OBVIOUS
  <2>1. \A x \in loc[h].passed : old[x] \in loc[h].passed
    BY <1>1, <1>3 DEF FoundTree
  <2>2. loc[h].passed \in (SUBSET FolderIds) \ {{}}
    BY <1>1
  <2> QED BY <2>1, <2>2 DEF FoundTree, NoLoop
<1>5. ASSUME WalkGoesOn(h) PROVE FoundTree(h, old)'
  <2>1. /\ loc' = [loc EXCEPT ![h] = [loc[h] EXCEPT
                     !.at = q, !.passed = loc[h].passed \cup {q}]]
        /\ parent' = parent /\ q # Root
    BY <1>2, <1>5 DEF WalkGoesOn
  <2>2. loc'[h].at = q /\ loc'[h].passed = loc[h].passed \cup {q}
    BY <1>0, <2>1 DEF TypeOK
  <2>3. q \in FolderIds
    BY <1>2, <2>1 DEF ParentAt, Live, TypeOK
  <2> QED BY <1>3, <2>1, <2>2, <2>3 DEF FoundTree
<1> QED BY <1>2, <1>4, <1>5

\* A step of a request that moves a folder.
LEMMA MoverStep ==
  ASSUME TreeInv, TypeOK', NEW h \in Movers, Move(h)
  PROVE  NoCycle' /\ WalkInv' /\ ClimbInv'
<1> USE DEF TreeInv
<1>0. h \in Handlers
  BY DEF Handlers
<1> DEFINE Hs == Movers \ {h}
<1>a. ASSUME parent' = parent, unchecked' = unchecked PROVE NoCycle' /\ Falls
  BY <1>a DEF NoCycle, NoCycleIn, Checked, Live, Falls
<1>b. /\ \A g \in Hs : pc'[g] = pc[g] /\ loc'[g] = loc[g]
      /\ \A g \in Hs \ overtaken' : pc[g] # "idle" => g \notin overtaken
      /\ unchecked \subseteq unchecked'
  <2>1. \A g \in Hs : g \in Handlers
    BY DEF Handlers
  <2> QED
    BY <1>0, <2>1 DEF Move, MoveRead, Walk, WalkRefuses, WalkGoesOn, WalkEnds,
       MoveCommit, Moved, Finish, moves, TypeOK
<1>c. ASSUME Falls \/ \A g \in Hs : g \in overtaken' \/ pc'[g] = "idle",
             ~(h \in overtaken') /\ pc'[h] \in {"walking", "moving"} =>
               \E P \in SUBSET FolderIds : Passed(h, P)',
             ~(h \in overtaken') /\ pc'[h] = "walking" /\ unchecked' = {} =>
               \E old \in [FolderIds -> Values] : FoundTree(h, old)'
      PROVE  WalkInv' /\ ClimbInv'
  <2>1. CASE Falls
    <3>1. Hs \in SUBSET Movers
      OBVIOUS
    <3> HIDE DEF Hs
    <3>2. /\ \A g \in Hs \ overtaken' : pc'[g] \in {"walking", "moving"} =>
                \E P \in SUBSET FolderIds : Passed(g, P)'
          /\ \A g \in Hs \ overtaken' : pc'[g] = "walking" /\ unchecked' = {} =>
                \E old \in [FolderIds -> Values] : FoundTree(g, old)'
      BY <1>b, <2>1, <3>1, WalksStay
    <3> USE DEF Hs
    <3>3. WalkInv'
      BY <1>c, <3>2 DEF WalkInv
    <3>4. ClimbInv'
      BY <1>c, <3>2 DEF ClimbInv
    <3> QED BY <3>3, <3>4
  <2>2. CASE \A g \in Hs : g \in overtaken' \/ pc'[g] = "idle"
    BY <1>c, <2>2 DEF WalkInv, ClimbInv
  <2> QED BY <1>c, <2>1, <2>2
<1> HIDE DEF Hs
<1>1. ASSUME NEW f \in Live, NEW place \in Live, MoveRead(h, f, place)
      PROVE  NoCycle' /\ WalkInv' /\ ClimbInv'
  <2> DEFINE l == [NoLocal EXCEPT !.folder = f, !.target = place, !.at = place,
                                  !.passed = {place}, !.seen = parent[f]]
  <2>1. l.folder = f /\ l.target = place /\ l.at = place /\ l.passed = {place}
    BY DEF NoLocal
  <2>2. /\ pc'[h] = "walking" /\ loc'[h] = l /\ parent' = parent /\ f # place
        /\ unchecked' = unchecked
    BY <1>0, <1>1 DEF MoveRead, TypeOK, moves
  <2> HIDE DEF l
  <2>3. {place} \in SUBSET FolderIds /\ parent[place] # Unused
    BY LiveFolders
  <2>4. Passed(h, {place})'
    BY <2>1, <2>2, <2>3 DEF Passed
  <2>5. unchecked' = {} => \E old \in [FolderIds -> Values] : FoundTree(h, old)'
    <3>1. PICK old : old = parent
      OBVIOUS
    <3>2. unchecked = {} => old \in [FolderIds -> Values] /\ FoundTree(h, parent)'
      BY <2>1, <2>2, <3>1, BeginFinds
    <3>3. parent' = old
      BY <2>2, <3>1
    <3> QED BY <2>2, <3>1, <3>2, <3>3 DEF FoundTree
  <2> QED BY <1>a, <1>c, <2>2, <2>3, <2>4, <2>5
<1>2. CASE WalkRefuses(h)
  <2>1. pc'[h] = "idle" /\ parent' = parent /\ unchecked' = unchecked
    BY <1>0, <1>2 DEF WalkRefuses, Finish, TypeOK
  <2> QED BY <1>a, <1>c, <2>1
<1>3. CASE WalkGoesOn(h)
  <2>0. PICK q : q = ParentAt(h)
    OBVIOUS
  <2>2. /\ pc[h] = "walking" /\ pc'[h] = "walking" /\ parent' = parent
        /\ q # loc[h].folder /\ q # Root
        /\ unchecked' = unchecked /\ overtaken' = overtaken
    BY <1>3, <2>0 DEF WalkGoesOn, moves
  <2>3. loc' = [loc EXCEPT ![h] = [loc[h] EXCEPT
                  !.at = q, !.passed = loc[h].passed \cup {q}]]
    BY <1>3, <2>0 DEF WalkGoesOn
  <2>4. /\ loc'[h].at = q /\ loc'[h].folder = loc[h].folder
        /\ loc'[h].target = loc[h].target
    BY <1>0, <2>3 DEF TypeOK
  <2>5. q = parent[loc[h].at] /\ q \in FolderIds /\ parent[q] # Unused
    <3>1. loc[h].at \in Live /\ q = parent[loc[h].at]
      BY <2>0, <2>2 DEF ParentAt
    <3>2. q \in Live
      BY <2>2, <3>1 DEF Parents, Places
    <3> QED BY <3>1, <3>2, LiveFolders
  <2>6. ASSUME h \notin overtaken PROVE \E P \in SUBSET FolderIds : Passed(h, P)'
    <3>1. PICK P \in SUBSET FolderIds : Passed(h, P)
      BY <2>2, <2>6 DEF WalkInv
    <3>2. P \cup {q} \in SUBSET FolderIds
      BY <2>5
    <3>3. Passed(h, P \cup {q})'
      BY <3>1, <2>2, <2>4, <2>5 DEF Passed
    <3> QED BY <3>2, <3>3
  <2>7. ASSUME h \notin overtaken, unchecked = {}
        PROVE  \E old \in [FolderIds -> Values] : FoundTree(h, old)'
    <3>1. PICK old \in [FolderIds -> Values] : FoundTree(h, old)
      BY <2>2, <2>7 DEF ClimbInv
    <3>2. FoundTree(h, old)'
      BY <1>3, <2>2, <3>1, GoesUp
    <3> QED BY <3>2
  <2> QED BY <1>a, <1>c, <2>2, <2>6, <2>7
<1>4. CASE WalkEnds(h)
  <2>2. /\ pc[h] = "walking" /\ pc'[h] = "moving" /\ parent' = parent
        /\ loc' = [loc EXCEPT ![h] = [loc[h] EXCEPT !.at = Root, !.passed = {}]]
        /\ ParentAt(h) = Root
        /\ unchecked' = unchecked /\ overtaken' = overtaken
    BY <1>0, <1>4 DEF WalkEnds, TypeOK, moves
  <2>3. loc'[h].folder = loc[h].folder /\ loc'[h].target = loc[h].target
    BY <1>0, <2>2 DEF TypeOK
  <2>4. loc[h].at \in FolderIds => parent[loc[h].at] \notin FolderIds
    BY <2>2 DEF ParentAt, Live, TypeOK
  <2>5. ASSUME h \notin overtaken PROVE \E P \in SUBSET FolderIds : Passed(h, P)'
    <3>1. PICK P \in SUBSET FolderIds : Passed(h, P)
      BY <2>2, <2>5 DEF WalkInv
    <3>2. Passed(h, P)'
      BY <2>2, <2>3, <2>4, <3>1 DEF Passed
    <3> QED BY <3>2
  <2> QED BY <1>a, <1>c, <2>2, <2>5
<1>5. CASE MoveCommit(h)
  <2> DEFINE f == loc[h].folder
             t == loc[h].target
  <2>1. pc[h] = "moving" /\ pc'[h] = "idle"
    BY <1>0, <1>5 DEF MoveCommit, Finish, TypeOK
  <2>2. CASE Written(loc[h])
    <3>1. /\ parent' = [parent EXCEPT ![f] = t] /\ Moved(h, f)
          /\ f \in Live /\ t \in Live
      BY <1>5, <2>2 DEF MoveCommit, Written
    <3>2. NoCycle'
      BY <2>1, <3>1, CommitClosesNone
    <3>3. \A g \in Hs : g \in overtaken' \/ pc'[g] = "idle"
      BY <1>b, <3>1 DEF Moved, Hs
    <3> QED BY <1>c, <2>1, <3>2, <3>3
  <2>3. CASE ~Written(loc[h])
    <3>1. parent' = parent /\ unchecked' = unchecked
      BY <1>5, <2>3 DEF MoveCommit
    <3> QED BY <1>a, <1>c, <2>1, <3>1
  <2> QED BY <2>2, <2>3
<1> QED
  BY <1>1, <1>2, <1>3, <1>4, <1>5 DEF Move, Walk

\* A step of anybody else.
LEMMA OtherStep ==
  ASSUME TreeInv, TypeOK', [Next]_vars, \A h \in Movers : ~Move(h)
  PROVE  NoCycle' /\ WalkInv' /\ ClimbInv'
<1> USE DEF TreeInv
<1>b. ASSUME Falls, unchecked' = unchecked, overtaken' = overtaken,
             \A h \in Movers : pc'[h] = pc[h] /\ loc'[h] = loc[h]
      PROVE  WalkInv' /\ ClimbInv'
  <2>1. /\ \A h \in Movers \ overtaken' : pc'[h] \in {"walking", "moving"} =>
              \E P \in SUBSET FolderIds : Passed(h, P)'
        /\ \A h \in Movers \ overtaken' : pc'[h] = "walking" /\ unchecked' = {} =>
              \E old \in [FolderIds -> Values] : FoundTree(h, old)'
    BY <1>b, WalksStay
  <2> QED BY <2>1 DEF WalkInv, ClimbInv
<1>a. ASSUME parent' = parent, unchecked' = unchecked, overtaken' = overtaken,
             \A h \in Movers : pc'[h] = pc[h] /\ loc'[h] = loc[h]
      PROVE  NoCycle' /\ WalkInv' /\ ClimbInv'
  <2>1. Falls
    BY <1>a DEF Falls
  <2> QED BY <1>a, <1>b, <2>1 DEF NoCycle, NoCycleIn, Checked, Live
<1>1. ASSUME NEW h \in Creators, Create(h) PROVE NoCycle' /\ WalkInv' /\ ClimbInv'
  <2>0. h \notin Movers /\ h \in Handlers
    BY DEF Handlers
  <2>1. /\ \A g \in Movers : pc'[g] = pc[g] /\ loc'[g] = loc[g]
        /\ unchecked' = unchecked /\ overtaken' = overtaken
    BY <1>1, <2>0
    DEF Create, CreateCheck, CreateCommit, Finish, Handlers, TypeOK, moves
  <2>2. CASE parent' = parent
    BY <1>a, <2>1, <2>2
  <2>3. CASE parent' # parent
    <3>1. PICK f \in FolderIds :
            /\ parent[f] = Unused /\ loc[h].target \in Places
            /\ parent' = [parent EXCEPT ![f] = loc[h].target]
      BY <1>1, <2>3 DEF Create, CreateCheck, CreateCommit
    <3>2. Falls
      BY <3>1, LiveFolders DEF Falls, TypeOK, Places
    <3> QED BY <1>b, <2>1, <3>1, <3>2, NewFolder
  <2> QED BY <2>2, <2>3
<1>2. ASSUME NEW f \in FolderIds, DeleteFolder(f) \/ MoveToRoot(f)
      PROVE  NoCycle' /\ WalkInv' /\ ClimbInv'
  <2>1. /\ pc' = pc /\ loc' = loc /\ unchecked' = unchecked /\ overtaken' = overtaken
        /\ \A x \in FolderIds :
             parent'[x] \in {parent[x], Deleted} \/ (x \in Live /\ parent'[x] = Root)
    BY <1>2 DEF DeleteFolder, MoveToRoot, TypeOK, moves
  <2>2. Falls /\ Live' \subseteq Live
    BY <2>1, LiveFolders DEF Falls, Live
  <2>3. Checked' \subseteq Checked
    BY <2>1, <2>2 DEF Checked
  <2>4. \A x \in Checked' : parent'[x] \in FolderIds => parent'[x] = parent[x]
    BY <2>1 DEF Live, Checked
  <2> QED BY <1>b, <2>1, <2>2, <2>3, <2>4, FewerFolders
<1>3. ASSUME NEW f \in FolderIds, NEW n \in Names, Rename(f, n)
      PROVE  NoCycle' /\ WalkInv' /\ ClimbInv'
  BY <1>3, <1>a DEF Rename, moves
<1>4. ASSUME NEW d \in DocIds,
             \/ Cite(d) \/ Uncite(d)
             \/ \E place \in Places : Upload(d, place) \/ File(d, place)
      PROVE  NoCycle' /\ WalkInv' /\ ClimbInv'
  BY <1>4, <1>a DEF Cite, Uncite, Upload, File, moves
<1>5. CASE UNCHANGED vars
  BY <1>5, <1>a DEF vars
<1> QED
  BY <1>1, <1>2, <1>3, <1>4, <1>5 DEF Next

LEMMA TreeInit == Init => TreeInv
<1> SUFFICES ASSUME Init PROVE TreeInv
  OBVIOUS
<1>1. Live = {}
  BY DEF Init, Live
<1>2. Parents /\ NoCycle
  BY <1>1 DEF Parents, NoCycle, NoCycleIn, Checked
<1>3. WalkInv /\ ClimbInv
  BY DEF Init, WalkInv, ClimbInv, Handlers
<1> QED BY <1>2, <1>3, TypeInit DEF TreeInv

LEMMA TreeStep ==
  ASSUME FiledInv, FiledInv', TreeInv, [Next]_vars
  PROVE  TreeInv'
<1>1. TypeOK' /\ Parents'
  BY DEF FiledInv
<1>2. NoCycle' /\ WalkInv' /\ ClimbInv'
  BY <1>1, MoverStep, OtherStep
<1> QED BY <1>1, <1>2 DEF TreeInv

LEMMA TreeAlways == Spec => []TreeInv
<1>1. FiledInv /\ FiledInv' /\ TreeInv /\ [Next]_vars => TreeInv'
  BY TreeStep
<1> QED BY TreeInit, FiledAlways, <1>1, PTL DEF Spec

\* Every cycle of folders passes through one that an overtaken request moved,
\* for any number of requests that create, move and delete at the same time.
THEOREM TreeCorrect == Spec => []CyclesAreUnchecked
<1>1. TreeInv => CyclesAreUnchecked
  BY DEF TreeInv, CyclesAreUnchecked, NoCycle, Checked
<1> QED BY TreeAlways, <1>1, PTL

\* A walk meets no folder twice unless moves overtook each other: it takes as
\* many steps as there are folders at most, for any number of requests.
THEOREM WalksCorrect == Spec => []WalksClimb
<1>1. TreeInv => WalksClimb
  BY GoesUp DEF TreeInv, ClimbInv, WalksClimb
<1> QED BY TreeAlways, <1>1, PTL
===========================================================================
