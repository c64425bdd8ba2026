------------------------------ MODULE Dossiers ------------------------------
(***************************************************************************)
(* Correlations between documents and the dossiers that group them:        *)
(* CrossDocumentService and DossierService.                                *)
(*                                                                         *)
(* A request selects rows, computes, and commits what follows from the     *)
(* rows it read; other requests run in between.  A commit writes only the  *)
(* columns whose value differs from the one read, and one the database     *)
(* refuses (a row that is gone, a document twice in a dossier) changes     *)
(* nothing.  Titles, roles and confidences are left out.                   *)
(***************************************************************************)
EXTENDS Naturals, FiniteSets

CONSTANTS
  Docs,         \* documents of one user
  Correlations, \* identities of correlations, each stored once (a bound)
  Ids,          \* identities of dossiers, each created once (a bound)
  Items,        \* descriptions of missing items
  Handlers,     \* concurrent requests (a bound)
  MaxBatch,     \* correlations stored by one request (a bound)
  MaxActs,      \* requests of the user on documents (a bound)
  None          \* no value

ASSUME DossiersAssumption ==
  /\ MaxBatch \in Nat /\ MaxActs \in Nat
  /\ None \notin Ids

VARIABLES
  corr,      \* document_correlations, with the inbox item of a conflict
  dossier,   \* dossiers and dossier_documents
  req,       \* each request's operation and what it has read
  acts,      \* requests so far that MaxActs bounds
  about,     \* what the requests are about (a bound: see Next)
  unsure,    \* history: dossiers whose status was set by a caller, or over
             \* a change the request had not read
  touched,   \* history: dossiers the user created or added documents to
  grouped,   \* history: documents a grouping was committed for
  takenOut,  \* history: documents taken out of a dossier
  untold     \* history: conflicts whose inbox item failed

history == <<unsure, touched, grouped, takenOut, untold>>
vars    == <<corr, dossier, req, acts, about, history>>

Pairs   == {p \in SUBSET Docs : Cardinality(p) = 2}
NoCorr  == [state |-> "unused", ends |-> {}, conflict |-> FALSE, item |-> FALSE]
NoFile  == [status |-> "none", docs |-> {}, missing |-> {}]
NoReq   == [op |-> "none"]
Stored  == {c \in Correlations : corr[c].state = "stored"}
Exists(x)   == dossier[x].status \in {"complete", "incomplete"}
FiledIn(d)  == {x \in Ids : d \in dossier[x].docs}

Init ==
  /\ corr = [c \in Correlations |-> NoCorr]
  /\ dossier = [x \in Ids |-> NoFile]
  /\ req = [h \in Handlers |-> NoReq] /\ acts = 0
  /\ about \in {"conflicts", "documents", "items"}
  /\ unsure = {} /\ touched = {} /\ grouped = {} /\ takenOut = {}
  /\ untold = {}

Begin(h, r) == req[h] = NoReq /\ req' = [req EXCEPT ![h] = r]
End(h)      == req' = [req EXCEPT ![h] = NoReq]

---------------------------------------------------------------------------
(* Correlations *)

\* Mutant of Conflicts: the batch keeps track of one conflict only.
ConflictsOne(batch) ==
  LET all == {c \in DOMAIN batch : batch[c].conflict}
  IN  IF all = {} THEN {} ELSE {CHOOSE c \in all : TRUE}

Conflicts(batch) == {c \in DOMAIN batch : batch[c].conflict}

\* One transaction for the batch; the items of its conflicts follow, each in
\* its own.
Store(h, batch) ==
  /\ \A c \in DOMAIN batch : corr[c] = NoCorr
  /\ corr' = [c \in Correlations |->
       IF c \in DOMAIN batch
       THEN [state |-> "stored", ends |-> batch[c].ends,
             conflict |-> batch[c].conflict, item |-> FALSE]
       ELSE corr[c]]
  /\ IF Conflicts(batch) = {}
     THEN req[h] = NoReq /\ UNCHANGED req
     ELSE Begin(h, [op |-> "tell", conflicts |-> Conflicts(batch)])
  /\ UNCHANGED <<dossier, history>>

Batches ==
  UNION {[cs -> [ends : Pairs, conflict : BOOLEAN]] :
           cs \in {s \in SUBSET Correlations \ {{}} : Cardinality(s) <= MaxBatch}}

Tell(h) ==
  /\ req[h].op = "tell"
  /\ \E c \in req[h].conflicts :
       /\ corr' = [corr EXCEPT ![c].item = TRUE]
       /\ req' = [req EXCEPT ![h] =
            IF @.conflicts = {c} THEN NoReq
            ELSE [op |-> "tell", conflicts |-> req[h].conflicts \ {c}]]
  /\ UNCHANGED <<dossier, history>>

\* The commit of an item fails: the exception ends the request.
TellFails(h) ==
  /\ req[h].op = "tell"
  /\ untold' = untold \cup req[h].conflicts
  /\ End(h)
  /\ UNCHANGED <<corr, dossier, unsure, touched, grouped, takenOut>>

ForgetRead(h, d) ==
  /\ Begin(h, [op |-> "forget", found |-> {c \in Stored : d \in corr[c].ends}])
  /\ UNCHANGED <<corr, dossier, history>>

ForgetCommit(h) ==
  /\ req[h].op = "forget"
  /\ corr' = [c \in Correlations |->
       IF c \in req[h].found THEN [corr[c] EXCEPT !.state = "deleted"]
       ELSE corr[c]]
  /\ End(h)
  /\ UNCHANGED <<dossier, history>>

---------------------------------------------------------------------------
(* Grouping *)

\* Mutant of GroupCorrelations: the correlations of all documents are read.
GroupCorrelationsAll(h, d) ==
  LET related == UNION {corr[c].ends : c \in Stored}
  IN  /\ related # {}
      /\ Begin(h, [op |-> "look", related |-> related])
      /\ UNCHANGED <<corr, dossier, history>>

\* The document and its neighbours; there must be one.
GroupCorrelations(h, d) ==
  LET related == UNION {corr[c].ends : c \in {k \in Stored : d \in corr[k].ends}}
  IN  /\ related # {}
      /\ Begin(h, [op |-> "look", related |-> related])
      /\ UNCHANGED <<corr, dossier, history>>

\* The dossier of the first row found, in whatever order rows come.
Chosen(related) == UNION {FiledIn(d) : d \in related}

GroupLook(h) ==
  LET r == req[h] IN
  /\ r.op = "look"
  /\ IF Chosen(r.related) = {}
     THEN req' = [req EXCEPT ![h] = [op |-> "group", x |-> None,
                                     related |-> r.related, docs |-> r.related]]
     ELSE \E x \in Chosen(r.related) :
            req' = [req EXCEPT ![h] =
              [op |-> "group", x |-> x, related |-> r.related,
               docs |-> {d \in r.related : FiledIn(d) = {}}]]
  /\ UNCHANGED <<corr, dossier, history>>

Put(x, docs) == dossier' = [dossier EXCEPT ![x].docs = @ \cup docs]
New(x, docs) ==
  /\ dossier[x] = NoFile
  /\ dossier' = [dossier EXCEPT
       ![x] = [status |-> "incomplete", docs |-> docs, missing |-> {}]]

\* Mutant of GroupCommit: a dossier that is found is not extended.
GroupCommitFound(h) ==
  LET r == req[h] IN
  /\ r.op = "group"
  /\ IF r.x = None THEN \E x \in Ids : New(x, r.docs) ELSE UNCHANGED dossier
  /\ grouped' = grouped \cup r.related
  /\ End(h)
  /\ UNCHANGED <<corr, unsure, touched, takenOut, untold>>

GroupCommit(h) ==
  LET r == req[h] IN
  /\ r.op = "group"
  /\ IF r.x = None
     THEN \E x \in Ids : New(x, r.docs)
     ELSE /\ Exists(r.x) /\ r.docs \cap dossier[r.x].docs = {}
          /\ Put(r.x, r.docs)
  /\ grouped' = grouped \cup r.related
  /\ End(h)
  /\ UNCHANGED <<corr, unsure, touched, takenOut, untold>>

---------------------------------------------------------------------------
(* Documents of a dossier *)

CreateDossier(x, docs) ==
  /\ New(x, docs)
  /\ touched' = touched \cup {x}
  /\ UNCHANGED <<corr, req, unsure, grouped, takenOut, untold>>

AddRead(h, x, d) ==
  /\ Exists(x) /\ d \notin dossier[x].docs
  /\ Begin(h, [op |-> "add", x |-> x, doc |-> d])
  /\ UNCHANGED <<corr, dossier, history>>

AddCommit(h) ==
  LET r == req[h] IN
  /\ r.op = "add"
  /\ Exists(r.x) /\ r.doc \notin dossier[r.x].docs
  /\ Put(r.x, {r.doc})
  /\ touched' = touched \cup {r.x}
  /\ End(h)
  /\ UNCHANGED <<corr, unsure, grouped, takenOut, untold>>

RemoveRead(h, x, d) ==
  /\ Exists(x) /\ d \in dossier[x].docs
  /\ Begin(h, [op |-> "remove", x |-> x, doc |-> d])
  /\ UNCHANGED <<corr, dossier, history>>

\* A row that is gone already is no error; a dossier that is gone is.
RemoveCommit(h) ==
  LET r == req[h] IN
  /\ r.op = "remove" /\ Exists(r.x)
  /\ dossier' = [dossier EXCEPT ![r.x].docs = @ \ {r.doc}]
  /\ takenOut' = takenOut \cup {r.doc}
  /\ End(h)
  /\ UNCHANGED <<corr, unsure, touched, grouped, untold>>

DeleteDossier(x) ==
  /\ Exists(x)
  /\ dossier' = [dossier EXCEPT ![x] = [NoFile EXCEPT !.status = "deleted"]]
  /\ takenOut' = takenOut \cup dossier[x].docs
  /\ UNCHANGED <<corr, req, unsure, touched, grouped, untold>>

---------------------------------------------------------------------------
(* What a dossier lacks *)

\* The request has read the row and holds the status and the list it will
\* set; `list` says that the list differs from the one read.
ItemsRead(h, x, status, missing, list) ==
  /\ Exists(x)
  /\ Begin(h, [op |-> "items", x |-> x, seen |-> dossier[x],
               status |-> status, missing |-> missing, list |-> list])
  /\ UNCHANGED <<corr, dossier, history>>

AddMissing(h, x, i) ==
  ItemsRead(h, x, "incomplete", dossier[x].missing \cup {i}, TRUE)

\* Mutant of RemoveMissing: the dossier is complete whatever else is missing.
RemoveMissingComplete(h, x, i) ==
  ItemsRead(h, x, "complete", dossier[x].missing \ {i},
            i \in dossier[x].missing)

RemoveMissing(h, x, i) ==
  LET left == dossier[x].missing \ {i} IN
  ItemsRead(h, x, IF left = {} THEN "complete" ELSE dossier[x].status, left,
            i \in dossier[x].missing)

\* Sets the status and, when `missing` is given, the list.
UpdateCompleteness(x, status, missing) ==
  /\ Exists(x)
  /\ dossier' = [dossier EXCEPT
       ![x] = [status |-> status, docs |-> @.docs,
               missing |-> IF missing = None THEN @.missing ELSE missing]]
  /\ unsure' = unsure \cup {x}
  /\ UNCHANGED <<corr, req, touched, grouped, takenOut, untold>>

ItemsCommit(h) ==
  LET r == req[h]
      now == dossier[r.x]
      status  == IF r.status = r.seen.status THEN now.status ELSE r.status
      missing == IF r.list THEN r.missing ELSE now.missing
      same == now.status = r.seen.status /\ now.missing = r.seen.missing
  IN
  /\ r.op = "items" /\ Exists(r.x)
  /\ dossier' = [dossier EXCEPT
       ![r.x] = [status |-> status, docs |-> now.docs, missing |-> missing]]
  /\ unsure' = IF same THEN unsure ELSE unsure \cup {r.x}
  /\ End(h)
  /\ UNCHANGED <<corr, touched, grouped, takenOut, untold>>

---------------------------------------------------------------------------
\* The database refuses the commit: the dossier is gone, or a document is in
\* it already.
Refused(h) ==
  LET r == req[h] IN
  /\ \/ r.op \in {"add", "remove", "items"} /\ ~Exists(r.x)
     \/ r.op = "add" /\ r.doc \in dossier[r.x].docs
     \/ /\ r.op = "group" /\ r.x # None
        /\ ~Exists(r.x) \/ r.docs \cap dossier[r.x].docs # {}
  /\ End(h)
  /\ UNCHANGED <<corr, dossier, history>>

OnConflicts ==
  \E h \in Handlers :
    \/ \E batch \in Batches : Store(h, batch)
    \/ \E d \in Docs : ForgetRead(h, d)

OnGroups ==
  \E h \in Handlers :
    \/ \E batch \in Batches : Conflicts(batch) = {} /\ Store(h, batch)
    \/ \E d \in Docs : GroupCorrelations(h, d)

OnDocuments ==
  \/ \E h \in Handlers, d \in Docs :
       ForgetRead(h, d) \/ \E x \in Ids : AddRead(h, x, d) \/ RemoveRead(h, x, d)
  \/ \E x \in Ids :
       DeleteDossier(x) \/ \E docs \in SUBSET Docs : CreateDossier(x, docs)

\* Dossiers share no missing items: one is enough.
OnItems ==
  \E x \in {y \in Ids : \A z \in Ids \ {y} : dossier[z] = NoFile} :
    \/ CreateDossier(x, {}) \/ DeleteDossier(x)
    \/ \E h \in Handlers, i \in Items :
         AddMissing(h, x, i) \/ RemoveMissing(h, x, i)
    \/ \E status \in {"complete", "incomplete"},
          missing \in (SUBSET Items) \cup {None} :
         UpdateCompleteness(x, status, missing)

GoesOn ==
  \E h \in Handlers :
    \/ Tell(h) \/ TellFails(h)
    \/ GroupLook(h) \/ GroupCommit(h)
    \/ ForgetCommit(h) \/ AddCommit(h) \/ RemoveCommit(h) \/ ItemsCommit(h)
    \/ Refused(h)

\* The inbox items of conflicts, the documents and the missing items of a
\* dossier are columns and tables of their own: one behaviour is about one
\* of the three.
Next ==
  \/ about = "conflicts" /\ OnConflicts /\ UNCHANGED <<acts, about>>
  \/ about = "documents" /\ OnGroups /\ UNCHANGED <<acts, about>>
  \/ /\ about = "documents" /\ acts < MaxActs
     /\ OnDocuments /\ acts' = acts + 1 /\ UNCHANGED about
  \/ about = "items" /\ OnItems /\ UNCHANGED <<acts, about>>
  \/ GoesOn /\ UNCHANGED <<acts, about>>

Spec == Init /\ [][Next]_vars

---------------------------------------------------------------------------
(* Properties *)

\* Links of documents, by the correlations that were ever stored.
Links == {corr[c].ends : c \in {k \in Correlations : corr[k].state # "unused"}}

\* No set of documents that some but not all of docs are in is closed under
\* the links.
Connected(docs) ==
  \A part \in SUBSET Docs :
    part \cap docs # {} /\ ~(docs \subseteq part) =>
      \E link \in Links : link \cap part # {} /\ ~(link \subseteq part)

\* A dossier that only groupings filled holds documents that correlations
\* connect, however groupings, removals and deletions overlapped.
GroupsAreConnected ==
  \A x \in Ids \ touched : Connected(dossier[x].docs)

\* A document that was grouped is in some dossier until it is taken out of
\* one, whatever other groupings read and created meanwhile.
GroupedAreFiled == grouped \ takenOut \subseteq UNION {dossier[x].docs : x \in Ids}

\* A dossier is called complete only while nothing is missing, unless a
\* caller set its status or two changes of its items overlapped.
CompleteLacksNothing ==
  \A x \in Ids \ unsure : dossier[x].status = "complete" => dossier[x].missing = {}

\* An inbox item tells a conflict that is or was stored; a conflict without
\* one has a request that is about to tell it, or that failed to.
ConflictsAreTold ==
  \A c \in Correlations :
    /\ corr[c].item => corr[c].conflict
    /\ corr[c].conflict /\ ~corr[c].item =>
         c \in untold \/ \E h \in Handlers :
                           req[h].op = "tell" /\ c \in req[h].conflicts

\* A grouping leaves the document and its neighbours in one dossier.
GroupingUnites ==
  [][\A h \in Handlers : GroupCommit(h) =>
       \E x \in Ids : req[h].related \subseteq dossier'[x].docs]_vars
===========================================================================
