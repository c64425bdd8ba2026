--------------------------- MODULE DossiersProofs ---------------------------
(* Theorems about correlations and dossiers, for any numbers of documents,   *)
(* correlations, dossiers, missing items and concurrent requests.            *)
EXTENDS Dossiers, TLAPS

USE DossiersAssumption

CorrRows == [state : {"unused", "stored", "deleted"}, ends : SUBSET Docs,
             conflict : BOOLEAN, item : BOOLEAN]
FileRows == [status : {"none", "incomplete", "complete", "deleted"},
             docs : SUBSET Docs, missing : SUBSET Items]

\* A request's record has the fields of its operation.
Shaped(r) ==
  /\ r.op = "tell" => r.conflicts \subseteq Correlations
  /\ r.op = "look" => r.related \subseteq Docs
  /\ r.op = "group" => /\ r.x \in Ids \cup {None}
                       /\ r.docs \subseteq r.related /\ r.related \subseteq Docs
  /\ r.op \in {"add", "remove"} => r.x \in Ids /\ r.doc \in Docs
  /\ r.op = "items" =>
       /\ r.x \in Ids /\ r.status \in {"incomplete", "complete"}
       /\ r.missing \subseteq Items /\ r.list \in BOOLEAN
       /\ r.seen \in FileRows

\* The types that the proofs rely on.
Types ==
  /\ corr \in [Correlations -> CorrRows]
  /\ dossier \in [Ids -> FileRows]
  /\ DOMAIN req = Handlers /\ req = [h \in Handlers |-> req[h]]
  /\ \A h \in Handlers : Shaped(req[h])

LEMMA NoCorrTyped == NoCorr \in CorrRows
BY DEF NoCorr, CorrRows

LEMMA NoFileTyped == NoFile \in FileRows
BY DEF NoFile, FileRows

LEMMA NoReqShaped == Shaped(NoReq)
BY DEF Shaped, NoReq

\* Row y of the dossiers after one was written, field by field.
RowIs(y, status, docs, missing) ==
  /\ dossier'[y].status = status
  /\ dossier'[y].docs = docs
  /\ dossier'[y].missing = missing

LEMMA WithDocs ==
  ASSUME NEW r \in FileRows, NEW docs \in SUBSET Docs
  PROVE  /\ [r EXCEPT !.docs = docs] \in FileRows
         /\ [r EXCEPT !.docs = docs].status = r.status
         /\ [r EXCEPT !.docs = docs].docs = docs
         /\ [r EXCEPT !.docs = docs].missing = r.missing
BY DEF FileRows

\* Every row but x stays.
Others(x) == \A y \in Ids \ {x} : dossier'[y] = dossier[y]

LEMMA FilesAfterPut ==
  ASSUME Types, NEW x \in Ids, NEW docs \in SUBSET Docs, Put(x, docs)
  PROVE  /\ dossier' \in [Ids -> FileRows] /\ Others(x)
         /\ RowIs(x, dossier[x].status, dossier[x].docs \cup docs, dossier[x].missing)
<1> DEFINE r == [dossier[x] EXCEPT !.docs = dossier[x].docs \cup docs]
<1>1. dossier[x] \in FileRows
  BY DEF Types
<1>2. dossier[x].docs \cup docs \in SUBSET Docs
  BY <1>1 DEF FileRows
<1>3. /\ r \in FileRows /\ r.status = dossier[x].status
      /\ r.docs = dossier[x].docs \cup docs /\ r.missing = dossier[x].missing
  BY <1>1, <1>2, WithDocs
<1>4. dossier' = [dossier EXCEPT ![x] = r]
  BY DEF Put, Types
<1> HIDE DEF r
<1>5. QED
  BY <1>3, <1>4 DEF Types, Others, RowIs

LEMMA FilesAfterRow ==
  ASSUME Types, NEW x \in Ids, NEW docs \in SUBSET Docs,
         NEW missing \in SUBSET Items,
         NEW status \in {"none", "incomplete", "complete", "deleted"},
         dossier' = [dossier EXCEPT
           ![x] = [status |-> status, docs |-> docs, missing |-> missing]]
  PROVE  /\ dossier' \in [Ids -> FileRows] /\ Others(x)
         /\ RowIs(x, status, docs, missing)
<1> DEFINE r == [status |-> status, docs |-> docs, missing |-> missing]
<1>1. /\ r \in FileRows /\ r.status = status
      /\ r.docs = docs /\ r.missing = missing
  BY DEF FileRows
<1>2. dossier' = [dossier EXCEPT ![x] = r]
  OBVIOUS
<1> HIDE DEF r
<1>3. QED
  BY <1>1, <1>2 DEF Types, Others, RowIs

LEMMA FilesAfterNew ==
  ASSUME Types, NEW x \in Ids, NEW docs \in SUBSET Docs, New(x, docs)
  PROVE  /\ dossier' \in [Ids -> FileRows] /\ Others(x)
         /\ dossier[x] = NoFile
         /\ RowIs(x, "incomplete", docs, {})
BY FilesAfterRow DEF New

LEMMA FilesAfterRemove ==
  ASSUME Types, NEW x \in Ids, NEW d,
         dossier' = [dossier EXCEPT ![x].docs = @ \ {d}]
  PROVE  /\ dossier' \in [Ids -> FileRows] /\ Others(x)
         /\ RowIs(x, dossier[x].status, dossier[x].docs \ {d}, dossier[x].missing)
<1> DEFINE r == [dossier[x] EXCEPT !.docs = dossier[x].docs \ {d}]
<1>1. dossier[x] \in FileRows
  BY DEF Types
<1>2. dossier[x].docs \ {d} \in SUBSET Docs
  BY <1>1 DEF FileRows
<1>3. /\ r \in FileRows /\ r.status = dossier[x].status
      /\ r.docs = dossier[x].docs \ {d} /\ r.missing = dossier[x].missing
  BY <1>1, <1>2, WithDocs
<1>4. dossier' = [dossier EXCEPT ![x] = r]
  BY DEF Types
<1> HIDE DEF r
<1>5. QED
  BY <1>3, <1>4 DEF Types, Others, RowIs

LEMMA FilesAfterDelete ==
  ASSUME Types, NEW x \in Ids, DeleteDossier(x)
  PROVE  /\ dossier' \in [Ids -> FileRows] /\ Others(x)
         /\ RowIs(x, "deleted", {}, {})
<1> DEFINE r == [status |-> "deleted", docs |-> {}, missing |-> {}]
<1>1. [NoFile EXCEPT !.status = "deleted"] = r
  BY DEF NoFile
<1>2. r \in FileRows /\ r.status = "deleted" /\ r.docs = {} /\ r.missing = {}
  BY DEF FileRows
<1>3. dossier' = [dossier EXCEPT ![x] = r]
  BY <1>1 DEF DeleteDossier
<1> HIDE DEF r
<1>4. QED
  BY <1>2, <1>3 DEF Types, Others, RowIs

LEMMA ReqAfter ==
  ASSUME Types, NEW h \in Handlers, NEW r, Shaped(r),
         req' = [req EXCEPT ![h] = r]
  PROVE  /\ DOMAIN req' = Handlers /\ req' = [g \in Handlers |-> req'[g]]
         /\ \A g \in Handlers : Shaped(req'[g])
         /\ req'[h] = r
         /\ \A g \in Handlers \ {h} : req'[g] = req[g]
BY DEF Types

---------------------------------------------------------------------------
(* The steps *)

\* A step of a request, and one of a request that is a single transaction.
HandlerStep(h) ==
  \/ \E batch \in Batches : Store(h, batch)
  \/ \E d \in Docs : ForgetRead(h, d)
  \/ \E d \in Docs : GroupCorrelations(h, d)
  \/ \E x \in Ids, d \in Docs : AddRead(h, x, d)
  \/ \E x \in Ids, d \in Docs : RemoveRead(h, x, d)
  \/ \E x \in Ids, i \in Items : AddMissing(h, x, i)
  \/ \E x \in Ids, i \in Items : RemoveMissing(h, x, i)
  \/ Tell(h) \/ TellFails(h) \/ ForgetCommit(h)
  \/ GroupLook(h) \/ GroupCommit(h)
  \/ AddCommit(h) \/ RemoveCommit(h) \/ ItemsCommit(h)
  \/ Refused(h)

DossierStep(x) ==
  \/ DeleteDossier(x)
  \/ \E docs \in SUBSET Docs : CreateDossier(x, docs)
  \/ \E status \in {"complete", "incomplete"},
        missing \in (SUBSET Items) \cup {None} :
       UpdateCompleteness(x, status, missing)

LEMMA Cases ==
  ASSUME Next
  PROVE  (\E h \in Handlers : HandlerStep(h)) \/ (\E x \in Ids : DossierStep(x))
<1>1. CASE OnConflicts
  BY <1>1 DEF OnConflicts, HandlerStep
<1>2. CASE OnGroups
  BY <1>2 DEF OnGroups, HandlerStep
<1>3. CASE OnDocuments
  BY <1>3 DEF OnDocuments, HandlerStep, DossierStep
<1>4. CASE OnItems
  <2>1. PICK x \in Ids :
          \/ CreateDossier(x, {}) \/ DeleteDossier(x)
          \/ \E h \in Handlers, i \in Items :
               AddMissing(h, x, i) \/ RemoveMissing(h, x, i)
          \/ \E status \in {"complete", "incomplete"},
                missing \in (SUBSET Items) \cup {None} :
               UpdateCompleteness(x, status, missing)
    BY <1>4 DEF OnItems
  <2>2. {} \in SUBSET Docs
    OBVIOUS
  <2>3. QED
    BY <2>1, <2>2 DEF HandlerStep, DossierStep
<1>5. CASE GoesOn
  BY <1>5 DEF GoesOn, HandlerStep
<1>6. QED
  BY <1>1, <1>2, <1>3, <1>4, <1>5 DEF Next

\* A batch holds rows of correlations.
LEMMA BatchTyped ==
  ASSUME NEW batch \in Batches, NEW c \in DOMAIN batch
  PROVE  /\ c \in Correlations
         /\ batch[c].ends \in Pairs /\ batch[c].conflict \in BOOLEAN
<1>1. PICK cs \in {s \in SUBSET Correlations \ {{}} : Cardinality(s) <= MaxBatch} :
        batch \in [cs -> [ends : Pairs, conflict : BOOLEAN]]
  BY DEF Batches
<1>2. QED
  BY <1>1

---------------------------------------------------------------------------
(* Types *)

LEMMA InitTypes == Init => Types
<1> SUFFICES ASSUME Init PROVE Types
  OBVIOUS
<1>1. corr \in [Correlations -> CorrRows]
  BY NoCorrTyped DEF Init
<1>2. dossier \in [Ids -> FileRows]
  BY NoFileTyped DEF Init
<1>3. DOMAIN req = Handlers /\ req = [h \in Handlers |-> req[h]]
  BY DEF Init
<1>4. ASSUME NEW h \in Handlers PROVE Shaped(req[h])
  <2>1. req[h] = NoReq
    BY DEF Init
  <2>2. QED
    BY <2>1, NoReqShaped
<1>5. QED
  BY <1>1, <1>2, <1>3, <1>4 DEF Types

\* What a step leaves of the requests: one of them changed, or none.
Requests(h) ==
  /\ DOMAIN req' = Handlers /\ req' = [g \in Handlers |-> req'[g]]
  /\ \A g \in Handlers : Shaped(req'[g])
  /\ \A g \in Handlers \ {h} : req'[g] = req[g]

LEMMA AfterEnd ==
  ASSUME Types, NEW h \in Handlers, End(h)
  PROVE  Requests(h) /\ req'[h] = NoReq
BY ReqAfter, NoReqShaped DEF End, Requests

LEMMA AfterBegin ==
  ASSUME Types, NEW h \in Handlers, NEW r, Shaped(r), Begin(h, r)
  PROVE  Requests(h) /\ req'[h] = r /\ req[h] = NoReq
BY ReqAfter DEF Begin, Requests

LEMMA AfterNothing ==
  ASSUME Types, NEW h \in Handlers, UNCHANGED req
  PROVE  Requests(h) /\ req'[h] = req[h]
BY DEF Types, Requests

LEMMA StoreRequests ==
  ASSUME Types, NEW h \in Handlers, NEW batch \in Batches, Store(h, batch)
  PROVE  /\ Requests(h) /\ req[h] = NoReq
         /\ req'[h] = IF Conflicts(batch) = {} THEN NoReq
                      ELSE [op |-> "tell", conflicts |-> Conflicts(batch)]
<1>1. CASE Conflicts(batch) = {}
  BY <1>1, AfterNothing DEF Store
<1>2. CASE Conflicts(batch) # {}
  <2> DEFINE r == [op |-> "tell", conflicts |-> Conflicts(batch)]
  <2>1. Conflicts(batch) \subseteq Correlations
    BY BatchTyped DEF Conflicts
  <2>2. Shaped(r)
    BY <2>1 DEF Shaped
  <2>3. Begin(h, r)
    BY <1>2 DEF Store
  <2> HIDE DEF r
  <2>4. QED
    BY <1>2, <2>2, <2>3, AfterBegin DEF r
<1>3. QED
  BY <1>1, <1>2

LEMMA TellRequests ==
  ASSUME Types, NEW h \in Handlers, NEW c \in req[h].conflicts, req[h].op = "tell",
         req' = [req EXCEPT ![h] =
            IF @.conflicts = {c} THEN NoReq
            ELSE [op |-> "tell", conflicts |-> req[h].conflicts \ {c}]]
  PROVE  /\ Requests(h) /\ c \in Correlations
         /\ req'[h] = IF req[h].conflicts = {c} THEN NoReq
                      ELSE [op |-> "tell", conflicts |-> req[h].conflicts \ {c}]
<1> DEFINE r == IF req[h].conflicts = {c} THEN NoReq
                ELSE [op |-> "tell", conflicts |-> req[h].conflicts \ {c}]
<1>1. req[h].conflicts \subseteq Correlations
  BY DEF Types, Shaped
<1>2. Shaped([op |-> "tell", conflicts |-> req[h].conflicts \ {c}])
  BY <1>1 DEF Shaped
<1>3. Shaped(r)
  BY <1>2, NoReqShaped
<1>4. req' = [req EXCEPT ![h] = r]
  OBVIOUS
<1> HIDE DEF r
<1>5. QED
  BY <1>1, <1>3, <1>4, ReqAfter DEF Requests, r

LEMMA ForgetRequests ==
  ASSUME Types, NEW h \in Handlers, NEW d \in Docs, ForgetRead(h, d)
  PROVE  /\ Requests(h) /\ req[h] = NoReq
         /\ req'[h].op = "forget"
<1> DEFINE r == [op |-> "forget", found |-> {c \in Stored : d \in corr[c].ends}]
<1>1. Shaped(r) /\ r.op = "forget"
  BY DEF Shaped
<1>2. Begin(h, r)
  BY DEF ForgetRead
<1> HIDE DEF r
<1>3. QED
  BY <1>1, <1>2, AfterBegin

\* The documents that correlations of d relate.
Related(d) == UNION {corr[c].ends : c \in {k \in Stored : d \in corr[k].ends}}

LEMMA LookRequests ==
  ASSUME Types, NEW h \in Handlers, NEW d \in Docs, GroupCorrelations(h, d)
  PROVE  /\ Requests(h) /\ req[h] = NoReq
         /\ req'[h].op = "look" /\ req'[h].related = Related(d)
<1> DEFINE r == [op |-> "look", related |-> Related(d)]
<1>1. Related(d) \subseteq Docs
  BY DEF Related, Types, CorrRows, Stored
<1>2. Shaped(r) /\ r.op = "look" /\ r.related = Related(d)
  BY <1>1 DEF Shaped
<1>3. Begin(h, r)
  BY DEF GroupCorrelations, Related
<1> HIDE DEF r
<1>4. QED
  BY <1>2, <1>3, AfterBegin

LEMMA GroupRequests ==
  ASSUME Types, NEW h \in Handlers, GroupLook(h)
  PROVE  /\ Requests(h) /\ req[h].op = "look"
         /\ req'[h].op = "group" /\ req'[h].related = req[h].related
         /\ \/ /\ req'[h].x = None /\ req'[h].docs = req[h].related
            \/ /\ req'[h].x \in Chosen(req[h].related)
               /\ req'[h].docs = {d \in req[h].related : FiledIn(d) = {}}
<1>1. req[h].op = "look" /\ req[h].related \subseteq Docs
  BY DEF Types, Shaped, GroupLook
<1>2. CASE Chosen(req[h].related) = {}
  <2> DEFINE r == [op |-> "group", x |-> None, related |-> req[h].related,
                   docs |-> req[h].related]
  <2>1. Shaped(r)
    BY <1>1 DEF Shaped
  <2>2. /\ r.op = "group" /\ r.related = req[h].related
        /\ r.x = None /\ r.docs = req[h].related
    OBVIOUS
  <2>3. req' = [req EXCEPT ![h] = r]
    BY <1>2 DEF GroupLook
  <2> HIDE DEF r
  <2>4. QED
    BY <1>1, <2>1, <2>2, <2>3, ReqAfter DEF Requests
<1>3. CASE Chosen(req[h].related) # {}
  <2>1. PICK x \in Chosen(req[h].related) :
          req' = [req EXCEPT ![h] =
            [op |-> "group", x |-> x, related |-> req[h].related,
             docs |-> {d \in req[h].related : FiledIn(d) = {}}]]
    BY <1>3 DEF GroupLook
  <2> DEFINE r == [op |-> "group", x |-> x, related |-> req[h].related,
                   docs |-> {d \in req[h].related : FiledIn(d) = {}}]
  <2>2. x \in Ids
    BY DEF Chosen, FiledIn
  <2>3. Shaped(r)
    BY <1>1, <2>2 DEF Shaped
  <2>4. /\ r.op = "group" /\ r.related = req[h].related
        /\ r.x = x /\ r.docs = {d \in req[h].related : FiledIn(d) = {}}
    OBVIOUS
  <2>5. req' = [req EXCEPT ![h] = r]
    BY <2>1
  <2> HIDE DEF r
  <2>6. QED
    BY <1>1, <2>1, <2>3, <2>4, <2>5, ReqAfter DEF Requests
<1>4. QED
  BY <1>2, <1>3

LEMMA DocRequests ==
  ASSUME Types, NEW h \in Handlers, NEW x \in Ids, NEW d \in Docs,
         AddRead(h, x, d) \/ RemoveRead(h, x, d)
  PROVE  Requests(h) /\ req[h] = NoReq /\ req'[h].op \in {"add", "remove"}
<1>1. PICK op \in {"add", "remove"} : Begin(h, [op |-> op, x |-> x, doc |-> d])
  BY DEF AddRead, RemoveRead
<1> DEFINE r == [op |-> op, x |-> x, doc |-> d]
<1>2. Shaped(r) /\ r.op = op
  BY DEF Shaped
<1>3. Begin(h, r)
  BY <1>1
<1> HIDE DEF r
<1>4. QED
  BY <1>2, <1>3, AfterBegin

LEMMA ItemsRequests ==
  ASSUME Types, NEW h \in Handlers, NEW x \in Ids, NEW i \in Items,
         AddMissing(h, x, i) \/ RemoveMissing(h, x, i)
  PROVE  /\ Requests(h) /\ req[h] = NoReq
         /\ req'[h].op = "items" /\ req'[h].x = x /\ req'[h].seen = dossier[x]
         /\ req'[h].status = "complete" =>
              req'[h].missing = {} \/ dossier[x].status = "complete"
         /\ req'[h].status = "complete" => req'[h].missing \subseteq dossier[x].missing
         /\ ~req'[h].list => req'[h].missing = dossier[x].missing
<1>1. dossier[x] \in FileRows /\ dossier[x].missing \subseteq Items
  BY DEF Types, FileRows
<1>2. PICK status \in {"complete", "incomplete"}, missing \in SUBSET Items,
           list \in BOOLEAN :
        /\ ItemsRead(h, x, status, missing, list)
        /\ status = "complete" => missing = {} \/ dossier[x].status = "complete"
        /\ status = "complete" => missing \subseteq dossier[x].missing
        /\ ~list => missing = dossier[x].missing
  <2>1. CASE AddMissing(h, x, i)
    <3>1. dossier[x].missing \cup {i} \in SUBSET Items
      BY <1>1
    <3>2. TRUE \in BOOLEAN /\ "incomplete" \in {"complete", "incomplete"}
      OBVIOUS
    <3>3. ItemsRead(h, x, "incomplete", dossier[x].missing \cup {i}, TRUE)
      BY <2>1 DEF AddMissing
    <3>4. QED
      BY <3>1, <3>2, <3>3, Zenon
  <2>2. CASE RemoveMissing(h, x, i)
    <3> DEFINE left == dossier[x].missing \ {i}
               st == IF left = {} THEN "complete" ELSE dossier[x].status
    <3>1. left \in SUBSET Items /\ left \subseteq dossier[x].missing
      BY <1>1
    <3>2. (i \in dossier[x].missing) \in BOOLEAN
      OBVIOUS
    <3>3. ItemsRead(h, x, st, left, i \in dossier[x].missing)
      BY <2>2 DEF RemoveMissing
    <3>4. Exists(x)
      BY <3>3 DEF ItemsRead
    <3>5. st \in {"complete", "incomplete"}
      BY <3>4 DEF Exists
    <3>6. st = "complete" => left = {} \/ dossier[x].status = "complete"
      OBVIOUS
    <3>7. i \notin dossier[x].missing => left = dossier[x].missing
      OBVIOUS
    <3> HIDE DEF left, st
    <3>8. QED
      BY <3>1, <3>2, <3>3, <3>5, <3>6, <3>7, Zenon
  <2>3. QED
    BY <2>1, <2>2
<1> DEFINE r == [op |-> "items", x |-> x, seen |-> dossier[x],
                 status |-> status, missing |-> missing, list |-> list]
<1>3. Shaped(r)
  BY <1>1 DEF Shaped
<1>4. /\ r.op = "items" /\ r.x = x /\ r.seen = dossier[x] /\ r.status = status
      /\ r.missing = missing
  OBVIOUS
<1>5. r.list = list
  OBVIOUS
<1>6. Begin(h, r)
  BY <1>2 DEF ItemsRead
<1> HIDE DEF r
<1>7. Requests(h) /\ req'[h] = r /\ req[h] = NoReq
  BY <1>3, <1>6, AfterBegin
<1>8. QED
  BY <1>2, <1>4, <1>5, <1>7, Zenon

---------------------------------------------------------------------------
(* The correlations after a step *)

LEMMA StoreCorr ==
  ASSUME Types, NEW h \in Handlers, NEW batch \in Batches, Store(h, batch)
  PROVE  /\ corr' \in [Correlations -> CorrRows]
         /\ \A c \in Correlations \ DOMAIN batch : corr'[c] = corr[c]
         /\ \A c \in DOMAIN batch :
              /\ c \in Correlations /\ corr[c] = NoCorr
              /\ corr'[c].state = "stored" /\ ~corr'[c].item
              /\ corr'[c].conflict <=> c \in Conflicts(batch)
<1>1. ASSUME NEW c \in DOMAIN batch
      PROVE  /\ c \in Correlations /\ corr[c] = NoCorr
             /\ corr'[c] = [state |-> "stored", ends |-> batch[c].ends,
                            conflict |-> batch[c].conflict, item |-> FALSE]
             /\ corr'[c] \in CorrRows
  <2>1. /\ c \in Correlations /\ batch[c].ends \in Pairs
        /\ batch[c].conflict \in BOOLEAN
    BY BatchTyped
  <2>2. [state |-> "stored", ends |-> batch[c].ends,
         conflict |-> batch[c].conflict, item |-> FALSE] \in CorrRows
    BY <2>1 DEF CorrRows, Pairs
  <2>3. QED
    BY <2>1, <2>2 DEF Store
<1>2. ASSUME NEW c \in Correlations \ DOMAIN batch
      PROVE  corr'[c] = corr[c] /\ corr'[c] \in CorrRows
  BY DEF Store, Types
<1>3. corr' = [c \in Correlations |-> corr'[c]]
  BY DEF Store
<1>4. ASSUME NEW c \in Correlations PROVE corr'[c] \in CorrRows
  BY <1>1, <1>2
<1>5. corr' \in [Correlations -> CorrRows]
  BY <1>3, <1>4
<1>6. ASSUME NEW c \in DOMAIN batch
      PROVE  /\ corr'[c].state = "stored" /\ ~corr'[c].item
             /\ corr'[c].conflict <=> c \in Conflicts(batch)
  <2>1. /\ corr'[c].state = "stored" /\ corr'[c].item = FALSE
        /\ corr'[c].conflict = batch[c].conflict
    <3>1. corr'[c] = [state |-> "stored", ends |-> batch[c].ends,
                      conflict |-> batch[c].conflict, item |-> FALSE]
      BY <1>1
    <3> DEFINE e == batch[c].ends
               k == batch[c].conflict
               r == corr'[c]
    <3>2. r = [state |-> "stored", ends |-> e, conflict |-> k, item |-> FALSE]
      BY <3>1, Zenon
    <3> HIDE DEF e, k, r
    <3>3. r.state = "stored" /\ r.item = FALSE /\ r.conflict = k
      BY <3>2
    <3>4. QED
      BY <3>3 DEF r, k
  <2>2. batch[c].conflict \in BOOLEAN
    BY BatchTyped
  <2>3. c \in Conflicts(batch) <=> batch[c].conflict
    BY DEF Conflicts
  <2>4. QED
    BY <2>1, <2>2, <2>3
<1>7. QED
  BY <1>1, <1>2, <1>5, <1>6

LEMMA TellCorr ==
  ASSUME Types, NEW c \in Correlations, corr' = [corr EXCEPT ![c].item = TRUE]
  PROVE  /\ corr' \in [Correlations -> CorrRows]
         /\ \A k \in Correlations \ {c} : corr'[k] = corr[k]
         /\ corr'[c].conflict = corr[c].conflict /\ corr'[c].item
         /\ corr'[c].state = corr[c].state /\ corr'[c].ends = corr[c].ends
<1> DEFINE r == [corr[c] EXCEPT !.item = TRUE]
<1>1. corr[c] \in CorrRows
  BY DEF Types
<1>2. /\ r \in CorrRows /\ r.conflict = corr[c].conflict /\ r.item
      /\ r.state = corr[c].state /\ r.ends = corr[c].ends
  BY <1>1 DEF CorrRows
<1>3. corr' = [corr EXCEPT ![c] = r]
  BY DEF Types
<1> HIDE DEF r
<1>4. QED
  BY <1>2, <1>3 DEF Types

LEMMA ForgetCorr ==
  ASSUME Types, NEW h \in Handlers, ForgetCommit(h)
  PROVE  /\ corr' \in [Correlations -> CorrRows]
         /\ \A c \in Correlations :
              /\ corr'[c].conflict = corr[c].conflict
              /\ corr'[c].item = corr[c].item /\ corr'[c].ends = corr[c].ends
              /\ corr[c].state # "unused" => corr'[c].state # "unused"
<1>1. corr' = [c \in Correlations |-> corr'[c]]
  BY DEF ForgetCommit
<1>2. ASSUME NEW c \in Correlations
      PROVE  /\ corr'[c] \in CorrRows
             /\ corr'[c].conflict = corr[c].conflict
             /\ corr'[c].item = corr[c].item /\ corr'[c].ends = corr[c].ends
             /\ corr[c].state # "unused" => corr'[c].state # "unused"
  <2> DEFINE r == [corr[c] EXCEPT !.state = "deleted"]
  <2>1. corr[c] \in CorrRows
    BY DEF Types
  <2>2. /\ r \in CorrRows /\ r.conflict = corr[c].conflict
        /\ r.item = corr[c].item /\ r.ends = corr[c].ends /\ r.state # "unused"
    BY <2>1 DEF CorrRows
  <2>3. corr'[c] = r \/ corr'[c] = corr[c]
    BY DEF ForgetCommit
  <2> HIDE DEF r
  <2>4. QED
    BY <2>1, <2>2, <2>3
<1>3. QED
  BY <1>1, <1>2

---------------------------------------------------------------------------
(* Every step preserves the types. *)

Filled == dossier' \in [Ids -> FileRows]
Stays  == UNCHANGED <<corr, dossier>>

LEMMA GroupCommitFiles ==
  ASSUME Types, NEW h \in Handlers, GroupCommit(h)
  PROVE  /\ Requests(h) /\ req[h].op = "group" /\ req'[h] = NoReq
         /\ Filled /\ corr' = corr
         /\ \E x \in Ids :
              /\ \/ req[h].x = None /\ dossier[x] = NoFile
                    /\ RowIs(x, "incomplete", req[h].docs, {})
                 \/ req[h].x = x /\ Exists(x)
                    /\ RowIs(x, dossier[x].status, dossier[x].docs \cup req[h].docs,
                             dossier[x].missing)
              /\ Others(x)
<1>1. /\ req[h].op = "group" /\ req[h].x \in Ids \cup {None}
      /\ req[h].docs \in SUBSET Docs
  BY DEF Types, Shaped, GroupCommit
<1>2. Requests(h) /\ req'[h] = NoReq /\ corr' = corr
  BY AfterEnd DEF GroupCommit
<1>3. CASE req[h].x = None
  <2>1. PICK x \in Ids : New(x, req[h].docs)
    BY <1>3 DEF GroupCommit
  <2>2. /\ Filled /\ Others(x) /\ dossier[x] = NoFile
        /\ RowIs(x, "incomplete", req[h].docs, {})
    BY <1>1, <2>1, FilesAfterNew DEF Filled
  <2>3. QED
    BY <1>1, <1>2, <1>3, <2>2
<1>4. CASE req[h].x # None
  <2>1. req[h].x \in Ids /\ Exists(req[h].x) /\ Put(req[h].x, req[h].docs)
    BY <1>1, <1>4 DEF GroupCommit
  <2> DEFINE x == req[h].x
  <2>2. /\ Filled /\ Others(x)
        /\ RowIs(x, dossier[x].status, dossier[x].docs \cup req[h].docs,
                 dossier[x].missing)
    BY <1>1, <2>1, FilesAfterPut DEF Filled
  <2>3. QED
    BY <1>1, <1>2, <2>1, <2>2
<1>5. QED
  BY <1>3, <1>4

LEMMA AddCommitFiles ==
  ASSUME Types, NEW h \in Handlers, AddCommit(h)
  PROVE  /\ Requests(h) /\ req[h].op = "add" /\ req'[h] = NoReq
         /\ Filled /\ corr' = corr
         /\ req[h].x \in Ids /\ Others(req[h].x)
         /\ RowIs(req[h].x, dossier[req[h].x].status,
                  dossier[req[h].x].docs \cup {req[h].doc}, dossier[req[h].x].missing)
<1>1. req[h].op = "add" /\ req[h].x \in Ids /\ {req[h].doc} \in SUBSET Docs
  BY DEF Types, Shaped, AddCommit
<1>2. Requests(h) /\ req'[h] = NoReq /\ corr' = corr
  BY AfterEnd DEF AddCommit
<1>3. Put(req[h].x, {req[h].doc})
  BY DEF AddCommit
<1>4. QED
  BY <1>1, <1>2, <1>3, FilesAfterPut DEF Filled

LEMMA RemoveCommitFiles ==
  ASSUME Types, NEW h \in Handlers, RemoveCommit(h)
  PROVE  /\ Requests(h) /\ req[h].op = "remove" /\ req'[h] = NoReq
         /\ Filled /\ corr' = corr
         /\ req[h].x \in Ids /\ Others(req[h].x)
         /\ RowIs(req[h].x, dossier[req[h].x].status,
                  dossier[req[h].x].docs \ {req[h].doc}, dossier[req[h].x].missing)
<1>1. req[h].op = "remove" /\ req[h].x \in Ids
  BY DEF Types, Shaped, RemoveCommit
<1>2. Requests(h) /\ req'[h] = NoReq /\ corr' = corr
  BY AfterEnd DEF RemoveCommit
<1> DEFINE x == req[h].x
           d == req[h].doc
<1>3. dossier' = [dossier EXCEPT ![x].docs = @ \ {d}]
  BY DEF RemoveCommit
<1> HIDE DEF x, d
<1>4. x \in Ids
  BY <1>1 DEF x
<1>5. /\ dossier' \in [Ids -> FileRows] /\ Others(x)
      /\ RowIs(x, dossier[x].status, dossier[x].docs \ {d}, dossier[x].missing)
  BY <1>3, <1>4, FilesAfterRemove
<1>6. QED
  BY <1>1, <1>2, <1>5 DEF Filled, x, d

LEMMA ItemsCommitFiles ==
  ASSUME Types, NEW h \in Handlers, ItemsCommit(h)
  PROVE  /\ Requests(h) /\ req[h].op = "items" /\ req'[h] = NoReq
         /\ Filled /\ corr' = corr
         /\ req[h].x \in Ids /\ Others(req[h].x)
         /\ RowIs(req[h].x,
                  IF req[h].status = req[h].seen.status
                  THEN dossier[req[h].x].status ELSE req[h].status,
                  dossier[req[h].x].docs,
                  IF req[h].list THEN req[h].missing ELSE dossier[req[h].x].missing)
<1> DEFINE x == req[h].x
           status == IF req[h].status = req[h].seen.status
                     THEN dossier[x].status ELSE req[h].status
           missing == IF req[h].list THEN req[h].missing ELSE dossier[x].missing
<1>1. /\ req[h].op = "items" /\ x \in Ids /\ req[h].missing \in SUBSET Items
      /\ req[h].status \in {"incomplete", "complete"}
  BY DEF Types, Shaped, ItemsCommit
<1>2. Requests(h) /\ req'[h] = NoReq /\ corr' = corr
  BY AfterEnd DEF ItemsCommit
<1>3. dossier[x] \in FileRows
  BY <1>1 DEF Types
<1>4. /\ status \in {"none", "incomplete", "complete", "deleted"}
      /\ missing \in SUBSET Items /\ dossier[x].docs \in SUBSET Docs
  BY <1>1, <1>3 DEF FileRows
<1>5. dossier' = [dossier EXCEPT
        ![x] = [status |-> status, docs |-> dossier[x].docs, missing |-> missing]]
  BY DEF ItemsCommit
<1> HIDE DEF status, missing, x
<1>6. /\ dossier' \in [Ids -> FileRows] /\ Others(x)
      /\ RowIs(x, status, dossier[x].docs, missing)
  BY <1>1, <1>4, <1>5, FilesAfterRow
<1>7. QED
  BY <1>1, <1>2, <1>6 DEF Filled, x, status, missing

LEMMA UpdateFiles ==
  ASSUME Types, NEW x \in Ids, NEW status \in {"complete", "incomplete"},
         NEW missing \in (SUBSET Items) \cup {None},
         UpdateCompleteness(x, status, missing)
  PROVE  /\ Filled /\ Others(x) /\ UNCHANGED <<corr, req>>
         /\ dossier'[x].docs = dossier[x].docs /\ dossier'[x].status = status
<1> DEFINE new == IF missing = None THEN dossier[x].missing ELSE missing
<1>1. dossier[x] \in FileRows
  BY DEF Types
<1>2. new \in SUBSET Items /\ dossier[x].docs \in SUBSET Docs
  BY <1>1 DEF FileRows
<1>3. dossier' = [dossier EXCEPT
        ![x] = [status |-> status, docs |-> dossier[x].docs, missing |-> new]]
  BY DEF UpdateCompleteness
<1> HIDE DEF new
<1>4. /\ dossier' \in [Ids -> FileRows] /\ Others(x)
      /\ RowIs(x, status, dossier[x].docs, new)
  BY <1>2, <1>3, FilesAfterRow
<1>5. QED
  BY <1>4 DEF Filled, UpdateCompleteness, RowIs

LEMMA RefusedRequests ==
  ASSUME Types, NEW h \in Handlers, Refused(h)
  PROVE  /\ Requests(h) /\ req'[h] = NoReq /\ Stays
         /\ req[h].op \in {"add", "remove", "items", "group"}
BY AfterEnd DEF Refused, Stays

\* What a step may change: one request, correlations and files of their types.
LEMMA HandlerTypes ==
  ASSUME Types, NEW h \in Handlers, HandlerStep(h)
  PROVE  Requests(h) /\ corr' \in [Correlations -> CorrRows] /\ Filled
<1>1. corr \in [Correlations -> CorrRows] /\ dossier \in [Ids -> FileRows]
  BY DEF Types
<1>2. ASSUME NEW batch \in Batches, Store(h, batch)
      PROVE  Requests(h) /\ corr' \in [Correlations -> CorrRows] /\ Filled
  BY <1>1, <1>2, StoreRequests, StoreCorr DEF Store, Filled
<1>3. ASSUME NEW d \in Docs, ForgetRead(h, d)
      PROVE  Requests(h) /\ Stays
  BY <1>3, ForgetRequests DEF ForgetRead, Stays
<1>4. ASSUME NEW d \in Docs, GroupCorrelations(h, d)
      PROVE  Requests(h) /\ Stays
  BY <1>4, LookRequests DEF GroupCorrelations, Stays
<1>5. ASSUME NEW x \in Ids, NEW d \in Docs, AddRead(h, x, d) \/ RemoveRead(h, x, d)
      PROVE  Requests(h) /\ Stays
  BY <1>5, DocRequests DEF AddRead, RemoveRead, Stays
<1>6. ASSUME NEW x \in Ids, NEW i \in Items,
             AddMissing(h, x, i) \/ RemoveMissing(h, x, i)
      PROVE  Requests(h) /\ Stays
  <2>1. Requests(h)
    BY <1>6, ItemsRequests
  <2>2. Stays
    BY <1>6 DEF AddMissing, RemoveMissing, ItemsRead, Stays
  <2>3. QED
    BY <2>1, <2>2
<1>7. CASE Tell(h)
  <2>1. PICK c \in req[h].conflicts :
          /\ corr' = [corr EXCEPT ![c].item = TRUE]
          /\ req' = [req EXCEPT ![h] =
               IF @.conflicts = {c} THEN NoReq
               ELSE [op |-> "tell", conflicts |-> req[h].conflicts \ {c}]]
    BY <1>7 DEF Tell
  <2>2. req[h].op = "tell" /\ dossier' = dossier
    BY <1>7 DEF Tell
  <2>3. Requests(h) /\ c \in Correlations
    BY <2>1, <2>2, TellRequests
  <2>4. QED
    BY <1>1, <2>1, <2>2, <2>3, TellCorr DEF Filled
<1>8. CASE TellFails(h)
  BY <1>1, <1>8, AfterEnd DEF TellFails, Filled
<1>9. CASE ForgetCommit(h)
  BY <1>1, <1>9, AfterEnd, ForgetCorr DEF ForgetCommit, Filled
<1>10. CASE GroupLook(h)
  BY <1>1, <1>10, GroupRequests DEF GroupLook, Filled
<1>11. CASE GroupCommit(h)
  BY <1>1, <1>11, GroupCommitFiles
<1>12. CASE AddCommit(h)
  BY <1>1, <1>12, AddCommitFiles
<1>13. CASE RemoveCommit(h)
  BY <1>1, <1>13, RemoveCommitFiles
<1>14. CASE ItemsCommit(h)
  BY <1>1, <1>14, ItemsCommitFiles
<1>15. CASE Refused(h)
  BY <1>1, <1>15, RefusedRequests DEF Stays, Filled
<1>16. CASE Requests(h) /\ Stays
  BY <1>1, <1>16 DEF Stays, Filled
<1>17. QED
  BY <1>2, <1>3, <1>4, <1>5, <1>6, <1>7, <1>8, <1>9, <1>10, <1>11, <1>12,
     <1>13, <1>14, <1>15, <1>16 DEF HandlerStep

LEMMA DossierTypes ==
  ASSUME Types, NEW x \in Ids, DossierStep(x)
  PROVE  UNCHANGED <<corr, req>> /\ Filled
<1>1. CASE DeleteDossier(x)
  BY <1>1, FilesAfterDelete DEF DeleteDossier, Filled
<1>2. ASSUME NEW docs \in SUBSET Docs, CreateDossier(x, docs)
      PROVE  UNCHANGED <<corr, req>> /\ Filled
  BY <1>2, FilesAfterNew DEF CreateDossier, Filled
<1>3. ASSUME NEW status \in {"complete", "incomplete"},
             NEW missing \in (SUBSET Items) \cup {None},
             UpdateCompleteness(x, status, missing)
      PROVE  UNCHANGED <<corr, req>> /\ Filled
  BY <1>3, UpdateFiles
<1>4. QED
  BY <1>1, <1>2, <1>3 DEF DossierStep

LEMMA StepTypes == Types /\ [Next]_vars => Types'
<1> SUFFICES ASSUME Types, [Next]_vars PROVE Types'
  OBVIOUS
<1>1. CASE UNCHANGED vars
  BY <1>1 DEF vars, Types, Shaped
<1>2. ASSUME NEW h \in Handlers, HandlerStep(h) PROVE Types'
  BY <1>2, HandlerTypes DEF Types, Requests, Shaped, Filled
<1>3. ASSUME NEW x \in Ids, DossierStep(x) PROVE Types'
  BY <1>3, DossierTypes DEF Types, Shaped, Filled
<1>4. QED
  BY <1>1, <1>2, <1>3, Cases

\* Rows and requests keep their types, and a request has the fields of its
\* operation, whatever requests interleave.
THEOREM TypesCorrect == Spec => []Types
BY InitTypes, StepTypes, PTL DEF Spec

---------------------------------------------------------------------------
(* Conflicts are told. *)

\* What a request is about to tell are conflicts.
ToldInv ==
  /\ ConflictsAreTold
  /\ \A h \in Handlers : req[h].op = "tell" =>
       \A c \in req[h].conflicts : corr[c].conflict

\* A request is about to tell c.
WillTell(h, c) == req[h].op = "tell" /\ c \in req[h].conflicts

LEMMA ToldQuiet ==
  ASSUME Types, ToldInv, NEW h \in Handlers, Requests(h),
         ~(req[h].op = "tell"), ~(req'[h].op = "tell"), untold' = untold,
         \A c \in Correlations : /\ corr'[c].conflict = corr[c].conflict
                                 /\ corr'[c].item = corr[c].item
  PROVE  ToldInv'
<1>1. ASSUME NEW g \in Handlers, req'[g].op = "tell" PROVE req'[g] = req[g]
  BY <1>1 DEF Requests
<1>2. ASSUME NEW g \in Handlers, req[g].op = "tell" PROVE req'[g] = req[g]
  BY <1>2 DEF Requests
<1>3. ASSUME NEW c \in Correlations
      PROVE  /\ corr'[c].item => corr'[c].conflict
             /\ corr'[c].conflict /\ ~corr'[c].item =>
                  c \in untold' \/ \E g \in Handlers :
                     req'[g].op = "tell" /\ c \in req'[g].conflicts
  <2>1. /\ corr[c].item => corr[c].conflict
        /\ corr[c].conflict /\ ~corr[c].item =>
             c \in untold \/ \E g \in Handlers : WillTell(g, c)
    BY DEF ToldInv, ConflictsAreTold, WillTell
  <2>2. (\E g \in Handlers : WillTell(g, c)) =>
          \E g \in Handlers : req'[g].op = "tell" /\ c \in req'[g].conflicts
    BY <1>2 DEF WillTell
  <2>3. QED
    BY <2>1, <2>2, Zenon
<1>4. ASSUME NEW g \in Handlers, req'[g].op = "tell", NEW c \in req'[g].conflicts
      PROVE  corr'[c].conflict
  <2>1. req'[g] = req[g] /\ c \in req[g].conflicts /\ req[g].op = "tell"
    BY <1>1, <1>4
  <2>2. corr[c].conflict /\ c \in Correlations
    BY <2>1 DEF ToldInv, Types, Shaped
  <2>3. QED
    BY <2>2
<1>5. QED
  BY <1>3, <1>4, Zenon DEF ToldInv, ConflictsAreTold

LEMMA ToldStore ==
  ASSUME Types, ToldInv, NEW h \in Handlers, NEW batch \in Batches, Store(h, batch)
  PROVE  ToldInv'
<1>1. /\ Requests(h) /\ req[h] = NoReq
      /\ req'[h] = IF Conflicts(batch) = {} THEN NoReq
                   ELSE [op |-> "tell", conflicts |-> Conflicts(batch)]
  BY StoreRequests
<1>2. /\ \A c \in Correlations \ DOMAIN batch : corr'[c] = corr[c]
      /\ \A c \in DOMAIN batch :
           /\ c \in Correlations /\ corr[c] = NoCorr
           /\ corr'[c].state = "stored" /\ ~corr'[c].item
           /\ corr'[c].conflict <=> c \in Conflicts(batch)
  BY StoreCorr
<1>3. untold' = untold
  BY DEF Store, history
<1>4. ~(req[h].op = "tell")
  BY <1>1 DEF NoReq
<1>5. ASSUME NEW c \in Conflicts(batch)
      PROVE  req'[h].op = "tell" /\ c \in req'[h].conflicts
  BY <1>1
<1>6. ASSUME NEW g \in Handlers, req[g].op = "tell" PROVE req'[g] = req[g]
  BY <1>1, <1>4, <1>6 DEF Requests
<1>7. ASSUME NEW c \in Correlations
      PROVE  /\ corr'[c].item => corr'[c].conflict
             /\ corr'[c].conflict /\ ~corr'[c].item =>
                  c \in untold' \/ \E g \in Handlers :
                     req'[g].op = "tell" /\ c \in req'[g].conflicts
  <2>1. CASE c \in DOMAIN batch
    BY <1>2, <1>5, <2>1
  <2>2. CASE c \notin DOMAIN batch
    <3>1. corr'[c] = corr[c]
      BY <1>2, <2>2
    <3>2. /\ corr[c].item => corr[c].conflict
          /\ corr[c].conflict /\ ~corr[c].item =>
               c \in untold \/ \E g \in Handlers : WillTell(g, c)
      BY DEF ToldInv, ConflictsAreTold, WillTell
    <3>3. (\E g \in Handlers : WillTell(g, c)) =>
            \E g \in Handlers : req'[g].op = "tell" /\ c \in req'[g].conflicts
      BY <1>6 DEF WillTell
    <3>4. QED
      BY <1>3, <3>1, <3>2, <3>3
  <2>3. QED
    BY <2>1, <2>2
<1>8. ASSUME NEW g \in Handlers, req'[g].op = "tell", NEW c \in req'[g].conflicts
      PROVE  corr'[c].conflict
  <2>1. CASE g = h
    <3>1. c \in Conflicts(batch)
      BY <1>1, <1>8, <2>1 DEF NoReq
    <3>2. c \in DOMAIN batch
      BY <3>1 DEF Conflicts
    <3>3. QED
      BY <1>2, <3>1, <3>2
  <2>2. CASE g # h
    <3>1. req[g].op = "tell" /\ c \in req[g].conflicts
      BY <1>1, <1>8, <2>2 DEF Requests
    <3>2. corr[c].conflict /\ c \in Correlations
      BY <3>1 DEF ToldInv, Types, Shaped
    <3>3. c \notin DOMAIN batch
      BY <1>2, <3>2 DEF NoCorr
    <3>4. QED
      BY <1>2, <3>2, <3>3
  <2>3. QED
    BY <2>1, <2>2
<1>9. QED
  BY <1>7, <1>8, Zenon DEF ToldInv, ConflictsAreTold

LEMMA ToldTell ==
  ASSUME Types, ToldInv, NEW h \in Handlers, Tell(h)
  PROVE  ToldInv'
<1>1. PICK c \in req[h].conflicts :
        /\ corr' = [corr EXCEPT ![c].item = TRUE]
        /\ req' = [req EXCEPT ![h] =
             IF @.conflicts = {c} THEN NoReq
             ELSE [op |-> "tell", conflicts |-> req[h].conflicts \ {c}]]
  BY DEF Tell
<1>2. req[h].op = "tell" /\ untold' = untold
  BY DEF Tell, history
<1>3. /\ Requests(h) /\ c \in Correlations
      /\ req'[h] = IF req[h].conflicts = {c} THEN NoReq
                   ELSE [op |-> "tell", conflicts |-> req[h].conflicts \ {c}]
  BY <1>1, <1>2, TellRequests
<1>4. /\ \A k \in Correlations \ {c} : corr'[k] = corr[k]
      /\ corr'[c].conflict = corr[c].conflict /\ corr'[c].item
  BY <1>1, <1>3, TellCorr
<1>5. corr[c].conflict
  BY <1>2 DEF ToldInv
<1>6. ASSUME NEW k, k # c, NEW g \in Handlers, WillTell(g, k)
      PROVE  req'[g].op = "tell" /\ k \in req'[g].conflicts
  BY <1>3, <1>6 DEF WillTell, Requests
<1>7. ASSUME NEW k \in Correlations
      PROVE  /\ corr'[k].item => corr'[k].conflict
             /\ corr'[k].conflict /\ ~corr'[k].item =>
                  k \in untold' \/ \E g \in Handlers :
                     req'[g].op = "tell" /\ k \in req'[g].conflicts
  <2>1. CASE k = c
    BY <1>4, <1>5, <2>1
  <2>2. CASE k # c
    <3>1. corr'[k] = corr[k]
      BY <1>4, <2>2
    <3>2. /\ corr[k].item => corr[k].conflict
          /\ corr[k].conflict /\ ~corr[k].item =>
               k \in untold \/ \E g \in Handlers : WillTell(g, k)
      BY DEF ToldInv, ConflictsAreTold, WillTell
    <3>3. (\E g \in Handlers : WillTell(g, k)) =>
            \E g \in Handlers : req'[g].op = "tell" /\ k \in req'[g].conflicts
      BY <1>6, <2>2
    <3>4. QED
      BY <1>2, <3>1, <3>2, <3>3
  <2>3. QED
    BY <2>1, <2>2
<1>8. ASSUME NEW g \in Handlers, req'[g].op = "tell", NEW k \in req'[g].conflicts
      PROVE  corr'[k].conflict
  <2>1. req[g].op = "tell" /\ k \in req[g].conflicts
    BY <1>2, <1>3, <1>8 DEF Requests, NoReq
  <2>2. corr[k].conflict /\ k \in Correlations
    BY <2>1 DEF ToldInv, Types, Shaped
  <2>3. QED
    BY <1>4, <2>2
<1>9. QED
  BY <1>7, <1>8, Zenon DEF ToldInv, ConflictsAreTold

LEMMA ToldFails ==
  ASSUME Types, ToldInv, NEW h \in Handlers, TellFails(h)
  PROVE  ToldInv'
<1>1. Requests(h) /\ req'[h] = NoReq
  BY AfterEnd DEF TellFails
<1>2. req[h].op = "tell" /\ untold' = untold \cup req[h].conflicts /\ corr' = corr
  BY DEF TellFails
<1>3. ASSUME NEW c \in Correlations
      PROVE  /\ corr'[c].item => corr'[c].conflict
             /\ corr'[c].conflict /\ ~corr'[c].item =>
                  c \in untold' \/ \E g \in Handlers :
                     req'[g].op = "tell" /\ c \in req'[g].conflicts
  <2>1. /\ corr[c].item => corr[c].conflict
        /\ corr[c].conflict /\ ~corr[c].item =>
             c \in untold \/ \E g \in Handlers : WillTell(g, c)
    BY DEF ToldInv, ConflictsAreTold, WillTell
  <2>2. ASSUME NEW g \in Handlers, WillTell(g, c)
        PROVE  c \in untold' \/ (req'[g].op = "tell" /\ c \in req'[g].conflicts)
    BY <1>1, <1>2, <2>2 DEF WillTell, Requests
  <2>3. QED
    BY <1>2, <2>1, <2>2, Zenon
<1>4. ASSUME NEW g \in Handlers, req'[g].op = "tell", NEW c \in req'[g].conflicts
      PROVE  corr'[c].conflict
  <2>1. g # h
    BY <1>1, <1>4 DEF NoReq
  <2>2. req[g].op = "tell" /\ c \in req[g].conflicts
    BY <1>1, <1>4, <2>1 DEF Requests
  <2>3. QED
    BY <1>2, <2>2 DEF ToldInv
<1>5. QED
  BY <1>3, <1>4, Zenon DEF ToldInv, ConflictsAreTold

ConflictsSame ==
  \A c \in Correlations : /\ corr'[c].conflict = corr[c].conflict
                          /\ corr'[c].item = corr[c].item

\* A step that tells nothing and changes no conflict.
ToldFrame(h) ==
  /\ Requests(h) /\ ~(req[h].op = "tell") /\ ~(req'[h].op = "tell")
  /\ untold' = untold
  /\ ConflictsSame

LEMMA SameCorr == corr' = corr => ConflictsSame
BY Zenon DEF ConflictsSame

LEMMA ToldHandler ==
  ASSUME Types, ToldInv, NEW h \in Handlers, HandlerStep(h)
  PROVE  ToldInv'
<1>1. ASSUME NEW batch \in Batches, Store(h, batch) PROVE ToldInv'
  BY <1>1, ToldStore
<1>2. ASSUME NEW d \in Docs, ForgetRead(h, d) PROVE ToldFrame(h)
  BY <1>2, ForgetRequests, SameCorr DEF ForgetRead, ToldFrame, NoReq, history
<1>3. ASSUME NEW d \in Docs, GroupCorrelations(h, d) PROVE ToldFrame(h)
  BY <1>3, LookRequests, SameCorr DEF GroupCorrelations, ToldFrame, NoReq, history
<1>4. ASSUME NEW x \in Ids, NEW d \in Docs, AddRead(h, x, d) \/ RemoveRead(h, x, d)
      PROVE  ToldFrame(h)
  BY <1>4, DocRequests, SameCorr DEF AddRead, RemoveRead, ToldFrame, NoReq, history
<1>5. ASSUME NEW x \in Ids, NEW i \in Items,
             AddMissing(h, x, i) \/ RemoveMissing(h, x, i)
      PROVE  ToldFrame(h)
  <2>1. Requests(h) /\ req[h] = NoReq /\ req'[h].op = "items"
    BY <1>5, ItemsRequests
  <2>2. corr' = corr /\ untold' = untold
    BY <1>5 DEF AddMissing, RemoveMissing, ItemsRead, history
  <2>3. QED
    BY <2>1, <2>2, SameCorr DEF ToldFrame, NoReq
<1>6. ASSUME ForgetCommit(h) PROVE ToldFrame(h)
  <2>1. Requests(h) /\ req'[h] = NoReq
    BY <1>6, AfterEnd DEF ForgetCommit
  <2>2. req[h].op = "forget" /\ untold' = untold
    BY <1>6 DEF ForgetCommit, history
  <2>3. QED
    BY <1>6, <2>1, <2>2, ForgetCorr DEF ToldFrame, NoReq, ConflictsSame
<1>7. ASSUME GroupLook(h) PROVE ToldFrame(h)
  BY <1>7, GroupRequests, SameCorr DEF GroupLook, ToldFrame, history
<1>8. ASSUME GroupCommit(h) PROVE ToldFrame(h)
  BY <1>8, GroupCommitFiles, SameCorr DEF GroupCommit, ToldFrame, NoReq
<1>9. ASSUME AddCommit(h) PROVE ToldFrame(h)
  <2>1. untold' = untold
    BY <1>9 DEF AddCommit
  <2>2. Requests(h) /\ req[h].op = "add" /\ req'[h] = NoReq /\ corr' = corr
    BY <1>9, AddCommitFiles
  <2>3. QED
    BY <2>1, <2>2, SameCorr DEF ToldFrame, NoReq
<1>10. ASSUME RemoveCommit(h) PROVE ToldFrame(h)
  <2>1. untold' = untold
    BY <1>10 DEF RemoveCommit
  <2>2. Requests(h) /\ req[h].op = "remove" /\ req'[h] = NoReq /\ corr' = corr
    BY <1>10, RemoveCommitFiles
  <2>3. QED
    BY <2>1, <2>2, SameCorr DEF ToldFrame, NoReq
<1>11. ASSUME ItemsCommit(h) PROVE ToldFrame(h)
  <2>1. untold' = untold
    BY <1>11 DEF ItemsCommit
  <2>2. QED
    BY <1>11, <2>1, ItemsCommitFiles, SameCorr DEF ToldFrame, NoReq
<1>12. ASSUME Refused(h) PROVE ToldFrame(h)
  BY <1>12, RefusedRequests, SameCorr DEF Refused, Stays, ToldFrame, NoReq, history
<1>13. CASE ToldFrame(h)
  BY <1>13, ToldQuiet DEF ToldFrame, ConflictsSame
<1>14. QED
  BY <1>1, <1>2, <1>3, <1>4, <1>5, <1>6, <1>7, <1>8, <1>9, <1>10, <1>11, <1>12,
     <1>13, ToldTell, ToldFails DEF HandlerStep

LEMMA ToldUnchanged ==
  ASSUME ToldInv, UNCHANGED <<corr, req, untold>>
  PROVE  ToldInv'
BY DEF ToldInv, ConflictsAreTold

LEMMA ToldStep == Types /\ ToldInv /\ [Next]_vars => ToldInv'
<1> SUFFICES ASSUME Types, ToldInv, [Next]_vars PROVE ToldInv'
  OBVIOUS
<1>1. CASE UNCHANGED vars
  BY <1>1, ToldUnchanged DEF vars, history
<1>2. ASSUME NEW x \in Ids, DossierStep(x) PROVE ToldInv'
  BY <1>2, ToldUnchanged
     DEF DossierStep, DeleteDossier, CreateDossier, UpdateCompleteness
<1>3. QED
  BY <1>1, <1>2, ToldHandler, Cases

LEMMA ToldInit == Init => ToldInv
BY DEF Init, ToldInv, ConflictsAreTold, NoCorr, NoReq

\* An inbox item tells a conflict that is or was stored, and a conflict that
\* no item tells is about to be told or its telling failed
\* (CrossDocumentService: the items are committed one by one after the batch).
THEOREM ToldCorrect == Spec => []ConflictsAreTold
<1>1. Types /\ ToldInv /\ [Next]_vars => Types' /\ ToldInv'
  BY StepTypes, ToldStep
<1>2. ToldInv => ConflictsAreTold
  BY DEF ToldInv
<1>3. QED
  BY <1>1, <1>2, InitTypes, ToldInit, PTL DEF Spec

---------------------------------------------------------------------------
(* Grouped documents are filed. *)

Filed == UNION {dossier[x].docs : x \in Ids}

\* A document that a grouping leaves out of what it adds is filed already.
FiledInv ==
  /\ GroupedAreFiled
  /\ \A h \in Handlers : req[h].op = "group" =>
       req[h].related \subseteq req[h].docs \cup Filed \cup takenOut

\* Requests of these operations are the ones there were.
NoNew(ops) == \A g \in Handlers : req'[g].op \in ops => req'[g] = req[g]

LEMMA NoNewRequest ==
  ASSUME NEW h \in Handlers, Requests(h), NEW ops, req'[h].op \notin ops
  PROVE  NoNew(ops)
BY DEF Requests, NoNew

\* A step that grows nothing but dossiers and records what it takes out.
FiledFrame ==
  /\ NoNew({"group"})
  /\ grouped' = grouped /\ takenOut \subseteq takenOut'
  /\ \A x \in Ids : dossier[x].docs \subseteq dossier'[x].docs \cup takenOut'

LEMMA FiledKept ==
  ASSUME \A x \in Ids : dossier[x].docs \subseteq dossier'[x].docs \cup takenOut'
  PROVE  Filed \subseteq Filed' \cup takenOut'
BY DEF Filed

LEMMA FiledQuiet ==
  ASSUME FiledInv, FiledFrame
  PROVE  FiledInv'
<1>1. Filed \subseteq Filed' \cup takenOut'
  BY FiledKept DEF FiledFrame
<1>2. GroupedAreFiled'
  BY <1>1 DEF FiledInv, GroupedAreFiled, FiledFrame, Filed
<1>3. ASSUME NEW g \in Handlers, req'[g].op = "group"
      PROVE  req'[g].related \subseteq req'[g].docs \cup Filed' \cup takenOut'
  <2>1. req'[g] = req[g]
    BY <1>3 DEF FiledFrame, NoNew
  <2>2. req[g].related \subseteq req[g].docs \cup Filed \cup takenOut
    BY <1>3, <2>1 DEF FiledInv
  <2>3. QED
    BY <1>1, <2>1, <2>2 DEF FiledFrame
<1>4. QED
  BY <1>2, <1>3 DEF FiledInv

LEMMA SameFiles ==
  dossier' = dossier =>
    \A x \in Ids : dossier[x].docs \subseteq dossier'[x].docs \cup takenOut'
BY Zenon

LEMMA FiledLook ==
  ASSUME Types, FiledInv, NEW h \in Handlers, GroupLook(h)
  PROVE  FiledInv'
<1>1. UNCHANGED <<dossier, grouped, takenOut>>
  BY DEF GroupLook, history
<1>2. /\ Requests(h) /\ req'[h].related = req[h].related
      /\ \/ req'[h].docs = req[h].related
         \/ req'[h].docs = {d \in req[h].related : FiledIn(d) = {}}
  BY GroupRequests
<1>3. req[h].related \subseteq req'[h].docs \cup Filed
  <2>1. ASSUME NEW d, FiledIn(d) # {} PROVE d \in Filed
    BY <2>1 DEF FiledIn, Filed
  <2>2. QED
    BY <1>2, <2>1
<1>4. Filed' = Filed
  BY <1>1 DEF Filed
<1>5. ASSUME NEW g \in Handlers, req'[g].op = "group"
      PROVE  req'[g].related \subseteq req'[g].docs \cup Filed' \cup takenOut'
  <2>1. CASE g = h
    BY <1>2, <1>3, <1>4, <2>1
  <2>2. CASE g # h
    BY <1>1, <1>2, <1>4, <1>5, <2>2 DEF Requests, FiledInv
  <2>3. QED
    BY <2>1, <2>2
<1>6. GroupedAreFiled'
  BY <1>1 DEF FiledInv, GroupedAreFiled
<1>7. QED
  BY <1>5, <1>6 DEF FiledInv

LEMMA FiledCommit ==
  ASSUME Types, FiledInv, NEW h \in Handlers, GroupCommit(h)
  PROVE  FiledInv'
<1>1. /\ Requests(h) /\ req[h].op = "group" /\ req'[h] = NoReq
  BY GroupCommitFiles
<1>2. PICK x \in Ids :
        /\ \/ /\ dossier[x] = NoFile
              /\ RowIs(x, "incomplete", req[h].docs, {})
           \/ RowIs(x, dossier[x].status, dossier[x].docs \cup req[h].docs,
                    dossier[x].missing)
        /\ Others(x)
  BY GroupCommitFiles
<1>3. dossier[x].docs \cup req[h].docs \subseteq dossier'[x].docs
  BY <1>2 DEF RowIs, NoFile
<1>4. /\ \A y \in Ids : dossier[y].docs \subseteq dossier'[y].docs
      /\ req[h].docs \subseteq Filed'
  BY <1>2, <1>3 DEF Others, Filed
<1>5. grouped' = grouped \cup req[h].related /\ takenOut' = takenOut
  BY DEF GroupCommit
<1>6. Filed \subseteq Filed'
  BY <1>4 DEF Filed
<1>7. GroupedAreFiled'
  <2>1. grouped \subseteq Filed \cup takenOut
    BY DEF FiledInv, GroupedAreFiled, Filed
  <2>2. req[h].related \subseteq req[h].docs \cup Filed \cup takenOut
    BY <1>1 DEF FiledInv
  <2>3. grouped' \ takenOut' \subseteq Filed'
    BY <1>4, <1>5, <1>6, <2>1, <2>2
  <2>4. QED
    BY <2>3 DEF GroupedAreFiled, Filed
<1>8. ASSUME NEW g \in Handlers, req'[g].op = "group"
      PROVE  req'[g].related \subseteq req'[g].docs \cup Filed' \cup takenOut'
  <2>1. g # h
    BY <1>1, <1>8 DEF NoReq
  <2>2. req'[g] = req[g]
    BY <1>1, <2>1 DEF Requests
  <2>3. req[g].related \subseteq req[g].docs \cup Filed \cup takenOut
    BY <1>8, <2>2 DEF FiledInv
  <2>4. QED
    BY <1>5, <1>6, <2>2, <2>3
<1>9. QED
  BY <1>7, <1>8 DEF FiledInv

\* A step that leaves the dossiers and the requests that group alone.
Idle ==
  /\ NoNew({"look", "group"})
  /\ dossier' = dossier /\ grouped' = grouped /\ takenOut' = takenOut
  /\ touched' = touched

LEMMA IdleSteps ==
  ASSUME Types, NEW h \in Handlers, HandlerStep(h)
  PROVE  \/ Idle
         \/ \E d \in Docs : GroupCorrelations(h, d)
         \/ GroupLook(h) \/ GroupCommit(h)
         \/ AddCommit(h) \/ RemoveCommit(h) \/ ItemsCommit(h)
<1> DEFINE Alone == /\ Requests(h) /\ req'[h].op \notin {"look", "group"}
                    /\ dossier' = dossier /\ UNCHANGED history
<1>1. ASSUME Alone PROVE Idle
  <2>1. NoNew({"look", "group"})
    BY <1>1, NoNewRequest
  <2>2. QED
    BY <1>1, <2>1 DEF Idle, history
<1>2. ASSUME NEW batch \in Batches, Store(h, batch) PROVE Alone
  <2>1. Requests(h) /\ req'[h].op \notin {"look", "group"}
    <3>1. /\ Requests(h)
          /\ \/ req'[h] = NoReq
             \/ req'[h] = [op |-> "tell", conflicts |-> Conflicts(batch)]
      BY <1>2, StoreRequests, Zenon
    <3>2. req'[h].op \in {"none", "tell"}
      BY <3>1 DEF NoReq
    <3>3. QED
      BY <3>1, <3>2
  <2>2. QED
    BY <1>2, <2>1 DEF Store
<1>3. ASSUME NEW d \in Docs, ForgetRead(h, d) PROVE Alone
  BY <1>3, ForgetRequests DEF ForgetRead
<1>4. ASSUME NEW x \in Ids, NEW d \in Docs, AddRead(h, x, d) \/ RemoveRead(h, x, d)
      PROVE  Alone
  BY <1>4, DocRequests DEF AddRead, RemoveRead
<1>5. ASSUME NEW x \in Ids, NEW i \in Items,
             AddMissing(h, x, i) \/ RemoveMissing(h, x, i)
      PROVE  Alone
  <2>1. Requests(h) /\ req'[h].op = "items"
    BY <1>5, ItemsRequests
  <2>2. QED
    BY <1>5, <2>1 DEF AddMissing, RemoveMissing, ItemsRead
<1>6. ASSUME Tell(h) PROVE Alone
  <2>1. PICK c \in req[h].conflicts :
          req' = [req EXCEPT ![h] =
            IF @.conflicts = {c} THEN NoReq
            ELSE [op |-> "tell", conflicts |-> req[h].conflicts \ {c}]]
    BY <1>6 DEF Tell
  <2>2. req[h].op = "tell" /\ dossier' = dossier /\ UNCHANGED history
    BY <1>6 DEF Tell
  <2>3. /\ Requests(h)
        /\ req'[h] = IF req[h].conflicts = {c} THEN NoReq
                     ELSE [op |-> "tell", conflicts |-> req[h].conflicts \ {c}]
    BY <2>1, <2>2, TellRequests
  <2>4. QED
    BY <2>2, <2>3 DEF NoReq
<1>7. ASSUME TellFails(h) PROVE Idle
  <2>1. Requests(h) /\ req'[h] = NoReq
    BY <1>7, AfterEnd DEF TellFails
  <2>2. NoNew({"look", "group"})
    BY <2>1, NoNewRequest DEF NoReq
  <2>3. QED
    BY <1>7, <2>2 DEF TellFails, Idle
<1>8. ASSUME ForgetCommit(h) \/ Refused(h) PROVE Alone
  BY <1>8, AfterEnd DEF ForgetCommit, Refused, NoReq
<1> HIDE DEF Alone
<1>9. QED
  BY <1>1, <1>2, <1>3, <1>4, <1>5, <1>6, <1>7, <1>8 DEF HandlerStep

\* The documents of dossier x, when another field of it is written, or when
\* documents are taken out or added.
LEMMA FilesFrame ==
  ASSUME NEW x \in Ids, Others(x), dossier[x].docs \subseteq dossier'[x].docs \cup takenOut'
  PROVE  \A y \in Ids : dossier[y].docs \subseteq dossier'[y].docs \cup takenOut'
BY DEF Others

LEMMA FiledHandler ==
  ASSUME Types, FiledInv, NEW h \in Handlers, HandlerStep(h)
  PROVE  FiledInv'
<1>1. ASSUME Idle PROVE FiledInv'
  <2>1. FiledFrame
    BY <1>1, SameFiles DEF Idle, FiledFrame, NoNew
  <2>2. QED
    BY <2>1, FiledQuiet
<1>2. ASSUME NEW d \in Docs, GroupCorrelations(h, d) PROVE FiledInv'
  <2>1. NoNew({"group"})
    BY <1>2, LookRequests, NoNewRequest
  <2>2. dossier' = dossier /\ grouped' = grouped /\ takenOut' = takenOut
    BY <1>2 DEF GroupCorrelations, history
  <2>3. FiledFrame
    BY <2>1, <2>2, SameFiles DEF FiledFrame
  <2>4. QED
    BY <2>3, FiledQuiet
<1>3. ASSUME AddCommit(h) PROVE FiledInv'
  <2> DEFINE x == req[h].x
  <2>1. /\ Requests(h) /\ req'[h] = NoReq /\ x \in Ids /\ Others(x)
        /\ dossier'[x].docs = dossier[x].docs \cup {req[h].doc}
    BY <1>3, AddCommitFiles DEF RowIs
  <2>2. grouped' = grouped /\ takenOut' = takenOut
    BY <1>3 DEF AddCommit
  <2>3. NoNew({"group"})
    BY <2>1, NoNewRequest DEF NoReq
  <2> HIDE DEF x
  <2>4. \A y \in Ids : dossier[y].docs \subseteq dossier'[y].docs \cup takenOut'
    BY <2>1, FilesFrame
  <2>5. QED
    BY <2>2, <2>3, <2>4, FiledQuiet DEF FiledFrame
<1>4. ASSUME RemoveCommit(h) PROVE FiledInv'
  <2> DEFINE x == req[h].x
             d == req[h].doc
  <2>1. /\ Requests(h) /\ req'[h] = NoReq /\ x \in Ids /\ Others(x)
        /\ dossier'[x].docs = dossier[x].docs \ {d}
    BY <1>4, RemoveCommitFiles DEF RowIs
  <2>2. grouped' = grouped /\ takenOut' = takenOut \cup {d}
    BY <1>4 DEF RemoveCommit
  <2>3. NoNew({"group"})
    BY <2>1, NoNewRequest DEF NoReq
  <2> HIDE DEF x, d
  <2>4. dossier[x].docs \subseteq dossier'[x].docs \cup takenOut'
    BY <2>1, <2>2
  <2>5. \A y \in Ids : dossier[y].docs \subseteq dossier'[y].docs \cup takenOut'
    BY <2>1, <2>4, FilesFrame
  <2>6. QED
    BY <2>2, <2>3, <2>5, FiledQuiet DEF FiledFrame
<1>5. ASSUME ItemsCommit(h) PROVE FiledInv'
  <2> DEFINE x == req[h].x
  <2>1. /\ Requests(h) /\ req'[h] = NoReq /\ x \in Ids /\ Others(x)
        /\ dossier'[x].docs = dossier[x].docs
    BY <1>5, ItemsCommitFiles DEF RowIs
  <2>2. grouped' = grouped /\ takenOut' = takenOut
    BY <1>5 DEF ItemsCommit
  <2>3. NoNew({"group"})
    BY <2>1, NoNewRequest DEF NoReq
  <2> HIDE DEF x
  <2>4. \A y \in Ids : dossier[y].docs \subseteq dossier'[y].docs \cup takenOut'
    BY <2>1, FilesFrame
  <2>5. QED
    BY <2>2, <2>3, <2>4, FiledQuiet DEF FiledFrame
<1>6. QED
  BY <1>1, <1>2, <1>3, <1>4, <1>5, IdleSteps, FiledLook, FiledCommit

\* What a step on a dossier leaves of the documents.
FiledKeeps(x) ==
  /\ grouped' = grouped /\ takenOut \subseteq takenOut' /\ Others(x)
  /\ dossier[x].docs \subseteq dossier'[x].docs \cup takenOut'

LEMMA FiledDossier ==
  ASSUME Types, FiledInv, NEW x \in Ids, DossierStep(x)
  PROVE  FiledInv'
<1>1. ASSUME DeleteDossier(x) PROVE FiledKeeps(x)
  <2>1. Others(x)
    BY <1>1, FilesAfterDelete
  <2>2. grouped' = grouped /\ takenOut' = takenOut \cup dossier[x].docs
    BY <1>1 DEF DeleteDossier
  <2>3. QED
    BY <2>1, <2>2 DEF FiledKeeps
<1>2. ASSUME NEW docs \in SUBSET Docs, CreateDossier(x, docs) PROVE FiledKeeps(x)
  <2>1. Others(x) /\ dossier[x] = NoFile
    BY <1>2, FilesAfterNew DEF CreateDossier
  <2>2. grouped' = grouped /\ takenOut' = takenOut
    BY <1>2 DEF CreateDossier
  <2>3. QED
    BY <2>1, <2>2 DEF FiledKeeps, NoFile
<1>3. ASSUME NEW status \in {"complete", "incomplete"},
             NEW missing \in (SUBSET Items) \cup {None},
             UpdateCompleteness(x, status, missing)
      PROVE  FiledKeeps(x)
  <2>1. Others(x) /\ dossier'[x].docs = dossier[x].docs
    BY <1>3, UpdateFiles
  <2>2. grouped' = grouped /\ takenOut' = takenOut
    BY <1>3 DEF UpdateCompleteness
  <2>3. QED
    BY <2>1, <2>2 DEF FiledKeeps
<1>4. FiledKeeps(x)
  BY <1>1, <1>2, <1>3 DEF DossierStep
<1>5. NoNew({"group"})
  BY DossierTypes DEF NoNew
<1>6. QED
  BY <1>4, <1>5, FilesFrame, FiledQuiet DEF FiledFrame, FiledKeeps

LEMMA FiledStep == Types /\ FiledInv /\ [Next]_vars => FiledInv'
<1> SUFFICES ASSUME Types, FiledInv, [Next]_vars PROVE FiledInv'
  OBVIOUS
<1>1. CASE UNCHANGED vars
  BY <1>1 DEF vars, history, FiledInv, GroupedAreFiled, Filed
<1>2. QED
  BY <1>1, FiledHandler, FiledDossier, Cases

LEMMA FiledInit == Init => FiledInv
BY DEF Init, FiledInv, GroupedAreFiled, NoReq

\* A document that was grouped is in some dossier until it is taken out of
\* one, whatever other groupings read and created meanwhile
\* (DossierService.group_correlated_documents).
THEOREM FiledCorrect == Spec => []GroupedAreFiled
<1>1. Types /\ FiledInv /\ [Next]_vars => Types' /\ FiledInv'
  BY StepTypes, FiledStep
<1>2. FiledInv => GroupedAreFiled
  BY DEF FiledInv
<1>3. QED
  BY <1>1, <1>2, InitTypes, FiledInit, PTL DEF Spec

---------------------------------------------------------------------------
(* Connected sets of documents *)

\* A part that some but not all of docs are in.
Splits(part, docs) == part \cap docs # {} /\ ~(docs \subseteq part)

\* Connected, with the links named: for steps that add links.
ConnectedBy(docs, links) ==
  \A part \in SUBSET Docs :
    Splits(part, docs) => \E link \in links : Splits(part, link)

LEMMA ConnectedIs == \A docs : Connected(docs) <=> ConnectedBy(docs, Links)
BY DEF Connected, ConnectedBy, Splits

LEMMA ConnectedLater ==
  ASSUME NEW docs, NEW links, NEW more, links \subseteq more, ConnectedBy(docs, links)
  PROVE  ConnectedBy(docs, more)
BY DEF ConnectedBy

LEMMA ConnectedPart ==
  ASSUME NEW a, NEW b, b \subseteq a, NEW links, ConnectedBy(a, links)
  PROVE  ConnectedBy(b, links)
<1>1. ASSUME NEW part \in SUBSET Docs, Splits(part, b) PROVE Splits(part, a)
  BY <1>1 DEF Splits
<1>2. QED
  BY <1>1 DEF ConnectedBy

\* Two connected sets with a document in common.
LEMMA ConnectedUnion ==
  ASSUME NEW a, NEW b, NEW e \in a \cap b, NEW links,
         ConnectedBy(a, links), ConnectedBy(b, links)
  PROVE  ConnectedBy(a \cup b, links)
<1>1. ASSUME NEW part \in SUBSET Docs, Splits(part, a \cup b)
      PROVE  Splits(part, a) \/ Splits(part, b)
  BY <1>1 DEF Splits
<1>2. QED
  BY <1>1 DEF ConnectedBy

\* A document and its neighbours.
LEMMA ConnectedStar ==
  ASSUME Types, NEW d \in Docs
  PROVE  ConnectedBy(Related(d), Links)
<1>1. ASSUME NEW part \in SUBSET Docs, Splits(part, Related(d))
      PROVE  \E link \in Links : Splits(part, link)
  <2>1. PICK p \in part : p \in Related(d)
    BY <1>1 DEF Splits
  <2>2. PICK q \in Related(d) : q \notin part
    BY <1>1 DEF Splits
  <2>3. PICK c \in Stored : d \in corr[c].ends /\ p \in corr[c].ends
    BY <2>1 DEF Related
  <2>4. PICK k \in Stored : d \in corr[k].ends /\ q \in corr[k].ends
    BY <2>2 DEF Related
  <2>5. corr[c].ends \in Links /\ corr[k].ends \in Links
    BY DEF Links, Stored
  <2>6. CASE d \in part
    BY <2>2, <2>4, <2>5, <2>6 DEF Splits
  <2>7. CASE d \notin part
    BY <2>1, <2>3, <2>5, <2>7 DEF Splits
  <2>8. QED
    BY <2>6, <2>7
<1>2. QED
  BY <1>1 DEF ConnectedBy

\* No link is ever lost.
LEMMA LinksKept ==
  ASSUME \A c \in Correlations : corr[c].state # "unused" =>
           corr'[c].state # "unused" /\ corr'[c].ends = corr[c].ends
  PROVE  Links \subseteq Links'
BY DEF Links

LEMMA LinksGrow ==
  ASSUME Types, NEW h \in Handlers, HandlerStep(h)
  PROVE  Links \subseteq Links'
<1>1. CASE corr' = corr
  BY <1>1 DEF Links
<1>2. ASSUME NEW batch \in Batches, Store(h, batch) PROVE Links \subseteq Links'
  <2>1. /\ \A c \in Correlations \ DOMAIN batch : corr'[c] = corr[c]
        /\ \A c \in DOMAIN batch : corr[c] = NoCorr
    BY <1>2, StoreCorr
  <2>2. ASSUME NEW c \in Correlations, corr[c].state # "unused"
        PROVE  corr'[c] = corr[c]
    BY <2>1, <2>2 DEF NoCorr
  <2>3. QED
    BY <2>2, LinksKept
<1>3. ASSUME Tell(h) PROVE Links \subseteq Links'
  <2>1. PICK c \in req[h].conflicts : corr' = [corr EXCEPT ![c].item = TRUE]
    BY <1>3 DEF Tell
  <2>2. c \in Correlations
    BY <1>3 DEF Tell, Types, Shaped
  <2>3. /\ \A k \in Correlations \ {c} : corr'[k] = corr[k]
        /\ corr'[c].state = corr[c].state /\ corr'[c].ends = corr[c].ends
    BY <2>1, <2>2, TellCorr
  <2>4. QED
    BY <2>3, LinksKept
<1>4. ASSUME ForgetCommit(h) PROVE Links \subseteq Links'
  BY <1>4, ForgetCorr, LinksKept
<1>5. ASSUME NEW x \in Ids, NEW i \in Items,
             AddMissing(h, x, i) \/ RemoveMissing(h, x, i)
      PROVE  corr' = corr
  BY <1>5 DEF AddMissing, RemoveMissing, ItemsRead
<1>6. ASSUME TellFails(h) \/ GroupLook(h) \/ Refused(h) PROVE corr' = corr
  BY <1>6 DEF TellFails, GroupLook, Refused
<1>7. ASSUME GroupCommit(h) \/ AddCommit(h) \/ RemoveCommit(h) \/ ItemsCommit(h)
      PROVE  corr' = corr
  BY <1>7, GroupCommitFiles, AddCommitFiles, RemoveCommitFiles, ItemsCommitFiles
<1>8. ASSUME NEW x \in Ids, NEW d \in Docs, AddRead(h, x, d) \/ RemoveRead(h, x, d)
      PROVE  corr' = corr
  BY <1>8 DEF AddRead, RemoveRead
<1>9. ASSUME NEW d \in Docs, ForgetRead(h, d) \/ GroupCorrelations(h, d)
      PROVE  corr' = corr
  BY <1>9 DEF ForgetRead, GroupCorrelations
<1>10. QED
  BY <1>1, <1>2, <1>3, <1>4, <1>5, <1>6, <1>7, <1>8, <1>9 DEF HandlerStep

---------------------------------------------------------------------------
(* Dossiers that groupings filled are connected. *)

\* Groupings on their way into dossier x, and the documents it holds with
\* those they are about to add.
Into(x) == {h \in Handlers : req[h].op = "group" /\ req[h].x = x}
Pool(x) == dossier[x].docs \cup UNION {req[h].docs : h \in Into(x)}

PoolsConnected == \A x \in Ids \ touched : ConnectedBy(Pool(x), Links)

RelatedConnected ==
  \A h \in Handlers : req[h].op \in {"look", "group"} =>
    ConnectedBy(req[h].related, Links)

\* A dossier that was never created holds nothing, and nothing is on its way.
UnusedEmpty ==
  \A x \in Ids : dossier[x].status = "none" => dossier[x].docs = {} /\ Into(x) = {}

ConnInv == PoolsConnected /\ RelatedConnected /\ UnusedEmpty

\* A step that adds no documents to an untouched dossier, no request that
\* groups, and no dossier.
ConnFrame ==
  /\ Links \subseteq Links' /\ touched \subseteq touched'
  /\ NoNew({"look", "group"})
  /\ \A x \in Ids \ touched' : dossier'[x].docs \subseteq dossier[x].docs
  /\ \A x \in Ids : dossier'[x].status = "none" => dossier'[x] = dossier[x]

LEMMA IntoKept ==
  ASSUME NoNew({"look", "group"}), NEW x
  PROVE  /\ Into(x)' \subseteq Into(x)
         /\ \A h \in Into(x)' : req'[h].docs = req[h].docs
BY DEF Into, NoNew

LEMMA ConnQuiet ==
  ASSUME ConnInv, ConnFrame
  PROVE  ConnInv'
<1>1. PoolsConnected'
  <2> SUFFICES ASSUME NEW x \in Ids \ touched'
               PROVE  ConnectedBy(Pool(x)', Links')
    BY DEF PoolsConnected
  <2>1. NoNew({"look", "group"})
    BY DEF ConnFrame
  <2>2. Pool(x)' \subseteq Pool(x)
    BY <2>1, IntoKept DEF ConnFrame, Pool
  <2>3. ConnectedBy(Pool(x), Links)
    BY DEF ConnInv, PoolsConnected, ConnFrame
  <2>4. ConnectedBy(Pool(x)', Links)
    BY <2>2, <2>3, ConnectedPart
  <2>5. QED
    BY <2>4, ConnectedLater DEF ConnFrame
<1>2. RelatedConnected'
  <2> SUFFICES ASSUME NEW h \in Handlers, req'[h].op \in {"look", "group"}
               PROVE  ConnectedBy(req'[h].related, Links')
    BY DEF RelatedConnected
  <2>1. req'[h] = req[h]
    BY DEF ConnFrame, NoNew
  <2>2. ConnectedBy(req'[h].related, Links)
    BY <2>1 DEF ConnInv, RelatedConnected
  <2>3. QED
    BY <2>2, ConnectedLater DEF ConnFrame
<1>3. UnusedEmpty'
  <2> SUFFICES ASSUME NEW x \in Ids, dossier'[x].status = "none"
               PROVE  dossier'[x].docs = {} /\ Into(x)' = {}
    BY DEF UnusedEmpty
  <2>1. dossier'[x] = dossier[x]
    BY DEF ConnFrame
  <2>2. dossier[x].docs = {} /\ Into(x) = {}
    BY <2>1 DEF ConnInv, UnusedEmpty
  <2>3. QED
    BY <2>1, <2>2, IntoKept DEF ConnFrame
<1>4. QED
  BY <1>1, <1>2, <1>3 DEF ConnInv

LEMMA ConnLook ==
  ASSUME Types, ConnInv, NEW h \in Handlers, NEW d \in Docs, GroupCorrelations(h, d)
  PROVE  ConnInv'
<1>1. /\ Requests(h) /\ req[h] = NoReq
      /\ req'[h].op = "look" /\ req'[h].related = Related(d)
  BY LookRequests
<1>2. UNCHANGED <<corr, dossier, touched>>
  BY DEF GroupCorrelations, history
<1>3. Links' = Links
  BY <1>2 DEF Links
<1>4. \A x \in Ids : Into(x)' = Into(x) /\ \A g \in Into(x) : req'[g].docs = req[g].docs
  BY <1>1 DEF Into, Requests, NoReq
<1>5. \A x \in Ids : Pool(x)' = Pool(x)
  BY <1>2, <1>4 DEF Pool
<1>6. PoolsConnected'
  BY <1>2, <1>3, <1>5 DEF ConnInv, PoolsConnected
<1>7. RelatedConnected'
  <2> SUFFICES ASSUME NEW g \in Handlers, req'[g].op \in {"look", "group"}
               PROVE  ConnectedBy(req'[g].related, Links')
    BY DEF RelatedConnected
  <2>1. CASE g = h
    BY <1>1, <1>3, <2>1, ConnectedStar
  <2>2. CASE g # h
    BY <1>1, <1>3, <2>2 DEF ConnInv, RelatedConnected, Requests
  <2>3. QED
    BY <2>1, <2>2
<1>8. UnusedEmpty'
  BY <1>2, <1>4 DEF ConnInv, UnusedEmpty
<1>9. QED
  BY <1>6, <1>7, <1>8 DEF ConnInv

LEMMA ConnGroupLook ==
  ASSUME Types, ConnInv, NEW h \in Handlers, GroupLook(h)
  PROVE  ConnInv'
<1>1. /\ Requests(h) /\ req[h].op = "look"
      /\ req'[h].op = "group" /\ req'[h].related = req[h].related
      /\ \/ req'[h].x = None
         \/ /\ req'[h].x \in Chosen(req[h].related)
            /\ req'[h].docs = {d \in req[h].related : FiledIn(d) = {}}
  BY GroupRequests
<1>2. UNCHANGED <<corr, dossier, touched>>
  BY DEF GroupLook, history
<1>3. Links' = Links
  BY <1>2 DEF Links
<1>4. ASSUME NEW x \in Ids, x # req'[h].x
      PROVE  Into(x)' = Into(x) /\ Pool(x)' = Pool(x)
  <2>1. Into(x)' = Into(x) /\ \A g \in Into(x) : req'[g].docs = req[g].docs
    BY <1>1, <1>4 DEF Into, Requests
  <2>2. QED
    BY <1>2, <2>1 DEF Pool
<1>5. ASSUME NEW x \in Ids, x = req'[h].x
      PROVE  /\ dossier[x].docs \cap req[h].related # {}
             /\ Pool(x)' \subseteq Pool(x) \cup req[h].related
  <2>1. x \in Chosen(req[h].related) /\ req'[h].docs \subseteq req[h].related
    BY <1>1, <1>5
  <2>2. \A g \in Into(x)' : g = h \/ (g \in Into(x) /\ req'[g].docs = req[g].docs)
    BY <1>1 DEF Into, Requests
  <2>3. dossier[x].docs \cap req[h].related # {}
    BY <2>1 DEF Chosen, FiledIn
  <2>4. Pool(x)' \subseteq Pool(x) \cup req[h].related
    BY <1>2, <2>1, <2>2 DEF Pool
  <2>5. QED
    BY <2>3, <2>4
<1>6. ConnectedBy(req[h].related, Links)
  BY <1>1 DEF ConnInv, RelatedConnected
<1>7. PoolsConnected'
  <2> SUFFICES ASSUME NEW x \in Ids \ touched'
               PROVE  ConnectedBy(Pool(x)', Links')
    BY DEF PoolsConnected
  <2>1. ConnectedBy(Pool(x), Links)
    BY <1>2 DEF ConnInv, PoolsConnected
  <2>2. CASE x # req'[h].x
    BY <1>3, <1>4, <2>1, <2>2
  <2>3. CASE x = req'[h].x
    <3>1. PICK e \in dossier[x].docs : e \in req[h].related
      BY <1>5, <2>3
    <3>2. e \in Pool(x) \cap req[h].related
      BY <3>1 DEF Pool
    <3>3. ConnectedBy(Pool(x) \cup req[h].related, Links)
      BY <1>6, <2>1, <3>2, ConnectedUnion
    <3>4. Pool(x)' \subseteq Pool(x) \cup req[h].related
      BY <1>5, <2>3
    <3>5. QED
      BY <1>3, <3>3, <3>4, ConnectedPart
  <2>4. QED
    BY <2>2, <2>3
<1>8. RelatedConnected'
  <2> SUFFICES ASSUME NEW g \in Handlers, req'[g].op \in {"look", "group"}
               PROVE  ConnectedBy(req'[g].related, Links')
    BY DEF RelatedConnected
  <2>1. CASE g = h
    BY <1>1, <1>3, <1>6, <2>1
  <2>2. CASE g # h
    BY <1>1, <1>3, <2>2 DEF ConnInv, RelatedConnected, Requests
  <2>3. QED
    BY <2>1, <2>2
<1>9. UnusedEmpty'
  <2> SUFFICES ASSUME NEW x \in Ids, dossier'[x].status = "none"
               PROVE  dossier'[x].docs = {} /\ Into(x)' = {}
    BY DEF UnusedEmpty
  <2>1. dossier[x].docs = {} /\ Into(x) = {}
    BY <1>2 DEF ConnInv, UnusedEmpty
  <2>2. x # req'[h].x
    BY <1>5, <2>1
  <2>3. QED
    BY <1>2, <1>4, <2>1, <2>2
<1>10. QED
  BY <1>7, <1>8, <1>9 DEF ConnInv

LEMMA ConnGroupCommit ==
  ASSUME Types, ConnInv, NEW h \in Handlers, GroupCommit(h)
  PROVE  ConnInv'
<1>1. /\ Requests(h) /\ req[h].op = "group" /\ req'[h] = NoReq /\ corr' = corr
  BY GroupCommitFiles
<1>2. PICK x \in Ids :
        /\ \/ req[h].x = None /\ dossier[x] = NoFile
              /\ RowIs(x, "incomplete", req[h].docs, {})
           \/ req[h].x = x /\ Exists(x)
              /\ RowIs(x, dossier[x].status, dossier[x].docs \cup req[h].docs,
                       dossier[x].missing)
        /\ Others(x)
  BY GroupCommitFiles
<1>3. Links' = Links
  BY <1>1 DEF Links
<1>4. touched' = touched
  BY DEF GroupCommit
<1>5. NoNew({"look", "group"})
  BY <1>1, NoNewRequest DEF NoReq
<1>6. h \notin Into(x)' /\ \A y \in Ids : Into(y)' \subseteq Into(y)
  BY <1>1, <1>5, IntoKept DEF Into, NoReq
<1>7. Pool(x)' \subseteq Pool(x) \/ Pool(x)' \subseteq req[h].related
  <2>1. req[h].docs \subseteq req[h].related
    BY <1>1 DEF Types, Shaped
  <2>2. CASE req[h].x = None /\ dossier[x] = NoFile
    <3>1. Into(x) = {}
      BY <2>2 DEF ConnInv, UnusedEmpty, NoFile
    <3>2. dossier'[x].docs = req[h].docs
      BY <1>2, <2>2 DEF RowIs, NoFile
    <3>3. Pool(x)' = req[h].docs
      BY <1>6, <3>1, <3>2 DEF Pool
    <3>4. QED
      BY <2>1, <3>3
  <2>3. CASE req[h].x = x /\ Exists(x)
    <3>1. h \in Into(x) /\ req[h].docs \subseteq Pool(x)
      BY <1>1, <2>3 DEF Into, Pool
    <3>2. dossier'[x].docs = dossier[x].docs \cup req[h].docs
      BY <1>2, <2>3 DEF RowIs, NoFile
    <3>3. Pool(x)' \subseteq Pool(x)
      BY <1>5, <1>6, <3>1, <3>2, IntoKept DEF Pool
    <3>4. QED
      BY <3>3
  <2>4. QED
    BY <1>2, <2>2, <2>3
<1>8. PoolsConnected'
  <2> SUFFICES ASSUME NEW y \in Ids \ touched'
               PROVE  ConnectedBy(Pool(y)', Links')
    BY DEF PoolsConnected
  <2>1. /\ ConnectedBy(Pool(y), Links)
        /\ ConnectedBy(req[h].related, Links)
    BY <1>1, <1>4 DEF ConnInv, PoolsConnected, RelatedConnected
  <2>2. CASE y = x
    BY <1>3, <1>7, <2>1, <2>2, ConnectedPart
  <2>3. CASE y # x
    <3>1. Pool(y)' \subseteq Pool(y)
      BY <1>2, <1>5, <2>3, IntoKept DEF Pool, Others
    <3>2. QED
      BY <1>3, <2>1, <3>1, ConnectedPart
  <2>4. QED
    BY <2>2, <2>3
<1>9. RelatedConnected'
  BY <1>3, <1>5 DEF ConnInv, RelatedConnected, NoNew
<1>10. UnusedEmpty'
  <2> SUFFICES ASSUME NEW y \in Ids, dossier'[y].status = "none"
               PROVE  dossier'[y].docs = {} /\ Into(y)' = {}
    BY DEF UnusedEmpty
  <2>1. y # x
    BY <1>2 DEF RowIs, Exists
  <2>2. dossier'[y] = dossier[y]
    BY <1>2, <2>1 DEF Others
  <2>3. QED
    BY <1>6, <2>2 DEF ConnInv, UnusedEmpty
<1>11. QED
  BY <1>8, <1>9, <1>10 DEF ConnInv

\* A step that writes row x.
LEMMA ConnRow ==
  ASSUME ConnInv, NEW x \in Ids, Others(x), Links \subseteq Links',
         touched \subseteq touched', NoNew({"look", "group"}),
         x \in touched' \/ dossier'[x].docs \subseteq dossier[x].docs,
         dossier'[x].status # "none"
  PROVE  ConnInv'
<1>1. \A y \in Ids \ touched' : dossier'[y].docs \subseteq dossier[y].docs
  BY DEF Others
<1>2. \A y \in Ids : dossier'[y].status = "none" => dossier'[y] = dossier[y]
  BY DEF Others
<1>3. QED
  BY <1>1, <1>2, ConnQuiet DEF ConnFrame

LEMMA ConnHandler ==
  ASSUME Types, ConnInv, NEW h \in Handlers, HandlerStep(h)
  PROVE  ConnInv'
<1>1. Links \subseteq Links'
  BY LinksGrow
<1>2. ASSUME Idle PROVE ConnInv'
  <2>1. ConnFrame
    BY <1>1, <1>2 DEF Idle, ConnFrame
  <2>2. QED
    BY <2>1, ConnQuiet
<1>3. ASSUME Requests(h), req'[h] = NoReq PROVE NoNew({"look", "group"})
  BY <1>3, NoNewRequest DEF NoReq
<1>4. ASSUME AddCommit(h) PROVE ConnInv'
  <2> DEFINE x == req[h].x
  <2>1. /\ Requests(h) /\ req'[h] = NoReq /\ x \in Ids /\ Others(x)
        /\ dossier'[x].status = dossier[x].status
    BY <1>4, AddCommitFiles DEF RowIs
  <2>2. touched' = touched \cup {x} /\ Exists(x)
    BY <1>4 DEF AddCommit
  <2> HIDE DEF x
  <2>3. dossier'[x].status # "none"
    BY <2>1, <2>2 DEF Exists
  <2>4. QED
    BY <1>1, <1>3, <2>1, <2>2, <2>3, ConnRow
<1>5. ASSUME RemoveCommit(h) PROVE ConnInv'
  <2> DEFINE x == req[h].x
             d == req[h].doc
  <2>1. /\ Requests(h) /\ req'[h] = NoReq /\ x \in Ids /\ Others(x)
        /\ dossier'[x].status = dossier[x].status
        /\ dossier'[x].docs = dossier[x].docs \ {d}
    BY <1>5, RemoveCommitFiles DEF RowIs
  <2>2. touched' = touched /\ Exists(x)
    BY <1>5 DEF RemoveCommit
  <2> HIDE DEF x, d
  <2>3. dossier'[x].status # "none" /\ dossier'[x].docs \subseteq dossier[x].docs
    BY <2>1, <2>2 DEF Exists
  <2>4. QED
    BY <1>1, <1>3, <2>1, <2>2, <2>3, ConnRow
<1>6. ASSUME ItemsCommit(h) PROVE ConnInv'
  <2> DEFINE x == req[h].x
  <2>1. /\ Requests(h) /\ req'[h] = NoReq /\ x \in Ids /\ Others(x)
        /\ dossier'[x].docs = dossier[x].docs
        /\ dossier'[x].status = dossier[x].status \/ dossier'[x].status = req[h].status
    BY <1>6, ItemsCommitFiles DEF RowIs
  <2>2. touched' = touched /\ Exists(x)
    BY <1>6 DEF ItemsCommit
  <2>3. req[h].status # "none"
    BY <1>6 DEF ItemsCommit, Types, Shaped
  <2> HIDE DEF x
  <2>4. dossier'[x].status # "none"
    BY <2>1, <2>2, <2>3 DEF Exists
  <2>5. QED
    BY <1>1, <1>3, <2>1, <2>2, <2>4, ConnRow
<1>7. QED
  BY <1>2, <1>4, <1>5, <1>6, IdleSteps, ConnLook, ConnGroupLook, ConnGroupCommit

LEMMA ConnDossier ==
  ASSUME Types, ConnInv, NEW x \in Ids, DossierStep(x)
  PROVE  ConnInv'
<1>1. NoNew({"look", "group"}) /\ corr' = corr
  BY DossierTypes DEF NoNew
<1>2. Links' = Links
  BY <1>1 DEF Links
<1>3. ASSUME DeleteDossier(x) PROVE ConnInv'
  <2>1. Others(x) /\ dossier'[x].status = "deleted" /\ dossier'[x].docs = {}
    BY <1>3, FilesAfterDelete DEF RowIs
  <2>2. touched' = touched
    BY <1>3 DEF DeleteDossier
  <2>3. QED
    BY <1>1, <1>2, <2>1, <2>2, ConnRow
<1>4. ASSUME NEW docs \in SUBSET Docs, CreateDossier(x, docs) PROVE ConnInv'
  <2>1. Others(x) /\ dossier'[x].status = "incomplete"
    BY <1>4, FilesAfterNew DEF CreateDossier, RowIs
  <2>2. touched' = touched \cup {x}
    BY <1>4 DEF CreateDossier
  <2>3. QED
    BY <1>1, <1>2, <2>1, <2>2, ConnRow
<1>5. ASSUME NEW status \in {"complete", "incomplete"},
             NEW missing \in (SUBSET Items) \cup {None},
             UpdateCompleteness(x, status, missing)
      PROVE  ConnInv'
  <2>1. Others(x) /\ dossier'[x].docs = dossier[x].docs /\ dossier'[x].status = status
    BY <1>5, UpdateFiles
  <2>2. touched' = touched
    BY <1>5 DEF UpdateCompleteness
  <2>3. QED
    BY <1>1, <1>2, <2>1, <2>2, ConnRow
<1>6. QED
  BY <1>3, <1>4, <1>5 DEF DossierStep

LEMMA ConnStep == Types /\ ConnInv /\ [Next]_vars => ConnInv'
<1> SUFFICES ASSUME Types, ConnInv, [Next]_vars PROVE ConnInv'
  OBVIOUS
<1>1. CASE UNCHANGED vars
  <2>1. ConnFrame
    BY <1>1 DEF vars, history, ConnFrame, Links, NoNew
  <2>2. QED
    BY <2>1, ConnQuiet
<1>2. QED
  BY <1>1, ConnHandler, ConnDossier, Cases

LEMMA ConnInit == Init => ConnInv
<1> SUFFICES ASSUME Init PROVE ConnInv
  OBVIOUS
<1>1. \A x \in Ids : dossier[x].docs = {} /\ Into(x) = {} /\ Pool(x) = {}
  BY DEF Init, NoFile, Into, NoReq, Pool
<1>2. ConnectedBy({}, Links)
  BY DEF ConnectedBy, Splits
<1>3. QED
  BY <1>1, <1>2 DEF Init, NoReq, ConnInv, PoolsConnected, RelatedConnected, UnusedEmpty

\* A dossier that only groupings filled holds documents that correlations
\* connect, however groupings, removals and deletions overlapped
\* (DossierService.group_correlated_documents).
THEOREM ConnectedCorrect == Spec => []GroupsAreConnected
<1>1. Types /\ ConnInv /\ [Next]_vars => Types' /\ ConnInv'
  BY StepTypes, ConnStep
<1>2. ConnInv => GroupsAreConnected
  <2> SUFFICES ASSUME ConnInv, NEW x \in Ids \ touched
               PROVE  Connected(dossier[x].docs)
    BY DEF GroupsAreConnected
  <2>1. ConnectedBy(Pool(x), Links) /\ dossier[x].docs \subseteq Pool(x)
    BY DEF ConnInv, PoolsConnected, Pool
  <2>2. QED
    BY <2>1, ConnectedPart, ConnectedIs
<1>3. QED
  BY <1>1, <1>2, InitTypes, ConnInit, PTL DEF Spec

---------------------------------------------------------------------------
(* A complete dossier lacks nothing. *)

\* What a request will write keeps the property, if the row is as it was read.
CompleteInv ==
  /\ CompleteLacksNothing
  /\ \A h \in Handlers : req[h].op = "items" =>
       /\ req[h].status = "complete" /\ req[h].x \notin unsure =>
            req[h].missing = {}
       /\ ~req[h].list => req[h].missing = req[h].seen.missing

LEMMA CompleteQuiet ==
  ASSUME CompleteInv, NoNew({"items"}), unsure \subseteq unsure', CompleteLacksNothing'
  PROVE  CompleteInv'
BY DEF CompleteInv, NoNew

\* Each row's status and list are as they were, or its row satisfies the property.
LEMMA CompleteRow ==
  ASSUME CompleteInv, NEW x \in Ids, Others(x), NoNew({"items"}),
         unsure \subseteq unsure',
         \/ x \in unsure'
         \/ dossier'[x].status # "complete"
         \/ dossier'[x].missing = {}
         \/ /\ dossier'[x].status = dossier[x].status
            /\ dossier'[x].missing = dossier[x].missing
  PROVE  CompleteInv'
<1>1. CompleteLacksNothing'
  <2> SUFFICES ASSUME NEW y \in Ids \ unsure', dossier'[y].status = "complete"
               PROVE  dossier'[y].missing = {}
    BY DEF CompleteLacksNothing
  <2>1. dossier[y].status = "complete" => dossier[y].missing = {}
    BY DEF CompleteInv, CompleteLacksNothing
  <2>2. CASE y # x
    BY <2>1, <2>2 DEF Others
  <2>3. CASE y = x
    BY <2>1, <2>3
  <2>4. QED
    BY <2>2, <2>3
<1>2. QED
  BY <1>1, CompleteQuiet

LEMMA CompleteStill ==
  ASSUME CompleteInv, NoNew({"items"}), UNCHANGED <<dossier, unsure>>
  PROVE  CompleteInv'
<1>1. CompleteLacksNothing'
  BY DEF CompleteInv, CompleteLacksNothing
<1>2. QED
  BY <1>1, CompleteQuiet

LEMMA CompleteRead ==
  ASSUME Types, CompleteInv, NEW h \in Handlers, NEW x \in Ids, NEW i \in Items,
         AddMissing(h, x, i) \/ RemoveMissing(h, x, i)
  PROVE  CompleteInv'
<1>1. /\ Requests(h) /\ req[h] = NoReq
      /\ req'[h].op = "items" /\ req'[h].x = x /\ req'[h].seen = dossier[x]
      /\ req'[h].status = "complete" =>
           req'[h].missing = {} \/ dossier[x].status = "complete"
      /\ req'[h].status = "complete" => req'[h].missing \subseteq dossier[x].missing
      /\ ~req'[h].list => req'[h].missing = dossier[x].missing
  BY ItemsRequests
<1>2. UNCHANGED <<dossier, unsure>>
  BY DEF AddMissing, RemoveMissing, ItemsRead, history
<1>3. CompleteLacksNothing /\ CompleteLacksNothing'
  BY <1>2 DEF CompleteInv, CompleteLacksNothing
<1>4. ASSUME NEW g \in Handlers, req'[g].op = "items"
      PROVE  /\ req'[g].status = "complete" /\ req'[g].x \notin unsure' =>
                  req'[g].missing = {}
             /\ ~req'[g].list => req'[g].missing = req'[g].seen.missing
  <2>1. CASE g = h
    <3>1. ASSUME req'[h].status = "complete", x \notin unsure
          PROVE  req'[h].missing = {}
      <4>1. dossier[x].status = "complete" => dossier[x].missing = {}
        BY <1>3, <3>1 DEF CompleteLacksNothing
      <4>2. QED
        BY <1>1, <3>1, <4>1
    <3>2. QED
      BY <1>1, <1>2, <2>1, <3>1
  <2>2. CASE g # h
    <3>1. req'[g] = req[g]
      BY <1>1, <2>2 DEF Requests
    <3>2. QED
      BY <1>2, <1>4, <3>1 DEF CompleteInv
  <2>3. QED
    BY <2>1, <2>2
<1>5. QED
  BY <1>3, <1>4 DEF CompleteInv

LEMMA CompleteCommit ==
  ASSUME Types, CompleteInv, NEW h \in Handlers, ItemsCommit(h)
  PROVE  CompleteInv'
<1> DEFINE x == req[h].x
           same == /\ dossier[x].status = req[h].seen.status
                   /\ dossier[x].missing = req[h].seen.missing
<1>1. /\ Requests(h) /\ req[h].op = "items" /\ req'[h] = NoReq
      /\ x \in Ids /\ Others(x)
      /\ dossier'[x].status = IF req[h].status = req[h].seen.status
                              THEN dossier[x].status ELSE req[h].status
      /\ dossier'[x].missing = IF req[h].list THEN req[h].missing
                               ELSE dossier[x].missing
  BY ItemsCommitFiles DEF RowIs
<1>2. unsure' = IF same THEN unsure ELSE unsure \cup {x}
  BY DEF ItemsCommit
<1>3. NoNew({"items"})
  BY <1>1, NoNewRequest DEF NoReq
<1>4. /\ req[h].status = "complete" /\ x \notin unsure => req[h].missing = {}
      /\ ~req[h].list => req[h].missing = req[h].seen.missing
  BY <1>1 DEF CompleteInv
<1>5. ASSUME x \notin unsure', dossier'[x].status = "complete"
      PROVE  dossier'[x].missing = {}
  <2>1. same /\ x \notin unsure
    BY <1>2, <1>5
  <2>2. req[h].status = "complete"
    BY <1>1, <1>5, <2>1
  <2>3. req[h].missing = {}
    BY <1>4, <2>1, <2>2
  <2>4. CASE req[h].list
    BY <1>1, <2>3, <2>4
  <2>5. CASE ~req[h].list
    BY <1>1, <1>4, <2>1, <2>3, <2>5
  <2>6. QED
    BY <2>4, <2>5
<1>6. unsure \subseteq unsure'
  BY <1>2
<1> HIDE DEF x, same
<1>7. QED
  BY <1>1, <1>3, <1>5, <1>6, CompleteRow

LEMMA CompleteHandler ==
  ASSUME Types, CompleteInv, NEW h \in Handlers, HandlerStep(h)
  PROVE  CompleteInv'
<1> DEFINE Alone == /\ Requests(h) /\ req'[h].op # "items"
                    /\ dossier' = dossier /\ unsure' = unsure
<1>1. ASSUME Alone PROVE CompleteInv'
  <2>1. NoNew({"items"})
    BY <1>1, NoNewRequest
  <2>2. QED
    BY <1>1, <2>1, CompleteStill
<1>2. ASSUME NEW batch \in Batches, Store(h, batch) PROVE Alone
  <2>1. /\ Requests(h)
        /\ \/ req'[h] = NoReq
           \/ req'[h] = [op |-> "tell", conflicts |-> Conflicts(batch)]
    BY <1>2, StoreRequests, Zenon
  <2>2. req'[h].op \in {"none", "tell"}
    BY <2>1 DEF NoReq
  <2>3. QED
    BY <1>2, <2>1, <2>2 DEF Store, history
<1>3. ASSUME NEW d \in Docs, ForgetRead(h, d) PROVE Alone
  BY <1>3, ForgetRequests DEF ForgetRead, history
<1>4. ASSUME NEW d \in Docs, GroupCorrelations(h, d) PROVE Alone
  BY <1>4, LookRequests DEF GroupCorrelations, history
<1>5. ASSUME NEW x \in Ids, NEW d \in Docs, AddRead(h, x, d) \/ RemoveRead(h, x, d)
      PROVE  Alone
  BY <1>5, DocRequests DEF AddRead, RemoveRead, history
<1>6. ASSUME Tell(h) PROVE Alone
  <2>1. PICK c \in req[h].conflicts :
          req' = [req EXCEPT ![h] =
            IF @.conflicts = {c} THEN NoReq
            ELSE [op |-> "tell", conflicts |-> req[h].conflicts \ {c}]]
    BY <1>6 DEF Tell
  <2>2. req[h].op = "tell" /\ dossier' = dossier /\ unsure' = unsure
    BY <1>6 DEF Tell, history
  <2>3. /\ Requests(h)
        /\ req'[h] = IF req[h].conflicts = {c} THEN NoReq
                     ELSE [op |-> "tell", conflicts |-> req[h].conflicts \ {c}]
    BY <2>1, <2>2, TellRequests
  <2>4. QED
    BY <2>2, <2>3 DEF NoReq
<1>7. ASSUME TellFails(h) \/ ForgetCommit(h) \/ Refused(h) PROVE Alone
  BY <1>7, AfterEnd DEF TellFails, ForgetCommit, Refused, NoReq, history
<1>8. ASSUME GroupLook(h) PROVE Alone
  BY <1>8, GroupRequests DEF GroupLook, history
<1>9. ASSUME GroupCommit(h) PROVE CompleteInv'
  <2>1. Requests(h) /\ req'[h] = NoReq
    BY <1>9, GroupCommitFiles
  <2>2. NoNew({"items"})
    BY <2>1, NoNewRequest DEF NoReq
  <2>3. PICK x \in Ids :
          /\ Others(x)
          /\ \/ dossier'[x].missing = {}
             \/ /\ dossier'[x].status = dossier[x].status
                /\ dossier'[x].missing = dossier[x].missing
    BY <1>9, GroupCommitFiles DEF RowIs
  <2>4. unsure' = unsure
    BY <1>9 DEF GroupCommit
  <2>5. QED
    BY <2>2, <2>3, <2>4, CompleteRow
<1>10. ASSUME AddCommit(h) \/ RemoveCommit(h) PROVE CompleteInv'
  <2> DEFINE x == req[h].x
  <2>1. /\ Requests(h) /\ req'[h] = NoReq /\ x \in Ids /\ Others(x)
        /\ dossier'[x].status = dossier[x].status
        /\ dossier'[x].missing = dossier[x].missing
    BY <1>10, AddCommitFiles, RemoveCommitFiles DEF RowIs
  <2>2. unsure' = unsure
    BY <1>10 DEF AddCommit, RemoveCommit
  <2>3. NoNew({"items"})
    BY <2>1, NoNewRequest DEF NoReq
  <2> HIDE DEF x
  <2>4. QED
    BY <2>1, <2>2, <2>3, CompleteRow
<1> HIDE DEF Alone
<1>11. QED
  BY <1>1, <1>2, <1>3, <1>4, <1>5, <1>6, <1>7, <1>8, <1>9, <1>10,
     CompleteRead, CompleteCommit DEF HandlerStep

LEMMA CompleteDossier ==
  ASSUME Types, CompleteInv, NEW x \in Ids, DossierStep(x)
  PROVE  CompleteInv'
<1>1. NoNew({"items"})
  BY DossierTypes DEF NoNew
<1>2. ASSUME DeleteDossier(x) PROVE CompleteInv'
  <2>1. Others(x) /\ dossier'[x].missing = {}
    BY <1>2, FilesAfterDelete DEF RowIs
  <2>2. unsure' = unsure
    BY <1>2 DEF DeleteDossier
  <2>3. QED
    BY <1>1, <2>1, <2>2, CompleteRow
<1>3. ASSUME NEW docs \in SUBSET Docs, CreateDossier(x, docs) PROVE CompleteInv'
  <2>1. Others(x) /\ dossier'[x].missing = {}
    BY <1>3, FilesAfterNew DEF CreateDossier, RowIs
  <2>2. unsure' = unsure
    BY <1>3 DEF CreateDossier
  <2>3. QED
    BY <1>1, <2>1, <2>2, CompleteRow
<1>4. ASSUME NEW status \in {"complete", "incomplete"},
             NEW missing \in (SUBSET Items) \cup {None},
             UpdateCompleteness(x, status, missing)
      PROVE  CompleteInv'
  <2>1. Others(x)
    BY <1>4, UpdateFiles
  <2>2. unsure' = unsure \cup {x}
    BY <1>4 DEF UpdateCompleteness
  <2>3. QED
    BY <1>1, <2>1, <2>2, CompleteRow
<1>5. QED
  BY <1>2, <1>3, <1>4 DEF DossierStep

LEMMA CompleteStep == Types /\ CompleteInv /\ [Next]_vars => CompleteInv'
<1> SUFFICES ASSUME Types, CompleteInv, [Next]_vars PROVE CompleteInv'
  OBVIOUS
<1>1. CASE UNCHANGED vars
  BY <1>1, CompleteStill DEF vars, history, NoNew
<1>2. QED
  BY <1>1, CompleteHandler, CompleteDossier, Cases

LEMMA CompleteInit == Init => CompleteInv
BY DEF Init, CompleteInv, CompleteLacksNothing, NoFile, NoReq

\* A dossier is called complete only while nothing is missing, unless a caller
\* set its status or two changes of its items overlapped
\* (DossierService.add_missing_item, remove_missing_item).
THEOREM CompleteCorrect == Spec => []CompleteLacksNothing
<1>1. Types /\ CompleteInv /\ [Next]_vars => Types' /\ CompleteInv'
  BY StepTypes, CompleteStep
<1>2. CompleteInv => CompleteLacksNothing
  BY DEF CompleteInv
<1>3. QED
  BY <1>1, <1>2, InitTypes, CompleteInit, PTL DEF Spec
===========================================================================
