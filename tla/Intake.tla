------------------------------- MODULE Intake -------------------------------
(***************************************************************************)
(* From an uploaded file to the user's inbox: the upload handler, the      *)
(* background task it starts (parse, classify, extract, write the row,     *)
(* triage, write the inbox item), and the requests that answer the item.   *)
(*                                                                         *)
(* The background task is an asyncio task of the server process: nothing   *)
(* records that it runs, and an exception ends it with a line in the log.  *)
(* An action is one stretch of a task between two awaits; the parser, the  *)
(* language model and the database answer in between, and a folder may be  *)
(* deleted with the documents in it.  Embeddings go to a store that lives  *)
(* as long as the task and are left out.                                   *)
(***************************************************************************)
EXTENDS Naturals, FiniteSets

CONSTANTS
  Docs,       \* document ids (a bound)
  Folders,    \* folder ids (a bound)
  Handlers,   \* concurrent requests on inbox items (a bound)
  Actions,    \* action ids the language model suggests
  Faults,     \* TRUE: the process may restart
  Garbage,    \* TRUE: the model's JSON may have values of the wrong type
  Root, None

ASSUME IntakeAssumption ==
  /\ {Root, None} \cap Folders = {} /\ Root # None
  /\ None \notin Docs \cup Actions /\ None # "dismiss"
  /\ Faults \in BOOLEAN /\ Garbage \in BOOLEAN
  /\ "dismiss" \notin Actions

VARIABLES
  files,    \* documents whose file is in the storage
  folders,  \* folders that exist
  row,      \* documents rows
  item,     \* agent_inbox rows, by the document they are about
  pc, loc,  \* each upload's control point and local variables
  req,      \* each inbox request: what it read and what it will write
  lost      \* history: uploads whose task an exception or a restart ended

vars == <<files, folders, row, item, pc, loc, req, lost>>
db   == <<files, folders, row, item>>

\* What the model may answer: "list" is a value Python cannot hash, "long"
\* one the column cannot hold, None a null; "odd" fields have a confidence
\* that is not a number.
Types  == {"named", "altro"} \cup IF Garbage THEN {"list", "long", None} ELSE {}
Fields == {"none", "sound"} \cup IF Garbage THEN {"odd"} ELSE {}

Row     == [state : {"unused", "live", "deleted"}, folder : Folders \cup {Root},
            status : {"pending", "parsed", "failed"}, type : Types \cup {None}]
Item    == [status : {"none", "pending", "acted", "dismissed"},
            type : Types \cup {None},
            offers : SUBSET (Actions \cup {"dismiss"}),
            chosen : Actions \cup {"dismiss", None}]
Running == {"queued", "parsed", "classified", "ended", "writing", "triage",
            "analysed"}
Local   == [folder : Folders \cup {Root},
            status : {"pending", "parsed", "failed"},
            type : Types \cup {None}, fields : Fields,
            offers : SUBSET (Actions \cup {"dismiss"})]
Request == [doc : Docs \cup {None}, seen : Item,
            act : Actions \cup {"dismiss", None}]

NoRow   == [state |-> "unused", folder |-> Root, status |-> "pending",
            type |-> None]
NoItem  == [status |-> "none", type |-> None, offers |-> {}, chosen |-> None]
NoLocal == [folder |-> Root, status |-> "pending", type |-> None,
            fields |-> "none", offers |-> {}]
NoReq   == [doc |-> None, seen |-> NoItem, act |-> None]

Live   == {d \in Docs : row[d].state = "live"}
Places == folders \cup {Root}

Init ==
  /\ files   = {}
  /\ folders = {}
  /\ row     = [d \in Docs |-> NoRow]
  /\ item    = [d \in Docs |-> NoItem]
  /\ pc      = [d \in Docs |-> "new"]
  /\ loc     = [d \in Docs |-> NoLocal]
  /\ req     = [h \in Handlers |-> NoReq]
  /\ lost    = {}

Goto(d, point) == pc' = [pc EXCEPT ![d] = point]

\* An exception: logged by the task, or the request answers 500.
Die(d) ==
  /\ Goto(d, "over")
  /\ loc'  = [loc EXCEPT ![d] = NoLocal]
  /\ lost' = lost \cup {d}

---------------------------------------------------------------------------
(* The upload request *)

\* Mutant of Save: the storage's error is not answered with 503.
SaveUnstored(d, place) ==
  /\ pc[d] = "new"
  /\ place \in Places
  /\ files' \in {files, files \cup {d}}
  /\ Goto(d, "saved")
  /\ loc' = [loc EXCEPT ![d] = [NoLocal EXCEPT !.folder = place]]
  /\ UNCHANGED <<folders, row, item, req, lost>>

\* The checks, and the file goes to the storage, which makes the id.  A
\* storage that fails leaves nothing.
Save(d, place) ==
  /\ pc[d] = "new"
  /\ place \in Places
  /\ files' = files \cup {d}
  /\ Goto(d, "saved")
  /\ loc' = [loc EXCEPT ![d] = [NoLocal EXCEPT !.folder = place]]
  /\ UNCHANGED <<folders, row, item, req, lost>>

\* The row is committed; the folder may be gone by now.
Insert(d) ==
  /\ pc[d] = "saved"
  /\ IF loc[d].folder \in Places
     THEN /\ row' = [row EXCEPT ![d] = [NoRow EXCEPT !.state = "live",
                                                   !.folder = loc[d].folder]]
          /\ Goto(d, "inserted")
          /\ UNCHANGED <<loc, lost>>
     ELSE Die(d) /\ UNCHANGED row
  /\ UNCHANGED <<files, folders, item, req>>

\* The row is read again, then the background task starts.
Start(d) ==
  /\ pc[d] = "inserted"
  /\ IF d \in Live THEN Goto(d, "queued") /\ UNCHANGED <<loc, lost>>
                   ELSE Die(d)
  /\ UNCHANGED <<db, req>>

---------------------------------------------------------------------------
(* The background task *)

\* Parsing fails: the task goes on to write "failed" and to triage.
Parse(d) ==
  /\ pc[d] = "queued"
  /\ \/ Goto(d, "parsed") /\ UNCHANGED loc
     \/ Goto(d, "ended") /\ loc' = [loc EXCEPT ![d].status = "failed"]
  /\ UNCHANGED <<db, req, lost>>

\* An error of the model, or an answer without JSON, counts as "altro".
Classify(d) ==
  /\ pc[d] = "parsed"
  /\ \E t \in Types : loc' = [loc EXCEPT ![d].type = t]
  /\ Goto(d, "classified")
  /\ UNCHANGED <<db, req, lost>>

\* The type is looked up in a dictionary before the try; what goes wrong
\* after that leaves no fields.
Extract(d) ==
  /\ pc[d] = "classified"
  /\ IF loc[d].type = "list"
     THEN Die(d)
     ELSE /\ \E f \in Fields : loc' = [loc EXCEPT ![d] =
               [@ EXCEPT !.fields = f, !.status = "parsed"]]
          /\ Goto(d, "ended")
          /\ UNCHANGED lost
  /\ UNCHANGED <<db, req>>

\* Mutant of ReadRow: nothing is written for a document that did not parse.
ReadRowParsed(d) ==
  /\ pc[d] = "ended"
  /\ Goto(d, IF d \in Live /\ loc[d].status = "parsed"
             THEN "writing" ELSE "triage")
  /\ UNCHANGED <<db, loc, req, lost>>

\* A document that is gone is triaged all the same.
ReadRow(d) ==
  /\ pc[d] = "ended"
  /\ Goto(d, IF d \in Live THEN "writing" ELSE "triage")
  /\ UNCHANGED <<db, loc, req, lost>>

\* Mutant of WriteRow: the type is not written.
WriteRowNoType(d) ==
  /\ pc[d] = "writing"
  /\ IF d \in Live /\ loc[d].type # "long"
     THEN /\ row' = [row EXCEPT ![d] = [@ EXCEPT !.status = loc[d].status]]
          /\ Goto(d, "triage")
          /\ UNCHANGED <<loc, lost>>
     ELSE Die(d) /\ UNCHANGED row
  /\ UNCHANGED <<files, folders, item, req>>

\* The UPDATE fails if the row has been deleted since, or if the column
\* cannot hold the type.
WriteRow(d) ==
  /\ pc[d] = "writing"
  /\ IF d \in Live /\ loc[d].type # "long"
     THEN /\ row' = [row EXCEPT ![d] = [@ EXCEPT !.status = loc[d].status,
                                                 !.type = loc[d].type]]
          /\ Goto(d, "triage")
          /\ UNCHANGED <<loc, lost>>
     ELSE Die(d) /\ UNCHANGED row
  /\ UNCHANGED <<files, folders, item, req>>

\* Mutant of Triage: a document of no type is not worth an item.
TriageTyped(d) ==
  /\ pc[d] = "triage"
  /\ IF loc[d].fields = "odd"
     THEN Die(d)
     ELSE /\ Goto(d, IF loc[d].type = None THEN "over" ELSE "analysed")
          /\ loc' = [loc EXCEPT ![d].offers = {"dismiss"}]
          /\ UNCHANGED lost
  /\ UNCHANGED <<db, req>>

\* Comparing an odd confidence raises, and so does a list of actions that is
\* not a list; an error of the model leaves no action but the last.
Triage(d) ==
  /\ pc[d] = "triage"
  /\ \/ /\ loc[d].fields = "odd" \/ Garbage
        /\ Die(d)
     \/ /\ loc[d].fields # "odd"
        /\ \E A \in SUBSET Actions :
             /\ Cardinality(A) <= 2
             /\ loc' = [loc EXCEPT ![d].offers = A \cup {"dismiss"}]
        /\ Goto(d, "analysed")
        /\ UNCHANGED lost
  /\ UNCHANGED <<db, req>>

\* source_ref_id is no foreign key.
InsertItem(d) ==
  /\ pc[d] = "analysed"
  /\ item' = [item EXCEPT ![d] = [NoItem EXCEPT
       !.status = "pending", !.type = loc[d].type, !.offers = loc[d].offers]]
  /\ Goto(d, "over")
  /\ loc' = [loc EXCEPT ![d] = NoLocal]
  /\ UNCHANGED <<files, folders, row, req, lost>>

---------------------------------------------------------------------------
(* Inbox requests: act and dismiss look at no status. *)

ItemRead(h, d, act) ==
  /\ req[h] = NoReq
  /\ item[d].status # "none"
  /\ act \in item[d].offers \cup {None}
  /\ req' = [req EXCEPT ![h] = [doc |-> d, seen |-> item[d], act |-> act]]
  /\ UNCHANGED <<db, pc, loc, lost>>

\* Mutant of Acted: an item that was answered keeps its first choice.
ActedFirst(i, q) ==
  [i EXCEPT !.status = "acted",
            !.chosen = IF q.seen.status = "pending" THEN q.act ELSE i.chosen]

\* Only the columns whose value differs from the one read are written.
Acted(i, q) ==
  [i EXCEPT !.status = IF q.seen.status = "acted" THEN i.status ELSE "acted",
            !.chosen = IF q.seen.chosen = q.act THEN i.chosen ELSE q.act]
Dismissed(i, q) ==
  [i EXCEPT !.status =
     IF q.seen.status = "dismissed" THEN i.status ELSE "dismissed"]

ActCommit(h) ==
  LET q == req[h] IN
  /\ q.doc # None /\ q.act # None
  /\ item' = [item EXCEPT ![q.doc] = Acted(item[q.doc], q)]
  /\ req' = [req EXCEPT ![h] = NoReq]
  /\ UNCHANGED <<files, folders, row, pc, loc, lost>>

DismissCommit(h) ==
  LET q == req[h] IN
  /\ q.doc # None /\ q.act = None
  /\ item' = [item EXCEPT ![q.doc] = Dismissed(item[q.doc], q)]
  /\ req' = [req EXCEPT ![h] = NoReq]
  /\ UNCHANGED <<files, folders, row, pc, loc, lost>>

---------------------------------------------------------------------------
(* Folders, and the end of the process *)

\* The id of a folder that a row or an upload names is not used again.
CreateFolder(f) ==
  /\ \A d \in Docs : row[d].folder # f /\ loc[d].folder # f
  /\ folders' = folders \cup {f}
  /\ UNCHANGED <<files, row, item, pc, loc, req, lost>>

File(d, place) ==
  /\ d \in Live /\ place \in Places
  /\ row' = [row EXCEPT ![d] = [@ EXCEPT !.folder = place]]
  /\ UNCHANGED <<files, folders, item, pc, loc, req, lost>>

\* The documents go with the folder; their files and items stay.  (A document
\* that a dossier or a correlation refers to refuses this: see Folders.)
DeleteFolder(f) ==
  /\ f \in folders
  /\ folders' = folders \ {f}
  /\ row' = [d \in Docs |-> IF d \in Live /\ row[d].folder = f
                            THEN [row[d] EXCEPT !.state = "deleted"]
                            ELSE row[d]]
  /\ UNCHANGED <<files, item, pc, loc, req, lost>>

Restart ==
  /\ Faults
  /\ lost' = lost \cup {d \in Docs : pc[d] \notin {"new", "over"}}
  /\ pc'   = [d \in Docs |-> IF pc[d] = "new" THEN "new" ELSE "over"]
  /\ loc'  = [d \in Docs |-> NoLocal]
  /\ req'  = [h \in Handlers |-> NoReq]
  /\ UNCHANGED db

---------------------------------------------------------------------------
RunPipeline(d) ==
  \/ Parse(d) \/ Classify(d) \/ Extract(d) \/ ReadRow(d) \/ WriteRow(d)
  \/ Triage(d) \/ InsertItem(d)

Upload(d) == \/ \E place \in Places : Save(d, place)
             \/ Insert(d) \/ Start(d)

Answer(h) == \/ \E d \in Docs : \E act \in item[d].offers \cup {None} :
                  ItemRead(h, d, act)
             \/ ActCommit(h) \/ DismissCommit(h)

Next ==
  \/ \E d \in Docs : \/ Upload(d) \/ RunPipeline(d)
                     \/ \E place \in Places : File(d, place)
  \/ \E h \in Handlers : Answer(h)
  \/ \E f \in Folders : CreateFolder(f) \/ DeleteFolder(f)
  \/ Restart

Spec == Init /\ [][Next]_vars

\* The event loop runs a started task on, the request's last stretch
\* included; the model and the database answer or raise.
FairSpec == Spec /\ \A d \in Docs : WF_vars(Start(d) \/ RunPipeline(d))

---------------------------------------------------------------------------
(* Properties *)

\* Every variable holds values of its type.
TypeOK ==
  /\ files \subseteq Docs /\ folders \subseteq Folders /\ lost \subseteq Docs
  /\ row \in [Docs -> Row]
  /\ item \in [Docs -> Item]
  /\ pc \in [Docs -> {"new", "saved", "inserted", "over"} \cup Running]
  /\ loc \in [Docs -> Local]
  /\ req \in [Handlers -> Request]

\* A document the user sees can be downloaded: its file is in the storage,
\* wherever the process stopped.
RowHasFile == Live \subseteq files

\* When the user finds an item about a document, the document's row already
\* tells the same result, whatever was deleted or moved meanwhile.
ItemFollowsResult ==
  \A d \in Live : item[d].status # "none" =>
    row[d].status # "pending" /\ row[d].type = item[d].type

\* No upload is forgotten: it is on its way, it has its inbox item, even if
\* the document did not parse, or an exception or a restart ended its task.
NothingForgotten ==
  \A d \in Docs : pc[d] = "over" => item[d].status # "none" \/ d \in lost

\* An item that was acted on names an action that it offered, also when two
\* requests act on it and dismiss it at the same time.
ActedHasChoice ==
  \A d \in Docs : item[d].status = "acted" => item[d].chosen \in item[d].offers

\* A document does not stay "pending", unless its task was lost.
PendingEnds ==
  \A d \in Docs : row[d].state = "live" /\ row[d].status = "pending" ~>
    row[d].status # "pending" \/ row[d].state = "deleted" \/ d \in lost
===========================================================================
