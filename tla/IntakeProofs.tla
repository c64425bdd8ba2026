--------------------------- MODULE IntakeProofs ---------------------------
(***************************************************************************)
(* Proofs about Intake for any numbers of documents, folders, requests and *)
(* actions: its types, and that what the user sees of a document agrees    *)
(* with its row, its file and the choices made about it.                   *)
(***************************************************************************)
EXTENDS Intake, TLAPS

\* The constant records have their types.
LEMMA ConstantsTyped ==
  NoRow \in Row /\ NoItem \in Item /\ NoLocal \in Local /\ NoReq \in Request
  BY DEF NoRow, Row, NoItem, Item, NoLocal, Local, Fields, NoReq, Request

\* Moving a task to a control point keeps the type of pc.
LEMMA GotoTyped ==
  ASSUME TypeOK, NEW d \in Docs,
         NEW point \in {"new", "saved", "inserted", "over"} \cup Running,
         Goto(d, point)
  PROVE  /\ pc' \in [Docs -> {"new", "saved", "inserted", "over"} \cup Running]
         /\ pc'[d] = point
         /\ \A e \in Docs : e # d => pc'[e] = pc[e]
  BY DEF Goto, TypeOK

\* Losing a task keeps the types.
LEMMA DieTyped ==
  ASSUME TypeOK, NEW d \in Docs, Die(d)
  PROVE  /\ pc' \in [Docs -> {"new", "saved", "inserted", "over"} \cup Running]
         /\ pc'[d] = "over" /\ \A e \in Docs : e # d => pc'[e] = pc[e]
         /\ loc' \in [Docs -> Local] /\ \A e \in Docs : e # d => loc'[e] = loc[e]
         /\ lost' \subseteq Docs /\ lost' = lost \cup {d}
  BY ConstantsTyped, GotoTyped DEF Die, TypeOK, Goto

\* Answering an item keeps its type and what it offers.
LEMMA AnswersTyped ==
  ASSUME NEW i \in Item, NEW q \in Request
  PROVE  /\ Dismissed(i, q) \in Item
         /\ Dismissed(i, q).type = i.type /\ Dismissed(i, q).offers = i.offers
         /\ Dismissed(i, q).chosen = i.chosen
         /\ Dismissed(i, q).status \in {i.status, "dismissed"}
         /\ q.act # None =>
              /\ Acted(i, q) \in Item
              /\ Acted(i, q).type = i.type /\ Acted(i, q).offers = i.offers
              /\ Acted(i, q).status \in {i.status, "acted"}
              /\ Acted(i, q).chosen
                   = IF q.seen.chosen = q.act THEN i.chosen ELSE q.act
  BY DEF Dismissed, Acted, Item, Request

\* The inbox requests keep the types.
LEMMA AnswerTyped ==
  ASSUME TypeOK, NEW h \in Handlers, Answer(h)
  PROVE  TypeOK'
<1>1. ASSUME NEW d \in Docs, NEW act \in item[d].offers \cup {None},
             ItemRead(h, d, act)
      PROVE  TypeOK'
  <2> DEFINE q == [doc |-> d, seen |-> item[d], act |-> act]
  <2>1. q \in Request
    BY DEF TypeOK, Item, Request
  <2> QED
    BY <1>1, <2>1 DEF ItemRead, TypeOK, db
<1>2. ASSUME ActCommit(h) PROVE TypeOK'
  <2>1. req[h] \in Request /\ req[h].doc \in Docs
    BY <1>2 DEF ActCommit, TypeOK, Request
  <2>2. item' \in [Docs -> Item]
    BY <1>2, <2>1, AnswersTyped DEF ActCommit, TypeOK
  <2> QED
    BY <1>2, <2>2, ConstantsTyped DEF ActCommit, TypeOK
<1>3. ASSUME DismissCommit(h) PROVE TypeOK'
  <2>1. req[h] \in Request /\ req[h].doc \in Docs
    BY <1>3 DEF DismissCommit, TypeOK, Request
  <2>2. item' \in [Docs -> Item]
    BY <1>3, <2>1, AnswersTyped DEF DismissCommit, TypeOK
  <2> QED
    BY <1>3, <2>2, ConstantsTyped DEF DismissCommit, TypeOK
<1> QED
  BY <1>1, <1>2, <1>3 DEF Answer

\* The upload request keeps the types.
LEMMA UploadTyped ==
  ASSUME TypeOK, NEW d \in Docs, Upload(d)
  PROVE  TypeOK'
<1>1. ASSUME NEW place \in Places, Save(d, place) PROVE TypeOK'
  <2> DEFINE l == [NoLocal EXCEPT !.folder = place]
  <2>1. l \in Local
    BY <1>1, ConstantsTyped DEF TypeOK, Places, Local
  <2> QED
    BY <1>1, <2>1, GotoTyped DEF Save, TypeOK
<1>2. ASSUME Insert(d) PROVE TypeOK'
  <2> DEFINE u == [NoRow EXCEPT !.state = "live", !.folder = loc[d].folder]
  <2>1. u \in Row
    BY ConstantsTyped DEF TypeOK, Row, Local
  <2>2. row' \in [Docs -> Row]
    BY <1>2, <2>1 DEF Insert, TypeOK
  <2> QED
    BY <1>2, <2>2, GotoTyped, DieTyped DEF Insert, TypeOK
<1>3. ASSUME Start(d) PROVE TypeOK'
  BY <1>3, GotoTyped, DieTyped DEF Start, TypeOK, db, Running
<1> QED
  BY <1>1, <1>2, <1>3 DEF Upload

\* The background task keeps the types.
LEMMA PipelineTyped ==
  ASSUME TypeOK, NEW d \in Docs, RunPipeline(d)
  PROVE  TypeOK'
<1>1. ASSUME Parse(d) PROVE TypeOK'
  <2>1. loc' \in [Docs -> Local]
    BY <1>1 DEF Parse, TypeOK, Local
  <2> QED
    BY <1>1, <2>1, GotoTyped DEF Parse, TypeOK, db, Running
<1>2. ASSUME Classify(d) PROVE TypeOK'
  <2>1. loc' \in [Docs -> Local]
    BY <1>2 DEF Classify, TypeOK, Local
  <2> QED
    BY <1>2, <2>1, GotoTyped DEF Classify, TypeOK, db, Running
<1>3. ASSUME Extract(d) PROVE TypeOK'
  <2>1. CASE loc[d].type = "list"
    BY <1>3, <2>1, DieTyped DEF Extract, TypeOK, db
  <2>2. CASE loc[d].type # "list"
    <3>1. PICK f \in Fields : loc' = [loc EXCEPT ![d] =
                                [@ EXCEPT !.fields = f, !.status = "parsed"]]
      BY <1>3, <2>2 DEF Extract
    <3>2. [loc[d] EXCEPT !.fields = f, !.status = "parsed"] \in Local
      BY DEF TypeOK, Local
    <3>3. loc' \in [Docs -> Local]
      BY <3>1, <3>2 DEF TypeOK
    <3> QED
      BY <1>3, <2>2, <3>3, GotoTyped DEF Extract, TypeOK, db, Running
  <2> QED
    BY <2>1, <2>2
<1>4. ASSUME ReadRow(d) PROVE TypeOK'
  BY <1>4, GotoTyped DEF ReadRow, TypeOK, db, Running
<1>5. ASSUME WriteRow(d) PROVE TypeOK'
  <2> DEFINE u == [row[d] EXCEPT !.status = loc[d].status, !.type = loc[d].type]
  <2>1. u \in Row
    <3>1. row[d] \in Row /\ loc[d] \in Local
      BY DEF TypeOK
    <3>2. loc[d].status \in {"pending", "parsed", "failed"}
          /\ loc[d].type \in Types \cup {None}
      BY <3>1 DEF Local
    <3> QED
      BY <3>1, <3>2 DEF Row
  <2>2. row' \in [Docs -> Row]
    BY <1>5, <2>1 DEF WriteRow, TypeOK
  <2> QED
    BY <1>5, <2>2, GotoTyped, DieTyped DEF WriteRow, TypeOK, Running
<1>6. ASSUME Triage(d) PROVE TypeOK'
  <2>1. CASE Die(d)
    BY <1>6, <2>1, DieTyped DEF Triage, TypeOK, db
  <2>2. CASE ~Die(d)
    <3>1. PICK A \in SUBSET Actions :
            loc' = [loc EXCEPT ![d].offers = A \cup {"dismiss"}]
      BY <1>6, <2>2 DEF Triage
    <3>2. loc' \in [Docs -> Local]
      BY <3>1 DEF TypeOK, Local
    <3> QED
      BY <1>6, <2>2, <3>2, GotoTyped DEF Triage, TypeOK, db, Running
  <2> QED
    BY <2>1, <2>2
<1>7. ASSUME InsertItem(d) PROVE TypeOK'
  <2> DEFINE u == [NoItem EXCEPT !.status = "pending", !.type = loc[d].type,
                                 !.offers = loc[d].offers]
  <2>1. u \in Item
    BY ConstantsTyped DEF TypeOK, Item, Local
  <2> QED
    BY <1>7, <2>1, GotoTyped, ConstantsTyped DEF InsertItem, TypeOK
<1> QED
  BY <1>1, <1>2, <1>3, <1>4, <1>5, <1>6, <1>7 DEF RunPipeline

\* Every step keeps the types.
LEMMA TypeStep == TypeOK /\ [Next]_vars => TypeOK'
<1> SUFFICES ASSUME TypeOK, [Next]_vars PROVE TypeOK'
  OBVIOUS
<1>1. ASSUME NEW d \in Docs, NEW place \in Places, File(d, place)
      PROVE  TypeOK'
  <2>1. row' \in [Docs -> Row]
    BY <1>1 DEF File, TypeOK, Row, Places
  <2> QED
    BY <1>1, <2>1 DEF File, TypeOK
<1>2. ASSUME NEW f \in Folders, CreateFolder(f) PROVE TypeOK'
  BY <1>2 DEF CreateFolder, TypeOK
<1>3. ASSUME NEW f \in Folders, DeleteFolder(f) PROVE TypeOK'
  <2>1. row' \in [Docs -> Row]
    BY <1>3 DEF DeleteFolder, TypeOK, Row
  <2> QED
    BY <1>3, <2>1 DEF DeleteFolder, TypeOK
<1>4. ASSUME Restart PROVE TypeOK'
  BY <1>4, ConstantsTyped DEF Restart, TypeOK, db
<1>5. ASSUME UNCHANGED vars PROVE TypeOK'
  BY <1>5 DEF TypeOK, vars
<1> QED
  BY <1>1, <1>2, <1>3, <1>4, <1>5, AnswerTyped, UploadTyped, PipelineTyped
     DEF Next

\* Every reachable state is well typed.
THEOREM TypeCorrect == Spec => []TypeOK
<1>1. Init => TypeOK
  BY ConstantsTyped DEF Init, TypeOK
<1> QED
  BY <1>1, TypeStep, PTL DEF Spec

---------------------------------------------------------------------------
(* The inductive invariants *)

\* The file is stored before the row is inserted, and never removed.
FileFirst == Live \subseteq files /\ \A d \in Docs : pc[d] = "saved" => d \in files

\* The result is in the row before triage reads it, and triage is over when
\* the item is there.
ResultFirst ==
  \A d \in Docs :
    /\ item[d].status # "none" => pc[d] = "over"
    /\ pc[d] \in {"ended", "writing"} => loc[d].status # "pending"
    /\ d \in Live /\ pc[d] \in {"triage", "analysed"} =>
         row[d].status # "pending" /\ row[d].type = loc[d].type
    /\ d \in Live /\ item[d].status # "none" =>
         row[d].status # "pending" /\ row[d].type = item[d].type

\* What a request on an item is about to write was offered, and the choice it
\* read has not been taken back.
ChoiceOffered ==
  /\ \A d \in Docs :
       /\ item[d].chosen # None => item[d].chosen \in item[d].offers
       /\ item[d].status = "acted" => item[d].chosen # None
  /\ \A h \in Handlers : req[h].doc # None =>
       /\ item[req[h].doc].status # "none"
       /\ req[h].act # None => req[h].act \in item[req[h].doc].offers
       /\ req[h].seen.chosen # None => item[req[h].doc].chosen # None

\* What a request on an item writes into it.
LEMMA AnswerWrites ==
  ASSUME TypeOK, NEW h \in Handlers, ActCommit(h) \/ DismissCommit(h)
  PROVE  /\ req[h] \in Request /\ req[h].doc \in Docs
         /\ item[req[h].doc] \in Item
         /\ \E n \in Item :
              /\ item' = [item EXCEPT ![req[h].doc] = n]
              /\ n.type = item[req[h].doc].type
              /\ n.offers = item[req[h].doc].offers
              /\ \/ /\ n.status \in {item[req[h].doc].status, "dismissed"}
                    /\ n.chosen = item[req[h].doc].chosen
                 \/ /\ n.status \in {item[req[h].doc].status, "acted"}
                    /\ req[h].act # None
                    /\ n.chosen = IF req[h].seen.chosen = req[h].act
                                  THEN item[req[h].doc].chosen ELSE req[h].act
<1>1. req[h] \in Request /\ req[h].doc \in Docs /\ item[req[h].doc] \in Item
  BY DEF ActCommit, DismissCommit, TypeOK, Request
<1>2. CASE ActCommit(h)
  <2>1. /\ req[h].act # None
        /\ item' = [item EXCEPT
             ![req[h].doc] = Acted(item[req[h].doc], req[h])]
    BY <1>2 DEF ActCommit
  <2> QED
    BY <1>1, <2>1, AnswersTyped
<1>3. CASE DismissCommit(h)
  <2>1. item' = [item EXCEPT
             ![req[h].doc] = Dismissed(item[req[h].doc], req[h])]
    BY <1>3 DEF DismissCommit
  <2> QED
    BY <1>1, <2>1, AnswersTyped
<1> QED
  BY <1>2, <1>3

\* A request on an item changes nothing but the status and the choice, and
\* takes neither back.
LEMMA AnswerKeeps ==
  ASSUME TypeOK, ChoiceOffered, NEW h \in Handlers, Answer(h)
  PROVE  /\ UNCHANGED <<files, folders, row, pc, loc, lost>>
         /\ \A e \in Docs :
              /\ item'[e].type = item[e].type
              /\ item'[e].offers = item[e].offers
              /\ item'[e].status = "none" <=> item[e].status = "none"
<1>1. ASSUME NEW d \in Docs, NEW act \in item[d].offers \cup {None},
             ItemRead(h, d, act)
      PROVE  UNCHANGED <<files, folders, row, pc, loc, lost, item>>
  BY <1>1 DEF ItemRead, db
<1>2. ASSUME ActCommit(h) \/ DismissCommit(h)
      PROVE  /\ UNCHANGED <<files, folders, row, pc, loc, lost>>
             /\ \A e \in Docs :
                  /\ item'[e].type = item[e].type
                  /\ item'[e].offers = item[e].offers
                  /\ item'[e].status = "none" <=> item[e].status = "none"
  <2>1. PICK n \in Item :
          /\ item' = [item EXCEPT ![req[h].doc] = n]
          /\ n.type = item[req[h].doc].type
          /\ n.offers = item[req[h].doc].offers
          /\ \/ /\ n.status \in {item[req[h].doc].status, "dismissed"}
                /\ n.chosen = item[req[h].doc].chosen
             \/ /\ n.status \in {item[req[h].doc].status, "acted"}
                /\ req[h].act # None
                /\ n.chosen = IF req[h].seen.chosen = req[h].act
                              THEN item[req[h].doc].chosen ELSE req[h].act
    BY <1>2, AnswerWrites
  <2>2. item[req[h].doc].status # "none" /\ req[h].doc \in Docs
    BY <1>2, AnswerWrites DEF ChoiceOffered, ActCommit, DismissCommit
  <2>3. n.status # "none"
    BY <2>1, <2>2
  <2> QED
    BY <1>2, <2>1, <2>2, <2>3 DEF ActCommit, DismissCommit, TypeOK
<1> QED
  BY <1>1, <1>2 DEF Answer

---------------------------------------------------------------------------
(* Files *)

\* A step of the background task neither stores nor deletes a document.
LEMMA PipelineKeepsRows ==
  ASSUME TypeOK, NEW d \in Docs, RunPipeline(d)
  PROVE  /\ Live' = Live /\ files' = files
         /\ \A e \in Docs : pc'[e] = "saved" => pc[e] = "saved"
<1>1. CASE WriteRow(d)
  <2>1. row[d] \in Row /\ DOMAIN row = Docs
    BY DEF TypeOK
  <2>2. \/ row' = row
        \/ row' = [row EXCEPT ![d] = [row[d] EXCEPT !.status = loc[d].status,
                                                   !.type = loc[d].type]]
    BY <1>1 DEF WriteRow
  <2>3. [row[d] EXCEPT !.status = loc[d].status, !.type = loc[d].type].state
          = row[d].state
    BY <2>1 DEF Row
  <2>4. \A e \in Docs : row'[e].state = row[e].state
    BY <2>1, <2>2, <2>3
  <2> QED
    BY <1>1, <2>4, GotoTyped, DieTyped DEF WriteRow, Live, Running
<1>2. CASE InsertItem(d)
  BY <1>2, GotoTyped DEF InsertItem, Live
<1>3. CASE Parse(d) \/ Classify(d) \/ Extract(d) \/ ReadRow(d) \/ Triage(d)
  <2>1. UNCHANGED db
    BY <1>3 DEF Parse, Classify, Extract, ReadRow, Triage
  <2>2. PICK point \in {"parsed", "ended", "classified", "writing", "triage",
                        "analysed", "over"} : Goto(d, point)
    BY <1>3 DEF Parse, Classify, Extract, ReadRow, Triage, Die
  <2>3. pc'[d] # "saved" /\ \A e \in Docs : e # d => pc'[e] = pc[e]
    BY <2>2, GotoTyped DEF Running
  <2> QED
    BY <2>1, <2>3 DEF db, Live
<1> QED
  BY <1>1, <1>2, <1>3 DEF RunPipeline

\* Every step stores the file before the row.
LEMMA FileStep == TypeOK /\ FileFirst /\ [Next]_vars => FileFirst'
<1> SUFFICES ASSUME TypeOK, FileFirst, [Next]_vars PROVE FileFirst'
  OBVIOUS
<1>1. ASSUME NEW d \in Docs, NEW place \in Places, Save(d, place)
      PROVE  FileFirst'
  BY <1>1, GotoTyped DEF Save, FileFirst, Live
<1>2. ASSUME NEW d \in Docs, Insert(d) PROVE FileFirst'
  <2>1. \A e \in Docs : e # d => row'[e] = row[e]
    BY <1>2 DEF Insert, TypeOK
  <2>2. Live' \subseteq Live \cup {d}
    BY <2>1 DEF Live
  <2>3. \A e \in Docs : pc'[e] = "saved" => pc[e] = "saved"
    BY <1>2, GotoTyped, DieTyped DEF Insert
  <2> QED
    BY <1>2, <2>2, <2>3 DEF Insert, FileFirst
<1>3. ASSUME NEW d \in Docs, Start(d) PROVE FileFirst'
  BY <1>3, GotoTyped, DieTyped DEF Start, db, FileFirst, Live, Running
<1>4. ASSUME NEW d \in Docs, RunPipeline(d) PROVE FileFirst'
  BY <1>4, PipelineKeepsRows DEF FileFirst
<1>5. ASSUME NEW h \in Handlers, Answer(h) PROVE FileFirst'
  BY <1>5 DEF Answer, ItemRead, ActCommit, DismissCommit, db, FileFirst, Live
<1>6. ASSUME NEW d \in Docs, NEW place \in Places, File(d, place)
      PROVE  FileFirst'
  <2>1. \A e \in Docs : row'[e].state = row[e].state
    BY <1>6 DEF File, TypeOK, Row
  <2> QED
    BY <1>6, <2>1 DEF File, FileFirst, Live
<1>7. ASSUME NEW f \in Folders, CreateFolder(f) \/ DeleteFolder(f)
      PROVE  FileFirst'
  <2>1. \A e \in Docs : row'[e].state = "live" => row[e].state = "live"
    BY <1>7 DEF CreateFolder, DeleteFolder, TypeOK, Row, Live
  <2> QED
    BY <1>7, <2>1 DEF CreateFolder, DeleteFolder, FileFirst, Live
<1>8. ASSUME Restart PROVE FileFirst'
  BY <1>8 DEF Restart, db, FileFirst, Live
<1>9. ASSUME UNCHANGED vars PROVE FileFirst'
  BY <1>9 DEF vars, FileFirst, Live
<1> QED
  BY <1>1, <1>2, <1>3, <1>4, <1>5, <1>6, <1>7, <1>8, <1>9 DEF Next, Upload

\* A document that has a row has its file in the storage, for any numbers of
\* uploads, folders and requests, wherever the process stops.
THEOREM FileKept == Spec => []RowHasFile
<1>1. Init => FileFirst
  BY DEF Init, FileFirst, Live, NoRow
<1>2. FileFirst => RowHasFile
  BY DEF FileFirst, RowHasFile
<1> QED
  BY <1>1, <1>2, TypeCorrect, FileStep, PTL DEF Spec

---------------------------------------------------------------------------
(* Results *)

\* A task on d disturbs no other document.
LEMMA PipelineTouchesOne ==
  ASSUME TypeOK, NEW d \in Docs, Upload(d) \/ RunPipeline(d)
  PROVE  \A e \in Docs : e # d =>
           /\ row'[e] = row[e] /\ item'[e] = item[e]
           /\ pc'[e] = pc[e] /\ loc'[e] = loc[e]
<1>1. CASE Upload(d)
  BY <1>1 DEF Upload, Save, Insert, Start, Die, Goto, db, TypeOK
<1>2. CASE RunPipeline(d)
  BY <1>2 DEF RunPipeline, Parse, Classify, Extract, ReadRow, WriteRow, Triage,
              InsertItem, Die, Goto, db, TypeOK
<1> QED
  BY <1>1, <1>2

\* A task reads and writes a document only on its way to the item.
LEMMA TaskResult ==
  ASSUME TypeOK, ResultFirst, NEW d \in Docs, Upload(d) \/ RunPipeline(d)
  PROVE  /\ item'[d].status # "none" => pc'[d] = "over"
         /\ pc'[d] \in {"ended", "writing"} => loc'[d].status # "pending"
         /\ row'[d].state = "live" /\ pc'[d] \in {"triage", "analysed"} =>
              row'[d].status # "pending" /\ row'[d].type = loc'[d].type
         /\ row'[d].state = "live" /\ item'[d].status # "none" =>
              row'[d].status # "pending" /\ row'[d].type = item'[d].type
<1> DEFINE Goal ==
      /\ item'[d].status # "none" => pc'[d] = "over"
      /\ pc'[d] \in {"ended", "writing"} => loc'[d].status # "pending"
      /\ row'[d].state = "live" /\ pc'[d] \in {"triage", "analysed"} =>
           row'[d].status # "pending" /\ row'[d].type = loc'[d].type
      /\ row'[d].state = "live" /\ item'[d].status # "none" =>
           row'[d].status # "pending" /\ row'[d].type = item'[d].type
<1>1. row[d] \in Row /\ item[d] \in Item /\ loc[d] \in Local
      /\ d \in DOMAIN row /\ d \in DOMAIN item /\ d \in DOMAIN loc
      /\ d \in DOMAIN pc
  BY DEF TypeOK
<1>2. /\ item[d].status # "none" => pc[d] = "over"
      /\ pc[d] \in {"ended", "writing"} => loc[d].status # "pending"
      /\ row[d].state = "live" /\ pc[d] \in {"triage", "analysed"} =>
           row[d].status # "pending" /\ row[d].type = loc[d].type
      /\ row[d].state = "live" /\ item[d].status # "none" =>
           row[d].status # "pending" /\ row[d].type = item[d].type
  BY DEF ResultFirst, Live
<1>3. ASSUME Die(d), UNCHANGED <<row, item>>
      PROVE  Goal
  BY <1>1, <1>2, <1>3 DEF Die, Goto
<1>4. ASSUME NEW place \in Places, Save(d, place) PROVE Goal
  BY <1>1, <1>2, <1>4 DEF Save, Goto
<1>5. ASSUME Insert(d) PROVE Goal
  BY <1>1, <1>2, <1>3, <1>5 DEF Insert, Goto
<1>6. ASSUME Start(d) PROVE Goal
  BY <1>1, <1>2, <1>3, <1>6 DEF Start, Goto, db
<1>7. ASSUME Parse(d) PROVE Goal
  BY <1>1, <1>2, <1>7 DEF Parse, Goto, db, Local
<1>8. ASSUME Classify(d) PROVE Goal
  BY <1>1, <1>2, <1>8 DEF Classify, Goto, db
<1>9. ASSUME Extract(d) PROVE Goal
  BY <1>1, <1>2, <1>3, <1>9 DEF Extract, Goto, db, Local
<1>10. ASSUME ReadRow(d) PROVE Goal
  BY <1>1, <1>2, <1>10 DEF ReadRow, Goto, db, Live
<1>11. ASSUME WriteRow(d) PROVE Goal
  <2> DEFINE u == [row[d] EXCEPT !.status = loc[d].status, !.type = loc[d].type]
  <2>1. u.status = loc[d].status /\ u.type = loc[d].type
    BY <1>1 DEF Row
  <2>2. CASE d \in Live /\ loc[d].type # "long"
    <3>1. row'[d] = u /\ pc'[d] = "triage" /\ loc' = loc /\ item' = item
      BY <1>1, <1>11, <2>2 DEF WriteRow, Goto
    <3>2. pc[d] = "writing"
      BY <1>11 DEF WriteRow
    <3> QED
      BY <1>2, <2>1, <3>1, <3>2
  <2>3. CASE ~(d \in Live /\ loc[d].type # "long")
    BY <1>3, <1>11, <2>3 DEF WriteRow
  <2> QED
    BY <2>2, <2>3
<1>12. ASSUME Triage(d) PROVE Goal
  BY <1>1, <1>2, <1>3, <1>12 DEF Triage, Goto, db, Local
<1>13. ASSUME InsertItem(d) PROVE Goal
  BY <1>1, <1>2, <1>13 DEF InsertItem, Goto, NoItem
<1> QED
  BY <1>4, <1>5, <1>6, <1>7, <1>8, <1>9, <1>10, <1>11, <1>12, <1>13
     DEF Upload, RunPipeline

\* Every step writes the result before the item.
LEMMA ResultStep == TypeOK /\ ResultFirst /\ ChoiceOffered /\ [Next]_vars
                      => ResultFirst'
<1> SUFFICES ASSUME TypeOK, ResultFirst, ChoiceOffered, [Next]_vars
             PROVE  ResultFirst'
  OBVIOUS
<1>1. ASSUME NEW d \in Docs, Upload(d) \/ RunPipeline(d) PROVE ResultFirst'
  BY <1>1, PipelineTouchesOne, TaskResult DEF ResultFirst, Live
<1>2. ASSUME NEW h \in Handlers, Answer(h) PROVE ResultFirst'
  BY <1>2, AnswerKeeps DEF ResultFirst, Live
<1>3. ASSUME NEW d \in Docs, NEW place \in Places, File(d, place)
      PROVE  ResultFirst'
  <2>1. \A e \in Docs : /\ row'[e].state = row[e].state
                        /\ row'[e].status = row[e].status
                        /\ row'[e].type = row[e].type
    BY <1>3 DEF File, TypeOK, Row
  <2> QED
    BY <1>3, <2>1 DEF File, ResultFirst, Live
<1>4. ASSUME NEW f \in Folders, CreateFolder(f) \/ DeleteFolder(f)
      PROVE  ResultFirst'
  <2>1. \A e \in Docs : row'[e].state = "live" => row'[e] = row[e]
    BY <1>4 DEF CreateFolder, DeleteFolder, TypeOK, Row, Live
  <2> QED
    BY <1>4, <2>1 DEF CreateFolder, DeleteFolder, ResultFirst, Live
<1>5. ASSUME Restart PROVE ResultFirst'
  BY <1>5 DEF Restart, db, ResultFirst, Live, TypeOK
<1>6. ASSUME UNCHANGED vars PROVE ResultFirst'
  BY <1>6 DEF vars, ResultFirst, Live
<1> QED
  BY <1>1, <1>2, <1>3, <1>4, <1>5, <1>6 DEF Next

\* What the requests on an item write was offered.
LEMMA ChoiceStep == TypeOK /\ ResultFirst /\ ChoiceOffered /\ [Next]_vars
                      => ChoiceOffered'
<1> SUFFICES ASSUME TypeOK, ResultFirst, ChoiceOffered, [Next]_vars
             PROVE  ChoiceOffered'
  OBVIOUS
<1>1. ASSUME UNCHANGED <<item, req>> PROVE ChoiceOffered'
  BY <1>1 DEF ChoiceOffered
<1>2. ASSUME NEW d \in Docs, InsertItem(d) PROVE ChoiceOffered'
  <2>1. \A h \in Handlers : req[h].doc # None => req[h].doc # d
    BY <1>2 DEF InsertItem, ResultFirst, ChoiceOffered
  <2>2. item'[d].chosen = None /\ item'[d].status = "pending"
    BY <1>2 DEF InsertItem, NoItem, TypeOK
  <2>3. \A e \in Docs : e # d => item'[e] = item[e]
    BY <1>2 DEF InsertItem, TypeOK
  <2>4. \A h \in Handlers : req[h].doc # None => req[h].doc \in Docs
    BY DEF TypeOK, Request
  <2> QED
    BY <1>2, <2>1, <2>2, <2>3, <2>4 DEF InsertItem, ChoiceOffered
<1>3. ASSUME NEW h \in Handlers, Answer(h) PROVE ChoiceOffered'
  <2>1. ASSUME NEW d \in Docs, NEW act \in item[d].offers \cup {None},
               ItemRead(h, d, act)
        PROVE  ChoiceOffered'
    BY <2>1 DEF ItemRead, db, ChoiceOffered, TypeOK
  <2>2. ASSUME ActCommit(h) \/ DismissCommit(h) PROVE ChoiceOffered'
    <3>1. /\ req[h].doc \in Docs /\ req[h].doc # None
          /\ item[req[h].doc].status # "none"
          /\ req[h].act # None => req[h].act \in item[req[h].doc].offers
          /\ req[h].seen.chosen # None => item[req[h].doc].chosen # None
      BY <2>2, AnswerWrites DEF ChoiceOffered, ActCommit, DismissCommit
    <3>2. /\ item[req[h].doc].chosen # None =>
               item[req[h].doc].chosen \in item[req[h].doc].offers
          /\ item[req[h].doc].status = "acted" => item[req[h].doc].chosen # None
      BY <3>1 DEF ChoiceOffered
    <3>3. PICK n \in Item :
            /\ item' = [item EXCEPT ![req[h].doc] = n]
            /\ n.type = item[req[h].doc].type
            /\ n.offers = item[req[h].doc].offers
            /\ \/ /\ n.status \in {item[req[h].doc].status, "dismissed"}
                  /\ n.chosen = item[req[h].doc].chosen
               \/ /\ n.status \in {item[req[h].doc].status, "acted"}
                  /\ req[h].act # None
                  /\ n.chosen = IF req[h].seen.chosen = req[h].act
                                THEN item[req[h].doc].chosen ELSE req[h].act
      BY <2>2, AnswerWrites
    <3>4. /\ n.chosen # None => n.chosen \in n.offers
          /\ n.status = "acted" => n.chosen # None
          /\ item[req[h].doc].chosen # None => n.chosen # None
          /\ n.status # "none"
      BY <3>1, <3>2, <3>3
    <3>5. \A g \in Handlers : g # h => req'[g] = req[g]
      BY <2>2 DEF ActCommit, DismissCommit, TypeOK
    <3>6. req'[h].doc = None
      BY <2>2 DEF ActCommit, DismissCommit, TypeOK, NoReq
    <3>7. /\ item'[req[h].doc] = n
          /\ \A e \in Docs : e # req[h].doc => item'[e] = item[e]
      BY <3>1, <3>3 DEF TypeOK
    <3>8. \A g \in Handlers : req[g].doc # None => req[g].doc \in Docs
      BY DEF TypeOK, Request
    <3> QED
      BY <3>3, <3>4, <3>5, <3>6, <3>7, <3>8 DEF ChoiceOffered
  <2> QED
    BY <1>3, <2>1, <2>2 DEF Answer
<1>4. ASSUME Restart PROVE ChoiceOffered'
  BY <1>4 DEF Restart, db, ChoiceOffered, NoReq
<1>5. ASSUME NEW d \in Docs, Upload(d) \/ RunPipeline(d), ~InsertItem(d)
      PROVE  UNCHANGED <<item, req>>
  BY <1>5 DEF Upload, RunPipeline, Save, Insert, Start, Parse, Classify,
              Extract, ReadRow, WriteRow, Triage, db
<1>6. ASSUME NEW d \in Docs, NEW place \in Places, File(d, place)
      PROVE  UNCHANGED <<item, req>>
  BY <1>6 DEF File
<1>7. ASSUME NEW f \in Folders, CreateFolder(f) \/ DeleteFolder(f)
      PROVE  UNCHANGED <<item, req>>
  BY <1>7 DEF CreateFolder, DeleteFolder
<1> QED
  BY <1>1, <1>2, <1>3, <1>4, <1>5, <1>6, <1>7 DEF Next, vars

\* Both invariants hold in every reachable state.
LEMMA ResultInvariant == Spec => [](TypeOK /\ ResultFirst /\ ChoiceOffered)
<1>1. Init => ResultFirst
  BY DEF Init, ResultFirst, Live, NoRow, NoItem
<1>2. Init => ChoiceOffered
  BY DEF Init, ChoiceOffered, NoItem, NoReq
<1> QED
  BY <1>1, <1>2, TypeCorrect, ResultStep, ChoiceStep, PTL DEF Spec

\* Whatever is deleted, filed or answered meanwhile, an inbox item never tells
\* another result than the row of its document.
THEOREM ResultAgrees == Spec => []ItemFollowsResult
<1>1. ResultFirst => ItemFollowsResult
  BY DEF ResultFirst, ItemFollowsResult, Live
<1> QED
  BY <1>1, ResultInvariant, PTL

\* However requests on it overlap, an item that was acted on names an action
\* that it offered.
THEOREM ChoiceKept == Spec => []ActedHasChoice
<1>1. ChoiceOffered => ActedHasChoice
  BY DEF ChoiceOffered, ActedHasChoice
<1> QED
  BY <1>1, ResultInvariant, PTL

---------------------------------------------------------------------------
(* Lost uploads *)

\* A task ends with its item, or is known to be lost.
LEMMA ForgetStep == TypeOK /\ NothingForgotten /\ ChoiceOffered /\ [Next]_vars
                      => NothingForgotten'
<1> SUFFICES ASSUME TypeOK, NothingForgotten, ChoiceOffered, [Next]_vars
             PROVE  NothingForgotten'
  OBVIOUS
<1>1. ASSUME NEW d \in Docs, Upload(d) \/ RunPipeline(d)
      PROVE  NothingForgotten'
  <2>1. lost \subseteq lost'
    BY <1>1 DEF Upload, RunPipeline, Save, Insert, Start, Parse, Classify,
                Extract, ReadRow, WriteRow, Triage, InsertItem, Die
  <2>2. ~InsertItem(d) => UNCHANGED item
    BY <1>1 DEF Upload, RunPipeline, Save, Insert, Start, Parse, Classify,
                Extract, ReadRow, WriteRow, Triage, db
  <2>3. pc'[d] = "over" => item'[d].status # "none" \/ d \in lost'
    <3>1. CASE InsertItem(d)
      BY <3>1 DEF InsertItem, NoItem, TypeOK
    <3>2. CASE ~InsertItem(d)
      <4>1. pc'[d] = "over" => d \in lost' \/ pc' = pc
        BY <1>1, <3>2 DEF Upload, RunPipeline, Save, Insert, Start, Parse,
             Classify, Extract, ReadRow, WriteRow, Triage, Die, Goto, TypeOK
      <4> QED
        BY <2>1, <2>2, <3>2, <4>1 DEF NothingForgotten
    <3> QED
      BY <3>1, <3>2
  <2> QED
    BY <1>1, <2>1, <2>3, PipelineTouchesOne DEF NothingForgotten
<1>2. ASSUME NEW h \in Handlers, Answer(h) PROVE NothingForgotten'
  BY <1>2, AnswerKeeps DEF NothingForgotten
<1>3. ASSUME NEW d \in Docs, NEW place \in Places, File(d, place)
      PROVE  NothingForgotten'
  BY <1>3 DEF File, NothingForgotten
<1>4. ASSUME NEW f \in Folders, CreateFolder(f) \/ DeleteFolder(f)
      PROVE  NothingForgotten'
  BY <1>4 DEF CreateFolder, DeleteFolder, NothingForgotten
<1>5. ASSUME Restart PROVE NothingForgotten'
  BY <1>5 DEF Restart, db, NothingForgotten, TypeOK
<1>6. ASSUME UNCHANGED vars PROVE NothingForgotten'
  BY <1>6 DEF vars, NothingForgotten
<1> QED
  BY <1>1, <1>2, <1>3, <1>4, <1>5, <1>6 DEF Next

\* An upload whose task is over has its inbox item, or an exception or a
\* restart is to blame.
THEOREM NoneForgotten == Spec => []NothingForgotten
<1>1. Init => NothingForgotten
  BY DEF Init, NothingForgotten
<1> QED
  BY <1>1, ResultInvariant, ForgetStep, PTL DEF Spec
===========================================================================
