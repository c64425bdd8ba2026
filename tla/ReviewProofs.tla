---------------------------- MODULE ReviewProofs ----------------------------
(***************************************************************************)
(* Theorems about what a person reviews: the decisions on confirmations,   *)
(* and the life of an e-mail draft, for any numbers of confirmations,      *)
(* drafts' contents and requests.  The two share no variable.              *)
(***************************************************************************)
EXTENDS Confirmations, EmailDrafts, TLAPS

USE ConfirmationsAssumption

Statuses == Verdicts \cup {"none", "waiting_confirmation"}
Locals   == [conf : Requests \cup {None}, verdict : Verdicts \cup {"none"},
             task : Statuses]

\* A request under way decides a confirmation that exists; one that holds the
\* lock is the one its row names and knows the task as it is.
LockInv ==
  /\ \A h \in Handlers : pc[h] # "idle" =>
       /\ loc[h].conf \in Requests /\ loc[h].verdict \in Verdicts
       /\ conf[loc[h].conf] # "none"
  /\ \A h \in Handlers : pc[h] = "holding" =>
       /\ holder[loc[h].conf] = h
       /\ loc[h].task = task[loc[h].conf]

\* A task exists only with its confirmation.
NoTaskAlone == \A c \in Requests : conf[c] = "none" => task[c] = "none"

Inv == TypeOK /\ LockInv /\ NoTaskAlone

LEMMA NoLocalTyped == NoLocal \in Locals
BY DEF NoLocal, Locals, Statuses

LEMMA Start == Init => Inv /\ TaskFollowsDecision
<1>1. Init => TypeOK
  BY NoLocalTyped DEF Init, TypeOK, Locals, Statuses
<1>2. QED
  BY <1>1 DEF Init, Inv, LockInv, NoTaskAlone, TaskFollowsDecision

---------------------------------------------------------------------------
(* One lemma per action *)

LEMMA Creates ==
  ASSUME Inv, NEW c \in Requests, CreateConfirmation(c)
  PROVE  Inv'
<1>1. TypeOK'
  BY DEF Inv, CreateConfirmation, TypeOK
<1>2. LockInv'
  <2>1. \A h \in Handlers : pc[h] # "idle" => loc[h].conf # c
    BY DEF Inv, CreateConfirmation, LockInv
  <2>2. QED
    BY <2>1 DEF Inv, CreateConfirmation, LockInv, TypeOK
<1>3. NoTaskAlone'
  BY DEF Inv, CreateConfirmation, NoTaskAlone, TypeOK
<1>4. QED
  BY <1>1, <1>2, <1>3 DEF Inv

LEMMA Reads ==
  ASSUME Inv, NEW h \in Handlers, NEW c \in Requests, NEW verdict \in Verdicts,
         DecideRead(h, c, verdict)
  PROVE  Inv'
<1> DEFINE l == [conf |-> c, verdict |-> verdict, task |-> "none"]
<1>1. l \in Locals
  BY DEF Locals, Statuses
<1>2. loc' = [loc EXCEPT ![h] = l] /\ pc' = [pc EXCEPT ![h] = "checked"]
  BY DEF DecideRead
<1>3. l.conf = c /\ l.verdict = verdict
  OBVIOUS
<1> HIDE DEF l
<1>4. TypeOK'
  <2>1. loc' \in [Handlers -> Locals] /\ pc' \in [Handlers -> {"idle", "checked", "holding"}]
    BY <1>1, <1>2 DEF Inv, TypeOK, Locals, Statuses
  <2>2. QED
    BY <2>1 DEF Inv, DecideRead, TypeOK, Locals, Statuses
<1>5. LockInv'
  BY <1>2, <1>3 DEF Inv, DecideRead, LockInv, TypeOK
<1>6. NoTaskAlone'
  BY DEF Inv, DecideRead, NoTaskAlone
<1>7. QED
  BY <1>4, <1>5, <1>6 DEF Inv

LEMMA Flushes ==
  ASSUME Inv, NEW h \in Handlers, DecideFlush(h)
  PROVE  Inv'
<1> DEFINE c == loc[h].conf
           l == [loc[h] EXCEPT !.task = task[c]]
<1>1. c \in Requests /\ conf[c] # "none"
  BY DEF Inv, LockInv, DecideFlush
<1>2. loc[h] \in Locals /\ task[c] \in Statuses
  BY <1>1 DEF Inv, TypeOK, Locals, Statuses
<1>3. /\ l \in Locals /\ l.task = task[c]
      /\ l.conf = c /\ l.verdict = loc[h].verdict
  BY <1>2 DEF Locals
<1>4. /\ loc' = [loc EXCEPT ![h] = l] /\ pc' = [pc EXCEPT ![h] = "holding"]
      /\ holder' = [holder EXCEPT ![c] = h]
      /\ pc[h] = "checked" /\ holder[c] = None
      /\ UNCHANGED <<conf, task>>
  BY DEF DecideFlush
<1> HIDE DEF l
<1>5. TypeOK'
  BY <1>1, <1>3, <1>4 DEF Inv, TypeOK, Locals, Statuses
<1>6. LockInv'
  <2>1. ASSUME NEW g \in Handlers, pc'[g] # "idle"
        PROVE  /\ loc'[g].conf \in Requests /\ loc'[g].verdict \in Verdicts
               /\ conf'[loc'[g].conf] # "none"
    BY <1>1, <1>3, <1>4, <2>1 DEF Inv, LockInv, TypeOK
  <2>2. ASSUME NEW g \in Handlers, pc'[g] = "holding"
        PROVE  /\ holder'[loc'[g].conf] = g
               /\ loc'[g].task = task'[loc'[g].conf]
    <3>1. CASE g = h
      BY <1>1, <1>3, <1>4, <3>1 DEF Inv, TypeOK
    <3>2. CASE g # h
      <4>1. /\ loc'[g] = loc[g] /\ holder[loc[g].conf] = g
            /\ loc[g].conf \in Requests
            /\ loc[g].task = task[loc[g].conf]
        BY <1>4, <2>2, <3>2 DEF Inv, LockInv, TypeOK
      <4>2. loc[g].conf # c
        BY <1>4, <4>1
      <4>3. QED
        BY <1>4, <4>1, <4>2 DEF Inv, TypeOK
    <3>3. QED
      BY <3>1, <3>2
  <2>3. QED
    BY <2>1, <2>2 DEF LockInv
<1>7. NoTaskAlone'
  BY <1>4 DEF Inv, NoTaskAlone
<1>8. QED
  BY <1>5, <1>6, <1>7 DEF Inv

LEMMA Commits ==
  ASSUME Inv, NEW h \in Handlers, DecideCommit(h)
  PROVE  Inv'
<1> DEFINE l == loc[h]
           t == TaskAfter(l.verdict, l.task)
<1>1. /\ l.conf \in Requests /\ l.verdict \in Verdicts
      /\ holder[l.conf] = h /\ l.task = task[l.conf]
  BY DEF Inv, LockInv, DecideCommit
<1>2. t \in Statuses
  BY <1>1 DEF TaskAfter, Inv, TypeOK, Statuses
<1>3. /\ conf' = [conf EXCEPT ![l.conf] = l.verdict]
      /\ task' = [task EXCEPT ![l.conf] = t]
      /\ holder' = [holder EXCEPT ![l.conf] = None]
      /\ pc' = [pc EXCEPT ![h] = "idle"] /\ loc' = [loc EXCEPT ![h] = NoLocal]
  BY DEF DecideCommit
<1> HIDE DEF l, t
<1>4. TypeOK'
  <2>1. loc' \in [Handlers -> Locals]
    BY <1>3, NoLocalTyped DEF Inv, TypeOK, Locals, Statuses
  <2>2. QED
    BY <1>1, <1>2, <1>3, <2>1 DEF Inv, TypeOK, Locals, Statuses
<1>5. LockInv'
  <2>1. ASSUME NEW g \in Handlers, pc'[g] # "idle"
        PROVE  /\ g # h /\ pc'[g] = pc[g] /\ loc'[g] = loc[g]
               /\ loc[g].conf \in Requests /\ loc[g].verdict \in Verdicts
               /\ conf[loc[g].conf] # "none"
    BY <1>3, <2>1 DEF Inv, LockInv, TypeOK
  <2>2. ASSUME NEW g \in Handlers, pc'[g] # "idle"
        PROVE  conf'[loc[g].conf] # "none"
    <3>1. l.verdict # "none"
      BY <1>1 DEF Verdicts
    <3>2. QED
      BY <1>3, <2>1, <2>2, <3>1 DEF Inv, TypeOK
  <2>3. ASSUME NEW g \in Handlers, pc'[g] = "holding"
        PROVE  /\ holder'[loc[g].conf] = g
               /\ loc[g].task = task'[loc[g].conf]
    <3>1. /\ g # h /\ loc[g].conf \in Requests /\ holder[loc[g].conf] = g
          /\ loc[g].task = task[loc[g].conf]
      BY <2>1, <2>3 DEF Inv, LockInv
    <3>2. loc[g].conf # l.conf
      BY <1>1, <3>1
    <3>3. QED
      BY <1>3, <3>1, <3>2 DEF Inv, TypeOK
  <2>4. QED
    BY <2>1, <2>2, <2>3 DEF LockInv
<1>6. NoTaskAlone'
  BY <1>1, <1>3 DEF Inv, NoTaskAlone, TypeOK, Verdicts
<1>7. QED
  BY <1>4, <1>5, <1>6 DEF Inv

LEMMA Restarts ==
  ASSUME Inv, Restart
  PROVE  Inv'
<1>1. TypeOK'
  BY NoLocalTyped DEF Inv, Restart, TypeOK, Locals, Statuses
<1>2. QED
  BY <1>1 DEF Inv, Restart, LockInv, NoTaskAlone

LEMMA InvStep == Inv /\ [Next]_vars => Inv'
<1> SUFFICES ASSUME Inv, [Next]_vars PROVE Inv'
  OBVIOUS
<1>1. CASE UNCHANGED vars
  BY <1>1 DEF Inv, vars, TypeOK, LockInv, NoTaskAlone
<1>2. QED
  BY <1>1, Creates, Reads, Flushes, Commits, Restarts DEF Next, Decide

\* Every reachable state of the model is well typed.
THEOREM TypeCorrect == Spec => []TypeOK
<1>1. Inv => TypeOK
  BY DEF Inv
<1>2. QED
  BY <1>1, Start, InvStep, PTL DEF Spec

---------------------------------------------------------------------------
(* The task and the decision *)

LEMMA DecisionStep ==
  ASSUME Inv, TaskFollowsDecision, [Next]_vars
  PROVE  /\ TaskFollowsDecision'
         /\ \A c \in Requests : task[c] = "rejected" => task'[c] = "rejected"
<1> USE DEF TaskFollowsDecision
<1>1. ASSUME NEW c \in Requests, CreateConfirmation(c)
      PROVE  /\ TaskFollowsDecision'
             /\ \A k \in Requests : task[k] = "rejected" => task'[k] = "rejected"
  BY <1>1 DEF CreateConfirmation, Inv, TypeOK, NoTaskAlone
<1>2. ASSUME UNCHANGED <<conf, task>>
      PROVE  /\ TaskFollowsDecision'
             /\ \A k \in Requests : task[k] = "rejected" => task'[k] = "rejected"
  BY <1>2
<1>3. ASSUME NEW h \in Handlers, DecideCommit(h)
      PROVE  /\ TaskFollowsDecision'
             /\ \A k \in Requests : task[k] = "rejected" => task'[k] = "rejected"
  <2> DEFINE l == loc[h]
  <2>1. /\ l.conf \in Requests /\ l.verdict \in Verdicts
        /\ l.task = task[l.conf]
    BY <1>3 DEF Inv, LockInv, DecideCommit
  <2>2. /\ conf' = [conf EXCEPT ![l.conf] = l.verdict]
        /\ task' = [task EXCEPT ![l.conf] = TaskAfter(l.verdict, task[l.conf])]
    BY <1>3, <2>1 DEF DecideCommit
  <2> HIDE DEF l
  <2>3. QED
    BY <2>1, <2>2 DEF TaskAfter, Inv, TypeOK, Verdicts
<1>4. QED
  BY <1>1, <1>2, <1>3 DEF Next, Decide, DecideRead, DecideFlush, Restart, vars

\* Whatever decisions on a confirmation overlap, its task is approved only
\* under an approval, waits while it is pending, and is rejected with it.
THEOREM TasksFollow == Spec => []TaskFollowsDecision
<1>1. /\ Inv /\ TaskFollowsDecision /\ [Next]_vars
      => Inv' /\ TaskFollowsDecision'
  BY InvStep, DecisionStep
<1>2. QED
  BY <1>1, Start, PTL DEF Spec

\* A rejected task stays rejected.
THEOREM RejectionStays == Spec => RejectionIsFinal
<1>1. /\ Inv /\ TaskFollowsDecision /\ [Next]_vars
      => /\ Inv' /\ TaskFollowsDecision'
         /\ [\A c \in Requests : task[c] = "rejected" => task'[c] = "rejected"]_vars
  BY InvStep, DecisionStep
<1>2. QED
  BY <1>1, Start, PTL DEF Spec, RejectionIsFinal

---------------------------------------------------------------------------
(* E-mail drafts *)

USE EmailDraftsAssumption

\* A row has a content, an edit under way holds one, and what is or was
\* approved has its approval recorded.
DraftInv ==
  /\ DraftTypeOK
  /\ status # "none" => content # NoContent
  /\ \A h \in DraftHandlers : draftPc[h] = "updating" => draftLoc[h] # NoContent
  /\ status \in {"approved", "sent"} => approved # NoContent
  /\ \A h \in DraftHandlers : draftPc[h] # "idle" => status # "none"
  /\ \A h \in DraftHandlers : draftPc[h] = "sending" => approved # NoContent

LEMMA DraftStart == DraftInit => DraftInv
BY DEF DraftInit, DraftInv, DraftTypeOK

LEMMA DraftBegins ==
  ASSUME DraftInv, NEW h \in DraftHandlers, NEW c \in Contents \cup {NoContent},
         NEW wanted \in {"pending_review", "approved"},
         \/ Begin(h, "updating", wanted, c) /\ c # NoContent
         \/ Begin(h, "approving", wanted, c)
         \/ Begin(h, "sending", wanted, c) /\ wanted = "approved"
  PROVE  DraftInv'
<1>1. DraftTypeOK'
  BY DEF DraftInv, DraftTypeOK, Begin
<1>2. QED
  BY <1>1 DEF DraftInv, DraftTypeOK, Begin

LEMMA DraftInvStep ==
  ASSUME DraftInv, [DraftNext]_draftVars
  PROVE  DraftInv'
<1>1. ASSUME NEW c \in Contents, CreateDraft(c) PROVE DraftInv'
  BY <1>1 DEF CreateDraft, DraftInv, DraftTypeOK
<1>2. ASSUME NEW h \in DraftHandlers, NEW c \in Contents, UpdateRead(h, c)
      PROVE  DraftInv'
  BY <1>2, DraftBegins DEF UpdateRead
<1>3. ASSUME NEW h \in DraftHandlers, ApproveRead(h) \/ SendRead(h) PROVE DraftInv'
  BY <1>3, DraftBegins DEF ApproveRead, SendRead
<1>4. ASSUME NEW h \in DraftHandlers, UpdateCommit(h) PROVE DraftInv'
  <2>1. draftLoc[h] \in Contents
    BY <1>4 DEF UpdateCommit, DraftInv, DraftTypeOK
  <2>2. DraftTypeOK'
    BY <1>4, <2>1 DEF UpdateCommit, End, DraftInv, DraftTypeOK
  <2>3. QED
    BY <1>4, <2>1, <2>2 DEF UpdateCommit, End, DraftInv, DraftTypeOK
<1>5. ASSUME NEW h \in DraftHandlers, ApproveCommit(h) PROVE DraftInv'
  <2>1. DraftTypeOK'
    BY <1>5 DEF ApproveCommit, End, DraftInv, DraftTypeOK
  <2>2. Exists => approved' # NoContent
    BY <1>5 DEF ApproveCommit, Exists, DraftInv
  <2>3. approved # NoContent => approved' # NoContent
    BY <1>5 DEF ApproveCommit
  <2>4. status' # "none" /\ (status' # status => Exists)
    BY <1>5 DEF ApproveCommit, DraftInv
  <2>5. QED
    BY <1>5, <2>1, <2>2, <2>3, <2>4 DEF ApproveCommit, End, DraftInv, DraftTypeOK
<1>6. ASSUME NEW h \in DraftHandlers, SendCommit(h) PROVE DraftInv'
  <2>1. DraftTypeOK'
    BY <1>6 DEF SendCommit, End, DraftInv, DraftTypeOK
  <2>2. approved # NoContent /\ approved' = approved /\ status # "none"
    BY <1>6 DEF SendCommit, DraftInv
  <2>3. QED
    BY <1>6, <2>1, <2>2 DEF SendCommit, End, DraftInv, DraftTypeOK
<1>7. CASE DeleteDraft
  BY <1>7 DEF DeleteDraft, Exists, DraftInv, DraftTypeOK
<1>8. CASE UNCHANGED draftVars
  BY <1>8 DEF draftVars, DraftInv, DraftTypeOK
<1>9. QED
  BY <1>1, <1>2, <1>3, <1>4, <1>5, <1>6, <1>7, <1>8 DEF DraftNext, Request

\* Every reachable state of a draft and its requests is well typed.
THEOREM DraftTypeCorrect == DraftSpec => []DraftTypeOK
<1>1. DraftInv => DraftTypeOK
  BY DEF DraftInv
<1>2. DraftInv /\ [DraftNext]_draftVars => DraftInv'
  BY DraftInvStep
<1>3. QED
  BY <1>1, <1>2, DraftStart, PTL DEF DraftSpec

\* Nothing is sent, or about to be, that was never approved.
THEOREM SentApproved == DraftSpec => []SentWasApproved
<1>1. DraftInv => SentWasApproved
  BY DEF DraftInv, SentWasApproved
<1>2. DraftInv /\ [DraftNext]_draftVars => DraftInv'
  BY DraftInvStep
<1>3. QED
  BY <1>1, <1>2, DraftStart, PTL DEF DraftSpec

---------------------------------------------------------------------------
LEMMA SettledStep ==
  ASSUME DraftInv, Settled, [DraftNext]_draftVars
  PROVE  content' = content /\ (Settled' \/ status' = "deleted")
<1> Exists
  BY DEF Settled, Exists
<1> USE DEF Settled
<1>1. ASSUME NEW c \in Contents, CreateDraft(c) PROVE FALSE
  BY <1>1 DEF CreateDraft
<1>2. ASSUME NEW h \in DraftHandlers, NEW c \in Contents, UpdateRead(h, c)
      PROVE  FALSE
  BY <1>2 DEF UpdateRead, Begin
<1>3. ASSUME NEW h \in DraftHandlers, UpdateCommit(h) PROVE FALSE
  BY <1>3 DEF UpdateCommit
<1>4. ASSUME NEW h \in DraftHandlers, ApproveRead(h) PROVE FALSE
  BY <1>4 DEF ApproveRead, Begin
<1>5. ASSUME NEW h \in DraftHandlers, SendRead(h)
      PROVE  content' = content /\ Settled'
  BY <1>5 DEF SendRead, Begin, DraftInv, DraftTypeOK
<1>6. ASSUME NEW h \in DraftHandlers, ApproveCommit(h) \/ SendCommit(h)
      PROVE  content' = content /\ Settled'
  BY <1>6 DEF ApproveCommit, SendCommit, End, DraftInv, DraftTypeOK
<1>7. CASE DeleteDraft
  BY <1>7 DEF DeleteDraft
<1>8. CASE UNCHANGED draftVars
  BY <1>8 DEF draftVars
<1>9. QED
  BY <1>1, <1>2, <1>3, <1>4, <1>5, <1>6, <1>7, <1>8 DEF DraftNext, Request

\* Once a draft is approved and no edit is in flight its content is fixed.
THEOREM SettledFixed == DraftSpec => SettledStaysFixed
<1>1. DraftInv /\ [DraftNext]_draftVars =>
        /\ DraftInv'
        /\ [Settled => content' = content
                    /\ (Settled' \/ status' = "deleted")]_draftVars
  BY DraftInvStep, SettledStep
<1>2. QED
  BY <1>1, DraftStart, PTL DEF DraftSpec, SettledStaysFixed
=============================================================================
