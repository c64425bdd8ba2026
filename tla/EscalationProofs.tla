------------------------- MODULE EscalationProofs -------------------------
(***************************************************************************)
(* Proofs about Escalation for any number of deadlines, rules, executions, *)
(* tasks and step lists: type correctness; that an execution has one       *)
(* thread of control, which makes its history correct; that closing it     *)
(* ends it; that effects match the history; and that the ledger is kept.   *)
(***************************************************************************)
EXTENDS Escalation, TLAPS

\* The history variables that most actions leave alone.
USE DEF past

\* Every committed execution names a rule.
RowsHaveRules ==
  \A e \in Executions : rows[e].status # "none" => rows[e].rule \in Rules

\* A task past a control point holds the values it reads later.
TasksHoldValues ==
  \A h \in Tasks :
    /\ pc[h] = "activating" =>
         loc[h].deadline \in Deadlines /\ loc[h].rule \in Rules
    /\ pc[h] \notin {"idle", "activating"} => loc[h].exec \in Executions
    /\ pc[h] = "acted" => /\ loc[h].result \in Results
                          /\ loc[h].seen.step < Len(loc[h].steps)
    /\ pc[h] \in {"stepping", "acted", "resolved", "cancelled"} =>
         rows[loc[h].exec].status # "none"

\* No step removes an execution's row.
RowsKept == \A e \in Executions :
              rows[e].status # "none" => rows'[e].status # "none"

TypeInv == TypeOK /\ RowsHaveRules /\ TasksHoldValues

\* The constant records have their types.
LEMMA ConstantsTyped == NoRow \in Row /\ NoLocal \in Local
  BY DEF NoRow, Row, Statuses, NoLocal, Local, NoJob, Results

\* The row inserted by an activation.
LEMMA RowInserted ==
  ASSUME NEW d \in Deadlines, NEW r \in Rules
  PROVE  LET u == [NoRow EXCEPT !.status = "active", !.deadline = d,
                                !.rule = r, !.job = 1]
         IN  u \in Row /\ u.rule = r /\ u.status = "active" /\ u.job = 1
             /\ u.step = 0 /\ u.history = <<>>
<1>1. <<>> \in Seq(Entry)
  OBVIOUS
<1> QED
  BY <1>1 DEF NoRow, Row, Statuses, NoJob

\* The initial state has the types.
LEMMA TypeInit == Init => TypeInv
<1> SUFFICES ASSUME Init PROVE TypeInv
  OBVIOUS
<1>1. TypeOK
  BY ConstantsTyped DEF Init, TypeOK, Rule, Points
<1>2. RowsHaveRules /\ TasksHoldValues
  BY DEF Init, RowsHaveRules, TasksHoldValues, NoRow
<1> QED
  BY <1>1, <1>2 DEF TypeInv

\* Ending a task keeps the types of the control state.
LEMMA FinishTyped ==
  ASSUME TypeInv, NEW h \in Tasks, Finish(h)
  PROVE  /\ pc' \in [Tasks -> Points]
         /\ loc' \in [Tasks -> Local]
         /\ \A t \in Tasks : t # h => pc'[t] = pc[t] /\ loc'[t] = loc[t]
         /\ pc'[h] = "idle"
  BY ConstantsTyped DEF Finish, TypeInv, TypeOK, Points

\* Ending a task keeps what the others hold.
LEMMA FinishHolds ==
  ASSUME TypeInv, NEW h \in Tasks, Finish(h), RowsKept
  PROVE  TasksHoldValues'
  BY FinishTyped DEF TypeInv, TasksHoldValues, RowsKept

\* Every step keeps the types.
LEMMA TypeStep == TypeInv /\ [Next]_vars => TypeInv'
<1> SUFFICES ASSUME TypeInv, [Next]_vars PROVE TypeInv'
  OBVIOUS
<1> USE DEF TypeInv
<1>1. ASSUME NEW r \in Rules, NEW steps \in StepLists, NEW a \in BOOLEAN,
             CreateRule(r, steps, a) \/ UpdateRule(r, steps, a)
      PROVE  TypeInv'
  <2>1. steps \in Seq(Step)
    BY EscalationAssumption
  <2>2. ASSUME CreateRule(r, steps, a) PROVE rules' \in [Rules -> Rule]
    BY <2>1, <2>2 DEF CreateRule, TypeOK, Rule
  <2>3. ASSUME UpdateRule(r, steps, a) PROVE rules' \in [Rules -> Rule]
    <3> DEFINE u == [rules[r] EXCEPT !.active = a, !.steps = steps]
    <3>1. u \in Rule
      BY <2>1 DEF TypeOK, Rule
    <3> QED
      BY <2>3, <3>1 DEF UpdateRule, TypeOK
  <2>4. rules' \in [Rules -> Rule]
    BY <1>1, <2>2, <2>3
  <2> QED
    BY <1>1, <2>4 DEF CreateRule, UpdateRule, TypeOK, RowsHaveRules,
                      TasksHoldValues, jobs
<1>2. ASSUME NEW r \in Rules, DeleteRule(r) PROVE TypeInv'
  <2> DEFINE u == [rules[r] EXCEPT !.state = "deleted", !.active = FALSE]
  <2>0. u \in Rule
    BY DEF TypeOK, Rule
  <2>1. rules' \in [Rules -> Rule]
    BY <1>2, <2>0 DEF DeleteRule, TypeOK
  <2> QED
    BY <1>2, <2>1 DEF DeleteRule, TypeOK, RowsHaveRules, TasksHoldValues, jobs
<1>3. ASSUME NEW h \in Handlers, NEW d \in Deadlines, NEW r \in Rules,
             ActivateCheck(h, d, r)
      PROVE  TypeInv'
  <2> DEFINE l == [NoLocal EXCEPT !.deadline = d, !.rule = r,
                                  !.steps = rules[r].steps]
  <2>1. l \in Local /\ l.deadline = d /\ l.rule = r
    BY ConstantsTyped DEF Local, NoLocal, TypeOK, Rule
  <2>2. h \in Tasks
    BY DEF Tasks
  <2>3. pc' = [pc EXCEPT ![h] = "activating"] /\ loc' = [loc EXCEPT ![h] = l]
    BY <1>3 DEF ActivateCheck
  <2>4. TypeOK'
    BY <1>3, <2>1, <2>2, <2>3 DEF ActivateCheck, TypeOK, db, jobs, Points
  <2>5. TasksHoldValues'
    BY <1>3, <2>1, <2>2, <2>3 DEF ActivateCheck, db, TypeOK, TasksHoldValues
  <2> QED
    BY <1>3, <2>4, <2>5 DEF ActivateCheck, db, RowsHaveRules
<1>4. ASSUME NEW h \in Handlers, NEW e \in Executions, ActivateCommit(h, e)
      PROVE  TypeInv'
  <2>1. h \in Tasks
    BY DEF Tasks
  <2>2. loc[h].deadline \in Deadlines /\ loc[h].rule \in Rules
    BY <1>4, <2>1 DEF ActivateCommit, TasksHoldValues
  <2>3. rows' \in [Executions -> Row] /\ RowsHaveRules' /\ RowsKept
    <3> DEFINE u == [NoRow EXCEPT !.status = "active",
                       !.deadline = loc[h].deadline, !.rule = loc[h].rule,
                       !.job = 1]
    <3>1. u \in Row /\ u.rule \in Rules /\ u.status = "active"
      BY <2>2, RowInserted
    <3>2. rows' = rows \/ rows' = [rows EXCEPT ![e] = u]
      BY <1>4 DEF ActivateCommit
    <3> HIDE DEF u
    <3> QED
      BY <3>1, <3>2 DEF TypeOK, RowsHaveRules, RowsKept
  <2>4. pending' \in [Executions -> SUBSET (Nat \ {0})]
        /\ minted' \in [Executions -> Nat]
    BY <1>4 DEF ActivateCommit, TypeOK
  <2> QED
    BY <1>4, <2>1, <2>3, <2>4, FinishTyped, FinishHolds
       DEF ActivateCommit, TypeOK
<1>5. ASSUME NEW h \in Runners, NEW e \in Executions, FireFor(h, e)
      PROVE  TypeInv'
  <2>1. PICK j \in pending[e] : JobFires(h, e, j)
    BY <1>5 DEF FireFor
  <2>2. h \in Tasks
    BY DEF Tasks
  <2>3. pending' \in [Executions -> SUBSET (Nat \ {0})]
        /\ UNCHANGED <<db, minted, sent, past>>
    BY <2>1 DEF JobFires, TypeOK
  <2>4. CASE Wired
    <3>1. /\ pc' = [pc EXCEPT ![h] = "fired"]
          /\ loc' = [loc EXCEPT ![h].exec = e]
      BY <2>1, <2>4 DEF JobFires
    <3>2. loc' \in [Tasks -> Local] /\ pc' \in [Tasks -> Points]
      BY <2>2, <3>1 DEF TypeOK, Local, Points
    <3>3. TasksHoldValues'
      BY <2>2, <2>3, <3>1 DEF TypeOK, TasksHoldValues, Local, db
    <3> QED
      BY <2>3, <3>2, <3>3 DEF TypeOK, db, RowsHaveRules
  <2>5. CASE ~Wired
    <3>1. UNCHANGED <<pc, loc>>
      BY <2>1, <2>5 DEF JobFires
    <3> QED
      BY <2>3, <3>1 DEF TypeOK, db, RowsHaveRules, TasksHoldValues
  <2> QED
    BY <2>4, <2>5
<1>6. ASSUME NEW h \in Runners, RunStep(h) PROVE TypeInv'
  <2> DEFINE l == loc[h]
  <2>1. h \in Tasks
    BY DEF Tasks
  <2>2. CASE StepRead(h)
    <3>1. l.exec \in Executions
      BY <2>1, <2>2 DEF StepRead, TasksHoldValues
    <3>2. CASE rows[l.exec].status = "active"
      <4>1. rows[l.exec].rule \in Rules /\ rows[l.exec] \in Row
        BY <3>1, <3>2 DEF RowsHaveRules, TypeOK
      <4>2. rules[rows[l.exec].rule].steps \in Seq(Step)
        BY <4>1 DEF TypeOK, Rule
      <4>3. loc' = [loc EXCEPT ![h].seen = rows[l.exec],
                               ![h].steps = rules[rows[l.exec].rule].steps]
            /\ pc' = [pc EXCEPT ![h] = "stepping"]
        BY <2>2, <3>2 DEF StepRead
      <4>4. loc' \in [Tasks -> Local] /\ pc' \in [Tasks -> Points]
        <5> DEFINE v == [loc[h] EXCEPT !.seen = rows[l.exec],
                                  !.steps = rules[rows[l.exec].rule].steps]
        <5>1. v \in Local
          BY <2>1, <4>1, <4>2 DEF TypeOK, Local
        <5> QED
          BY <4>3, <5>1 DEF TypeOK, Points
      <4>5. TasksHoldValues'
        BY <2>1, <2>2, <3>1, <3>2, <4>3
           DEF StepRead, db, TypeOK, TasksHoldValues, Local
      <4> QED
        BY <2>2, <4>4, <4>5 DEF StepRead, TypeOK, db, jobs, RowsHaveRules
    <3>3. CASE rows[l.exec].status # "active"
      <4>1. Finish(h)
        BY <2>2, <3>3 DEF StepRead
      <4> QED
        BY <2>1, <2>2, <4>1, FinishTyped, FinishHolds
           DEF StepRead, TypeOK, db, jobs, RowsHaveRules, RowsKept
    <3> QED
      BY <3>2, <3>3
  <2>3. CASE StepOverrun(h)
    <3>1. l.exec \in Executions
      BY <2>1, <2>3 DEF StepOverrun, TasksHoldValues
    <3>2. rows' \in [Executions -> Row] /\ RowsHaveRules' /\ RowsKept
      <4> DEFINE j == ClearedJob(l)
      <4>1. rows[l.exec] \in Row /\ j \in Nat /\ "exhausted" \in Statuses
        BY <3>1 DEF TypeOK, ClearedJob, NoJob, Row, Statuses
      <4>2. rows[l.exec].rule \in Rules
        BY <2>1, <2>3, <3>1 DEF StepOverrun, TasksHoldValues, RowsHaveRules
      <4> DEFINE u == [rows[l.exec] EXCEPT !.status = "exhausted", !.job = j]
      <4>3. u \in Row /\ u.rule \in Rules /\ u.status # "none"
        BY <4>1, <4>2 DEF Row
      <4>4. rows' = [rows EXCEPT ![l.exec] = u]
        BY <2>3 DEF StepOverrun
      <4> HIDE DEF u
      <4> QED
        BY <3>1, <4>3, <4>4 DEF TypeOK, RowsHaveRules, RowsKept
    <3>3. pending' \in [Executions -> SUBSET (Nat \ {0})]
      BY <2>3, <3>1 DEF StepOverrun, TypeOK
    <3> QED
      BY <2>1, <2>3, <3>2, <3>3, FinishTyped, FinishHolds
         DEF StepOverrun, TypeOK
  <2>4. CASE StepAct(h)
    <3>1. l.exec \in Executions /\ l \in Local
      BY <2>1, <2>4 DEF StepAct, TasksHoldValues, TypeOK
    <3>2. l.seen.step \in Nat
      BY <3>1 DEF Local, Row
    <3>3. PICK result \in Results : loc' = [loc EXCEPT ![h].result = result]
      BY <2>4 DEF StepAct, Results
    <3>4. loc' \in [Tasks -> Local]
      BY <3>3, <2>1 DEF TypeOK, Local
    <3>5. sent' \in [Executions -> Seq(Nat)]
      <4>1. Append(sent[l.exec], l.seen.step) \in Seq(Nat)
        BY <3>1, <3>2 DEF TypeOK
      <4>2. \/ sent' = [sent EXCEPT ![l.exec] = Append(@, l.seen.step)]
            \/ sent' = sent
        BY <2>4 DEF StepAct
      <4> QED
        BY <3>1, <4>1, <4>2 DEF TypeOK
    <3>6. pc' = [pc EXCEPT ![h] = "acted"] /\ l.seen.step < Len(l.steps)
      BY <2>4 DEF StepAct
    <3>7. TasksHoldValues'
      BY <2>1, <2>4, <3>1, <3>3, <3>6
         DEF StepAct, db, TypeOK, TasksHoldValues, Local
    <3> QED
      BY <2>4, <3>4, <3>5, <3>6, <3>7
         DEF StepAct, TypeOK, Points, db, jobs, RowsHaveRules
  <2>5. CASE StepCommitLast(h) \/ StepCommitNext(h)
    <3>1. /\ l.exec \in Executions /\ l \in Local /\ l.result \in Results
          /\ l.seen.step < Len(l.steps)
          /\ rows[l.exec] \in Row /\ rows[l.exec].rule \in Rules
      BY <2>1, <2>5 DEF StepCommitLast, StepCommitNext, TasksHoldValues,
                        TypeOK, RowsHaveRules
    <3>2. /\ l.seen.step \in Nat /\ l.seen.history \in Seq(Entry)
          /\ l.steps \in Seq(Step)
      BY <3>1 DEF Local, Row
    <3>3. l.steps[l.seen.step + 1] \in Step
      BY <3>1, <3>2
    <3>4. NewEntry(l) \in Entry
      BY <3>1, <3>2, <3>3 DEF NewEntry, Entry, Step
    <3>5. Append(l.seen.history, NewEntry(l)) \in Seq(Entry)
      BY <3>2, <3>4
    <3>6. CASE StepCommitLast(h)
      <4> DEFINE j == ClearedJob(l)
      <4>1. j \in Nat /\ "exhausted" \in Statuses
        BY <3>1 DEF ClearedJob, NoJob, Row, Statuses
      <4>2. rows' \in [Executions -> Row] /\ RowsHaveRules' /\ RowsKept
        <5> DEFINE r == rows[l.exec]
                   k == l.seen.step + 1
                   hi == Append(l.seen.history, NewEntry(l))
                   u == [r EXCEPT !.history = hi, !.step = k,
                                  !.status = "exhausted", !.job = j]
        <5>1. hi \in Seq(Entry) /\ k \in Nat /\ r \in Row /\ r.rule \in Rules
          BY <3>1, <3>2, <3>5
        <5> HIDE DEF hi, j, k, r
        <5>2. u \in Row /\ u.rule \in Rules /\ u.status # "none"
          BY <4>1, <5>1 DEF Row
        <5>3. rows' = [rows EXCEPT ![l.exec] = u]
          BY <3>6 DEF StepCommitLast, hi, j, k, r
        <5> HIDE DEF u
        <5> QED
          BY <3>1, <5>2, <5>3 DEF TypeOK, RowsHaveRules, RowsKept
      <4>3. /\ pending' \in [Executions -> SUBSET (Nat \ {0})]
            /\ confirms' \in [Executions -> Seq(Nat)]
        BY <3>6, <3>1, <3>2 DEF StepCommitLast, RecordStep, TypeOK
      <4> QED
        BY <2>1, <3>6, <4>2, <4>3, FinishTyped, FinishHolds
           DEF StepCommitLast, TypeOK
    <3>7. CASE StepCommitNext(h)
      <4>1. minted[l.exec] + 1 \in Nat \ {0}
        BY <3>1 DEF TypeOK
      <4>2. rows' \in [Executions -> Row] /\ RowsHaveRules' /\ RowsKept
        <5> DEFINE hi == Append(l.seen.history, NewEntry(l))
                   j  == minted[l.exec] + 1
                   k  == l.seen.step + 1
                   r  == rows[l.exec]
                   u  == [r EXCEPT !.history = hi, !.step = k, !.job = j]
        <5>0. r.status # "none"
          BY <2>1, <3>7 DEF StepCommitNext, TasksHoldValues
        <5>1. /\ hi \in Seq(Entry) /\ j \in Nat /\ k \in Nat
              /\ r \in Row /\ r.rule \in Rules
          BY <3>1, <3>2, <3>5, <4>1
        <5> HIDE DEF hi, j, k, r
        <5>2. u \in Row /\ u.rule \in Rules /\ u.status # "none"
          BY <5>0, <5>1 DEF Row
        <5>3. rows' = [rows EXCEPT ![l.exec] = u]
          BY <3>7 DEF StepCommitNext, hi, j, k, r
        <5> HIDE DEF u
        <5> QED
          BY <3>1, <5>2, <5>3 DEF TypeOK, RowsHaveRules, RowsKept
      <4>3. /\ pending' \in [Executions -> SUBSET (Nat \ {0})]
            /\ minted' \in [Executions -> Nat]
        BY <3>7, <3>1, <4>1 DEF StepCommitNext, TypeOK
      <4>4. confirms' \in [Executions -> Seq(Nat)]
        BY <3>7, <3>1, <3>2 DEF StepCommitNext, RecordStep, TypeOK
      <4> QED
        BY <2>1, <3>7, <4>2, <4>3, <4>4, FinishTyped, FinishHolds
           DEF StepCommitNext, TypeOK
    <3> QED
      BY <2>5, <3>6, <3>7
  <2>6. CASE StepFails(h)
    BY <2>1, <2>6, FinishTyped, FinishHolds
       DEF StepFails, TypeOK, db, jobs, RowsHaveRules, RowsKept
  <2>7. CASE StepRaises(h)
    BY <2>1, <2>7, FinishTyped, FinishHolds
       DEF StepRaises, TypeOK, db, jobs, RowsHaveRules, RowsKept
  <2> QED
    BY <1>6, <2>2, <2>3, <2>4, <2>5, <2>6, <2>7 DEF RunStep
<1>7. ASSUME NEW h \in Handlers, NEW e \in Executions,
             NEW outcome \in {"resolved", "cancelled"},
             CloseRead(h, e, outcome)
      PROVE  TypeInv'
  <2> DEFINE l == [NoLocal EXCEPT !.exec = e, !.seen = rows[e]]
  <2>1. h \in Tasks /\ l \in Local /\ l.exec = e
    BY ConstantsTyped DEF Tasks, TypeOK, Local, NoLocal
  <2>2. pc' = [pc EXCEPT ![h] = outcome] /\ loc' = [loc EXCEPT ![h] = l]
    BY <1>7 DEF CloseRead
  <2>3. TypeOK'
    BY <1>7, <2>1, <2>2 DEF CloseRead, TypeOK, Points, db, jobs
  <2>4. TasksHoldValues'
    BY <1>7, <2>1, <2>2 DEF CloseRead, db, TypeOK, TasksHoldValues
  <2> QED
    BY <1>7, <2>3, <2>4 DEF CloseRead, db, RowsHaveRules
<1>8. ASSUME NEW h \in Handlers, CloseCommit(h) PROVE TypeInv'
  <2> DEFINE l == loc[h]
  <2>1. h \in Tasks
    BY DEF Tasks
  <2>2. l.exec \in Executions
    BY <1>8, <2>1 DEF CloseCommit, TasksHoldValues
  <2>3. rows[l.exec] \in Row /\ rows[l.exec].rule \in Rules
        /\ rows[l.exec].status # "none"
    BY <1>8, <2>1, <2>2 DEF CloseCommit, TasksHoldValues, TypeOK, RowsHaveRules
  <2> DEFINE st == WrittenStatus(h, l)
             j  == ClearedJob(l)
  <2>4. st \in Statuses /\ st # "none" /\ j \in Nat
    BY <1>8, <2>3 DEF CloseCommit, Statuses, ClearedJob, NoJob, Row,
                      WrittenStatus
  <2>5. rows' = [rows EXCEPT ![l.exec] =
                   [rows[l.exec] EXCEPT !.status = st, !.job = j]]
    BY <1>8 DEF CloseCommit
  <2>6. rows' \in [Executions -> Row] /\ RowsHaveRules' /\ RowsKept
    <3> DEFINE u == [rows[l.exec] EXCEPT !.status = st, !.job = j]
    <3> HIDE DEF st, j
    <3>1. u \in Row /\ u.rule \in Rules /\ u.status # "none"
      BY <2>3, <2>4 DEF Row
    <3> HIDE DEF u
    <3> QED
      BY <2>2, <2>5, <3>1 DEF u, TypeOK, RowsHaveRules, RowsKept
  <2>7. /\ pending' \in [Executions -> SUBSET (Nat \ {0})]
        /\ closedAt' \in [Executions -> Nat \cup {-1}]
    <3>1. Len(rows[l.exec].history) \in Nat
      BY <2>3 DEF Row
    <3>2. pending' = [pending EXCEPT ![l.exec] = pending[l.exec] \ {l.seen.job}]
      BY <1>8 DEF CloseCommit
    <3>3. \/ closedAt' = closedAt
          \/ closedAt' = [closedAt EXCEPT ![l.exec] = Len(rows[l.exec].history)]
      BY <1>8 DEF CloseCommit
    <3> QED
      BY <2>2, <3>1, <3>2, <3>3 DEF TypeOK
  <2> QED
    BY <1>8, <2>1, <2>6, <2>7, FinishTyped, FinishHolds
       DEF CloseCommit, TypeOK
<1>9. ASSUME Restart PROVE TypeInv'
  BY <1>9, ConstantsTyped
     DEF Restart, TypeOK, Points, db, RowsHaveRules, TasksHoldValues
<1>10. ASSUME NEW e \in Executions, NEW j \in pending[e], Misfire(e, j)
       PROVE  TypeInv'
  BY <1>10 DEF Misfire, TypeOK, db, RowsHaveRules, TasksHoldValues
<1>11. ASSUME NEW h \in Tasks, RollsBack(h) \/ CancelUndone(h) \/ StepUndone(h)
       PROVE  TypeInv'
  <2>1. Finish(h) /\ rows' = rows /\ UNCHANGED <<rules, confirms, closedAt, sent>>
    BY <1>11 DEF RollsBack, CancelUndone, StepUndone, db
  <2>2. CASE RollsBack(h)
    BY <2>1, <2>2, FinishTyped, FinishHolds
       DEF RollsBack, jobs, TypeOK, RowsHaveRules, RowsKept
  <2>3. CASE CancelUndone(h)
    <3>1. loc[h].exec \in Executions
      BY <2>3 DEF CancelUndone, TasksHoldValues
    <3>2. pending' \in [Executions -> SUBSET (Nat \ {0})]
      BY <2>3, <3>1 DEF CancelUndone, TypeOK
    <3> QED
      BY <2>1, <2>3, <3>2, FinishTyped, FinishHolds
         DEF CancelUndone, TypeOK, RowsHaveRules, RowsKept
  <2>4. CASE StepUndone(h)
    <3>1. loc[h].exec \in Executions /\ loc[h].seen.step \in Nat
      BY <2>4 DEF StepUndone, TasksHoldValues, TypeOK, Local, Row
    <3>2. /\ pending' \in [Executions -> SUBSET (Nat \ {0})]
          /\ minted' \in [Executions -> Nat]
          /\ stray' \in [Executions -> SUBSET Nat]
      BY <2>4, <3>1 DEF StepUndone, TypeOK
    <3>3. undone' \in [Executions -> Seq(Nat)]
      <4>1. Append(undone[loc[h].exec], loc[h].seen.step) \in Seq(Nat)
        BY <3>1 DEF TypeOK
      <4>2. \/ undone' = undone
            \/ undone' = [undone EXCEPT ![loc[h].exec] =
                            Append(undone[loc[h].exec], loc[h].seen.step)]
        BY <2>4 DEF StepUndone
      <4> QED
        BY <4>1, <4>2 DEF TypeOK
    <3> QED
      BY <2>1, <3>2, <3>3, FinishTyped, FinishHolds
         DEF TypeOK, RowsHaveRules, RowsKept
  <2> QED
    BY <1>11, <2>2, <2>3, <2>4
<1>12. CASE UNCHANGED vars
  BY <1>12 DEF vars, TypeOK, RowsHaveRules, TasksHoldValues
<1> QED
  BY <1>1, <1>2, <1>3, <1>4, <1>5, <1>6, <1>7, <1>8, <1>9, <1>10, <1>11, <1>12
     DEF Next, Edit, Request, ResolveForDeadline, ResolveRead, CancelRead

\* In every reachable state every variable holds values of its type.
THEOREM TypeCorrect == Spec => []TypeOK
<1>1. TypeInv => TypeOK
  BY DEF TypeInv
<1> QED
  BY TypeInit, TypeStep, <1>1, PTL DEF Spec

---------------------------------------------------------------------------
(* One thread of control per execution *)

\* An execution id that was never scheduled is not in use.
FreshUnused ==
  \A e \in Executions : minted[e] = 0 =>
    /\ pending[e] = {}
    /\ rows[e].status = "none"
    /\ \A h \in Tasks : ~InStep(h, e)

TokenInv == OneTokenPerExecution /\ FreshUnused

\* A step that only takes jobs and running tasks away keeps the invariant.
LEMMA FewerTokens ==
  ASSUME TokenInv,
         \A e \in Executions : pending'[e] \subseteq pending[e],
         \A h \in Tasks, e \in Executions : InStep(h, e)' => InStep(h, e),
         minted' = minted,
         \A e \in Executions :
           rows[e].status = "none" => rows'[e].status = "none"
  PROVE  TokenInv'
  BY DEF TokenInv, OneTokenPerExecution, FreshUnused

\* No execution has a token initially.
LEMMA TokenInit == Init => TokenInv
  BY DEF Init, TokenInv, OneTokenPerExecution, FreshUnused, InStep, NoRow

\* A task that ends runs no step, and the others run what they ran.
LEMMA FinishInStep ==
  ASSUME TypeInv, NEW h \in Tasks, Finish(h)
  PROVE  \A t \in Tasks, e \in Executions :
           InStep(t, e)' => t # h /\ InStep(t, e)
  BY FinishTyped DEF InStep

\* Every step keeps one token per execution.
LEMMA TokenStep == TypeInv /\ TokenInv /\ [Next]_vars => TokenInv'
<1> SUFFICES ASSUME TypeInv, TokenInv, [Next]_vars PROVE TokenInv'
  OBVIOUS
<1>1. ASSUME NEW r \in Rules, Edit(r) \/ DeleteRule(r) PROVE TokenInv'
  BY <1>1, FewerTokens
     DEF Edit, CreateRule, UpdateRule, DeleteRule, jobs, InStep
<1>2. ASSUME NEW h \in Handlers, NEW d \in Deadlines, NEW r \in Rules,
             ActivateCheck(h, d, r)
      PROVE  TokenInv'
  <2>1. \A t \in Tasks, e \in Executions : InStep(t, e)' => InStep(t, e)
    BY <1>2 DEF ActivateCheck, InStep, TypeInv, TypeOK, Tasks
  <2> QED
    BY <1>2, <2>1, FewerTokens DEF ActivateCheck, db, jobs
<1>3. ASSUME NEW h \in Handlers, NEW x \in Executions, ActivateCommit(h, x)
      PROVE  TokenInv'
  <2>1. h \in Tasks
    BY DEF Tasks
  <2>2. /\ minted[x] = 0 /\ Finish(h)
        /\ pending' = [pending EXCEPT ![x] = {1}]
        /\ minted' = [minted EXCEPT ![x] = 1]
        /\ \A e \in Executions : e # x => rows'[e] = rows[e]
    BY <1>3 DEF ActivateCommit, TypeInv, TypeOK
  <2>3. \A t \in Tasks, e \in Executions : InStep(t, e)' => InStep(t, e)
    BY <2>1, <2>2, FinishInStep
  <2>4. \A t \in Tasks : ~InStep(t, x)
    BY <2>2 DEF TokenInv, FreshUnused
  <2>5. OneTokenPerExecution'
    BY <2>2, <2>3, <2>4
       DEF TokenInv, OneTokenPerExecution, TypeInv, TypeOK
  <2>6. FreshUnused'
    BY <2>2, <2>3 DEF TokenInv, FreshUnused, TypeInv, TypeOK
  <2> QED
    BY <2>5, <2>6 DEF TokenInv
<1>4. ASSUME NEW h \in Runners, NEW x \in Executions, FireFor(h, x)
      PROVE  TokenInv'
  <2>1. PICK j \in pending[x] : JobFires(h, x, j)
    BY <1>4 DEF FireFor
  <2>2. h \in Tasks /\ pending[x] = {j} /\ minted[x] # 0
    BY <2>1 DEF Tasks, TokenInv, OneTokenPerExecution, FreshUnused
  <2>3. \A t \in Tasks : ~InStep(t, x)
    BY <2>2 DEF TokenInv, OneTokenPerExecution
  <2>4. \A t \in Tasks, e \in Executions :
          InStep(t, e)' => InStep(t, e) \/ (t = h /\ e = x)
    BY <2>1, <2>2 DEF JobFires, InStep, TypeInv, TypeOK, Local
  <2>5. pending' = [pending EXCEPT ![x] = {}] /\ minted' = minted
        /\ rows' = rows
    BY <2>1, <2>2 DEF JobFires, db
  <2>6. OneTokenPerExecution'
    BY <2>3, <2>4, <2>5 DEF TokenInv, OneTokenPerExecution, TypeInv, TypeOK
  <2>7. FreshUnused'
    BY <2>2, <2>4, <2>5 DEF TokenInv, FreshUnused, TypeInv, TypeOK
  <2> QED
    BY <2>6, <2>7 DEF TokenInv
<1>5. ASSUME NEW h \in Runners, StepRead(h) PROVE TokenInv'
  <2>1. h \in Tasks
    BY DEF Tasks
  <2>2. \A t \in Tasks, e \in Executions : InStep(t, e)' => InStep(t, e)
    <3>1. CASE rows[loc[h].exec].status = "active"
      <4>1. pc' = [pc EXCEPT ![h] = "stepping"]
            /\ loc' = [loc EXCEPT ![h] = [loc[h] EXCEPT
                         !.seen = rows[loc[h].exec],
                         !.steps = rules[rows[loc[h].exec].rule].steps]]
            /\ pc[h] = "fired"
        BY <1>5, <3>1 DEF StepRead
      <4>2. loc'[h].exec = loc[h].exec
            /\ \A t \in Tasks : t # h => pc'[t] = pc[t] /\ loc'[t] = loc[t]
        BY <2>1, <4>1 DEF TypeInv, TypeOK, Local
      <4> QED
        BY <2>1, <4>1, <4>2 DEF InStep
    <3>2. CASE rows[loc[h].exec].status # "active"
      BY <1>5, <2>1, <3>2, FinishInStep DEF StepRead
    <3> QED
      BY <3>1, <3>2
  <2> QED
    BY <1>5, <2>2, FewerTokens DEF StepRead, db, jobs
<1>6. ASSUME NEW h \in Runners, StepAct(h) PROVE TokenInv'
  <2>1. h \in Tasks
    BY DEF Tasks
  <2>2. PICK result \in Results : loc' = [loc EXCEPT ![h].result = result]
    BY <1>6 DEF StepAct, Results
  <2>3. \A t \in Tasks, e \in Executions : InStep(t, e)' => InStep(t, e)
    BY <1>6, <2>1, <2>2 DEF StepAct, InStep, TypeInv, TypeOK, Local
  <2> QED
    BY <1>6, <2>3, FewerTokens DEF StepAct, db, jobs
<1>7. ASSUME NEW h \in Tasks,
             \/ StepOverrun(h) \/ StepCommitLast(h) \/ CloseCommit(h)
             \/ CancelUndone(h)
      PROVE  TokenInv'
  <2>1. Finish(h) /\ minted' = minted
    BY <1>7 DEF StepOverrun, StepCommitLast, CancelUndone, CloseCommit
  <2>2. loc[h].exec \in Executions /\ rows[loc[h].exec].status # "none"
    BY <1>7 DEF StepOverrun, StepCommitLast, CancelUndone, CloseCommit,
                TypeInv, TasksHoldValues
  <2>3. \A e \in Executions : pending'[e] \subseteq pending[e]
    BY <1>7 DEF StepOverrun, StepCommitLast, CancelUndone, CloseCommit,
                TypeInv, TypeOK
  <2>4. \A e \in Executions : e # loc[h].exec => rows'[e] = rows[e]
    BY <1>7 DEF StepOverrun, StepCommitLast, CancelUndone, CloseCommit, db,
                TypeInv, TypeOK
  <2> QED
    BY <2>1, <2>2, <2>3, <2>4, FinishInStep, FewerTokens
<1>8. ASSUME NEW h \in Tasks, StepCommitNext(h) \/ StepUndone(h)
      PROVE  TokenInv'
  <2>1. h \in Tasks
    OBVIOUS
  <2>2. PICK x \in Executions : x = loc[h].exec /\ InStep(h, x)
    BY <1>8 DEF StepCommitNext, StepUndone, TypeInv, TasksHoldValues, InStep
  <2>3. pending[x] = {} /\ minted[x] # 0 /\ minted[x] \in Nat
    BY <2>1, <2>2 DEF TokenInv, OneTokenPerExecution, FreshUnused, TypeInv,
                      TypeOK
  <2>4. /\ pending' = [pending EXCEPT ![x] = {minted[x] + 1}]
        /\ minted' = [minted EXCEPT ![x] = minted[x] + 1]
        /\ Finish(h)
    BY <1>8, <2>2, <2>3 DEF StepCommitNext, StepUndone
  <2>5. \A e \in Executions : e # x => rows'[e] = rows[e]
    BY <1>8, <2>2 DEF StepCommitNext, StepUndone, db, TypeInv, TypeOK
  <2>6. \A t \in Tasks, e \in Executions :
          InStep(t, e)' => t # h /\ InStep(t, e)
    BY <2>1, <2>4, FinishInStep
  <2>7. \A t \in Tasks : ~InStep(t, x)'
    BY <2>1, <2>2, <2>6 DEF TokenInv, OneTokenPerExecution
  <2>8. OneTokenPerExecution'
    BY <2>2, <2>4, <2>6, <2>7
       DEF TokenInv, OneTokenPerExecution, TypeInv, TypeOK
  <2>9. FreshUnused'
    BY <2>2, <2>3, <2>4, <2>5, <2>6
       DEF TokenInv, FreshUnused, TypeInv, TypeOK
  <2> QED
    BY <2>8, <2>9 DEF TokenInv
<1>9. ASSUME NEW h \in Handlers, NEW x \in Executions,
             NEW outcome \in {"resolved", "cancelled"},
             CloseRead(h, x, outcome)
      PROVE  TokenInv'
  <2>1. \A t \in Tasks, e \in Executions : InStep(t, e)' => InStep(t, e)
    BY <1>9 DEF CloseRead, InStep, TypeInv, TypeOK, Tasks
  <2> QED
    BY <1>9, <2>1, FewerTokens DEF CloseRead, db, jobs
<1>10. ASSUME Restart PROVE TokenInv'
  <2>1. \A t \in Tasks, e \in Executions : InStep(t, e)' => InStep(t, e)
    BY <1>10 DEF Restart, InStep
  <2> QED
    BY <1>10, <2>1, FewerTokens DEF Restart, db
<1>11. ASSUME NEW x \in Executions, NEW j \in pending[x], Misfire(x, j)
       PROVE  TokenInv'
  <2>1. \A e \in Executions : pending'[e] \subseteq pending[e]
    BY <1>11 DEF Misfire, TypeInv, TypeOK
  <2> QED
    BY <1>11, <2>1, FewerTokens DEF Misfire, db, InStep
<1>12. CASE UNCHANGED vars
  BY <1>12, FewerTokens DEF vars, InStep
<1>13. ASSUME NEW h \in Tasks, StepFails(h) \/ StepRaises(h) \/ RollsBack(h)
       PROVE  TokenInv'
  BY <1>13, FinishInStep, FewerTokens
     DEF StepFails, StepRaises, RollsBack, db, jobs
<1> QED
  BY <1>1, <1>2, <1>3, <1>4, <1>5, <1>6, <1>7, <1>8, <1>9, <1>10, <1>11, <1>12,
     <1>13
     DEF Next, Request, RunStep, ResolveForDeadline, ResolveRead, CancelRead,
         Tasks

\* An execution never has two jobs, two running steps, or both.
THEOREM OneToken == Spec => []OneTokenPerExecution
<1>1. TokenInv => OneTokenPerExecution
  BY DEF TokenInv
<1> QED
  BY TypeInit, TypeStep, TokenInit, TokenStep, <1>1, PTL DEF Spec

---------------------------------------------------------------------------
(* The history *)

\* What a running step read of its row is still what the row holds.
SnapshotCurrent ==
  \A h \in Tasks : pc[h] \in {"stepping", "acted"} =>
    /\ loc[h].seen.step = rows[loc[h].exec].step
    /\ loc[h].seen.history = rows[loc[h].exec].history

HistInv == SnapshotCurrent /\ HistoryInOrder

\* No row's history or step changes.
SameHistories ==
  \A e \in Executions :
    rows'[e].step = rows[e].step /\ rows'[e].history = rows[e].history

\* No task starts holding a snapshot or changes the one it holds.
SameSnapshots ==
  \A t \in Tasks : pc'[t] \in {"stepping", "acted"} =>
    /\ pc[t] \in {"stepping", "acted"}
    /\ loc'[t].exec = loc[t].exec /\ loc'[t].seen = loc[t].seen

\* A step that changes neither keeps the invariant.
LEMMA SameKeeps ==
  ASSUME TypeInv, HistInv, SameHistories, SameSnapshots
  PROVE  HistInv'
<1>1. HistoryInOrder'
  BY DEF HistInv, HistoryInOrder, SameHistories
<1>2. \A t \in Tasks : pc[t] \in {"stepping", "acted"} =>
        loc[t].exec \in Executions
  BY DEF TypeInv, TasksHoldValues
<1>3. SnapshotCurrent'
  BY <1>2 DEF HistInv, SnapshotCurrent, SameHistories, SameSnapshots
<1> QED
  BY <1>1, <1>3 DEF HistInv

\* The initial histories are empty.
LEMMA HistInit == Init => HistInv
  BY DEF Init, HistInv, SnapshotCurrent, HistoryInOrder, NoRow

\* A task that ends holds no snapshot, and the others keep theirs.
LEMMA FinishSnapshots ==
  ASSUME TypeInv, NEW h \in Tasks, Finish(h)
  PROVE  SameSnapshots
  BY FinishTyped DEF SameSnapshots

\* A sequence numbered from 0 stays so when its length is appended.
LEMMA AppendInOrder ==
  ASSUME NEW hi \in Seq(Entry), NEW n \in Entry, n.step = Len(hi),
         \A i \in 1 .. Len(hi) : hi[i].step = i - 1
  PROVE  /\ Len(Append(hi, n)) = Len(hi) + 1
         /\ \A i \in 1 .. Len(Append(hi, n)) : Append(hi, n)[i].step = i - 1
<1>1. Len(Append(hi, n)) = Len(hi) + 1
  OBVIOUS
<1>2. ASSUME NEW i \in 1 .. Len(hi) + 1 PROVE Append(hi, n)[i].step = i - 1
  <2>1. CASE i = Len(hi) + 1
    BY <2>1
  <2>2. CASE i # Len(hi) + 1
    <3>1. i \in 1 .. Len(hi) /\ Append(hi, n)[i] = hi[i]
      BY <2>2
    <3> QED
      BY <3>1
  <2> QED
    BY <2>1, <2>2
<1> QED
  BY <1>1, <1>2

\* The entry a step records has its type and the number it read.
LEMMA EntryTyped ==
  ASSUME TypeInv, NEW h \in Tasks, pc[h] = "acted"
  PROVE  /\ NewEntry(loc[h]) \in Entry
         /\ NewEntry(loc[h]).step = loc[h].seen.step
         /\ loc[h].seen.step \in Nat
<1>1. /\ loc[h] \in Local /\ loc[h].result \in Results
      /\ loc[h].seen.step < Len(loc[h].steps)
  BY DEF TypeInv, TypeOK, TasksHoldValues
<1>2. loc[h].seen.step \in Nat /\ loc[h].steps \in Seq(Step)
  BY <1>1 DEF Local, Row
<1>3. loc[h].steps[loc[h].seen.step + 1] \in Step
  BY <1>1, <1>2
<1> QED
  BY <1>1, <1>2, <1>3 DEF NewEntry, Entry, Step

\* Recording a step appends the next number to the history.
LEMMA RecordingKeeps ==
  ASSUME TypeInv, TokenInv, HistInv, NEW h \in Tasks, pc[h] = "acted",
         Finish(h), NEW x \in Executions, x = loc[h].exec,
         rows'[x].history = Append(loc[h].seen.history, NewEntry(loc[h])),
         rows'[x].step = loc[h].seen.step + 1,
         \A e \in Executions : e # x => rows'[e] = rows[e]
  PROVE  HistInv'
<1>1. InStep(h, x)
  BY DEF InStep
<1>2. /\ rows[x].history \in Seq(Entry) /\ rows[x].step \in Nat
      /\ loc[h].seen.step = rows[x].step
      /\ loc[h].seen.history = rows[x].history
  BY DEF HistInv, SnapshotCurrent, TypeInv, TypeOK, Row
<1>3. /\ Len(rows[x].history) = rows[x].step
      /\ \A i \in 1 .. Len(rows[x].history) : rows[x].history[i].step = i - 1
  BY DEF HistInv, HistoryInOrder
<1>4. /\ Len(rows'[x].history) = rows'[x].step
      /\ \A i \in 1 .. Len(rows'[x].history) :
           rows'[x].history[i].step = i - 1
  <2> DEFINE hi == rows[x].history
             n  == NewEntry(loc[h])
  <2>1. hi \in Seq(Entry) /\ n \in Entry /\ n.step = Len(hi)
        /\ \A i \in 1 .. Len(hi) : hi[i].step = i - 1
    BY <1>2, <1>3, EntryTyped
  <2>2. rows'[x].history = Append(hi, n) /\ rows'[x].step = Len(hi) + 1
    BY <1>2, <1>3
  <2> HIDE DEF hi, n
  <2>3. /\ Len(Append(hi, n)) = Len(hi) + 1
        /\ \A i \in 1 .. Len(Append(hi, n)) : Append(hi, n)[i].step = i - 1
    BY <2>1, AppendInOrder
  <2> QED
    BY <2>2, <2>3
<1>5. HistoryInOrder'
  <2> SUFFICES ASSUME NEW e \in Executions
               PROVE  /\ Len(rows'[e].history) = rows'[e].step
                      /\ \A i \in 1 .. Len(rows'[e].history) :
                           rows'[e].history[i].step = i - 1
    BY DEF HistoryInOrder
  <2>1. CASE e = x
    BY <1>4, <2>1
  <2>2. CASE e # x
    BY <2>2 DEF HistInv, HistoryInOrder
  <2> QED
    BY <2>1, <2>2
<1>6. ASSUME NEW t \in Tasks, pc'[t] \in {"stepping", "acted"}
      PROVE  /\ loc'[t].seen.step = rows'[loc'[t].exec].step
             /\ loc'[t].seen.history = rows'[loc'[t].exec].history
  <2>1. t # h /\ pc'[t] = pc[t] /\ loc'[t] = loc[t]
    BY <1>6, FinishTyped
  <2>2. loc[t].exec \in Executions
    BY <1>6, <2>1 DEF TypeInv, TasksHoldValues
  <2>3. loc[t].exec # x
    BY <1>1, <1>6, <2>1 DEF TokenInv, OneTokenPerExecution, InStep
  <2> QED
    BY <1>6, <2>1, <2>2, <2>3 DEF HistInv, SnapshotCurrent
<1> QED
  BY <1>5, <1>6 DEF HistInv, SnapshotCurrent

\* Every step keeps the history in order.
LEMMA HistStep ==
  TypeInv /\ TokenInv /\ HistInv /\ [Next]_vars => HistInv'
<1> SUFFICES ASSUME TypeInv, TokenInv, HistInv, [Next]_vars PROVE HistInv'
  OBVIOUS
<1>1. ASSUME NEW r \in Rules, Edit(r) \/ DeleteRule(r) PROVE HistInv'
  BY <1>1, SameKeeps DEF Edit, CreateRule, UpdateRule, DeleteRule,
                         SameHistories, SameSnapshots
<1>2. ASSUME NEW h \in Handlers, NEW d \in Deadlines, NEW r \in Rules,
             ActivateCheck(h, d, r)
      PROVE  HistInv'
  <2>1. SameSnapshots
    BY <1>2 DEF ActivateCheck, SameSnapshots, TypeInv, TypeOK, Tasks
  <2> QED
    BY <1>2, <2>1, SameKeeps DEF ActivateCheck, db, SameHistories
<1>3. ASSUME NEW h \in Handlers, NEW x \in Executions, ActivateCommit(h, x)
      PROVE  HistInv'
  <2>1. h \in Tasks /\ Finish(h) /\ minted[x] = 0
    BY <1>3 DEF Tasks, ActivateCommit
  <2>2. SameSnapshots
    BY <2>1, FinishSnapshots
  <2>3. CASE rows' = rows
    BY <2>2, <2>3, SameKeeps DEF SameHistories
  <2>4. CASE rows' # rows
    <3> DEFINE u == [NoRow EXCEPT !.status = "active",
                       !.deadline = loc[h].deadline, !.rule = loc[h].rule,
                       !.job = 1]
    <3>1. u.step = 0 /\ u.history = <<>>
      BY DEF NoRow
    <3>2. rows' = [rows EXCEPT ![x] = u]
      BY <1>3, <2>4 DEF ActivateCommit
    <3> HIDE DEF u
    <3>3. /\ rows'[x].step = 0 /\ rows'[x].history = <<>>
          /\ \A e \in Executions : e # x => rows'[e] = rows[e]
      BY <3>1, <3>2 DEF TypeInv, TypeOK
    <3>4. HistoryInOrder'
      BY <3>3 DEF HistInv, HistoryInOrder
    <3>5. \A t \in Tasks : pc[t] \in {"stepping", "acted"} =>
            loc[t].exec \in Executions /\ loc[t].exec # x
      BY <2>1 DEF TokenInv, FreshUnused, InStep, TypeInv, TasksHoldValues
    <3>6. SnapshotCurrent'
      BY <2>2, <3>3, <3>5 DEF HistInv, SnapshotCurrent, SameSnapshots
    <3> QED
      BY <3>4, <3>6 DEF HistInv
  <2> QED
    BY <2>3, <2>4
<1>4. ASSUME NEW h \in Runners, NEW x \in Executions, FireFor(h, x)
      PROVE  HistInv'
  <2>1. PICK j \in pending[x] : JobFires(h, x, j)
    BY <1>4 DEF FireFor
  <2>2. SameSnapshots
    BY <2>1 DEF JobFires, SameSnapshots, TypeInv, TypeOK, Tasks
  <2> QED
    BY <2>1, <2>2, SameKeeps DEF JobFires, db, SameHistories
<1>5. ASSUME NEW h \in Runners, StepRead(h) PROVE HistInv'
  <2>1. h \in Tasks /\ rows' = rows /\ loc[h] \in Local
    BY <1>5 DEF Tasks, StepRead, db, TypeInv, TypeOK
  <2>2. CASE rows[loc[h].exec].status = "active"
    <3>1. /\ pc' = [pc EXCEPT ![h] = "stepping"]
          /\ loc' = [loc EXCEPT ![h] = [loc[h] EXCEPT
                       !.seen = rows[loc[h].exec],
                       !.steps = rules[rows[loc[h].exec].rule].steps]]
      BY <1>5, <2>2 DEF StepRead
    <3>2. /\ loc'[h].exec = loc[h].exec /\ loc'[h].seen = rows[loc[h].exec]
          /\ \A t \in Tasks : t # h => pc'[t] = pc[t] /\ loc'[t] = loc[t]
      BY <2>1, <3>1 DEF TypeInv, TypeOK, Local
    <3>3. SnapshotCurrent'
      BY <2>1, <3>2 DEF HistInv, SnapshotCurrent
    <3> QED
      BY <2>1, <3>3 DEF HistInv, HistoryInOrder
  <2>3. CASE rows[loc[h].exec].status # "active"
    BY <1>5, <2>1, <2>3, FinishSnapshots, SameKeeps
       DEF StepRead, SameHistories
  <2> QED
    BY <2>2, <2>3
<1>6. ASSUME NEW h \in Runners, StepAct(h) PROVE HistInv'
  <2>1. h \in Tasks /\ rows' = rows /\ pc[h] = "stepping"
        /\ pc' = [pc EXCEPT ![h] = "acted"]
    BY <1>6 DEF Tasks, StepAct, db
  <2>2. PICK result \in Results :
          loc' = [loc EXCEPT ![h] = [loc[h] EXCEPT !.result = result]]
    BY <1>6 DEF StepAct, Results
  <2>3. /\ loc'[h].exec = loc[h].exec /\ loc'[h].seen = loc[h].seen
        /\ \A t \in Tasks : t # h => pc'[t] = pc[t] /\ loc'[t] = loc[t]
    BY <2>1, <2>2 DEF TypeInv, TypeOK, Local
  <2>4. SameSnapshots
    BY <2>1, <2>3 DEF SameSnapshots
  <2> QED
    BY <2>1, <2>4, SameKeeps DEF SameHistories
<1>7. ASSUME NEW h \in Tasks, StepOverrun(h) \/ StepFails(h) \/ CloseCommit(h)
      PROVE  HistInv'
  <2>1. Finish(h) /\ loc[h].exec \in Executions
    BY <1>7 DEF StepOverrun, StepFails, CloseCommit, TypeInv, TasksHoldValues
  <2>2. PICK st, j : rows' = rows \/ rows' = [rows EXCEPT ![loc[h].exec] =
               [rows[loc[h].exec] EXCEPT !.status = st, !.job = j]]
    BY <1>7 DEF StepOverrun, StepFails, CloseCommit, db
  <2>3. SameHistories
    <3> DEFINE r == rows[loc[h].exec]
               u == [r EXCEPT !.status = st, !.job = j]
    <3>1. r \in Row
      BY <2>1 DEF TypeInv, TypeOK
    <3> HIDE DEF r
    <3>2. u.step = r.step /\ u.history = r.history
      BY <3>1 DEF Row
    <3>3. rows' = rows \/ rows' = [rows EXCEPT ![loc[h].exec] = u]
      BY <2>2 DEF r
    <3> HIDE DEF u
    <3> QED
      BY <2>1, <3>2, <3>3 DEF r, SameHistories, TypeInv, TypeOK
  <2> QED
    BY <2>1, <2>3, FinishSnapshots, SameKeeps
<1>8. ASSUME NEW h \in Runners, StepCommitLast(h) \/ StepCommitNext(h)
      PROVE  HistInv'
  <2>1. /\ h \in Tasks /\ pc[h] = "acted" /\ Finish(h)
        /\ loc[h].exec \in Executions
    BY <1>8 DEF Tasks, StepCommitLast, StepCommitNext, TypeInv,
                TasksHoldValues
  <2> DEFINE hi == Append(loc[h].seen.history, NewEntry(loc[h]))
             k  == loc[h].seen.step + 1
             r  == rows[loc[h].exec]
  <2>2. PICK st, j :
          \/ rows' = [rows EXCEPT ![loc[h].exec] = [r EXCEPT
                        !.history = hi, !.step = k, !.status = st, !.job = j]]
          \/ rows' = [rows EXCEPT ![loc[h].exec] = [r EXCEPT
                        !.history = hi, !.step = k, !.job = j]]
    BY <1>8 DEF StepCommitLast, StepCommitNext
  <2>3. r \in Row
    BY <2>1 DEF TypeInv, TypeOK
  <2>4. /\ rows'[loc[h].exec].history = hi /\ rows'[loc[h].exec].step = k
        /\ \A e \in Executions : e # loc[h].exec => rows'[e] = rows[e]
    <3> DEFINE u == [r EXCEPT !.history = hi, !.step = k, !.status = st,
                              !.job = j]
               v == [r EXCEPT !.history = hi, !.step = k, !.job = j]
    <3> HIDE DEF hi, k, r
    <3>1. u.history = hi /\ u.step = k /\ v.history = hi /\ v.step = k
      BY <2>3 DEF Row
    <3>2. \/ rows' = [rows EXCEPT ![loc[h].exec] = u]
          \/ rows' = [rows EXCEPT ![loc[h].exec] = v]
      BY <2>2
    <3> HIDE DEF u, v
    <3> QED
      BY <2>1, <3>1, <3>2 DEF TypeInv, TypeOK
  <2>5. PICK x \in Executions : x = loc[h].exec
    BY <2>1
  <2>6. /\ rows'[x].history = Append(loc[h].seen.history, NewEntry(loc[h]))
        /\ rows'[x].step = loc[h].seen.step + 1
        /\ \A e \in Executions : e # x => rows'[e] = rows[e]
    BY <2>4, <2>5
  <2> HIDE DEF hi, k, r
  <2> QED
    BY <2>1, <2>5, <2>6, RecordingKeeps
<1>9. ASSUME NEW h \in Handlers, NEW x \in Executions,
             NEW outcome \in {"resolved", "cancelled"},
             CloseRead(h, x, outcome)
      PROVE  HistInv'
  <2>1. SameSnapshots
    BY <1>9 DEF CloseRead, SameSnapshots, TypeInv, TypeOK, Tasks
  <2> QED
    BY <1>9, <2>1, SameKeeps DEF CloseRead, db, SameHistories
<1>10. ASSUME Restart PROVE HistInv'
  BY <1>10, SameKeeps DEF Restart, db, SameHistories, SameSnapshots
<1>11. ASSUME NEW x \in Executions, NEW j \in pending[x], Misfire(x, j)
       PROVE  HistInv'
  BY <1>11, SameKeeps DEF Misfire, db, SameHistories, SameSnapshots
<1>12. CASE UNCHANGED vars
  BY <1>12, SameKeeps DEF vars, SameHistories, SameSnapshots
<1>13. ASSUME NEW h \in Tasks,
              \/ StepRaises(h) \/ RollsBack(h) \/ CancelUndone(h)
              \/ StepUndone(h)
       PROVE  HistInv'
  <2>1. Finish(h) /\ rows' = rows
    BY <1>13 DEF StepRaises, RollsBack, CancelUndone, StepUndone, db
  <2> QED
    BY <2>1, FinishSnapshots, SameKeeps DEF SameHistories
<1> QED
  BY <1>1, <1>2, <1>3, <1>4, <1>5, <1>6, <1>7, <1>8, <1>9, <1>10, <1>11, <1>12,
     <1>13
     DEF Next, Request, RunStep, ResolveForDeadline, ResolveRead, CancelRead,
         Tasks

\* The history of an execution is always steps 0, 1, ... current_step - 1:
\* no step is skipped, repeated or lost.
THEOREM HistoryCorrect == Spec => []HistoryInOrder
<1>1. HistInv => HistoryInOrder
  BY DEF HistInv
<1> QED
  BY TypeInit, TypeStep, TokenInit, TokenStep, HistInit, HistStep, <1>1, PTL
     DEF Spec

---------------------------------------------------------------------------
(* What the actions do to a row, field by field *)

\* Every row but x stays.
OtherRows(x) == \A e \in Executions : e # x => rows'[e] = rows[e]

\* A committed step: entry, number and confirmation, and no job but the next.
Recorded(h, x) ==
  /\ x = loc[h].exec /\ pc[h] = "acted" /\ Finish(h) /\ OtherRows(x)
  /\ rows'[x].history = Append(loc[h].seen.history, NewEntry(loc[h]))
  /\ rows'[x].step = loc[h].seen.step + 1
  /\ RecordStep(loc[h])
  /\ UNCHANGED <<sent, closedAt, stray, undone>>
  /\ \A e \in Executions : /\ minted'[e] >= minted[e]
                           /\ e # x => pending'[e] \subseteq pending[e]

LEMMA LastRecorded ==
  ASSUME TypeInv, NEW h \in Tasks, StepCommitLast(h)
  PROVE  \E x \in Executions :
           /\ Recorded(h, x) /\ rows'[x].status = "exhausted"
           /\ \A e \in Executions : pending'[e] \subseteq pending[e]
<1>1. PICK x \in Executions : x = loc[h].exec
  BY DEF StepCommitLast, TypeInv, TasksHoldValues
<1> DEFINE hi == Append(loc[h].seen.history, NewEntry(loc[h]))
           k  == loc[h].seen.step + 1
           j  == ClearedJob(loc[h])
           r  == rows[x]
           u  == [r EXCEPT !.history = hi, !.step = k, !.status = "exhausted",
                           !.job = j]
<1>2. r \in Row
  BY DEF TypeInv, TypeOK
<1>3. rows' = [rows EXCEPT ![x] = u]
  BY <1>1 DEF StepCommitLast
<1>4. u.history = hi /\ u.step = k /\ u.status = "exhausted"
  <2> HIDE DEF hi, k, j, r
  <2> QED
    BY <1>2 DEF Row
<1>5. rows'[x] = u /\ OtherRows(x)
  <2> HIDE DEF u
  <2> QED
    BY <1>3 DEF OtherRows, TypeInv, TypeOK
<1>6. /\ pending' = [pending EXCEPT ![x] = pending[x] \ {loc[h].seen.job}]
      /\ minted' = minted
  BY <1>1 DEF StepCommitLast
<1>7. \A e \in Executions : /\ pending'[e] \subseteq pending[e]
                            /\ minted'[e] >= minted[e]
  BY <1>6 DEF TypeInv, TypeOK
<1> HIDE DEF u
<1>8. Recorded(h, x)
  BY <1>1, <1>4, <1>5, <1>7 DEF Recorded, StepCommitLast
<1> QED
  BY <1>4, <1>5, <1>7, <1>8

LEMMA NextRecorded ==
  ASSUME TypeInv, NEW h \in Tasks, StepCommitNext(h)
  PROVE  \E x \in Executions :
           /\ Recorded(h, x) /\ rows'[x].status = rows[x].status
           /\ pending' = [pending EXCEPT ![x] = pending[x] \cup {rows'[x].job}]
<1>1. PICK x \in Executions : x = loc[h].exec
  BY DEF StepCommitNext, TypeInv, TasksHoldValues
<1> DEFINE hi == Append(loc[h].seen.history, NewEntry(loc[h]))
           k  == loc[h].seen.step + 1
           j  == minted[x] + 1
           r  == rows[x]
           u  == [r EXCEPT !.history = hi, !.step = k, !.job = j]
<1>2. r \in Row
  BY DEF TypeInv, TypeOK
<1>3. rows' = [rows EXCEPT ![x] = u]
  BY <1>1 DEF StepCommitNext
<1>4. u.history = hi /\ u.step = k /\ u.status = r.status /\ u.job = j
  <2> HIDE DEF hi, k, j, r
  <2> QED
    BY <1>2 DEF Row
<1>5. rows'[x] = u /\ OtherRows(x)
  <2> HIDE DEF u
  <2> QED
    BY <1>3 DEF OtherRows, TypeInv, TypeOK
<1>6. /\ pending' = [pending EXCEPT ![x] = pending[x] \cup {j}]
      /\ minted' = [minted EXCEPT ![x] = j]
  BY <1>1 DEF StepCommitNext
<1>7. \A e \in Executions : /\ minted'[e] >= minted[e]
                            /\ e # x => pending'[e] \subseteq pending[e]
  BY <1>6 DEF TypeInv, TypeOK
<1> HIDE DEF u
<1>8. Recorded(h, x)
  BY <1>1, <1>4, <1>5, <1>7 DEF Recorded, StepCommitNext
<1> QED
  BY <1>4, <1>5, <1>6, <1>8

\* A row whose status, and job perhaps, were written.
Marked(h, x) ==
  /\ x = loc[h].exec /\ Finish(h) /\ OtherRows(x)
  /\ rows'[x].step = rows[x].step /\ rows'[x].history = rows[x].history
  /\ \A e \in Executions : pending'[e] \subseteq pending[e]
  /\ UNCHANGED <<sent, confirms, minted, stray, undone>>

LEMMA OverrunMarks ==
  ASSUME TypeInv, NEW h \in Tasks, StepOverrun(h)
  PROVE  \E x \in Executions :
           /\ Marked(h, x) /\ rows'[x].status = "exhausted"
           /\ UNCHANGED closedAt
<1>1. PICK x \in Executions : x = loc[h].exec
  BY DEF StepOverrun, TypeInv, TasksHoldValues
<1> DEFINE j == ClearedJob(loc[h])
           r == rows[x]
           u == [r EXCEPT !.status = "exhausted", !.job = j]
<1>2. r \in Row
  BY DEF TypeInv, TypeOK
<1>3. rows' = [rows EXCEPT ![x] = u]
  BY <1>1 DEF StepOverrun
<1>4. u.history = r.history /\ u.step = r.step /\ u.status = "exhausted"
  <2> HIDE DEF j, r
  <2> QED
    BY <1>2 DEF Row
<1>5. rows'[x] = u /\ OtherRows(x)
  <2> HIDE DEF u
  <2> QED
    BY <1>3 DEF OtherRows, TypeInv, TypeOK
<1>6. \A e \in Executions : pending'[e] \subseteq pending[e]
  BY <1>1 DEF StepOverrun, TypeInv, TypeOK
<1> HIDE DEF u
<1> QED
  BY <1>1, <1>4, <1>5, <1>6 DEF Marked, StepOverrun

LEMMA CloseMarks ==
  ASSUME TypeInv, NEW h \in Tasks, CloseCommit(h)
  PROVE  \E x \in Executions :
           /\ Marked(h, x) /\ rows'[x].status = WrittenStatus(h, loc[h])
           /\ closedAt' = IF closedAt[x] = -1 /\ rows[x].status = "active"
                          THEN [closedAt EXCEPT ![x] = Len(rows[x].history)]
                          ELSE closedAt
<1>1. PICK x \in Executions : x = loc[h].exec
  BY DEF CloseCommit, TypeInv, TasksHoldValues
<1> DEFINE j == ClearedJob(loc[h])
           s == WrittenStatus(h, loc[h])
           r == rows[x]
           u == [r EXCEPT !.status = s, !.job = j]
<1>2. r \in Row
  BY DEF TypeInv, TypeOK
<1>3. rows' = [rows EXCEPT ![x] = u]
  BY <1>1 DEF CloseCommit
<1>4. u.history = r.history /\ u.step = r.step /\ u.status = s
  <2> HIDE DEF j, r, s
  <2> QED
    BY <1>2 DEF Row
<1>5. rows'[x] = u /\ OtherRows(x)
  <2> HIDE DEF u
  <2> QED
    BY <1>3 DEF OtherRows, TypeInv, TypeOK
<1>6. \A e \in Executions : pending'[e] \subseteq pending[e]
  BY <1>1 DEF CloseCommit, TypeInv, TypeOK
<1> HIDE DEF u
<1> QED
  BY <1>1, <1>4, <1>5, <1>6 DEF Marked, CloseCommit

\* An activation writes an active row, or its INSERT is refused.
LEMMA Activated ==
  ASSUME TypeInv, NEW h \in Tasks, NEW x \in Executions, ActivateCommit(h, x)
  PROVE  /\ minted[x] = 0 /\ Finish(h) /\ OtherRows(x)
         /\ pending' = [pending EXCEPT ![x] = {1}]
         /\ minted' = [minted EXCEPT ![x] = 1]
         /\ UNCHANGED <<sent, confirms, closedAt, stray, undone>>
         /\ \/ rows'[x] = rows[x]
            \/ rows'[x].status = "active" /\ rows'[x].job = 1
               /\ rows'[x].step = 0 /\ rows'[x].history = <<>>
<1> DEFINE u == [NoRow EXCEPT !.status = "active", !.deadline = loc[h].deadline,
                              !.rule = loc[h].rule, !.job = 1]
<1>1. u.status = "active" /\ u.job = 1 /\ u.step = 0 /\ u.history = <<>>
  BY DEF NoRow
<1>2. rows' = rows \/ rows' = [rows EXCEPT ![x] = u]
  BY DEF ActivateCommit
<1> HIDE DEF u
<1>3. /\ OtherRows(x)
      /\ rows'[x] = rows[x] \/ rows'[x] = u
  BY <1>2 DEF OtherRows, TypeInv, TypeOK
<1> QED
  BY <1>1, <1>3 DEF ActivateCommit

\* A running step that acts moves on with what it read.
LEMMA ActedFields ==
  ASSUME TypeInv, NEW h \in Tasks, StepAct(h)
  PROVE  /\ pc[h] = "stepping" /\ pc'[h] = "acted"
         /\ loc'[h].exec = loc[h].exec /\ loc'[h].seen = loc[h].seen
         /\ loc'[h].steps = loc[h].steps
         /\ \A t \in Tasks : t # h => pc'[t] = pc[t] /\ loc'[t] = loc[t]
         /\ UNCHANGED <<db, jobs, past>>
         /\ LET n == loc[h].seen.step
            IN  IF loc[h].steps[n + 1].channel = "in_app"
                THEN /\ sent' = [sent EXCEPT ![loc[h].exec] =
                                   Append(sent[loc[h].exec], n)]
                     /\ loc'[h].result \in {"sent", "failed"}
                ELSE loc'[h].result = "pending_hitl" /\ UNCHANGED sent
<1> DEFINE n == loc[h].seen.step
           app == loc[h].steps[n + 1].channel = "in_app"
<1>1. PICK result \in Results :
        /\ loc' = [loc EXCEPT ![h].result = result]
        /\ app => result \in {"sent", "failed"}
        /\ ~app => result = "pending_hitl"
  BY DEF StepAct, Results
<1>2. /\ app => sent' = [sent EXCEPT ![loc[h].exec] =
                           Append(sent[loc[h].exec], n)]
      /\ ~app => UNCHANGED sent
  BY DEF StepAct
<1>3. /\ pc[h] = "stepping" /\ pc' = [pc EXCEPT ![h] = "acted"]
      /\ UNCHANGED <<db, jobs, past>>
  BY DEF StepAct
<1> HIDE DEF app
<1>4. /\ loc'[h].exec = loc[h].exec /\ loc'[h].seen = loc[h].seen
      /\ loc'[h].steps = loc[h].steps /\ loc'[h].result = result
      /\ pc'[h] = "acted"
      /\ \A t \in Tasks : t # h => pc'[t] = pc[t] /\ loc'[t] = loc[t]
  BY <1>1, <1>3 DEF TypeInv, TypeOK, Local
<1> QED
  BY <1>1, <1>2, <1>3, <1>4 DEF app
---------------------------------------------------------------------------
(* Closing *)

\* A request that closes an execution it did not read as active finds it not
\* active: no status becomes active again.
ClosedStays ==
  \A h \in Tasks : pc[h] \in {"resolved", "cancelled"} =>
    loc[h].seen.status = "active" \/ rows[loc[h].exec].status # "active"

\* A step of e is between its read and its commit.
Running(e) == \E h \in Tasks : pc[h] \in {"stepping", "acted"} /\ loc[h].exec = e

\* A closed execution has room for one more entry, while a step is running.
ClosedHasRoom ==
  \A e \in Executions : closedAt[e] # -1 =>
    /\ rows[e].status \notin {"none", "active"}
    /\ Len(rows[e].history) <= closedAt[e] + 1
    /\ Running(e) => Len(rows[e].history) <= closedAt[e]

CloseInv == RecordedJobIsTheScheduledOne /\ ClosedStays /\ ClosedHasRoom

\* Nobody begins to close an execution or changes what it read.
SameClosers ==
  \A t \in Tasks : pc'[t] \in {"resolved", "cancelled"} =>
    pc[t] \in {"resolved", "cancelled"} /\ loc'[t] = loc[t]

\* e does not become active, and if it stays so, its job stays the one.
StatusFalls(e) ==
  /\ rows'[e].status = "active" =>
       /\ rows[e].status = "active" /\ rows'[e].job = rows[e].job
  /\ rows'[e].status = "none" => rows[e].status = "none"
  /\ rows'[e].history = rows[e].history
  /\ pending'[e] \subseteq pending[e] /\ stray'[e] = stray[e]
  /\ closedAt'[e] = closedAt[e]
  /\ Running(e)' => Running(e)

LEMMA ClosersStay ==
  ASSUME TypeInv, CloseInv, SameClosers,
         \A e \in Executions : rows'[e].status = "active" =>
           rows[e].status \in {"none", "active"}
  PROVE  ClosedStays'
<1>1. ASSUME NEW t \in Tasks, pc'[t] \in {"resolved", "cancelled"}
      PROVE  \/ loc'[t].seen.status = "active"
             \/ rows'[loc'[t].exec].status # "active"
  <2>1. pc[t] \in {"resolved", "cancelled"} /\ loc'[t] = loc[t]
    BY <1>1 DEF SameClosers
  <2>2. loc[t].exec \in Executions /\ rows[loc[t].exec].status # "none"
    BY <2>1 DEF TypeInv, TasksHoldValues
  <2>3. loc[t].seen.status = "active" \/ rows[loc[t].exec].status # "active"
    BY <2>1 DEF CloseInv, ClosedStays
  <2> QED
    BY <2>1, <2>2, <2>3
<1> QED
  BY <1>1 DEF ClosedStays

LEMMA FallsKeeps ==
  ASSUME TypeInv, CloseInv, SameClosers, \A e \in Executions : StatusFalls(e)
  PROVE  CloseInv'
<1>1. ClosedStays'
  BY ClosersStay DEF StatusFalls
<1>2. RecordedJobIsTheScheduledOne'
  BY DEF CloseInv, RecordedJobIsTheScheduledOne, StatusFalls
<1>3. ClosedHasRoom'
  BY DEF CloseInv, ClosedHasRoom, StatusFalls
<1> QED
  BY <1>1, <1>2, <1>3 DEF CloseInv

LEMMA FinishClosers ==
  ASSUME TypeInv, NEW h \in Tasks, Finish(h)
  PROVE  SameClosers /\ \A e \in Executions : Running(e)' => Running(e)
BY FinishTyped DEF SameClosers, Running

\* A step that leaves the rows alone.
LEMMA RowsStayClosed ==
  ASSUME TypeInv, CloseInv, SameClosers, UNCHANGED <<rows, closedAt, stray>>,
         \A e \in Executions : pending'[e] \subseteq pending[e],
         \A e \in Executions : Running(e)' => Running(e)
  PROVE  CloseInv'
BY FallsKeeps DEF StatusFalls

LEMMA CloseActivate ==
  ASSUME TypeInv, TokenInv, CloseInv, NEW h \in Tasks, NEW x \in Executions,
         ActivateCommit(h, x)
  PROVE  CloseInv'
<1> USE Activated
<1>1. rows[x].status = "none" /\ ~Running(x)
  BY DEF TokenInv, FreshUnused, Running, InStep
<1>2. SameClosers /\ \A e \in Executions : Running(e)' => Running(e)
  BY FinishClosers
<1>3. \A e \in Executions : rows'[e].status = "active" =>
        rows[e].status \in {"none", "active"}
  BY <1>1 DEF OtherRows
<1>4. ClosedStays'
  BY <1>2, <1>3, ClosersStay
<1>5. ASSUME NEW e \in Executions, rows'[e].status = "active"
      PROVE  pending'[e] \subseteq {rows'[e].job} \cup stray'[e]
  <2>1. CASE e = x
    <3>1. pending'[e] = {1} /\ rows'[e].job = 1
      BY <1>1, <1>5, <2>1 DEF TypeInv, TypeOK
    <3> QED
      BY <3>1
  <2>2. CASE e # x
    <3>1. pending'[e] = pending[e] /\ rows'[e] = rows[e]
      BY <2>2 DEF OtherRows, TypeInv, TypeOK
    <3> QED
      BY <1>5, <3>1 DEF CloseInv, RecordedJobIsTheScheduledOne
  <2> QED
    BY <2>1, <2>2
<1>6. ClosedHasRoom'
  BY <1>1, <1>2 DEF CloseInv, ClosedHasRoom, OtherRows
<1> QED
  BY <1>4, <1>5, <1>6 DEF CloseInv, RecordedJobIsTheScheduledOne

LEMMA CloseReads ==
  ASSUME TypeInv, CloseInv, NEW h \in Tasks, StepRead(h)
  PROVE  CloseInv'
<1>1. CASE rows[loc[h].exec].status = "active"
  <2>1. /\ pc' = [pc EXCEPT ![h] = "stepping"]
        /\ loc' = [loc EXCEPT ![h] = [loc[h] EXCEPT
                     !.seen = rows[loc[h].exec],
                     !.steps = rules[rows[loc[h].exec].rule].steps]]
        /\ pc[h] = "fired" /\ UNCHANGED <<rows, closedAt, pending, stray>>
    BY <1>1 DEF StepRead, db, jobs
  <2>2. loc'[h].exec = loc[h].exec /\ pc'[h] = "stepping"
        /\ \A t \in Tasks : t # h => pc'[t] = pc[t] /\ loc'[t] = loc[t]
    BY <2>1 DEF TypeInv, TypeOK, Local
  <2>3. SameClosers
    BY <2>2 DEF SameClosers
  <2>4. \A e \in Executions : Running(e)' => Running(e) \/ e = loc[h].exec
    BY <2>2 DEF Running
  <2>5. ClosedStays'
    BY <2>1, <2>3, ClosersStay
  <2>6. RecordedJobIsTheScheduledOne' /\ ClosedHasRoom'
    BY <1>1, <2>1, <2>4 DEF CloseInv, RecordedJobIsTheScheduledOne, ClosedHasRoom
  <2> QED
    BY <2>5, <2>6 DEF CloseInv
<1>2. CASE rows[loc[h].exec].status # "active"
  BY <1>2, FinishClosers, RowsStayClosed DEF StepRead, db, jobs
<1> QED
  BY <1>1, <1>2

\* The one step that was running when the user closed the execution.
LEMMA CloseRecords ==
  ASSUME TypeInv, TokenInv, HistInv, CloseInv, NEW h \in Tasks, NEW x \in Executions,
         Recorded(h, x),
         \/ /\ rows'[x].status = "exhausted"
            /\ \A e \in Executions : pending'[e] \subseteq pending[e]
         \/ /\ rows'[x].status = rows[x].status
            /\ pending' = [pending EXCEPT ![x] = pending[x] \cup {rows'[x].job}]
  PROVE  CloseInv'
<1>1. InStep(h, x) /\ Running(x)
  BY DEF Recorded, InStep, Running
<1>2. pending[x] = {}
  BY <1>1 DEF TokenInv, OneTokenPerExecution
<1>3. \A t \in Tasks : InStep(t, x) => t = h
  BY <1>1 DEF TokenInv, OneTokenPerExecution
<1>4. SameClosers /\ \A e \in Executions : Running(e)' => Running(e)
  BY FinishClosers DEF Recorded
<1>5. ~Running(x)'
  BY <1>3, FinishInStep DEF Recorded, Running, InStep
<1>6. ClosedStays'
  BY <1>4, ClosersStay DEF Recorded, OtherRows
<1>7. ASSUME NEW e \in Executions, rows'[e].status = "active"
      PROVE  pending'[e] \subseteq {rows'[e].job} \cup stray'[e]
  <2>1. CASE e = x
    <3>1. pending' = [pending EXCEPT ![x] = pending[x] \cup {rows'[x].job}]
      BY <1>7, <2>1
    <3>2. pending'[e] = {rows'[e].job}
      BY <1>2, <2>1, <3>1 DEF TypeInv, TypeOK
    <3> QED
      BY <3>2
  <2>2. CASE e # x
    <3>1. pending'[e] \subseteq pending[e] /\ rows'[e] = rows[e]
          /\ stray'[e] = stray[e]
      BY <2>2 DEF Recorded, OtherRows, TypeInv, TypeOK
    <3> QED
      BY <1>7, <3>1 DEF CloseInv, RecordedJobIsTheScheduledOne
  <2> QED
    BY <2>1, <2>2
<1>8. Len(rows'[x].history) = Len(rows[x].history) + 1
  <2>1. /\ loc[h].seen.history = rows[x].history
        /\ rows[x].history \in Seq(Entry)
    BY <1>1 DEF HistInv, SnapshotCurrent, Recorded, TypeInv, TypeOK, Row
  <2>2. NewEntry(loc[h]) \in Entry
    BY EntryTyped DEF Recorded
  <2> QED
    BY <2>1, <2>2 DEF Recorded
<1>9. ASSUME NEW e \in Executions, closedAt'[e] # -1
      PROVE  /\ rows'[e].status \notin {"none", "active"}
             /\ Len(rows'[e].history) <= closedAt'[e] + 1
             /\ Running(e)' => Len(rows'[e].history) <= closedAt'[e]
  <2>1. closedAt'[e] = closedAt[e] /\ closedAt[e] \in Nat
    BY <1>9 DEF Recorded, TypeInv, TypeOK
  <2>2. Len(rows[e].history) \in Nat
    BY DEF TypeInv, TypeOK, Row
  <2>3. CASE e = x
    BY <1>1, <1>5, <1>8, <1>9, <2>1, <2>2, <2>3 DEF CloseInv, ClosedHasRoom
  <2>4. CASE e # x
    BY <1>4, <1>9, <2>1, <2>4 DEF CloseInv, ClosedHasRoom, Recorded, OtherRows
  <2> QED
    BY <2>3, <2>4
<1> QED
  BY <1>6, <1>7, <1>9 DEF CloseInv, RecordedJobIsTheScheduledOne, ClosedHasRoom

\* Closing makes an execution inactive, whatever was read before it.
LEMMA CloseCloses ==
  ASSUME TypeInv, CloseInv, NEW h \in Tasks, CloseCommit(h)
  PROVE  CloseInv'
<1>1. PICK x \in Executions :
        /\ Marked(h, x) /\ rows'[x].status = WrittenStatus(h, loc[h])
        /\ closedAt' = IF closedAt[x] = -1 /\ rows[x].status = "active"
                       THEN [closedAt EXCEPT ![x] = Len(rows[x].history)]
                       ELSE closedAt
  BY CloseMarks
<1>2. SameClosers /\ \A e \in Executions : Running(e)' => Running(e)
  BY <1>1, FinishClosers DEF Marked
<1>3. rows'[x].status \notin {"none", "active"}
  BY <1>1 DEF CloseCommit, WrittenStatus, Marked, CloseInv, ClosedStays, TypeInv,
              TasksHoldValues
<1>4. ClosedStays'
  BY <1>1, <1>2, <1>3, ClosersStay DEF Marked, OtherRows
<1>5. RecordedJobIsTheScheduledOne'
  BY <1>1, <1>3 DEF CloseInv, RecordedJobIsTheScheduledOne, Marked, OtherRows
<1>6. ASSUME NEW e \in Executions, closedAt'[e] # -1
      PROVE  /\ rows'[e].status \notin {"none", "active"}
             /\ Len(rows'[e].history) <= closedAt'[e] + 1
             /\ Running(e)' => Len(rows'[e].history) <= closedAt'[e]
  <2>1. Len(rows[e].history) \in Nat /\ rows'[e].history = rows[e].history
    <3>1. rows[e] \in Row
      BY DEF TypeInv, TypeOK
    <3>2. rows[e].history \in Seq(Entry)
      BY <3>1 DEF Row
    <3>3. rows'[e].history = rows[e].history
      BY <1>1 DEF Marked, OtherRows
    <3> QED
      BY <3>2, <3>3
  <2>2. CASE closedAt'[e] = closedAt[e]
    BY <1>1, <1>2, <1>3, <1>6, <2>1, <2>2
       DEF CloseInv, ClosedHasRoom, Marked, OtherRows
  <2>3. CASE closedAt'[e] # closedAt[e]
    <3>1. e = x /\ closedAt'[e] = Len(rows[e].history)
      BY <1>1, <2>3 DEF TypeInv, TypeOK
    <3> QED
      BY <1>3, <2>1, <3>1
  <2> QED
    BY <2>2, <2>3
<1> QED
  BY <1>4, <1>5, <1>6 DEF CloseInv, ClosedHasRoom

\* A step rolled back leaves a job that no row names.
LEMMA UndoneStays ==
  ASSUME TypeInv, TokenInv, CloseInv, NEW h \in Tasks, StepUndone(h)
  PROVE  CloseInv'
<1>1. PICK x \in Executions : x = loc[h].exec
  BY DEF StepUndone, TypeInv, TasksHoldValues
<1>2. /\ SameClosers /\ \A e \in Executions : Running(e)' => Running(e)
      /\ UNCHANGED <<rows, closedAt>>
  BY FinishClosers DEF StepUndone, db
<1>3. ClosedStays'
  BY <1>2, ClosersStay
<1>4. ClosedHasRoom'
  BY <1>2 DEF CloseInv, ClosedHasRoom
<1>5. /\ pending' = [pending EXCEPT ![x] = pending[x] \cup {minted[x] + 1}]
      /\ stray' = [stray EXCEPT ![x] = stray[x] \cup {minted[x] + 1}]
  BY <1>1 DEF StepUndone
<1>6. ASSUME NEW e \in Executions
      PROVE  pending'[e] \ stray'[e] \subseteq pending[e] \ stray[e]
  BY <1>5 DEF TypeInv, TypeOK
<1>7. RecordedJobIsTheScheduledOne'
  BY <1>2, <1>6 DEF CloseInv, RecordedJobIsTheScheduledOne
<1> QED
  BY <1>3, <1>4, <1>7 DEF CloseInv

LEMMA CloseStep ==
  TypeInv /\ TokenInv /\ HistInv /\ CloseInv /\ [Next]_vars => CloseInv'
<1> SUFFICES ASSUME TypeInv, TokenInv, HistInv, CloseInv, [Next]_vars
             PROVE  CloseInv'
  OBVIOUS
<1>1. ASSUME NEW r \in Rules, Edit(r) \/ DeleteRule(r) PROVE CloseInv'
  BY <1>1, RowsStayClosed
     DEF Edit, CreateRule, UpdateRule, DeleteRule, jobs, SameClosers, Running
<1>2. ASSUME NEW h \in Tasks, NEW d \in Deadlines, NEW r \in Rules,
             ActivateCheck(h, d, r)
      PROVE  CloseInv'
  <2>1. SameClosers /\ \A e \in Executions : Running(e)' => Running(e)
    BY <1>2 DEF ActivateCheck, SameClosers, Running, TypeInv, TypeOK
  <2> QED
    BY <1>2, <2>1, RowsStayClosed DEF ActivateCheck, db, jobs
<1>3. ASSUME NEW h \in Tasks, NEW x \in Executions, FireFor(h, x)
      PROVE  CloseInv'
  <2>1. PICK j \in pending[x] : JobFires(h, x, j)
    BY <1>3 DEF FireFor
  <2>2. SameClosers /\ \A e \in Executions : Running(e)' => Running(e)
    BY <2>1 DEF JobFires, SameClosers, Running, TypeInv, TypeOK
  <2>3. \A e \in Executions : pending'[e] \subseteq pending[e]
    BY <2>1 DEF JobFires, TypeInv, TypeOK
  <2> QED
    BY <2>1, <2>2, <2>3, RowsStayClosed DEF JobFires, db
<1>4. ASSUME NEW h \in Tasks, StepOverrun(h) PROVE CloseInv'
  <2>1. PICK x \in Executions : /\ Marked(h, x) /\ rows'[x].status = "exhausted"
                                /\ UNCHANGED closedAt
    BY <1>4, OverrunMarks
  <2> QED
    BY <2>1, FinishClosers, FallsKeeps DEF Marked, OtherRows, StatusFalls
<1>5. ASSUME NEW h \in Tasks, StepAct(h) PROVE CloseInv'
  <2>1. SameClosers /\ \A e \in Executions : Running(e)' => Running(e)
    BY <1>5, ActedFields DEF SameClosers, Running
  <2> QED
    BY <1>5, <2>1, RowsStayClosed DEF StepAct, db, jobs
<1>6. ASSUME NEW h \in Tasks,
             StepFails(h) \/ StepRaises(h) \/ RollsBack(h) \/ CancelUndone(h)
      PROVE  CloseInv'
  <2>1. \A e \in Executions : pending'[e] \subseteq pending[e]
    BY <1>6 DEF StepFails, StepRaises, RollsBack, CancelUndone, jobs, TypeInv,
                TypeOK
  <2> QED
    BY <1>6, <2>1, FinishClosers, RowsStayClosed
       DEF StepFails, StepRaises, RollsBack, CancelUndone, db
<1>7. ASSUME NEW h \in Tasks, StepCommitLast(h) \/ StepCommitNext(h)
      PROVE  CloseInv'
  BY <1>7, LastRecorded, NextRecorded, CloseRecords
<1>8. ASSUME NEW h \in Tasks, NEW x \in Executions,
             NEW outcome \in {"resolved", "cancelled"}, CloseRead(h, x, outcome)
      PROVE  CloseInv'
  <2> DEFINE l == [NoLocal EXCEPT !.exec = x, !.seen = rows[x]]
  <2>1. l.exec = x /\ l.seen = rows[x]
    BY DEF NoLocal
  <2>2. pc' = [pc EXCEPT ![h] = outcome] /\ loc' = [loc EXCEPT ![h] = l]
    BY <1>8 DEF CloseRead
  <2> HIDE DEF l
  <2>3. /\ loc'[h].exec = x /\ loc'[h].seen = rows[x] /\ pc'[h] = outcome
        /\ \A t \in Tasks : t # h => pc'[t] = pc[t] /\ loc'[t] = loc[t]
    BY <2>1, <2>2 DEF TypeInv, TypeOK
  <2>4. UNCHANGED <<rows, closedAt, pending, stray>>
    BY <1>8 DEF CloseRead, db, jobs
  <2>5. ClosedStays'
    BY <2>3, <2>4 DEF CloseInv, ClosedStays
  <2>6. \A e \in Executions : Running(e)' => Running(e)
    BY <2>3 DEF Running
  <2>7. RecordedJobIsTheScheduledOne' /\ ClosedHasRoom'
    BY <2>4, <2>6 DEF CloseInv, RecordedJobIsTheScheduledOne, ClosedHasRoom
  <2> QED
    BY <2>5, <2>7 DEF CloseInv
<1>9. CASE Restart
  <2>1. /\ SameClosers /\ \A e \in Executions : ~Running(e)'
        /\ \A e \in Executions : pending'[e] \subseteq pending[e]
    BY <1>9 DEF Restart, SameClosers, Running
  <2> QED
    BY <1>9, <2>1, RowsStayClosed DEF Restart, db
<1>10. ASSUME NEW x \in Executions, NEW j \in pending[x], Misfire(x, j)
       PROVE  CloseInv'
  <2>1. /\ SameClosers /\ \A e \in Executions : Running(e)' => Running(e)
        /\ \A e \in Executions : pending'[e] \subseteq pending[e]
    BY <1>10 DEF Misfire, SameClosers, Running, TypeInv, TypeOK
  <2> QED
    BY <1>10, <2>1, RowsStayClosed DEF Misfire, db
<1>11. CASE UNCHANGED vars
  BY <1>11, RowsStayClosed DEF vars, SameClosers, Running
<1> QED
  BY <1>1, <1>2, <1>3, <1>4, <1>5, <1>6, <1>7, <1>8, <1>9, <1>10, <1>11,
     CloseActivate, CloseReads, CloseCloses, UndoneStays
     DEF Next, Request, RunStep, ResolveForDeadline, ResolveRead, CancelRead,
         Tasks

LEMMA CloseInit == Init => CloseInv
BY DEF Init, CloseInv, RecordedJobIsTheScheduledOne, ClosedStays, ClosedHasRoom

\* While an execution is active the scheduler holds no job for it but the one
\* that its row names, which closing it cancels, or one that a step left when
\* its commit failed.
THEOREM JobIsRecorded == Spec => []RecordedJobIsTheScheduledOne
<1>1. CloseInv => RecordedJobIsTheScheduledOne
  BY DEF CloseInv
<1> QED
  BY TypeInit, TypeStep, TokenInit, TokenStep, HistInit, HistStep, CloseInit,
     CloseStep, <1>1, PTL DEF Spec

\* After a user has closed an execution at most the step then in flight is
\* recorded.
THEOREM CloseEnds == Spec => []AtMostOneStepAfterClose
<1>1. CloseInv => AtMostOneStepAfterClose
  BY DEF CloseInv, ClosedHasRoom, AtMostOneStepAfterClose
<1> QED
  BY TypeInit, TypeStep, TokenInit, TokenStep, HistInit, HistStep, CloseInit,
     CloseStep, <1>1, PTL DEF Spec
---------------------------------------------------------------------------
(* Effects *)

\* A task that has acted holds a confirmation exactly for the channels that
\* ask for one.
ActedRight ==
  \A h \in Tasks : pc[h] = "acted" =>
    (loc[h].steps[loc[h].seen.step + 1].channel = "in_app"
       <=> loc[h].result # "pending_hitl")

\* Nothing has been tried for an id that was never scheduled.
FreshEmpty ==
  \A e \in Executions : minted[e] = 0 =>
    /\ rows[e].step = 0 /\ rows[e].history = <<>>
    /\ sent[e] = <<>> /\ confirms[e] = <<>> /\ undone[e] = <<>>

\* The effect of the current step can still start.
Ready(e) ==
  \/ minted[e] = 0 \/ pending[e] # {}
  \/ \E h \in Tasks :
       /\ loc[h].exec = e
       /\ \/ pc[h] \in {"fired", "stepping"}
          \/ pc[h] = "acted" /\ loc[h].result = "pending_hitl"

\* It was announced by a task that has yet to record it.
Announced(e) ==
  \E h \in Tasks : /\ pc[h] = "acted" /\ loc[h].exec = e
                   /\ loc[h].result # "pending_hitl"

Effects(e) == Len(sent[e]) + Len(confirms[e])

\* The effects of recorded steps and of those undone.
Due(e) == Len(rows[e].history) + Len(undone[e])

\* Then it has not started, unless it was undone; or it has.
StartsOnce ==
  \A e \in Executions :
    /\ \A k \in Elems(undone[e]) : k <= rows[e].step
    /\ Ready(e) => /\ \/ rows[e].step \notin Elems(sent[e])
                      \/ rows[e].step \in Elems(undone[e])
                   /\ Effects(e) = Due(e)
    /\ Announced(e) => /\ rows[e].step \in Elems(sent[e])
                       /\ Effects(e) = Due(e) + 1

EffectInv ==
  /\ ActedRight /\ FreshEmpty /\ StartsOnce
  /\ ConfirmationsMatchHistory /\ NotificationsMatchHistory

\* What is committed or announced of e stays.
SameEffects(e) ==
  /\ rows'[e].step = rows[e].step /\ rows'[e].history = rows[e].history
  /\ sent'[e] = sent[e] /\ confirms'[e] = confirms[e]
  /\ undone'[e] = undone[e]
  /\ minted'[e] = 0 => minted[e] = 0
  /\ Ready(e)' => Ready(e)
  /\ Announced(e)' => Announced(e)

\* No task begins to hold a result.
SameActed ==
  \A t \in Tasks : pc'[t] = "acted" => pc[t] = "acted" /\ loc'[t] = loc[t]

LEMMA ActedStays == ActedRight /\ SameActed => ActedRight'
BY DEF ActedRight, SameActed

LEMMA QuietEffects ==
  ASSUME EffectInv, ActedRight', \A e \in Executions : SameEffects(e)
  PROVE  EffectInv'
<1>1. FreshEmpty'
  BY DEF EffectInv, FreshEmpty, SameEffects
<1>2. StartsOnce'
  BY DEF EffectInv, StartsOnce, SameEffects, Effects, Due
<1>4. ConfirmationsMatchHistory'
  BY DEF EffectInv, ConfirmationsMatchHistory, SameEffects, StepsWith
<1>5. NotificationsMatchHistory'
  BY DEF EffectInv, NotificationsMatchHistory, SameEffects, StepsWith
<1> QED
  BY <1>1, <1>2, <1>4, <1>5 DEF EffectInv

\* A task that ends leaves no token behind.
LEMMA FinishEffects ==
  ASSUME TypeInv, NEW h \in Tasks, Finish(h)
  PROVE  /\ SameActed
         /\ \A e \in Executions :
              /\ pending'[e] \subseteq pending[e] /\ minted'[e] = minted[e]
                   => (Ready(e)' => Ready(e))
              /\ Announced(e)' => Announced(e)
BY FinishTyped DEF SameActed, Ready, Announced

\* A step that ends and records nothing.
LEMMA MarkedEffects ==
  ASSUME TypeInv, EffectInv, NEW h \in Tasks, NEW x \in Executions, Marked(h, x)
  PROVE  EffectInv'
<1>1. \A e \in Executions : SameEffects(e)
  BY FinishEffects DEF Marked, OtherRows, SameEffects
<1>2. ActedRight'
  BY FinishEffects, ActedStays DEF Marked, EffectInv
<1> QED
  BY <1>1, <1>2, QuietEffects

LEMMA ActivateEffects ==
  ASSUME TypeInv, EffectInv, NEW h \in Tasks, NEW x \in Executions,
         ActivateCommit(h, x)
  PROVE  EffectInv'
<1> USE Activated
<1>1. Ready(x)
  BY DEF Ready
<1>2. rows[x].step = 0 /\ rows[x].history = <<>>
  BY DEF EffectInv, FreshEmpty
<1>3. ASSUME NEW e \in Executions PROVE SameEffects(e)
  <2>1. CASE e = x
    BY <1>1, <1>2, <2>1, FinishEffects DEF SameEffects
  <2>2. CASE e # x
    <3>1. pending'[e] = pending[e] /\ minted'[e] = minted[e] /\ rows'[e] = rows[e]
      BY <2>2 DEF OtherRows, TypeInv, TypeOK
    <3> QED
      BY <3>1, FinishEffects DEF SameEffects
  <2> QED
    BY <2>1, <2>2
<1>4. ActedRight'
  BY FinishEffects, ActedStays DEF EffectInv
<1> QED
  BY <1>3, <1>4, QuietEffects

LEMMA FireEffects ==
  ASSUME TypeInv, EffectInv, NEW h \in Tasks, NEW x \in Executions, FireFor(h, x)
  PROVE  EffectInv'
<1>1. PICK j \in pending[x] : JobFires(h, x, j)
  BY DEF FireFor
<1>2. /\ \/ pc'[h] = "fired" /\ loc'[h].exec = x
         \/ pc'[h] = pc[h] /\ loc'[h] = loc[h]
      /\ \A t \in Tasks : t # h => pc'[t] = pc[t] /\ loc'[t] = loc[t]
      /\ \A e \in Executions : pending'[e] \subseteq pending[e]
      /\ UNCHANGED <<rows, confirms, sent, minted, undone>>
  <2>1. /\ \A e \in Executions : pending'[e] \subseteq pending[e]
        /\ UNCHANGED <<rows, confirms, sent, minted, undone>>
    BY <1>1 DEF JobFires, db, TypeInv, TypeOK
  <2>2. CASE Wired
    BY <1>1, <2>1, <2>2 DEF JobFires, TypeInv, TypeOK, Local
  <2>3. CASE ~Wired
    BY <1>1, <2>1, <2>3 DEF JobFires
  <2> QED
    BY <2>2, <2>3
<1>3. SameActed
  BY <1>2 DEF SameActed
<1>4. ASSUME NEW e \in Executions PROVE SameEffects(e)
  <2>1. Ready(e)' => Ready(e)
    BY <1>1, <1>2 DEF Ready
  <2>2. Announced(e)' => Announced(e)
    BY <1>2 DEF Announced
  <2> QED
    BY <1>2, <2>1, <2>2 DEF SameEffects
<1> QED
  BY <1>3, <1>4, ActedStays, QuietEffects DEF EffectInv

LEMMA ReadEffects ==
  ASSUME TypeInv, EffectInv, NEW h \in Tasks, StepRead(h)
  PROVE  EffectInv'
<1>1. UNCHANGED <<rows, confirms, sent, minted, pending, undone>>
  BY DEF StepRead, db, jobs
<1>2. CASE rows[loc[h].exec].status = "active"
  <2>1. /\ pc' = [pc EXCEPT ![h] = "stepping"]
        /\ loc' = [loc EXCEPT ![h] = [loc[h] EXCEPT
                     !.seen = rows[loc[h].exec],
                     !.steps = rules[rows[loc[h].exec].rule].steps]]
        /\ pc[h] = "fired"
    BY <1>2 DEF StepRead
  <2>2. loc'[h].exec = loc[h].exec /\ pc'[h] = "stepping"
        /\ \A t \in Tasks : t # h => pc'[t] = pc[t] /\ loc'[t] = loc[t]
    BY <2>1 DEF TypeInv, TypeOK, Local
  <2>3. SameActed
    BY <2>2 DEF SameActed
  <2>4. ASSUME NEW e \in Executions PROVE SameEffects(e)
    <3>1. Ready(e)' => Ready(e)
      BY <1>1, <2>1, <2>2 DEF Ready
    <3>2. Announced(e)' => Announced(e)
      BY <2>2 DEF Announced
    <3> QED
      BY <1>1, <3>1, <3>2 DEF SameEffects
  <2> QED
    BY <2>3, <2>4, ActedStays, QuietEffects DEF EffectInv
<1>3. CASE rows[loc[h].exec].status # "active"
  <2>1. Finish(h)
    BY <1>3 DEF StepRead
  <2>2. \A e \in Executions : SameEffects(e)
    BY <1>1, <2>1, FinishEffects DEF SameEffects
  <2> QED
    BY <2>1, <2>2, FinishEffects, ActedStays, QuietEffects DEF EffectInv
<1> QED
  BY <1>2, <1>3
LEMMA ElemsAppend ==
  ASSUME NEW S, NEW s \in Seq(S), NEW v \in S
  PROVE  /\ Elems(Append(s, v)) = Elems(s) \cup {v}
         /\ Len(Append(s, v)) = Len(s) + 1
<1>1. /\ DOMAIN s = 1 .. Len(s) /\ DOMAIN Append(s, v) = 1 .. Len(s) + 1
      /\ Append(s, v)[Len(s) + 1] = v
      /\ \A i \in 1 .. Len(s) : Append(s, v)[i] = s[i]
      /\ Len(s) \in Nat
  OBVIOUS
<1>2. ASSUME NEW y \in Elems(Append(s, v)) PROVE y \in Elems(s) \cup {v}
  <2>1. PICK i \in 1 .. Len(s) + 1 : y = Append(s, v)[i]
    BY <1>1, <1>2 DEF Elems
  <2>2. CASE i = Len(s) + 1
    BY <1>1, <2>1, <2>2
  <2>3. CASE i # Len(s) + 1
    <3>1. i \in 1 .. Len(s)
      BY <1>1, <2>3
    <3> QED
      BY <1>1, <2>1, <3>1 DEF Elems
  <2> QED
    BY <2>2, <2>3
<1>3. ASSUME NEW y \in Elems(s) PROVE y \in Elems(Append(s, v))
  <2>1. PICK i \in 1 .. Len(s) : y = s[i]
    BY <1>1 DEF Elems
  <2>2. i \in 1 .. Len(s) + 1 /\ y = Append(s, v)[i]
    BY <1>1, <2>1
  <2> QED
    BY <1>1, <2>2 DEF Elems
<1>4. v \in Elems(Append(s, v))
  <2>1. Len(s) + 1 \in DOMAIN Append(s, v)
    BY <1>1
  <2> QED
    BY <1>1, <2>1 DEF Elems
<1>5. Elems(Append(s, v)) = Elems(s) \cup {v}
  BY <1>2, <1>3, <1>4
<1>6. Len(Append(s, v)) = Len(s) + 1
  OBVIOUS
<1> QED
  BY <1>5, <1>6

LEMMA IncreasingAppend ==
  ASSUME NEW s \in Seq(Nat), NEW n \in Nat, Increasing(s),
         \A k \in Elems(s) : k < n
  PROVE  Increasing(Append(s, n))
<1>1. /\ DOMAIN s = 1 .. Len(s) /\ DOMAIN Append(s, n) = 1 .. Len(s) + 1
      /\ Append(s, n)[Len(s) + 1] = n
      /\ \A i \in 1 .. Len(s) : Append(s, n)[i] = s[i]
      /\ Len(s) \in Nat
  OBVIOUS
<1>2. ASSUME NEW i \in 1 .. Len(s) + 1, NEW k \in 1 .. Len(s) + 1, i < k
      PROVE  Append(s, n)[i] < Append(s, n)[k]
  <2>1. i \in 1 .. Len(s) /\ Append(s, n)[i] = s[i]
    BY <1>1, <1>2
  <2>2. s[i] < n
    BY <1>1, <2>1 DEF Elems
  <2>3. CASE k = Len(s) + 1
    BY <1>1, <2>1, <2>2, <2>3
  <2>4. CASE k # Len(s) + 1
    <3>1. k \in 1 .. Len(s)
      BY <1>1, <2>4
    <3>2. s[i] < s[k]
      BY <1>1, <1>2, <2>1, <3>1 DEF Increasing
    <3> QED
      BY <1>1, <2>1, <3>1, <3>2
  <2> QED
    BY <2>3, <2>4
<1> QED
  BY <1>1, <1>2 DEF Increasing

LEMMA AscendingAppend ==
  ASSUME NEW s \in Seq(Nat), NEW n \in Nat, NEW u, Ascending(s, u),
         \A k \in Elems(s) : k < n \/ (k = n /\ k \in Elems(u))
  PROVE  Ascending(Append(s, n), u)
<1>1. /\ DOMAIN s = 1 .. Len(s) /\ DOMAIN Append(s, n) = 1 .. Len(s) + 1
      /\ Append(s, n)[Len(s) + 1] = n
      /\ \A i \in 1 .. Len(s) : Append(s, n)[i] = s[i]
      /\ Len(s) \in Nat
  OBVIOUS
<1>2. ASSUME NEW i \in 1 .. Len(s) + 1, NEW k \in 1 .. Len(s) + 1, i < k
      PROVE  \/ Append(s, n)[i] < Append(s, n)[k]
             \/ /\ Append(s, n)[i] = Append(s, n)[k]
                /\ Append(s, n)[i] \in Elems(u)
  <2>1. i \in 1 .. Len(s) /\ Append(s, n)[i] = s[i]
    BY <1>1, <1>2
  <2>2. s[i] < n \/ (s[i] = n /\ s[i] \in Elems(u))
    BY <1>1, <2>1 DEF Elems
  <2>3. CASE k = Len(s) + 1
    BY <1>1, <2>1, <2>2, <2>3
  <2>4. CASE k # Len(s) + 1
    <3>1. k \in 1 .. Len(s)
      BY <1>1, <2>4
    <3>2. s[i] < s[k] \/ (s[i] = s[k] /\ s[i] \in Elems(u))
      BY <1>1, <1>2, <2>1, <3>1 DEF Ascending
    <3> QED
      BY <1>1, <2>1, <3>1, <3>2
  <2> QED
    BY <2>3, <2>4
<1> QED
  BY <1>1, <1>2 DEF Ascending

\* The history holds steps below the current one.
LEMMA StepsBelow ==
  ASSUME TypeInv, HistInv, NEW e \in Executions, NEW results,
         NEW k \in StepsWith(e, results)
  PROVE  k \in Nat /\ k < rows[e].step
<1>1. rows[e] \in Row
  BY DEF TypeInv, TypeOK
<1>2. rows[e].history \in Seq(Entry) /\ rows[e].step \in Nat
  BY <1>1 DEF Row
<1>3. PICK i \in 1 .. Len(rows[e].history) : k = rows[e].history[i].step
  BY <1>2 DEF StepsWith, Elems
<1>4. k = i - 1 /\ Len(rows[e].history) = rows[e].step
  BY <1>3 DEF HistInv, HistoryInOrder
<1> QED
  BY <1>2, <1>3, <1>4

\* So a step that is neither recorded nor the current one is in no list.
LEMMA SentBelow ==
  ASSUME TypeInv, HistInv, EffectInv, NEW e \in Executions, NEW k \in Elems(sent[e])
  PROVE  k \in Nat /\ k <= rows[e].step
<1>1. rows[e].step \in Nat
  BY DEF TypeInv, TypeOK, Row
<1>2. \/ k \in StepsWith(e, {"sent", "failed"}) \/ k = rows[e].step
      \/ k \in Elems(undone[e])
  BY DEF EffectInv, NotificationsMatchHistory
<1>3. k \in Nat
  BY DEF Elems, TypeInv, TypeOK
<1> QED
  BY <1>1, <1>2, <1>3, StepsBelow DEF EffectInv, StartsOnce

\* A task that runs a step is the only token of its execution.
LEMMA OnlyToken ==
  ASSUME TypeInv, TokenInv, NEW h \in Tasks, NEW x \in Executions, InStep(h, x)
  PROVE  /\ pending[x] = {} /\ minted[x] # 0
         /\ \A t \in Tasks : InStep(t, x) => t = h
BY DEF TokenInv, OneTokenPerExecution, FreshUnused

LEMMA AnnounceEffects ==
  ASSUME TypeInv, TokenInv, HistInv, EffectInv, NEW h \in Tasks, StepAct(h)
  PROVE  EffectInv'
<1>1. PICK x \in Executions : x = loc[h].exec
  BY DEF StepAct, TypeInv, TasksHoldValues
<1> DEFINE n == loc[h].seen.step
           app == loc[h].steps[n + 1].channel = "in_app"
<1>2. /\ pc[h] = "stepping" /\ pc'[h] = "acted" /\ loc'[h].exec = x
      /\ loc'[h].seen.step = n /\ loc'[h].steps = loc[h].steps
      /\ \A t \in Tasks : t # h => pc'[t] = pc[t] /\ loc'[t] = loc[t]
      /\ UNCHANGED <<rows, confirms, pending, minted, undone>>
      /\ app => /\ sent' = [sent EXCEPT ![x] = Append(sent[x], n)]
                /\ loc'[h].result \in {"sent", "failed"}
      /\ ~app => loc'[h].result = "pending_hitl" /\ sent' = sent
  BY <1>1, ActedFields DEF db, jobs
<1>3. ActedRight'
  BY <1>2 DEF EffectInv, ActedRight
<1>4. InStep(h, x) /\ Ready(x)
  BY <1>1, <1>2 DEF InStep, Ready
<1>5. n = rows[x].step /\ n \in Nat
  BY <1>1, <1>2 DEF HistInv, SnapshotCurrent, TypeInv, TypeOK, Row
<1>6. ASSUME NEW e \in Executions PROVE (Ready(e)' => Ready(e))
  BY <1>2, <1>4 DEF Ready
<1>7. ASSUME NEW e \in Executions, e # x PROVE (Announced(e)' => Announced(e))
  BY <1>2, <1>7 DEF Announced
<1>8. CASE ~app
  <2>1. Announced(x)' => Announced(x)
    BY <1>2, <1>8 DEF Announced
  <2>2. ASSUME NEW e \in Executions PROVE SameEffects(e)
    BY <1>2, <1>6, <1>7, <1>8, <2>1 DEF SameEffects
  <2> QED
    BY <1>3, <2>2, QuietEffects
<1>9. CASE app
  <2>1. sent[x] \in Seq(Nat)
    BY DEF TypeInv, TypeOK
  <2>2. /\ sent'[x] = Append(sent[x], n)
        /\ \A e \in Executions : e # x => sent'[e] = sent[e]
    BY <1>2, <1>9 DEF TypeInv, TypeOK
  <2>3. Elems(sent'[x]) = Elems(sent[x]) \cup {n} /\ Len(sent'[x]) = Len(sent[x]) + 1
    BY <1>5, <2>1, <2>2, ElemsAppend
  <2>4. /\ n \notin Elems(sent[x]) \/ n \in Elems(undone[x])
        /\ Effects(x) = Due(x)
    BY <1>4, <1>5 DEF EffectInv, StartsOnce
  <2>5. ~Ready(x)'
    BY <1>2, <1>4, <1>9, OnlyToken DEF Ready, InStep
  <2>6. FreshEmpty'
    BY <1>2, <1>4, <2>2, OnlyToken DEF EffectInv, FreshEmpty
  <2>7. Effects(x)' = Effects(x) + 1
    <3> DEFINE a == Len(sent[x])
               b == Len(confirms[x])
    <3>1. a \in Nat /\ b \in Nat /\ Effects(x) = a + b
      BY DEF TypeInv, TypeOK, Effects
    <3>2. Len(sent'[x]) = a + 1 /\ Len(confirms'[x]) = b
      BY <1>2, <2>3
    <3> HIDE DEF a, b
    <3>3. Effects(x)' = (a + 1) + b
      BY <3>2 DEF Effects
    <3> QED
      BY <3>1, <3>3
  <2>8. StartsOnce'
    <3>1. ASSUME NEW e \in Executions
          PROVE  /\ \A k \in Elems(undone'[e]) : k <= rows'[e].step
                 /\ Ready(e)' => /\ \/ rows'[e].step \notin Elems(sent'[e])
                                    \/ rows'[e].step \in Elems(undone'[e])
                                 /\ Effects(e)' = Due(e)'
                 /\ Announced(e)' => /\ rows'[e].step \in Elems(sent'[e])
                                     /\ Effects(e)' = Due(e)' + 1
      <4>0. Due(e)' = Due(e) /\ \A k \in Elems(undone'[e]) : k <= rows'[e].step
        BY <1>2 DEF EffectInv, StartsOnce, Due
      <4>1. CASE e = x
        BY <1>2, <1>5, <2>3, <2>4, <2>5, <2>7, <4>0, <4>1
      <4>2. CASE e # x
        BY <1>2, <1>6, <1>7, <2>2, <4>0, <4>2 DEF EffectInv, StartsOnce, Effects
      <4> QED
        BY <4>1, <4>2
    <3> QED
      BY <3>1 DEF StartsOnce
  <2>9. ConfirmationsMatchHistory'
    BY <1>2 DEF EffectInv, ConfirmationsMatchHistory, StepsWith
  <2>10. Ascending(sent'[x], undone'[x])
    <3>1. ASSUME NEW k \in Elems(sent[x])
          PROVE  k < n \/ (k = n /\ k \in Elems(undone[x]))
      <4>1. k \in Nat /\ k <= rows[x].step
        BY SentBelow
      <4>2. k = n => k \in Elems(undone[x])
        BY <2>4
      <4> QED
        BY <1>5, <4>1, <4>2
    <3>2. Ascending(sent[x], undone[x])
      BY DEF EffectInv, NotificationsMatchHistory
    <3> QED
      BY <1>2, <1>5, <2>1, <2>2, <3>1, <3>2, AscendingAppend
  <2>11. NotificationsMatchHistory'
    <3>1. ASSUME NEW e \in Executions
          PROVE  /\ Ascending(sent'[e], undone'[e])
                 /\ StepsWith(e, {"sent", "failed"})' \subseteq Elems(sent'[e])
                 /\ Elems(sent'[e]) \subseteq
                      StepsWith(e, {"sent", "failed"})'
                        \cup {rows'[e].step} \cup Elems(undone'[e])
      <4>1. StepsWith(e, {"sent", "failed"})' = StepsWith(e, {"sent", "failed"})
        BY <1>2 DEF StepsWith
      <4>2. CASE e = x
        BY <1>2, <1>5, <2>3, <2>10, <4>1, <4>2
           DEF EffectInv, NotificationsMatchHistory
      <4>3. CASE e # x
        BY <1>2, <2>2, <4>1, <4>3 DEF EffectInv, NotificationsMatchHistory
      <4> QED
        BY <4>2, <4>3
    <3> QED
      BY <3>1 DEF NotificationsMatchHistory
  <2> QED
    BY <1>3, <2>6, <2>8, <2>9, <2>11 DEF EffectInv
<1> QED
  BY <1>8, <1>9

\* Recording appends the step to the lists it belongs to.
LEMMA StepsRecorded ==
  ASSUME NEW x \in Executions, rows[x].history \in Seq(Entry), NEW n \in Entry,
         rows'[x].history = Append(rows[x].history, n), NEW results
  PROVE  /\ n.result \in results =>
              StepsWith(x, results)' = StepsWith(x, results) \cup {n.step}
         /\ n.result \notin results =>
              StepsWith(x, results)' = StepsWith(x, results)
<1>1. Elems(rows'[x].history) = Elems(rows[x].history) \cup {n}
  BY ElemsAppend
<1> QED
  BY <1>1 DEF StepsWith

LEMMA RecordEffects ==
  ASSUME TypeInv, TokenInv, HistInv, EffectInv, NEW h \in Tasks,
         NEW x \in Executions, Recorded(h, x)
  PROVE  EffectInv'
<1> DEFINE s    == rows[x].step
           n    == NewEntry(loc[h])
           asks == n.result = "pending_hitl"
<1>1. InStep(h, x)
  BY DEF Recorded, InStep
<1>2. /\ s \in Nat /\ loc[h].seen.step = s /\ rows'[x].step = s + 1
      /\ rows[x].history \in Seq(Entry)
      /\ rows'[x].history = Append(rows[x].history, n)
      /\ Len(rows[x].history) = s
      /\ sent[x] \in Seq(Nat) /\ confirms[x] \in Seq(Nat)
  BY DEF HistInv, SnapshotCurrent, HistoryInOrder, Recorded, TypeInv, TypeOK, Row
<1>3. n \in Entry /\ n.step = s /\ n.result = loc[h].result
  BY <1>2, EntryTyped DEF Recorded, NewEntry
<1>4. n.result \in {"sent", "failed", "pending_hitl"}
      /\ (n.channel = "in_app" <=> ~asks)
  BY <1>3 DEF EffectInv, ActedRight, Recorded, NewEntry, TypeInv, TasksHoldValues,
              Results
<1>5. /\ asks => confirms' = [confirms EXCEPT ![x] = Append(confirms[x], s)]
      /\ ~asks => confirms' = confirms
      /\ sent' = sent /\ undone' = undone
  BY <1>2, <1>3 DEF Recorded, RecordStep
<1>6. \A e \in Executions : e # x => confirms'[e] = confirms[e] /\ rows'[e] = rows[e]
  BY <1>5 DEF Recorded, OtherRows, TypeInv, TypeOK
<1> DEFINE u == Len(undone[x])
<1>7. /\ asks => /\ s \notin Elems(sent[x]) \/ s \in Elems(undone[x])
                 /\ Effects(x) = s + u
      /\ ~asks => s \in Elems(sent[x]) /\ Effects(x) = (s + u) + 1
      /\ u \in Nat
  <2>1. asks => Ready(x)
    BY <1>3 DEF Ready, Recorded
  <2>2. ~asks => Announced(x)
    BY <1>3 DEF Announced, Recorded
  <2>3. u \in Nat
    BY DEF TypeInv, TypeOK
  <2> QED
    BY <1>2, <2>1, <2>2, <2>3 DEF EffectInv, StartsOnce, Due
<1> HIDE DEF n, s, u
<1>8. /\ StepsWith(x, {"pending_hitl"})' = StepsWith(x, {"pending_hitl"})
           \cup (IF asks THEN {s} ELSE {})
      /\ StepsWith(x, {"sent", "failed"})' = StepsWith(x, {"sent", "failed"})
           \cup (IF asks THEN {} ELSE {s})
  <2>1. ASSUME NEW results
        PROVE  /\ n.result \in results =>
                    StepsWith(x, results)' = StepsWith(x, results) \cup {n.step}
               /\ n.result \notin results =>
                    StepsWith(x, results)' = StepsWith(x, results)
    BY <1>2, <1>3, StepsRecorded, Zenon
  <2>2. CASE asks
    <3>1. n.result \in {"pending_hitl"} /\ n.result \notin {"sent", "failed"}
      BY <2>2
    <3> QED
      BY <1>3, <2>1, <2>2, <3>1
  <2>3. CASE ~asks
    <3>1. n.result \notin {"pending_hitl"} /\ n.result \in {"sent", "failed"}
      BY <1>4, <2>3
    <3> QED
      BY <1>3, <2>1, <2>3, <3>1
  <2> QED
    BY <2>2, <2>3
<1>9. ASSUME NEW e \in Executions, e # x, NEW results
      PROVE  StepsWith(e, results)' = StepsWith(e, results)
  BY <1>6, <1>9 DEF StepsWith
<1>10. ActedRight' /\ FreshEmpty'
  <2>1. ActedRight'
    BY FinishEffects, ActedStays DEF Recorded, EffectInv
  <2>2. ASSUME NEW e \in Executions, minted'[e] = 0 PROVE e # x /\ minted[e] = 0
    <3>1. minted[e] \in Nat /\ minted'[e] >= minted[e]
      BY DEF Recorded, TypeInv, TypeOK
    <3>2. minted[e] = 0
      BY <2>2, <3>1
    <3> QED
      BY <1>1, <3>2, OnlyToken
  <2>3. FreshEmpty'
    BY <1>5, <1>6, <2>2 DEF EffectInv, FreshEmpty
  <2> QED
    BY <2>1, <2>3
<1>11. Effects(x)' = (s + u) + 1 /\ Due(x)' = (s + u) + 1
  <2> DEFINE a == Len(sent[x])
             b == Len(confirms[x])
  <2>1. a \in Nat /\ b \in Nat /\ Effects(x) = a + b
    BY <1>2 DEF Effects
  <2>2. Due(x)' = (s + u) + 1
    <3>1. Len(rows'[x].history) = s + 1 /\ Len(undone'[x]) = u
      BY <1>2, <1>3, <1>5 DEF u
    <3>2. Due(x)' = (s + 1) + u
      BY <3>1 DEF Due
    <3> QED
      BY <1>2, <1>7, <3>2
  <2>3. CASE asks
    <3>1. confirms'[x] = Append(confirms[x], s)
      BY <1>5, <2>3 DEF TypeInv, TypeOK
    <3>2. Len(sent'[x]) = a /\ Len(confirms'[x]) = b + 1
      BY <1>2, <1>5, <3>1
    <3> HIDE DEF a, b
    <3>3. Effects(x)' = a + (b + 1)
      BY <3>2 DEF Effects
    <3> QED
      BY <1>2, <1>7, <2>1, <2>2, <2>3, <3>3
  <2>4. CASE ~asks
    <3>1. Effects(x)' = Effects(x)
      BY <1>5, <2>4 DEF Effects
    <3> QED
      BY <1>7, <2>2, <2>4, <3>1
  <2> QED
    BY <2>3, <2>4
<1>12. ASSUME NEW e \in Executions
       PROVE  /\ \A k \in Elems(undone'[e]) : k <= rows'[e].step
              /\ Ready(e)' => /\ \/ rows'[e].step \notin Elems(sent'[e])
                                 \/ rows'[e].step \in Elems(undone'[e])
                              /\ Effects(e)' = Due(e)'
              /\ Announced(e)' => /\ rows'[e].step \in Elems(sent'[e])
                                  /\ Effects(e)' = Due(e)' + 1
  <2>1. CASE e = x
    <3>1. s + 1 \notin Elems(sent[x])
      <4>1. ASSUME s + 1 \in Elems(sent[x]) PROVE FALSE
        <5>1. s + 1 <= rows[x].step
          BY <4>1, SentBelow
        <5> QED
          BY <1>2, <5>1 DEF s
      <4> QED
        BY <4>1
    <3>2. ~Announced(x)'
      BY <1>1, OnlyToken, FinishTyped DEF Recorded, Announced, InStep
    <3>3. ASSUME NEW k \in Elems(undone[x]) PROVE k <= s + 1
      <4>1. k \in Nat
        BY <3>3 DEF Elems, TypeInv, TypeOK
      <4>2. k <= s
        BY <3>3 DEF EffectInv, StartsOnce, s
      <4> QED
        BY <1>2, <4>1, <4>2
    <3> QED
      BY <1>2, <1>5, <1>11, <2>1, <3>1, <3>2, <3>3
  <2>2. CASE e # x
    <3>1. (Ready(e)' => Ready(e)) /\ (Announced(e)' => Announced(e))
      <4>1. minted'[e] = 0 => minted[e] = 0
        BY DEF Recorded, TypeInv, TypeOK
      <4>2. pending'[e] \subseteq pending[e]
        BY <2>2 DEF Recorded
      <4> QED
        BY <4>1, <4>2, FinishTyped DEF Ready, Announced, Recorded
    <3> QED
      BY <1>5, <1>6, <2>2, <3>1 DEF EffectInv, StartsOnce, Effects, Due
  <2> QED
    BY <2>1, <2>2
<1>13. ASSUME NEW e \in Executions
       PROVE  /\ Increasing(confirms'[e])
              /\ Elems(confirms'[e]) = StepsWith(e, {"pending_hitl"})'
              /\ \A m \in Elems(rows'[e].history) :
                   m.channel = "in_app" <=> m.result # "pending_hitl"
  <2>1. /\ Increasing(confirms[e])
        /\ Elems(confirms[e]) = StepsWith(e, {"pending_hitl"})
        /\ \A m \in Elems(rows[e].history) :
             m.channel = "in_app" <=> m.result # "pending_hitl"
    BY DEF EffectInv, ConfirmationsMatchHistory
  <2>2. CASE e = x
    <3>1. Elems(rows'[x].history) = Elems(rows[x].history) \cup {n}
      BY <1>2, <1>3, ElemsAppend
    <3>2. CASE asks
      <4>1. confirms'[x] = Append(confirms[x], s)
        BY <1>5, <3>2 DEF TypeInv, TypeOK
      <4>2. \A k \in Elems(confirms[x]) : k < s
        BY <2>1, <2>2, StepsBelow DEF s
      <4>3. Increasing(confirms'[x])
        BY <1>2, <2>1, <2>2, <4>1, <4>2, IncreasingAppend
      <4>4. Elems(confirms'[x]) = Elems(confirms[x]) \cup {s}
        <5>1. confirms[x] \in Seq(Nat) /\ s \in Nat
          BY <1>2
        <5> QED
          BY <4>1, <5>1, ElemsAppend
      <4> QED
        BY <1>4, <1>8, <2>1, <2>2, <3>1, <3>2, <4>3, <4>4
    <3>3. CASE ~asks
      BY <1>4, <1>5, <1>8, <2>1, <2>2, <3>1, <3>3
    <3> QED
      BY <3>2, <3>3
  <2>3. CASE e # x
    BY <1>6, <1>9, <2>1, <2>3
  <2> QED
    BY <2>2, <2>3
<1>14. ASSUME NEW e \in Executions
       PROVE  /\ Ascending(sent'[e], undone'[e])
              /\ StepsWith(e, {"sent", "failed"})' \subseteq Elems(sent'[e])
              /\ Elems(sent'[e]) \subseteq
                   StepsWith(e, {"sent", "failed"})'
                     \cup {rows'[e].step} \cup Elems(undone'[e])
  <2>1. /\ Ascending(sent[e], undone[e])
        /\ StepsWith(e, {"sent", "failed"}) \subseteq Elems(sent[e])
        /\ Elems(sent[e]) \subseteq StepsWith(e, {"sent", "failed"})
                                   \cup {rows[e].step} \cup Elems(undone[e])
    BY DEF EffectInv, NotificationsMatchHistory
  <2>2. CASE e = x
    BY <1>5, <1>7, <1>8, <2>1, <2>2 DEF s
  <2>3. CASE e # x
    BY <1>5, <1>6, <1>9, <2>1, <2>3
  <2> QED
    BY <2>2, <2>3
<1>15. StartsOnce'
  BY <1>12 DEF StartsOnce
<1>16. ConfirmationsMatchHistory'
  BY <1>13 DEF ConfirmationsMatchHistory
<1>17. NotificationsMatchHistory'
  BY <1>14 DEF NotificationsMatchHistory
<1> QED
  BY <1>10, <1>15, <1>16, <1>17 DEF EffectInv

\* A step rolled back after the next job was scheduled: its effect, if it took
\* place, belongs to no recorded step, and it can start again.
LEMMA UndoneEffects ==
  ASSUME TypeInv, TokenInv, HistInv, EffectInv, NEW h \in Tasks, StepUndone(h)
  PROVE  EffectInv'
<1>1. PICK x \in Executions : x = loc[h].exec
  BY DEF StepUndone, TypeInv, TasksHoldValues
<1> DEFINE s    == rows[x].step
           asks == loc[h].result = "pending_hitl"
<1>2. /\ pc[h] = "acted" /\ Finish(h) /\ UNCHANGED <<rows, confirms, sent>>
      /\ minted' = [minted EXCEPT ![x] = minted[x] + 1]
      /\ pending' = [pending EXCEPT ![x] = pending[x] \cup {minted[x] + 1}]
      /\ asks => undone' = undone
      /\ ~asks => undone' = [undone EXCEPT ![x] = Append(undone[x], s)]
  BY <1>1 DEF StepUndone, db, HistInv, SnapshotCurrent
<1>3. InStep(h, x)
  BY <1>1, <1>2 DEF InStep
<1>4. /\ s \in Nat /\ undone[x] \in Seq(Nat)
      /\ \A e \in Executions : e # x =>
           /\ undone'[e] = undone[e] /\ minted'[e] = minted[e]
           /\ pending'[e] = pending[e]
  BY <1>2 DEF TypeInv, TypeOK, Row
<1>5. /\ asks => undone'[x] = undone[x]
      /\ ~asks => /\ Elems(undone'[x]) = Elems(undone[x]) \cup {s}
                  /\ Len(undone'[x]) = Len(undone[x]) + 1
  <2>1. ~asks => undone'[x] = Append(undone[x], s)
    BY <1>2 DEF TypeInv, TypeOK
  <2>2. /\ Elems(Append(undone[x], s)) = Elems(undone[x]) \cup {s}
        /\ Len(Append(undone[x], s)) = Len(undone[x]) + 1
    <3> HIDE DEF s
    <3> QED
      BY <1>4, ElemsAppend
  <2> QED
    BY <1>2, <2>1, <2>2
<1>6. ActedRight'
  BY <1>2, FinishEffects, ActedStays DEF EffectInv
<1>7. FreshEmpty'
  <2>1. minted'[x] # 0
    BY <1>2 DEF TypeInv, TypeOK
  <2> QED
    BY <1>2, <1>4, <2>1 DEF EffectInv, FreshEmpty
<1>8. ~Announced(x)'
  BY <1>2, <1>3, OnlyToken, FinishTyped DEF Announced, InStep
<1>9. /\ asks => /\ s \notin Elems(sent[x]) \/ s \in Elems(undone[x])
                 /\ Effects(x) = Due(x)
      /\ ~asks => Effects(x) = Due(x) + 1
  <2>1. (asks => Ready(x)) /\ (~asks => Announced(x))
    BY <1>1, <1>2 DEF Ready, Announced
  <2> QED
    BY <2>1 DEF EffectInv, StartsOnce
<1>10. Effects(x)' = Due(x)'
  <2>1. Effects(x)' = Effects(x)
    BY <1>2 DEF Effects
  <2>2. CASE asks
    BY <1>2, <1>5, <1>9, <2>1, <2>2 DEF Due
  <2>3. CASE ~asks
    <3> DEFINE a == Len(rows[x].history)
               b == Len(undone[x])
    <3>1. a \in Nat /\ b \in Nat /\ Due(x) = a + b
      BY DEF TypeInv, TypeOK, Row, Due
    <3>2. Len(rows'[x].history) = a /\ Len(undone'[x]) = b + 1
      BY <1>2, <1>5, <2>3
    <3> HIDE DEF a, b
    <3>3. Due(x)' = a + (b + 1)
      BY <3>2 DEF Due
    <3> QED
      BY <1>9, <2>1, <2>3, <3>1, <3>3
  <2> QED
    BY <2>2, <2>3
<1>11. ASSUME NEW e \in Executions
       PROVE  /\ \A k \in Elems(undone'[e]) : k <= rows'[e].step
              /\ Ready(e)' => /\ \/ rows'[e].step \notin Elems(sent'[e])
                                 \/ rows'[e].step \in Elems(undone'[e])
                              /\ Effects(e)' = Due(e)'
              /\ Announced(e)' => /\ rows'[e].step \in Elems(sent'[e])
                                  /\ Effects(e)' = Due(e)' + 1
  <2>1. CASE e = x
    BY <1>2, <1>4, <1>5, <1>8, <1>9, <1>10, <2>1 DEF EffectInv, StartsOnce
  <2>2. CASE e # x
    <3>1. (Ready(e)' => Ready(e)) /\ (Announced(e)' => Announced(e))
      BY <1>2, <1>4, <2>2, FinishTyped DEF Ready, Announced
    <3> QED
      BY <1>2, <1>4, <2>2, <3>1 DEF EffectInv, StartsOnce, Effects, Due
  <2> QED
    BY <2>1, <2>2
<1>12. \A e \in Executions : Elems(undone[e]) \subseteq Elems(undone'[e])
  BY <1>4, <1>5
<1>13. ConfirmationsMatchHistory'
  BY <1>2 DEF EffectInv, ConfirmationsMatchHistory, StepsWith
<1>14. NotificationsMatchHistory'
  <2>1. \A e \in Executions :
          StepsWith(e, {"sent", "failed"})' = StepsWith(e, {"sent", "failed"})
    BY <1>2 DEF StepsWith
  <2>2. \A e \in Executions : Ascending(sent[e], undone[e])
    BY DEF EffectInv, NotificationsMatchHistory
  <2>3. ASSUME NEW q, NEW u, NEW v, Elems(u) \subseteq Elems(v), Ascending(q, u)
        PROVE  Ascending(q, v)
    BY <2>3 DEF Ascending
  <2>4. \A e \in Executions : Ascending(sent'[e], undone'[e])
    BY <1>2, <1>12, <2>2, <2>3
  <2> QED
    BY <1>2, <1>12, <2>1, <2>4 DEF EffectInv, NotificationsMatchHistory
<1>15. StartsOnce'
  BY <1>11 DEF StartsOnce
<1> QED
  BY <1>6, <1>7, <1>13, <1>14, <1>15 DEF EffectInv

LEMMA EffectStep ==
  TypeInv /\ TokenInv /\ HistInv /\ EffectInv /\ [Next]_vars => EffectInv'
<1> SUFFICES ASSUME TypeInv, TokenInv, HistInv, EffectInv, [Next]_vars
             PROVE  EffectInv'
  OBVIOUS
<1>1. ASSUME NEW r \in Rules, Edit(r) \/ DeleteRule(r) PROVE EffectInv'
  BY <1>1, ActedStays, QuietEffects
     DEF Edit, CreateRule, UpdateRule, DeleteRule, jobs, SameActed, SameEffects,
         Ready, Announced, EffectInv
<1>2. ASSUME NEW h \in Tasks, NEW d \in Deadlines, NEW r \in Rules,
             ActivateCheck(h, d, r)
      PROVE  EffectInv'
  <2>1. /\ SameActed
        /\ \A t \in Tasks : pc'[t] \in {"fired", "stepping", "acted"} =>
             pc'[t] = pc[t] /\ loc'[t] = loc[t]
    BY <1>2 DEF ActivateCheck, SameActed, TypeInv, TypeOK
  <2>2. \A e \in Executions : SameEffects(e)
    BY <1>2, <2>1 DEF ActivateCheck, db, jobs, SameEffects, Ready, Announced
  <2> QED
    BY <2>1, <2>2, ActedStays, QuietEffects DEF EffectInv
<1>3. ASSUME NEW h \in Tasks, StepOverrun(h) \/ CloseCommit(h) PROVE EffectInv'
  BY <1>3, OverrunMarks, CloseMarks, MarkedEffects
<1>4. ASSUME NEW h \in Tasks,
             StepFails(h) \/ StepRaises(h) \/ RollsBack(h) \/ CancelUndone(h)
      PROVE  EffectInv'
  <2>1. /\ Finish(h) /\ UNCHANGED <<rows, confirms, sent, minted, undone>>
        /\ \A e \in Executions : pending'[e] \subseteq pending[e]
    BY <1>4 DEF StepFails, StepRaises, RollsBack, CancelUndone, db, jobs, TypeInv,
                TypeOK
  <2>2. \A e \in Executions : SameEffects(e)
    BY <2>1, FinishEffects DEF SameEffects
  <2> QED
    BY <2>1, <2>2, FinishEffects, ActedStays, QuietEffects DEF EffectInv
<1>5. ASSUME NEW h \in Tasks, StepCommitLast(h) \/ StepCommitNext(h)
      PROVE  EffectInv'
  BY <1>5, LastRecorded, NextRecorded, RecordEffects
<1>6. ASSUME NEW h \in Tasks, NEW x \in Executions,
             NEW outcome \in {"resolved", "cancelled"}, CloseRead(h, x, outcome)
      PROVE  EffectInv'
  <2>1. /\ SameActed
        /\ \A t \in Tasks : pc'[t] \in {"fired", "stepping", "acted"} =>
             pc'[t] = pc[t] /\ loc'[t] = loc[t]
    BY <1>6 DEF CloseRead, SameActed, TypeInv, TypeOK
  <2>2. \A e \in Executions : SameEffects(e)
    BY <1>6, <2>1 DEF CloseRead, db, jobs, SameEffects, Ready, Announced
  <2> QED
    BY <2>1, <2>2, ActedStays, QuietEffects DEF EffectInv
<1>7. CASE Restart
  <2>1. SameActed
    BY <1>7 DEF Restart, SameActed
  <2>2. ASSUME NEW e \in Executions PROVE SameEffects(e)
    BY <1>7 DEF Restart, db, SameEffects, Ready, Announced
  <2> QED
    BY <2>1, <2>2, ActedStays, QuietEffects DEF EffectInv
<1>8. ASSUME NEW x \in Executions, NEW j \in pending[x], Misfire(x, j)
      PROVE  EffectInv'
  <2>1. SameActed /\ \A e \in Executions : pending'[e] \subseteq pending[e]
    BY <1>8 DEF Misfire, SameActed, TypeInv, TypeOK
  <2>2. \A e \in Executions : SameEffects(e)
    BY <1>8, <2>1 DEF Misfire, db, SameEffects, Ready, Announced
  <2> QED
    BY <2>1, <2>2, ActedStays, QuietEffects DEF EffectInv
<1>9. CASE UNCHANGED vars
  BY <1>9, ActedStays, QuietEffects
     DEF vars, SameActed, SameEffects, Ready, Announced, EffectInv
<1> QED
  BY <1>1, <1>2, <1>3, <1>4, <1>5, <1>6, <1>7, <1>8, <1>9, ActivateEffects,
     FireEffects, ReadEffects, AnnounceEffects, UndoneEffects
     DEF Next, Request, RunStep, ResolveForDeadline, ResolveRead, CancelRead,
         Tasks

LEMMA EffectInit == Init => EffectInv
<1> SUFFICES ASSUME Init PROVE EffectInv
  OBVIOUS
<1>1. \A e \in Executions : /\ sent[e] = <<>> /\ confirms[e] = <<>>
                            /\ rows[e].history = <<>> /\ rows[e].step = 0
                            /\ undone[e] = <<>>
  BY DEF Init, NoRow
<1>2. /\ Elems(<<>>) = {} /\ Increasing(<<>>) /\ Ascending(<<>>, <<>>)
      /\ Len(<<>>) = 0
  BY DEF Elems, Increasing, Ascending
<1>3. \A e \in Executions : ~Announced(e)
  BY DEF Init, Announced
<1>4. ActedRight
  BY DEF Init, ActedRight
<1>5. FreshEmpty
  BY <1>1 DEF FreshEmpty
<1>6. \A e \in Executions : Effects(e) = 0 /\ Due(e) = 0
  <2>1. \A e \in Executions : /\ Len(sent[e]) = 0 /\ Len(confirms[e]) = 0
                              /\ Len(rows[e].history) = 0 /\ Len(undone[e]) = 0
    BY <1>1, <1>2
  <2>2. 0 + 0 = 0
    OBVIOUS
  <2> QED
    BY <2>1, <2>2, Zenon DEF Effects, Due
<1>7. StartsOnce
  BY <1>1, <1>2, <1>3, <1>6 DEF StartsOnce
<1>8. ConfirmationsMatchHistory /\ NotificationsMatchHistory
  BY <1>1, <1>2 DEF ConfirmationsMatchHistory, NotificationsMatchHistory, StepsWith
<1> QED
  BY <1>4, <1>5, <1>7, <1>8 DEF EffectInv

\* A step asks for confirmation once, and only if its channel does and it is
\* recorded.
THEOREM ConfirmationsCorrect == Spec => []ConfirmationsMatchHistory
<1>1. EffectInv => ConfirmationsMatchHistory
  BY DEF EffectInv
<1> QED
  BY TypeInit, TypeStep, TokenInit, TokenStep, HistInit, HistStep, EffectInit,
     EffectStep, <1>1, PTL DEF Spec

\* A step is announced in order, and again only after its commit failed, and
\* none that is recorded was not.
THEOREM NotificationsCorrect == Spec => []NotificationsMatchHistory
<1>1. EffectInv => NotificationsMatchHistory
  BY DEF EffectInv
<1> QED
  BY TypeInit, TypeStep, TokenInit, TokenStep, HistInit, HistStep, EffectInit,
     EffectStep, <1>1, PTL DEF Spec

---------------------------------------------------------------------------
(* The ledger *)

Started == [e \in Executions |-> Effects(e)]
Done    == [e \in Executions |-> Len(rows[e].history)]
Undone  == [e \in Executions |-> Len(undone[e])]

\* A step that neither starts an effect nor records one.
Keeps(e) ==
  /\ rows'[e].history = rows[e].history
  /\ sent'[e] = sent[e] /\ confirms'[e] = confirms[e]
  /\ undone'[e] = undone[e]

LEMMA KeepsStutters ==
  ASSUME \A e \in Executions : Keeps(e)
  PROVE  UNCHANGED Ledger!LedgerVars
<1>1. \A e \in Executions : Effects(e)' = Effects(e)
  BY DEF Keeps, Effects
<1>2. Started' = Started /\ Done' = Done /\ Undone' = Undone
  BY <1>1 DEF Keeps, Started, Done, Undone
<1> QED
  BY <1>2 DEF Ledger!LedgerVars, Started, Done, Undone, Effects

\* An in-app notification starts the effect of a step that had none.
LEMMA AnnounceBegins ==
  ASSUME TypeInv, TokenInv, HistInv, EffectInv, NEW h \in Tasks, StepAct(h)
  PROVE  [Ledger!LedgerNext]_(Ledger!LedgerVars)
<1>1. PICK x \in Executions : x = loc[h].exec
  BY DEF StepAct, TypeInv, TasksHoldValues
<1> DEFINE n == loc[h].seen.step
           app == loc[h].steps[n + 1].channel = "in_app"
<1>2. /\ pc[h] = "stepping" /\ UNCHANGED <<rows, confirms, undone>>
      /\ app => sent' = [sent EXCEPT ![x] = Append(sent[x], n)]
      /\ ~app => sent' = sent
  BY <1>1, ActedFields DEF db
<1>3. CASE ~app
  BY <1>2, <1>3, KeepsStutters DEF Keeps
<1>4. CASE app
  <2>1. Ready(x)
    BY <1>1, <1>2 DEF Ready
  <2>2. Started[x] = Done[x] + Undone[x]
    BY <2>1 DEF EffectInv, StartsOnce, Started, Done, Undone, Due
  <2>3. sent[x] \in Seq(Nat) /\ n \in Nat /\ confirms[x] \in Seq(Nat)
    BY <1>1, <1>2 DEF HistInv, SnapshotCurrent, TypeInv, TypeOK, Row
  <2>4. /\ sent'[x] = Append(sent[x], n)
        /\ \A e \in Executions : e # x => sent'[e] = sent[e]
    BY <1>2, <1>4 DEF TypeInv, TypeOK
  <2>5. Effects(x)' = Effects(x) + 1
    <3>1. Len(sent'[x]) = Len(sent[x]) + 1 /\ confirms'[x] = confirms[x]
      BY <1>2, <2>3, <2>4
    <3> DEFINE a == Len(sent[x])
               b == Len(confirms[x])
    <3>2. a \in Nat /\ b \in Nat /\ Len(sent'[x]) = a + 1 /\ Len(confirms'[x]) = b
      BY <2>3, <3>1
    <3>3. Effects(x) = a + b
      BY DEF Effects
    <3> HIDE DEF a, b
    <3>4. Effects(x)' = (a + 1) + b
      BY <3>2 DEF Effects
    <3> QED
      BY <3>2, <3>3, <3>4
  <2>6. \A e \in Executions : e # x => Effects(e)' = Effects(e)
    BY <1>2, <2>4 DEF Effects
  <2>7. /\ Started' = [Started EXCEPT ![x] = Started[x] + 1]
        /\ Done' = Done /\ Undone' = Undone
    BY <1>2, <2>5, <2>6 DEF Started, Done, Undone
  <2>8. Ledger!Begin(x)
    BY <2>2, <2>7 DEF Ledger!Begin, Ledger!Settled, Started, Done, Undone, Effects
  <2> QED
    BY <2>8 DEF Ledger!LedgerNext
<1> QED
  BY <1>3, <1>4

\* A committed step is recorded in the ledger, its effect with it at the
\* latest.
LEMMA RecordRecords ==
  ASSUME TypeInv, TokenInv, HistInv, EffectInv,
         NEW h \in Tasks, NEW x \in Executions, Recorded(h, x)
  PROVE  [Ledger!LedgerNext]_(Ledger!LedgerVars)
<1>1. InStep(h, x)
  BY DEF Recorded, InStep
<1>2. Len(rows'[x].history) = Len(rows[x].history) + 1
  <2>1. /\ loc[h].seen.history = rows[x].history
        /\ rows[x].history \in Seq(Entry)
    BY DEF HistInv, SnapshotCurrent, Recorded, TypeInv, TypeOK, Row
  <2>2. NewEntry(loc[h]) \in Entry
    BY EntryTyped DEF Recorded
  <2> QED
    BY <2>1, <2>2 DEF Recorded
<1>3. Effects(x)' = Due(x) + 1
  <2>1. CASE loc[h].result = "pending_hitl"
    <3>1. Effects(x) = Due(x)
      BY <2>1 DEF EffectInv, StartsOnce, Ready, Recorded
    <3>2. confirms' = [confirms EXCEPT ![x] = Append(confirms[x], loc[h].seen.step)]
          /\ sent' = sent
      BY <2>1 DEF Recorded, RecordStep
    <3> DEFINE a == Len(sent[x])
               b == Len(confirms[x])
    <3>3. a \in Nat /\ b \in Nat /\ Len(sent'[x]) = a /\ Len(confirms'[x]) = b + 1
      BY <3>2, EntryTyped DEF Recorded, TypeInv, TypeOK
    <3>4. Effects(x) = a + b
      BY DEF Effects
    <3> HIDE DEF a, b
    <3>5. Effects(x)' = a + (b + 1)
      BY <3>3 DEF Effects
    <3>6. Effects(x)' = Effects(x) + 1
      BY <3>3, <3>4, <3>5
    <3> QED
      BY <3>1, <3>6
  <2>2. CASE loc[h].result # "pending_hitl"
    <3>1. Effects(x) = Due(x) + 1
      BY <2>2 DEF EffectInv, StartsOnce, Announced, Recorded
    <3>2. UNCHANGED <<sent, confirms>>
      BY <2>2 DEF Recorded, RecordStep
    <3> QED
      BY <3>1, <3>2 DEF Effects
  <2> QED
    BY <2>1, <2>2
<1>4. ASSUME NEW e \in Executions, e # x PROVE Keeps(e)
  <2>1. rows'[e] = rows[e] /\ sent' = sent /\ undone' = undone
    BY <1>4 DEF Recorded, OtherRows
  <2>2. confirms'[e] = confirms[e]
    BY <1>4 DEF Recorded, RecordStep, TypeInv, TypeOK
  <2> QED
    BY <2>1, <2>2 DEF Keeps
<1>5. /\ Done' = [Done EXCEPT ![x] = Done[x] + 1]
      /\ Started' = [Started EXCEPT ![x] = Done[x] + Undone[x] + 1]
      /\ Undone' = Undone
  BY <1>2, <1>3, <1>4 DEF Done, Started, Undone, Keeps, Effects, Due, Recorded
<1>6. Ledger!Record(x)
  BY <1>5 DEF Ledger!Record, Done, Started, Undone, Effects
<1> QED
  BY <1>6 DEF Ledger!LedgerNext

\* A rolled back step undoes the effect that it had, if it had one.
LEMMA UndoneUndoes ==
  ASSUME TypeInv, TokenInv, HistInv, EffectInv, NEW h \in Tasks, StepUndone(h)
  PROVE  [Ledger!LedgerNext]_(Ledger!LedgerVars)
<1>1. PICK x \in Executions : x = loc[h].exec
  BY DEF StepUndone, TypeInv, TasksHoldValues
<1> DEFINE s    == loc[h].seen.step
           asks == loc[h].result = "pending_hitl"
<1>2. /\ pc[h] = "acted" /\ UNCHANGED <<rows, confirms, sent>>
      /\ asks => undone' = undone
      /\ ~asks => undone' = [undone EXCEPT ![x] = Append(undone[x], s)]
  BY <1>1 DEF StepUndone, db
<1>3. CASE asks
  BY <1>2, <1>3, KeepsStutters DEF Keeps
<1>4. CASE ~asks
  <2>1. Announced(x)
    BY <1>1, <1>2, <1>4 DEF Announced
  <2>2. Started[x] = Done[x] + Undone[x] + 1
    BY <2>1 DEF EffectInv, StartsOnce, Started, Done, Undone, Due
  <2>3. /\ Len(undone'[x]) = Len(undone[x]) + 1
        /\ \A e \in Executions : e # x => undone'[e] = undone[e]
    <3>1. undone[x] \in Seq(Nat) /\ s \in Nat
      BY <1>2, EntryTyped DEF TypeInv, TypeOK
    <3> QED
      BY <1>2, <1>4, <3>1 DEF TypeInv, TypeOK
  <2>4. /\ Undone' = [Undone EXCEPT ![x] = Undone[x] + 1]
        /\ Done' = Done /\ Started' = Started
    BY <1>2, <2>3 DEF Undone, Done, Started, Effects
  <2>5. Ledger!Undo(x)
    BY <2>2, <2>4 DEF Ledger!Undo, Started, Done, Undone, Effects
  <2> QED
    BY <2>5 DEF Ledger!LedgerNext
<1> QED
  BY <1>3, <1>4

LEMMA LedgerStep ==
  TypeInv /\ TokenInv /\ HistInv /\ EffectInv /\ [Next]_vars
    => [Ledger!LedgerNext]_(Ledger!LedgerVars)
<1> SUFFICES ASSUME TypeInv, TokenInv, HistInv, EffectInv, [Next]_vars
             PROVE  [Ledger!LedgerNext]_(Ledger!LedgerVars)
  OBVIOUS
<1>1. CASE \/ \E r \in Rules : Edit(r) \/ DeleteRule(r)
           \/ \E h \in Tasks :
                \/ \E d \in Deadlines, r \in Rules : ActivateCheck(h, d, r)
                \/ \E e \in Executions : FireFor(h, e)
                \/ \E e \in Executions : ResolveRead(h, e) \/ CancelRead(h, e)
                \/ \E d \in Deadlines : ResolveForDeadline(h, d)
                \/ StepRead(h) \/ StepFails(h) \/ StepRaises(h)
                \/ RollsBack(h) \/ CancelUndone(h)
           \/ Restart
           \/ \E e \in Executions : \E j \in pending[e] : Misfire(e, j)
           \/ UNCHANGED vars
  <2>1. UNCHANGED <<rows, sent, confirms, undone>>
    BY <1>1 DEF Edit, CreateRule, UpdateRule, DeleteRule, ActivateCheck, FireFor,
                JobFires, ResolveForDeadline, ResolveRead, CancelRead, CloseRead,
                StepRead, StepFails, StepRaises, RollsBack, CancelUndone,
                Restart, Misfire, vars, db
  <2> QED
    BY <2>1, KeepsStutters DEF Keeps
<1>2. ASSUME NEW h \in Tasks, StepOverrun(h) \/ CloseCommit(h)
      PROVE  [Ledger!LedgerNext]_(Ledger!LedgerVars)
  <2>1. PICK x \in Executions : Marked(h, x)
    BY <1>2, OverrunMarks, CloseMarks
  <2>2. \A e \in Executions : Keeps(e)
    BY <2>1 DEF Marked, OtherRows, Keeps
  <2> QED
    BY <2>2, KeepsStutters
<1>3. ASSUME NEW h \in Tasks, NEW x \in Executions, ActivateCommit(h, x)
      PROVE  [Ledger!LedgerNext]_(Ledger!LedgerVars)
  <2>1. rows'[x].history = rows[x].history
    BY <1>3, Activated DEF EffectInv, FreshEmpty
  <2>2. \A e \in Executions : Keeps(e)
    BY <1>3, <2>1, Activated DEF OtherRows, Keeps
  <2> QED
    BY <2>2, KeepsStutters
<1>4. ASSUME NEW h \in Tasks, StepCommitLast(h) \/ StepCommitNext(h)
      PROVE  [Ledger!LedgerNext]_(Ledger!LedgerVars)
  BY <1>4, LastRecorded, NextRecorded, RecordRecords
<1> QED
  BY <1>1, <1>2, <1>3, <1>4, AnnounceBegins, UndoneUndoes
     DEF Next, Request, RunStep, Tasks

LEMMA LedgerInits == Init => Ledger!LedgerInit
BY DEF Init, Ledger!LedgerInit, NoRow

\* The service keeps the ledger's promise: whatever tasks, faults and edits
\* interleave, a step's effect starts before its record, and starts again only
\* when that record came undone.
THEOREM LedgerCorrect == Spec => ImplementsLedger
BY TypeInit, TypeStep, TokenInit, TokenStep, HistInit, HistStep, EffectInit,
   EffectStep, LedgerInits, LedgerStep, PTL
   DEF Spec, ImplementsLedger, Ledger!LedgerSpec
===========================================================================
