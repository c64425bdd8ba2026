---------------------------- MODULE Escalation ----------------------------
(***************************************************************************)
(* Escalation of unanswered deadlines: EscalationService, the rules API,   *)
(* and the APScheduler adapter that fires the steps.                       *)
(*                                                                         *)
(* Every request and every fired job runs its own database session         *)
(* (READ COMMITTED, no version column), so a handler is a read step        *)
(* followed by later steps that use what was read.  An action is one       *)
(* stretch of a handler between two awaits at which another task can       *)
(* change what this one relies on.  A committing UPDATE writes only the    *)
(* columns the handler changed.  Scheduler calls never suspend, and the    *)
(* shortest delay is an hour, so what a handler does to the scheduler and  *)
(* the commit that follows are one action; a commit that fails after the   *)
(* scheduler was called is another, and undoes nothing in the scheduler.   *)
(* Time is abstract: a pending job may fire at any moment.                 *)
(***************************************************************************)
EXTENDS Integers, Sequences, FiniteSets

CONSTANTS
  Deadlines,      \* deadline rows
  Rules,          \* escalation rule ids
  Executions,     \* escalation execution ids
  Handlers,       \* concurrent request tasks (a bound)
  Runners,        \* tasks the scheduler runs jobs in, one per execution
  StepLists,      \* step lists users submit
  MinDelay,       \* MIN_DELAY: one hour
  MaxDelay,       \* MAX_DELAY: seven days
  MaxSteps,       \* steps a rule may have (5 in the code)
  Faults,         \* TRUE: restarts, misfires and failing transactions
  MaxUndone,      \* steps of an execution rolled back after scheduling (a
                  \* bound)
  Wired,          \* a step callback was given to the scheduler adapter
  None            \* no value

Channels == {"in_app", "email", "calendar"}
\* fills: message_template has no placeholder but the two it is given.
Step     == [delay : Nat, channel : Channels, fills : BOOLEAN]

ASSUME EscalationAssumption ==
  /\ None \notin Deadlines \cup Rules \cup Executions
  /\ Handlers \cap Runners = {}
  /\ MinDelay \in Nat /\ MaxDelay \in Nat /\ MaxSteps \in Nat \ {0}
  /\ MaxUndone \in Nat
  /\ Faults \in BOOLEAN /\ Wired \in BOOLEAN
  /\ \A s \in StepLists : s \in Seq(Step)

VARIABLES
  rules,     \* escalation_rules rows
  rows,      \* escalation_executions rows
  pending,   \* ordinals of an execution's jobs in the scheduler's memory
  minted,    \* number of jobs ever scheduled for an execution
  sent,      \* steps dispatched in-app, in order (not transactional)
  confirms,  \* steps with a committed PendingConfirmation, in order
  closedAt,  \* history: steps recorded when a user first closed it, else -1
  stray,     \* history: jobs scheduled by a step that was then rolled back
  undone,    \* history: announced steps among those rolled back, in order
  pc, loc    \* each task's control point and local variables

db   == <<rules, rows, confirms, closedAt>>
jobs == <<pending, minted>>
past == <<stray, undone>>
vars == <<rules, rows, pending, minted, sent, confirms, closedAt, stray, undone,
          pc, loc>>

Tasks    == Handlers \cup Runners
NoJob    == 0
Results  == {"sent", "failed", "pending_hitl"}
Entry    == [step : Nat, channel : Channels, result : Results]
Statuses == {"none", "active", "exhausted", "resolved", "cancelled"}
Row      == [status : Statuses, deadline : Deadlines \cup {None},
             rule : Rules \cup {None}, step : Nat, job : Nat,
             history : Seq(Entry)]
Rule     == [state : {"unused", "live", "deleted"}, active : BOOLEAN,
             steps : Seq(Step)]
Points   == {"idle", "activating", "fired", "stepping", "acted",
             "resolved", "cancelled"}
Local    == [exec : Executions \cup {None}, deadline : Deadlines \cup {None},
             rule : Rules \cup {None}, steps : Seq(Step), seen : Row,
             result : Results \cup {None}]

NoRow   == [status |-> "none", deadline |-> None, rule |-> None, step |-> 0,
            job |-> NoJob, history |-> <<>>]
NoLocal == [exec |-> None, deadline |-> None, rule |-> None, steps |-> <<>>,
            seen |-> NoRow, result |-> None]

Init ==
  /\ rules    = [r \in Rules |-> [state |-> "unused", active |-> FALSE,
                                  steps |-> <<>>]]
  /\ rows     = [e \in Executions |-> NoRow]
  /\ pending  = [e \in Executions |-> {}]
  /\ minted   = [e \in Executions |-> 0]
  /\ sent     = [e \in Executions |-> <<>>]
  /\ confirms = [e \in Executions |-> <<>>]
  /\ closedAt = [e \in Executions |-> -1]
  /\ stray    = [e \in Executions |-> {}]
  /\ undone   = [e \in Executions |-> <<>>]
  /\ pc       = [h \in Tasks |-> "idle"]
  /\ loc      = [h \in Tasks |-> NoLocal]

---------------------------------------------------------------------------
(* Rules *)

\* Mutant of Schedulable: the lower bound excluded.
SchedulableAbove(delay) == delay > MinDelay /\ delay <= MaxDelay

Schedulable(delay) == delay \in MinDelay .. MaxDelay

\* The validators of EscalationStep and EscalationRule.
ValidSteps(steps) ==
  /\ Len(steps) \in 1 .. MaxSteps
  /\ \A i \in 1 .. Len(steps) : steps[i].delay \in MinDelay .. MaxDelay
  /\ \A i \in 2 .. Len(steps) : steps[i].delay > steps[i - 1].delay

CreateRule(r, steps, active) ==
  /\ rules[r].state = "unused"
  /\ ValidSteps(steps)
  /\ rules' = [rules EXCEPT ![r] = [state |-> "live", active |-> active,
                                    steps |-> steps]]
  /\ UNCHANGED <<rows, confirms, closedAt, jobs, sent, past, pc, loc>>

\* Running executions of the rule are not looked at: their next step reads
\* the new list.
UpdateRule(r, steps, active) ==
  /\ rules[r].state = "live"
  /\ ValidSteps(steps)
  /\ rules' = [rules EXCEPT ![r] = [@ EXCEPT !.active = active,
                                            !.steps = steps]]
  /\ UNCHANGED <<rows, confirms, closedAt, jobs, sent, past, pc, loc>>

\* The foreign key of escalation_executions refuses a rule ever used.
DeleteRule(r) ==
  /\ rules[r].state = "live"
  /\ \A e \in Executions : rows[e].rule # r
  /\ rules' = [rules EXCEPT ![r] = [@ EXCEPT !.state = "deleted",
                                            !.active = FALSE]]
  /\ UNCHANGED <<rows, confirms, closedAt, jobs, sent, past, pc, loc>>

---------------------------------------------------------------------------
(* Handlers *)

Finish(h) ==
  /\ pc'  = [pc EXCEPT ![h] = "idle"]
  /\ loc' = [loc EXCEPT ![h] = NoLocal]

ActiveOf(d) ==
  {e \in Executions : rows[e].status = "active" /\ rows[e].deadline = d}

\* activate_for_deadline up to its last SELECT: the checks.
ActivateCheck(h, d, r) ==
  /\ pc[h] = "idle"
  /\ rules[r].state = "live" /\ rules[r].active
  /\ ActiveOf(d) = {}
  /\ pc'  = [pc EXCEPT ![h] = "activating"]
  /\ loc' = [loc EXCEPT ![h] = [NoLocal EXCEPT !.deadline = d, !.rule = r,
                                               !.steps = rules[r].steps]]
  /\ UNCHANGED <<db, jobs, sent, past>>

\* The rest: the job is scheduled first, then the row is inserted.  When the
\* INSERT or its commit fails, as it does by the foreign key if the rule has
\* been deleted meanwhile, there is no row and the job stays.
ActivateCommit(h, e) ==
  LET l == loc[h] IN
  /\ pc[h] = "activating"
  /\ minted[e] = 0
  /\ Schedulable(l.steps[1].delay)
  /\ pending' = [pending EXCEPT ![e] = {1}]
  /\ minted'  = [minted EXCEPT ![e] = 1]
  /\ \/ /\ rules[l.rule].state = "live"
        /\ rows' = [rows EXCEPT ![e] = [NoRow EXCEPT
                      !.status = "active", !.deadline = l.deadline,
                      !.rule = l.rule, !.job = 1]]
     \/ /\ rules[l.rule].state # "live" \/ Faults
        /\ UNCHANGED rows
  /\ Finish(h)
  /\ UNCHANGED <<rules, confirms, closedAt, sent, past>>

\* Mutant of JobFires: the job stays in the store, as an interval job does.
JobFiresAndStays(h, e, j) ==
  /\ pc[h] = "idle"
  /\ j \in pending[e]
  /\ pc'  = [pc EXCEPT ![h] = "fired"]
  /\ loc' = [loc EXCEPT ![h].exec = e]
  /\ UNCHANGED <<db, jobs, sent, past>>

\* APScheduler drops a one-shot job from its store when it submits it.  The
\* job calls the step callback, if there is one.
JobFires(h, e, j) ==
  /\ pc[h] = "idle"
  /\ j \in pending[e]
  /\ pending' = [pending EXCEPT ![e] = @ \ {j}]
  /\ IF Wired
     THEN /\ pc'  = [pc EXCEPT ![h] = "fired"]
          /\ loc' = [loc EXCEPT ![h].exec = e]
     ELSE UNCHANGED <<pc, loc>>
  /\ UNCHANGED <<db, minted, sent, past>>

\* Mutant of StepRead: the status is not checked.
StepReadUnchecked(h) ==
  LET e == loc[h].exec IN
  /\ pc[h] = "fired"
  /\ IF rows[e].status # "none"
     THEN /\ pc'  = [pc EXCEPT ![h] = "stepping"]
          /\ loc' = [loc EXCEPT ![h] = [@ EXCEPT
                       !.seen = rows[e], !.steps = rules[rows[e].rule].steps]]
     ELSE Finish(h)
  /\ UNCHANGED <<db, jobs, sent, past>>

\* execute_current_step reads the execution and its rule; a row that is
\* missing or not active makes it raise.
StepRead(h) ==
  LET e == loc[h].exec IN
  /\ pc[h] = "fired"
  /\ IF rows[e].status = "active"
     THEN /\ pc'  = [pc EXCEPT ![h] = "stepping"]
          /\ loc' = [loc EXCEPT ![h] = [@ EXCEPT
                       !.seen = rows[e], !.steps = rules[rows[e].rule].steps]]
     ELSE Finish(h)
  /\ UNCHANGED <<db, jobs, sent, past>>

\* next_step_job_id after _cancel_scheduled_job: set to NULL only when the
\* handler had read a job id.
ClearedJob(l) == IF l.seen.job = NoJob THEN rows[l.exec].job ELSE NoJob

\* The rule was shortened while its execution ran: no step is left.
StepOverrun(h) ==
  LET l == loc[h] IN
  /\ pc[h] = "stepping"
  /\ l.seen.step >= Len(l.steps)
  /\ rows' = [rows EXCEPT ![l.exec] = [@ EXCEPT
                !.status = "exhausted", !.job = ClearedJob(l)]]
  /\ pending' = [pending EXCEPT ![l.exec] = @ \ {l.seen.job}]
  /\ Finish(h)
  /\ UNCHANGED <<rules, confirms, closedAt, minted, sent, past>>

\* message_template.format meets an unknown placeholder and raises: nothing is
\* written, the job that fired is gone, and nothing calls the step again.
StepRaises(h) ==
  LET l == loc[h] IN
  /\ pc[h] = "stepping"
  /\ l.seen.step < Len(l.steps)
  /\ ~l.steps[l.seen.step + 1].fills
  /\ Finish(h)
  /\ UNCHANGED <<db, jobs, sent, past>>

\* _execute_step: an in-app notification leaves at once and may fail; email
\* and calendar steps add an AgentTask and its PendingConfirmation to the
\* open transaction.
StepAct(h) ==
  LET l == loc[h] IN
  /\ pc[h] = "stepping"
  /\ l.seen.step < Len(l.steps)
  /\ l.steps[l.seen.step + 1].fills
  /\ IF l.steps[l.seen.step + 1].channel = "in_app"
     THEN /\ sent' = [sent EXCEPT ![l.exec] = Append(@, l.seen.step)]
          /\ \E result \in {"sent", "failed"} :
               loc' = [loc EXCEPT ![h].result = result]
     ELSE /\ loc' = [loc EXCEPT ![h].result = "pending_hitl"]
          /\ UNCHANGED sent
  /\ pc' = [pc EXCEPT ![h] = "acted"]
  /\ UNCHANGED <<db, jobs, past>>

NewEntry(l) == [step |-> l.seen.step,
                channel |-> l.steps[l.seen.step + 1].channel,
                result |-> l.result]

\* The row, its history and the confirmation commit together.
RecordStep(l) ==
  confirms' = IF l.result = "pending_hitl"
              THEN [confirms EXCEPT ![l.exec] = Append(@, l.seen.step)]
              ELSE confirms

StepCommitLast(h) ==
  LET l == loc[h] IN
  /\ pc[h] = "acted"
  /\ l.seen.step + 1 >= Len(l.steps)
  /\ rows' = [rows EXCEPT ![l.exec] = [@ EXCEPT
                !.history = Append(l.seen.history, NewEntry(l)),
                !.step    = l.seen.step + 1,
                !.status  = "exhausted",
                !.job     = ClearedJob(l)]]
  /\ pending' = [pending EXCEPT ![l.exec] = @ \ {l.seen.job}]
  /\ RecordStep(l)
  /\ Finish(h)
  /\ UNCHANGED <<rules, closedAt, minted, sent, past>>

\* delay_until_next: delays count from the start of the escalation.
GapAfter(l) == l.steps[l.seen.step + 2].delay - l.steps[l.seen.step + 1].delay

\* Mutants of StepCommitNext: the new job's id is not stored in the row, or
\* current_step is not advanced.
StepCommitNextKeeping(h, keep) ==
  LET l   == loc[h]
      job == minted[l.exec] + 1 IN
  /\ pc[h] = "acted"
  /\ l.seen.step + 1 < Len(l.steps)
  /\ Schedulable(GapAfter(l))
  /\ minted'  = [minted EXCEPT ![l.exec] = job]
  /\ pending' = [pending EXCEPT ![l.exec] = @ \cup {job}]
  /\ rows' = [rows EXCEPT ![l.exec] = [@ EXCEPT
                !.history = Append(l.seen.history, NewEntry(l)),
                !.step = IF keep = "step" THEN l.seen.step ELSE l.seen.step + 1,
                !.job  = IF keep = "job" THEN l.seen.job ELSE job]]
  /\ RecordStep(l)
  /\ Finish(h)
  /\ UNCHANGED <<rules, closedAt, sent, past>>
StepCommitNextNoJob(h)  == StepCommitNextKeeping(h, "job")
StepCommitNextNoStep(h) == StepCommitNextKeeping(h, "step")

StepCommitNext(h) ==
  LET l   == loc[h]
      job == minted[l.exec] + 1 IN
  /\ pc[h] = "acted"
  /\ l.seen.step + 1 < Len(l.steps)
  /\ Schedulable(GapAfter(l))
  /\ minted'  = [minted EXCEPT ![l.exec] = job]
  /\ pending' = [pending EXCEPT ![l.exec] = @ \cup {job}]
  /\ rows' = [rows EXCEPT ![l.exec] = [@ EXCEPT
                !.history = Append(l.seen.history, NewEntry(l)),
                !.step    = l.seen.step + 1,
                !.job     = job]]
  /\ RecordStep(l)
  /\ Finish(h)
  /\ UNCHANGED <<rules, closedAt, sent, past>>

\* Mutants of StepFails: the error is swallowed and the transaction commits,
\* or the scheduler tries the job again.
StepFailsCommitting(h) ==
  /\ pc[h] = "acted"
  /\ loc[h].seen.step + 1 < Len(loc[h].steps)
  /\ ~Schedulable(GapAfter(loc[h]))
  /\ RecordStep(loc[h])
  /\ Finish(h)
  /\ UNCHANGED <<rules, rows, closedAt, jobs, sent, past>>
StepFailsRetrying(h) ==
  /\ pc[h] = "acted"
  /\ loc[h].seen.step + 1 < Len(loc[h].steps)
  /\ ~Schedulable(GapAfter(loc[h]))
  /\ pending' = [pending EXCEPT ![loc[h].exec] = @ \cup {loc[h].seen.job}]
  /\ Finish(h)
  /\ UNCHANGED <<db, minted, sent, past>>

\* schedule_step refuses the gap with ValueError: the transaction is rolled
\* back, the job that fired is gone, and nothing calls the step again.
StepFails(h) ==
  LET l == loc[h] IN
  /\ pc[h] = "acted"
  /\ l.seen.step + 1 < Len(l.steps)
  /\ ~Schedulable(GapAfter(l))
  /\ Finish(h)
  /\ UNCHANGED <<db, jobs, sent, past>>

\* resolve and cancel take any execution id, whatever its status.
CloseRead(h, e, outcome) ==
  /\ pc[h] = "idle"
  /\ rows[e].status # "none"
  /\ pc'  = [pc EXCEPT ![h] = outcome]
  /\ loc' = [loc EXCEPT ![h] = [NoLocal EXCEPT !.exec = e, !.seen = rows[e]]]
  /\ UNCHANGED <<db, jobs, sent, past>>

\* resolve_for_deadline: scalar_one_or_none raises on two active rows.
ResolveForDeadline(h, d) ==
  \E e \in Executions : ActiveOf(d) = {e} /\ CloseRead(h, e, "resolved")

\* Mutant of CancelRead: the status is misspelt in a column of free text.
CancelReadMisspelt(h, e) == CloseRead(h, e, "canceled")

ResolveRead(h, e) == CloseRead(h, e, "resolved")
CancelRead(h, e)  == CloseRead(h, e, "cancelled")

\* Cancel the job that was read, then commit.  A status equal to the one
\* read is not written.
WrittenStatus(h, l) ==
  IF l.seen.status = pc[h] THEN rows[l.exec].status ELSE pc[h]

CloseCommit(h) ==
  LET l == loc[h] IN
  /\ pc[h] \in {"resolved", "cancelled"}
  /\ pending' = [pending EXCEPT ![l.exec] = @ \ {l.seen.job}]
  /\ rows' = [rows EXCEPT ![l.exec] = [@ EXCEPT
                !.status = WrittenStatus(h, l),
                !.job    = ClearedJob(l)]]
  /\ closedAt' = IF closedAt[l.exec] = -1 /\ rows[l.exec].status = "active"
                 THEN [closedAt EXCEPT ![l.exec] = Len(rows[l.exec].history)]
                 ELSE closedAt
  /\ Finish(h)
  /\ UNCHANGED <<rules, confirms, minted, sent, past>>

---------------------------------------------------------------------------
(* Faults: the scheduler keeps its jobs in memory, and no rollback undoes what *)
(* was asked of it.                                                            *)

Restart ==
  /\ Faults
  /\ pending' = [e \in Executions |-> {}]
  /\ pc'  = [h \in Tasks |-> "idle"]
  /\ loc' = [h \in Tasks |-> NoLocal]
  /\ UNCHANGED <<db, minted, sent, past>>

\* A job more than misfire_grace_time late is dropped.
Misfire(e, j) ==
  /\ Faults
  /\ j \in pending[e]
  /\ pending' = [pending EXCEPT ![e] = @ \ {j}]
  /\ UNCHANGED <<db, minted, sent, past, pc, loc>>

\* A query or a commit fails before the scheduler was called.
RollsBack(h) ==
  /\ Faults
  /\ pc[h] # "idle"
  /\ Finish(h)
  /\ UNCHANGED <<db, jobs, sent, past>>

\* A commit fails after _cancel_scheduled_job: the row keeps its job's id.
CancelUndone(h) ==
  LET l == loc[h] IN
  /\ Faults
  /\ \/ pc[h] = "stepping" /\ l.seen.step >= Len(l.steps)
     \/ pc[h] = "acted" /\ l.seen.step + 1 >= Len(l.steps)
     \/ pc[h] \in {"resolved", "cancelled"}
  /\ pending' = [pending EXCEPT ![l.exec] = @ \ {l.seen.job}]
  /\ Finish(h)
  /\ UNCHANGED <<db, minted, sent, past>>

\* A commit fails after schedule_step: history and confirmation are rolled
\* back, the row still names the job that fired, and the new job, which no row
\* names, will run the same step again.
StepUndone(h) ==
  LET l   == loc[h]
      job == minted[l.exec] + 1 IN
  /\ Faults
  /\ pc[h] = "acted"
  /\ l.seen.step + 1 < Len(l.steps)
  /\ Schedulable(GapAfter(l))
  /\ Cardinality(stray[l.exec]) < MaxUndone
  /\ minted'  = [minted EXCEPT ![l.exec] = job]
  /\ pending' = [pending EXCEPT ![l.exec] = @ \cup {job}]
  /\ stray'   = [stray EXCEPT ![l.exec] = @ \cup {job}]
  /\ undone'  = IF l.result = "pending_hitl"
                THEN undone
                ELSE [undone EXCEPT ![l.exec] = Append(@, l.seen.step)]
  /\ Finish(h)
  /\ UNCHANGED <<db, sent>>

---------------------------------------------------------------------------
RunStep(h) == StepRead(h) \/ StepOverrun(h) \/ StepRaises(h) \/ StepAct(h)
              \/ StepCommitLast(h) \/ StepCommitNext(h) \/ StepFails(h)

FireFor(h, e) == \E j \in pending[e] : JobFires(h, e, j)

Request(h) ==
  \/ \E d \in Deadlines, r \in Rules : ActivateCheck(h, d, r)
  \/ \E d \in Deadlines : ResolveForDeadline(h, d)
  \/ \E e \in Executions :
       ActivateCommit(h, e) \/ ResolveRead(h, e) \/ CancelRead(h, e)
  \/ CloseCommit(h)

Edit(r) == \E steps \in StepLists, active \in BOOLEAN :
             CreateRule(r, steps, active) \/ UpdateRule(r, steps, active)

Next ==
  \/ \E r \in Rules : Edit(r) \/ DeleteRule(r)
  \/ \E h \in Handlers : Request(h)
  \/ \E h \in Runners : RunStep(h) \/ \E e \in Executions : FireFor(h, e)
  \/ Restart
  \/ \E h \in Tasks : RollsBack(h) \/ CancelUndone(h) \/ StepUndone(h)
  \/ \E e \in Executions : \E j \in pending[e] : Misfire(e, j)

Spec == Init /\ [][Next]_vars

\* The event loop runs every started task on, and the scheduler fires every
\* job it still holds.
Fairness ==
  /\ \A h \in Runners : WF_vars(RunStep(h))
  /\ \A e \in Executions : WF_vars(\E h \in Runners : FireFor(h, e))

FairSpec == Spec /\ Fairness

---------------------------------------------------------------------------
(* Properties *)

\* Every variable holds values of its type.
TypeOK ==
  /\ rules \in [Rules -> Rule]
  /\ rows \in [Executions -> Row]
  /\ pending \in [Executions -> SUBSET (Nat \ {0})]
  /\ minted \in [Executions -> Nat]
  /\ sent \in [Executions -> Seq(Nat)]
  /\ confirms \in [Executions -> Seq(Nat)]
  /\ closedAt \in [Executions -> Nat \cup {-1}]
  /\ stray \in [Executions -> SUBSET Nat]
  /\ undone \in [Executions -> Seq(Nat)]
  /\ pc \in [Tasks -> Points]
  /\ loc \in [Tasks -> Local]

\* Task h is between the firing of a job of e and the end of its step.
InStep(h, e) == pc[h] \in {"fired", "stepping", "acted"} /\ loc[h].exec = e

\* An execution has one thread of control: at most one job in the scheduler
\* or one task running a step, whatever users resolve, cancel or edit.  The
\* step code writes back a history it read earlier and is only correct under
\* this.
OneTokenPerExecution ==
  \A e \in Executions :
    /\ \A j, k \in pending[e] : j = k
    /\ \A h, g \in Tasks : InStep(h, e) /\ InStep(g, e) => h = g
    /\ \A h \in Tasks : InStep(h, e) => pending[e] = {}

\* While an execution is active its row names the job that is scheduled, so
\* that resolving it can cancel that job; only a job left by a step whose
\* commit failed afterwards is named by no row.
RecordedJobIsTheScheduledOne ==
  \A e \in Executions :
    rows[e].status = "active" => pending[e] \subseteq {rows[e].job} \cup stray[e]

\* The history holds every step below current_step once, in order, through
\* concurrent resolutions, rule edits, failures and restarts.
HistoryInOrder ==
  \A e \in Executions :
    /\ Len(rows[e].history) = rows[e].step
    /\ \A i \in 1 .. Len(rows[e].history) : rows[e].history[i].step = i - 1

Elems(seq)      == {seq[i] : i \in DOMAIN seq}
Increasing(seq) == \A i, k \in DOMAIN seq : i < k => seq[i] < seq[k]
\* seq never goes back and repeats only what again holds.
Ascending(seq, again) ==
  \A i, k \in DOMAIN seq : i < k =>
    seq[i] < seq[k] \/ (seq[i] = seq[k] /\ seq[i] \in Elems(again))
StepsWith(e, results) ==
  {n.step : n \in {m \in Elems(rows[e].history) : m.result \in results}}

\* A step asks for human confirmation exactly when its channel is email or
\* calendar, and it is in the history exactly when its one confirmation is
\* committed: no confirmation of a step that was rolled back.
ConfirmationsMatchHistory ==
  \A e \in Executions :
    /\ Increasing(confirms[e])
    /\ Elems(confirms[e]) = StepsWith(e, {"pending_hitl"})
    /\ \A n \in Elems(rows[e].history) :
         n.channel = "in_app" <=> n.result # "pending_hitl"

\* In-app notifications leave before the commit and cannot be rolled back:
\* still they leave in the order of the steps, every in-app step of the history
\* was announced, and a step is announced without being recorded, or announced
\* again, only while it is the current one or after its commit failed with the
\* next job already scheduled.
NotificationsMatchHistory ==
  \A e \in Executions :
    /\ Ascending(sent[e], undone[e])
    /\ StepsWith(e, {"sent", "failed"}) \subseteq Elems(sent[e])
    /\ Elems(sent[e]) \subseteq StepsWith(e, {"sent", "failed"})
                               \cup {rows[e].step} \cup Elems(undone[e])

\* Once a user has closed an execution, only the step that was then in
\* flight is still recorded; no later one runs.
AtMostOneStepAfterClose ==
  \A e \in Executions :
    closedAt[e] # -1 => Len(rows[e].history) <= closedAt[e] + 1

Ledger == INSTANCE EscalationLedger WITH
  done    <- [e \in Executions |-> Len(rows[e].history)],
  started <- [e \in Executions |-> Len(sent[e]) + Len(confirms[e])],
  undone  <- [e \in Executions |-> Len(undone[e])]

\* The service keeps the ledger's promise: steps are recorded once and in
\* order, each after its effect, and an effect is started again only for a step
\* whose commit failed after the next job had been scheduled.
ImplementsLedger == Ledger!LedgerSpec

\* An activated escalation comes to an end, by its last step if nobody acts,
\* when the adapter has a step callback, every gap between two steps can be
\* scheduled, every template can be filled in, and nothing is lost or fails.
ActiveEnds ==
  \A e \in Executions :
    rows[e].status = "active" ~> rows[e].status # "active"
===========================================================================
