--------------------------- MODULE Confirmations ---------------------------
(***************************************************************************)
(* Human confirmation of risky tasks: ConfirmationFlowService and the      *)
(* confirmations API.                                                      *)
(*                                                                         *)
(* Approving or rejecting is one transaction of three steps: read the      *)
(* confirmation and check that it is pending; flush its new status (the    *)
(* session flushes before the SELECT of the task), which takes the lock on *)
(* the row, and read the task; write the task and commit.  A second        *)
(* request waits for the lock, then writes its own status over the first:  *)
(* the UPDATE does not repeat the check.  Each confirmation has a task of  *)
(* its own, so both are indexed by the confirmation.                       *)
(***************************************************************************)
EXTENDS Naturals

CONSTANTS
  Requests,   \* confirmations that may be asked for (a bound)
  Handlers,   \* concurrent approve and reject requests (a bound)
  None        \* no value

ASSUME ConfirmationsAssumption == None \notin Requests \cup Handlers

VARIABLES
  conf,     \* status of the pending_confirmations row
  task,     \* status of its agent_tasks row
  holder,   \* transaction that holds the lock on the confirmation's row
  pc, loc   \* each handler's control point and local variables

vars == <<conf, task, holder, pc, loc>>

Verdicts == {"approved", "rejected"}
NoLocal  == [conf |-> None, verdict |-> "none", task |-> "none"]

Init ==
  /\ conf   = [c \in Requests |-> "none"]
  /\ task   = [c \in Requests |-> "none"]
  /\ holder = [c \in Requests |-> None]
  /\ pc     = [h \in Handlers |-> "idle"]
  /\ loc    = [h \in Handlers |-> NoLocal]

---------------------------------------------------------------------------
\* The task and its confirmation are inserted in one transaction; a batch is
\* a sequence of these.
CreateConfirmation(c) ==
  /\ conf[c] = "none"
  /\ conf' = [conf EXCEPT ![c] = "pending"]
  /\ task' = [task EXCEPT ![c] = "waiting_confirmation"]
  /\ UNCHANGED <<holder, pc, loc>>

DecideRead(h, c, verdict) ==
  /\ pc[h] = "idle"
  /\ conf[c] = "pending"
  /\ pc'  = [pc EXCEPT ![h] = "checked"]
  /\ loc' = [loc EXCEPT ![h] = [conf |-> c, verdict |-> verdict,
                                task |-> "none"]]
  /\ UNCHANGED <<conf, task, holder>>

\* Mutant of DecideFlush: no flush, so the task is read without the lock.
DecideFlushUnlocked(h) ==
  LET c == loc[h].conf IN
  /\ pc[h] = "checked"
  /\ pc'  = [pc EXCEPT ![h] = "holding"]
  /\ loc' = [loc EXCEPT ![h].task = task[c]]
  /\ UNCHANGED <<conf, task, holder>>

DecideFlush(h) ==
  LET c == loc[h].conf IN
  /\ pc[h] = "checked"
  /\ holder[c] = None
  /\ holder' = [holder EXCEPT ![c] = h]
  /\ pc'     = [pc EXCEPT ![h] = "holding"]
  /\ loc'    = [loc EXCEPT ![h].task = task[c]]
  /\ UNCHANGED <<conf, task>>

\* Mutant of TaskAfter: rejecting too moves only a task that waits.
TaskAfterWaiting(verdict, seen) ==
  IF seen = "waiting_confirmation" THEN verdict ELSE seen

\* Approving moves only a task that waits; rejecting moves any task.
TaskAfter(verdict, seen) ==
  IF verdict = "rejected" \/ seen = "waiting_confirmation"
  THEN verdict ELSE seen

\* Mutant of DecideCommit: the session is left open after the commit of the
\* request, with its lock.
DecideCommitHolding(h) ==
  LET l == loc[h] IN
  /\ pc[h] = "holding"
  /\ conf'   = [conf EXCEPT ![l.conf] = l.verdict]
  /\ task'   = [task EXCEPT ![l.conf] = TaskAfter(l.verdict, l.task)]
  /\ pc'     = [pc EXCEPT ![h] = "idle"]
  /\ loc'    = [loc EXCEPT ![h] = NoLocal]
  /\ UNCHANGED holder

DecideCommit(h) ==
  LET l == loc[h] IN
  /\ pc[h] = "holding"
  /\ conf'   = [conf EXCEPT ![l.conf] = l.verdict]
  /\ task'   = [task EXCEPT ![l.conf] = TaskAfter(l.verdict, l.task)]
  /\ holder' = [holder EXCEPT ![l.conf] = None]
  /\ pc'     = [pc EXCEPT ![h] = "idle"]
  /\ loc'    = [loc EXCEPT ![h] = NoLocal]

\* The process stops: open transactions are rolled back.
Restart ==
  /\ holder' = [c \in Requests |-> None]
  /\ pc'     = [h \in Handlers |-> "idle"]
  /\ loc'    = [h \in Handlers |-> NoLocal]
  /\ UNCHANGED <<conf, task>>

Decide(h) == DecideFlush(h) \/ DecideCommit(h)

Next ==
  \/ \E c \in Requests : CreateConfirmation(c)
  \/ \E h \in Handlers :
       \/ \E c \in Requests, verdict \in Verdicts : DecideRead(h, c, verdict)
       \/ Decide(h)
  \/ Restart

Spec == Init /\ [][Next]_vars

\* The event loop and the database run every started request on.
FairSpec == Spec /\ \A h \in Handlers : WF_vars(Decide(h))

---------------------------------------------------------------------------
(* Properties *)

\* Every variable holds values of its type.
TypeOK ==
  /\ conf \in [Requests -> Verdicts \cup {"none", "pending"}]
  /\ task \in [Requests -> Verdicts \cup {"none", "waiting_confirmation"}]
  /\ holder \in [Requests -> Handlers \cup {None}]
  /\ pc \in [Handlers -> {"idle", "checked", "holding"}]
  /\ loc \in [Handlers -> [conf : Requests \cup {None},
                           verdict : Verdicts \cup {"none"},
                           task : Verdicts \cup {"none",
                                                 "waiting_confirmation"}]]

\* A task is approved only under an approved confirmation, waits exactly as
\* long as its confirmation is pending, and is rejected when its confirmation
\* is, however approvals and rejections of the same confirmation overlap.
TaskFollowsDecision ==
  \A c \in Requests :
    /\ task[c] = "approved" => conf[c] = "approved"
    /\ task[c] = "waiting_confirmation" <=> conf[c] = "pending"
    /\ conf[c] = "rejected" => task[c] = "rejected"

\* A rejected task is never approved, not even by an approval that read its
\* confirmation before the rejection was committed.
RejectionIsFinal ==
  [][\A c \in Requests : task[c] = "rejected" => task'[c] = "rejected"]_vars

\* Requests that wait for each other's lock all come to an end.
RequestsEnd == \A h \in Handlers : pc[h] # "idle" ~> pc[h] = "idle"
===========================================================================
