------------------------- MODULE EscalationLedger -------------------------
(***************************************************************************)
(* What an escalation promises whoever is notified, without sessions, jobs *)
(* or rules: steps are recorded once and in order, each after its effect,  *)
(* and an effect is started once for every recording of its step that      *)
(* succeeds, and once for every one that comes undone.                     *)
(***************************************************************************)
EXTENDS Naturals

CONSTANT Executions

VARIABLES
  started,   \* effects started for an execution
  done,      \* steps recorded in its history
  undone     \* effects whose step was undone and is to run again

LedgerVars == <<started, done, undone>>

LedgerInit ==
  /\ started = [e \in Executions |-> 0]
  /\ done    = [e \in Executions |-> 0]
  /\ undone  = [e \in Executions |-> 0]

\* Every effect belongs to a recorded step or to one that came undone.
Settled(e) == started[e] = done[e] + undone[e]

\* An effect that takes place before its step is recorded.
Begin(e) ==
  /\ Settled(e)
  /\ started' = [started EXCEPT ![e] = @ + 1]
  /\ UNCHANGED <<done, undone>>

\* Recording; a transactional effect starts with it.
Record(e) ==
  /\ done'    = [done EXCEPT ![e] = @ + 1]
  /\ started' = [started EXCEPT ![e] = done[e] + undone[e] + 1]
  /\ UNCHANGED undone

\* The recording of a step fails when its effect has taken place: the step is
\* to run again.
Undo(e) ==
  /\ started[e] = done[e] + undone[e] + 1
  /\ undone' = [undone EXCEPT ![e] = @ + 1]
  /\ UNCHANGED <<started, done>>

LedgerNext == \E e \in Executions : Begin(e) \/ Record(e) \/ Undo(e)

LedgerSpec == LedgerInit /\ [][LedgerNext]_LedgerVars
===========================================================================
