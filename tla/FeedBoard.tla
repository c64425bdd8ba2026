----------------------------- MODULE FeedBoard -----------------------------
(***************************************************************************)
(* What the processing feed promises whoever looks at it, without sockets, *)
(* payloads or timers: of each document it shows a status that was told,   *)
(* and never an earlier one after a later one; a document that is shown    *)
(* leaves only when another takes its place.                               *)
(***************************************************************************)
CONSTANT Docs

VARIABLES
  told,    \* the last status told of each document
  shown,   \* the status that is shown of it; "new" if none is
  first    \* the page was not mounted again

boardVars == <<told, shown, first>>

Statuses == {"ingesting", "parsing", "completed", "needs_attention", "failed"}

\* The statuses that may come before one.
Earlier(status) ==
  CASE status = "new"       -> {}
    [] status = "ingesting" -> {"new"}
    [] status = "parsing"   -> {"new", "ingesting"}
    [] OTHER                -> {"new", "ingesting", "parsing"}

BoardInit ==
  /\ told  = [d \in Docs |-> "new"]
  /\ shown = [d \in Docs |-> "new"]
  /\ first = TRUE

Tell(d, status) ==
  /\ told[d] \in Earlier(status)
  /\ told' = [told EXCEPT ![d] = status]

\* What is shown was told, although perhaps not last.
Show(d, status) ==
  /\ status = told[d] \/ status \in Earlier(told[d])
  /\ shown[d] \in Earlier(status)
  /\ \/ shown' = [shown EXCEPT ![d] = status]
     \/ /\ shown[d] = "new"
        /\ \E out \in Docs \ {d} : shown' = [shown EXCEPT ![d] = status, ![out] = "new"]

Tells == told' # told => \E d \in Docs, status \in Statuses : Tell(d, status)
Shows == shown' # shown => \E d \in Docs, status \in Statuses : Show(d, status)

\* Once the page was mounted again nothing is promised of what it shows: it
\* may listen to two sockets, one of which is behind.
BoardNext == Tells /\ (first' => first /\ Shows)

BoardSpec == BoardInit /\ [][BoardNext]_boardVars
===========================================================================
