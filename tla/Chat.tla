-------------------------------- MODULE Chat --------------------------------
(***************************************************************************)
(* A conversation with the agent: the chat and agent APIs, the chat agent  *)
(* with its tools, and the page of the browser that shows it.              *)
(*                                                                         *)
(* A query reads the session's row, calls the model, runs the tools the    *)
(* model asks for, each committing what it creates, and at last commits    *)
(* question, answer and title in one transaction.  The page shows what it  *)
(* loaded and what it appended; it awaits one query at a time but goes on  *)
(* switching, renaming and deleting sessions meanwhile.                    *)
(*                                                                         *)
(* A title is "new" (the default), "named" by the user, or "auto", taken   *)
(* from a question; creating, renaming and deleting a session are one step *)
(* each, their answers included.                                           *)
(***************************************************************************)
EXTENDS Naturals, FiniteSets

CONSTANTS
  Sessions,  \* identities of sessions (a bound)
  Queries,   \* questions that may be asked, once each (a bound)
  MaxLoads,  \* loads of messages in flight (a bound)
  None       \* no value

ASSUME ChatAssumption ==
  /\ MaxLoads \in Nat
  /\ None \notin Sessions \cup Queries

VARIABLES
  title,   \* title of each session, or that it is absent or deleted
  query,   \* each question and the request that serves it
  page,    \* state of the page: active session, messages, requests
  apart    \* history: requests of the page overlapped, or one failed, since
           \* it last opened a session

vars == <<title, query, page, apart>>

Live       == {s \in Sessions : title[s] \in {"new", "named", "auto"}}
NoQuery    == [pc |-> "unsent", at |-> None, seen |-> "none", done |-> FALSE,
               kind |-> "none"]
Running    == {q \in Queries : query[q].pc \in {"sent", "asked", "tools", "answered"}}
Messages(s) == {q \in Queries : query[q].pc = "stored" /\ query[q].at = s}
Row(pc, s) == [pc |-> pc, at |-> s, seen |-> "none", done |-> FALSE,
                 kind |-> "none"]
Exchange(qs) == [q : qs, role : {"user", "agent"}]
Calm       == page.loads = {} /\ page.loading = None /\ Running = {}

Init ==
  /\ title = [s \in Sessions |-> "absent"]
  /\ query = [q \in Queries |-> NoQuery]
  /\ page  = [active |-> None, shown |-> {}, loading |-> None, loads |-> {}]
  /\ apart = FALSE

---------------------------------------------------------------------------
(* Sessions *)

\* The page opens s: what it shows is `shown` until the load arrives.
Open(s, shown) ==
  /\ Cardinality(page.loads) < MaxLoads
  /\ page' = [page EXCEPT !.active = s, !.shown = shown,
                !.loads = @ \cup {[s |-> s, read |-> FALSE, got |-> {}]}]
  /\ apart' = ~Calm

CreateSession(s) ==
  /\ title[s] = "absent"
  /\ title' = [title EXCEPT ![s] = "new"]
  /\ Open(s, {})
  /\ UNCHANGED query

\* Also what the page does at first, when no session is active.
Switch(s) ==
  /\ s \in Live /\ s # page.active
  /\ Open(s, page.shown)
  /\ UNCHANGED <<title, query>>

RenameSession(s, name) ==
  /\ s \in Live
  /\ title' = [title EXCEPT ![s] = name]
  /\ UNCHANGED <<query, page, apart>>

\* The messages go with the session; the page opens another, or none.
DeleteSession(s) ==
  /\ s \in Live
  /\ title' = [title EXCEPT ![s] = "deleted"]
  /\ query' = [q \in Queries |-> IF q \in Messages(s)
                                 THEN [query[q] EXCEPT !.pc = "deleted"]
                                 ELSE query[q]]
  /\ \/ s # page.active /\ UNCHANGED <<page, apart>>
     \/ s = page.active /\ \E t \in Live \ {s} : Open(t, page.shown)
     \/ /\ s = page.active /\ Live = {s}
        /\ page' = [page EXCEPT !.active = None, !.shown = {}]
        /\ apart' = ~Calm

---------------------------------------------------------------------------
(* Loads of messages *)

LoadRead(l) ==
  /\ ~l.read
  /\ page' = [page EXCEPT !.loads = (@ \ {l}) \cup
       {[s |-> l.s, read |-> TRUE, got |-> Messages(l.s)]}]
  /\ UNCHANGED <<title, query, apart>>

\* Mutant of LoadArrives: what is loaded is added to what is shown.
LoadArrivesAdded(l) ==
  /\ l.read
  /\ page' = [page EXCEPT !.loads = @ \ {l}, !.shown = @ \cup Exchange(l.got)]
  /\ UNCHANGED <<title, query, apart>>

\* Whichever session is active by then.
LoadArrives(l) ==
  /\ l.read
  /\ page' = [page EXCEPT !.loads = @ \ {l}, !.shown = Exchange(l.got)]
  /\ UNCHANGED <<title, query, apart>>

LoadFails(l) ==
  /\ page' = [page EXCEPT !.loads = @ \ {l}, !.shown = {}]
  /\ apart' = TRUE
  /\ UNCHANGED <<title, query>>

---------------------------------------------------------------------------
(* A query *)

Submit(q) ==
  /\ query[q] = NoQuery
  /\ page.active # None /\ page.loading = None
  /\ query' = [query EXCEPT ![q] = Row("sent", page.active)]
  /\ page' = [page EXCEPT !.shown = @ \cup {[q |-> q, role |-> "user"]},
                          !.loading = q]
  /\ apart' = (apart \/ page.loads # {} \/ Running # {})
  /\ UNCHANGED title

Server(q, r) == query' = [query EXCEPT ![q] = r] /\ UNCHANGED <<title, page, apart>>

Answer(q, kind) == Server(q, [query[q] EXCEPT !.pc = "answered", !.kind = kind])

\* The session is found, and its title read, before anything else.
Ask(q) ==
  LET r == query[q] IN
  /\ r.pc = "sent"
  /\ Server(q, IF r.at \in Live
               THEN [r EXCEPT !.pc = "asked", !.seen = title[r.at]]
               ELSE Row("lost", r.at))

\* The input is refused, or the call of the model raises.
Refuse(q) == query[q].pc = "asked" /\ Answer(q, "refused")

ModelAnswers(q) ==
  /\ query[q].pc = "asked"
  /\ Server(q, [query[q] EXCEPT !.pc = "tools"])

\* Mutant of Tool: execute_tool lets an exception through.
ToolRaises(q, creates) ==
  /\ query[q].pc = "tools"
  /\ IF creates THEN Server(q, [query[q] EXCEPT !.done = TRUE])
     ELSE Answer(q, "refused")

\* The next tool the answer asks for commits what it creates; or it only
\* reads, or it raises.  Each result is told.
Tool(q, creates) ==
  /\ query[q].pc = "tools"
  /\ Server(q, [query[q] EXCEPT !.done = @ \/ creates])

\* The output is checked after the tools have run: it may be withheld.
Finish(q, kind) == query[q].pc = "tools" /\ Answer(q, kind)

\* Mutant of Titled: the first line of every question becomes the title.
TitledAlways(seen, now) == "auto"

\* The row as read decides; what it holds by now is not looked at.
Titled(seen, now) == IF seen = "new" THEN "auto" ELSE now

Commit(q) ==
  LET r == query[q] IN
  /\ r.pc = "answered"
  /\ IF r.at \in Live
     THEN /\ query' = [query EXCEPT ![q] = Row("stored", r.at)]
          /\ title' = [title EXCEPT ![r.at] = Titled(r.seen, @)]
     ELSE /\ query' = [query EXCEPT ![q] = Row("lost", r.at)]
          /\ UNCHANGED title
  /\ UNCHANGED <<page, apart>>

\* The answer is appended to whatever is shown by then.
AnswerArrives(q) ==
  /\ page.loading = q /\ query[q].pc \in {"stored", "deleted"}
  /\ page' = [page EXCEPT !.shown = @ \cup {[q |-> q, role |-> "agent"]},
                          !.loading = None]
  /\ UNCHANGED <<title, query, apart>>

\* The server answers with an error, or the connection breaks while it goes
\* on with the query.
ErrorArrives(q) ==
  /\ page.loading = q
  /\ page' = [page EXCEPT !.shown = @ \cup {[q |-> q, role |-> "error"]},
                          !.loading = None]
  /\ apart' = TRUE
  /\ UNCHANGED <<title, query>>

\* The process stops: a query that was not committed is lost.
Restart ==
  /\ Running # {}
  /\ query' = [q \in Queries |-> IF q \in Running
                                 THEN Row("lost", query[q].at)
                                 ELSE query[q]]
  /\ UNCHANGED <<title, page, apart>>

Serve(q) ==
  \/ Ask(q) \/ Refuse(q) \/ ModelAnswers(q)
  \/ \E kind \in {"answer", "withheld"} : Finish(q, kind)
  \/ Commit(q)

Next ==
  \/ \E s \in Sessions :
       \/ CreateSession(s) \/ Switch(s) \/ DeleteSession(s)
       \/ \E name \in {"new", "named"} : RenameSession(s, name)
  \/ \E l \in page.loads : LoadRead(l) \/ LoadArrives(l) \/ LoadFails(l)
  \/ \E q \in Queries : Submit(q) \/ Serve(q) \/ AnswerArrives(q) \/ ErrorArrives(q)
                      \/ \E creates \in BOOLEAN : Tool(q, creates)
  \/ Restart

Spec == Init /\ [][Next]_vars

---------------------------------------------------------------------------
(* Properties *)

\* Every variable holds values of its type.
TypeOK ==
  /\ title \in [Sessions -> {"absent", "new", "named", "auto", "deleted"}]
  /\ query \in [Queries ->
       [pc : {"unsent", "sent", "asked", "tools", "answered", "stored", "lost",
              "deleted"},
        at : Sessions \cup {None}, seen : {"none", "new", "named", "auto"},
        done : BOOLEAN, kind : {"none", "refused", "answer", "withheld"}]]
  /\ page \in
       [active : Sessions \cup {None}, loading : Queries \cup {None},
        loads : SUBSET [s : Sessions, read : BOOLEAN, got : SUBSET Queries],
        shown : SUBSET [q : Queries, role : {"user", "agent", "error"}]]
  /\ apart \in BOOLEAN

\* A query whose tools created something is answered by what they did,
\* whichever of them failed, unless the answer is withheld.
EffectsAreTold ==
  \A q \in Queries : query[q].pc = "answered" /\ query[q].done =>
    query[q].kind \in {"answer", "withheld"}

\* A name the user gave stays until the user gives another, unless a query
\* that began under the default title is still running.
NamedStays ==
  [][\A s \in Sessions :
       /\ title[s] = "named"
       /\ \A q \in Running : query[q].at = s => query[q].seen # "new"
       => title'[s] # "auto"]_vars

\* With no request of its own in flight the page shows what is stored of the
\* active session, unless its requests overlapped or failed since it opened
\* that session.
PageShowsTheSession ==
  page.loads = {} /\ page.loading = None /\ ~apart =>
    page.shown = (IF page.active = None THEN {} ELSE Exchange(Messages(page.active)))
===========================================================================
