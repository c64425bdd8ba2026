----------------------------- MODULE ChatProofs -----------------------------
(* Theorems about a conversation with the agent and the page that shows it,  *)
(* for any numbers of sessions, questions and loads of messages.             *)
EXTENDS Chat, TLAPS

USE ChatAssumption

Rows == [pc : {"unsent", "sent", "asked", "tools", "answered", "stored", "lost",
               "deleted"},
         at : Sessions \cup {None}, seen : {"none", "new", "named", "auto"},
         done : BOOLEAN, kind : {"none", "refused", "answer", "withheld"}]
Titles == {"absent", "new", "named", "auto", "deleted"}
Loads == [s : Sessions, read : BOOLEAN, got : SUBSET Queries]
Shown == [q : Queries, role : {"user", "agent", "error"}]
Pages == [active : Sessions \cup {None}, loading : Queries \cup {None},
          loads : SUBSET Loads, shown : SUBSET Shown]

LEMMA Types ==
  TypeOK <=> /\ title \in [Sessions -> Titles]
             /\ query \in [Queries -> Rows]
             /\ page \in Pages
             /\ apart \in BOOLEAN
BY DEF TypeOK, Rows, Titles, Pages, Loads, Shown

---------------------------------------------------------------------------
(* Rows of questions *)

LEMMA RowTyped ==
  ASSUME NEW s \in Sessions \cup {None},
         NEW pc \in {"unsent", "sent", "asked", "tools", "answered", "stored",
                     "lost", "deleted"}
  PROVE  Row(pc, s) \in Rows
BY DEF Row, Rows

\* What the steps of the server make of a row.
LEMMA RowAsked ==
  ASSUME NEW r \in Rows, NEW t \in {"new", "named", "auto"}
  PROVE  /\ [r EXCEPT !.pc = "asked", !.seen = t] \in Rows
         /\ [r EXCEPT !.pc = "asked", !.seen = t].pc = "asked"
         /\ [r EXCEPT !.pc = "asked", !.seen = t].at = r.at
         /\ [r EXCEPT !.pc = "asked", !.seen = t].done = r.done
BY DEF Rows

LEMMA RowAnswered ==
  ASSUME NEW r \in Rows, NEW kind \in {"refused", "answer", "withheld"}
  PROVE  /\ [r EXCEPT !.pc = "answered", !.kind = kind] \in Rows
         /\ [r EXCEPT !.pc = "answered", !.kind = kind].pc = "answered"
         /\ [r EXCEPT !.pc = "answered", !.kind = kind].at = r.at
         /\ [r EXCEPT !.pc = "answered", !.kind = kind].done = r.done
         /\ [r EXCEPT !.pc = "answered", !.kind = kind].kind = kind
BY DEF Rows

LEMMA RowMoved ==
  ASSUME NEW r \in Rows, NEW pc \in {"tools", "deleted"}
  PROVE  /\ [r EXCEPT !.pc = pc] \in Rows
         /\ [r EXCEPT !.pc = pc].pc = pc
         /\ [r EXCEPT !.pc = pc].at = r.at
BY DEF Rows

LEMMA RowDone ==
  ASSUME NEW r \in Rows, NEW done \in BOOLEAN
  PROVE  /\ [r EXCEPT !.done = done] \in Rows
         /\ [r EXCEPT !.done = done].pc = r.pc
         /\ [r EXCEPT !.done = done].at = r.at
BY DEF Rows

\* The state of a question, where what the model and the tools did is kept.
Working(pc) == pc \in {"sent", "asked", "tools", "answered"}

LEMMA RunningIs == \A q : q \in Running <=> q \in Queries /\ Working(query[q].pc)
BY DEF Running, Working

---------------------------------------------------------------------------
(* Steps of the page *)

LEMMA PageOpened ==
  ASSUME TypeOK, NEW s \in Sessions, NEW shown \in SUBSET Shown, Open(s, shown)
  PROVE  /\ page' \in Pages /\ apart' = ~Calm
         /\ page'.active = s /\ page'.loading = page.loading
         /\ page'.loads = page.loads \cup {[s |-> s, read |-> FALSE, got |-> {}]}
<1>1. page \in Pages
  BY Types
<1> DEFINE l == [s |-> s, read |-> FALSE, got |-> {}]
<1>2. l \in Loads
  BY DEF Loads
<1> HIDE DEF l
<1>3. page' = [page EXCEPT !.active = s, !.shown = shown, !.loads = page.loads \cup {l}]
  BY DEF Open, l
<1>4. page.loads \cup {l} \in SUBSET Loads
  BY <1>1, <1>2 DEF Pages
<1>5. /\ page' \in Pages /\ page'.active = s /\ page'.loading = page.loading
      /\ page'.loads = page.loads \cup {l}
  BY <1>1, <1>3, <1>4 DEF Pages
<1>6. QED
  BY <1>5 DEF Open, l

LEMMA PageClosed ==
  ASSUME NEW p \in Pages
  PROVE  /\ [p EXCEPT !.active = None, !.shown = {}] \in Pages
         /\ [p EXCEPT !.active = None, !.shown = {}].active = None
         /\ [p EXCEPT !.active = None, !.shown = {}].shown = {}
         /\ [p EXCEPT !.active = None, !.shown = {}].loads = p.loads
         /\ [p EXCEPT !.active = None, !.shown = {}].loading = p.loading
BY DEF Pages

---------------------------------------------------------------------------
(* Steps of a question *)

\* What the answer of a question owes to what its tools did.
Told(r) ==
  /\ r.pc \in {"unsent", "sent", "asked"} => ~r.done
  /\ r.pc = "answered" /\ r.done => r.kind \in {"answer", "withheld"}

\* A question that is running gets another row.
Served(k, r) ==
  /\ r \in Rows /\ query' = [query EXCEPT ![k] = r]
  /\ UNCHANGED <<title, page, apart>>
  /\ Working(query[k].pc) /\ r.at = query[k].at
  /\ Working(r.pc) \/ r.pc = "lost"
  /\ Told(query[k]) => Told(r)

ServerStep(k) ==
  \/ Ask(k) \/ Refuse(k) \/ ModelAnswers(k)
  \/ \E kind \in {"answer", "withheld"} : Finish(k, kind)
  \/ \E creates \in BOOLEAN : Tool(k, creates)

LEMMA ServedBy ==
  ASSUME TypeOK, NEW k \in Queries, ServerStep(k)
  PROVE  \E r : Served(k, r)
<1>1. query[k] \in Rows /\ query[k].at \in Sessions \cup {None}
  BY Types DEF Rows
<1>2. ASSUME Ask(k) PROVE \E r : Served(k, r)
  <2> DEFINE t == title[query[k].at]
  <2>1. query[k].pc = "sent" /\ Working(query[k].pc)
    BY <1>2 DEF Ask, Working
  <2>2. CASE query[k].at \in Live
    <3> DEFINE r == [query[k] EXCEPT !.pc = "asked", !.seen = t]
    <3>1. t \in {"new", "named", "auto"}
      BY <2>2 DEF Live
    <3>2. query' = [query EXCEPT ![k] = r] /\ UNCHANGED <<title, page, apart>>
      BY <1>2, <2>2 DEF Ask, Server
    <3> HIDE DEF t
    <3>3. r \in Rows /\ r.pc = "asked" /\ r.at = query[k].at /\ r.done = query[k].done
      BY <1>1, <3>1, RowAsked
    <3> HIDE DEF r
    <3>4. Told(query[k]) => Told(r)
      BY <2>1, <3>3 DEF Told
    <3>5. QED
      BY <2>1, <3>2, <3>3, <3>4 DEF Served, Working
  <2>3. CASE query[k].at \notin Live
    <3> DEFINE r == Row("lost", query[k].at)
    <3>1. query' = [query EXCEPT ![k] = r] /\ UNCHANGED <<title, page, apart>>
      BY <1>2, <2>3 DEF Ask, Server
    <3>2. r \in Rows
      BY <1>1, RowTyped
    <3>3. r.pc = "lost" /\ r.at = query[k].at
      BY DEF Row
    <3> HIDE DEF r
    <3>4. QED
      BY <2>1, <3>1, <3>2, <3>3 DEF Served, Told
  <2>4. QED
    BY <2>2, <2>3
<1>3. ASSUME NEW kind \in {"refused", "answer", "withheld"}, Answer(k, kind),
             \/ query[k].pc = "asked"
             \/ query[k].pc = "tools" /\ kind # "refused"
      PROVE  \E r : Served(k, r)
  <2> DEFINE r == [query[k] EXCEPT !.pc = "answered", !.kind = kind]
  <2>1. query' = [query EXCEPT ![k] = r] /\ UNCHANGED <<title, page, apart>>
    BY <1>3 DEF Answer, Server
  <2>2. /\ r \in Rows /\ r.pc = "answered" /\ r.at = query[k].at
        /\ r.done = query[k].done /\ r.kind = kind
    BY <1>1, RowAnswered
  <2> HIDE DEF r
  <2>3. Told(query[k]) => Told(r)
    BY <1>3, <2>2 DEF Told
  <2>4. QED
    BY <1>3, <2>1, <2>2, <2>3 DEF Served, Working
<1>4. ASSUME ModelAnswers(k) PROVE \E r : Served(k, r)
  <2> DEFINE r == [query[k] EXCEPT !.pc = "tools"]
  <2>1. /\ query[k].pc = "asked" /\ query' = [query EXCEPT ![k] = r]
        /\ UNCHANGED <<title, page, apart>>
    BY <1>4 DEF ModelAnswers, Server
  <2>2. r \in Rows /\ r.pc = "tools" /\ r.at = query[k].at
    BY <1>1, RowMoved
  <2> HIDE DEF r
  <2>3. QED
    BY <2>1, <2>2 DEF Served, Told, Working
<1>5. ASSUME NEW creates \in BOOLEAN, Tool(k, creates) PROVE \E r : Served(k, r)
  <2> DEFINE done == query[k].done \/ creates
             r == [query[k] EXCEPT !.done = done]
  <2>1. /\ query[k].pc = "tools" /\ query' = [query EXCEPT ![k] = r]
        /\ UNCHANGED <<title, page, apart>>
    BY <1>5 DEF Tool, Server
  <2>2. done \in BOOLEAN
    OBVIOUS
  <2> HIDE DEF done
  <2>3. r \in Rows /\ r.pc = query[k].pc /\ r.at = query[k].at
    BY <1>1, <2>2, RowDone
  <2> HIDE DEF r
  <2>4. QED
    BY <2>1, <2>3 DEF Served, Told, Working
<1>6. QED
  BY <1>2, <1>3, <1>4, <1>5 DEF ServerStep, Refuse, Finish

\* The step that ends a question, or loses it.
LEMMA Committed ==
  ASSUME TypeOK, NEW k \in Queries, Commit(k)
  PROVE  /\ query[k].pc = "answered" /\ UNCHANGED <<page, apart>>
         /\ \E r \in Rows :
              /\ query' = [query EXCEPT ![k] = r]
              /\ r.at = query[k].at /\ r.pc \in {"stored", "lost"}
         /\ title' \in [Sessions -> Titles]
         /\ \A s \in Sessions : title'[s] = "auto" =>
              title[s] = "auto" \/ (s = query[k].at /\ query[k].seen = "new")
<1>1. query[k] \in Rows /\ title \in [Sessions -> Titles]
  BY Types
<1>2. query[k].pc = "answered" /\ UNCHANGED <<page, apart>>
  BY DEF Commit
<1> DEFINE at == query[k].at
<1>3. at \in Sessions \cup {None}
  BY <1>1 DEF Rows
<1>4. ASSUME NEW pc \in {"stored", "lost"}, query' = [query EXCEPT ![k] = Row(pc, at)]
      PROVE  \E r \in Rows :
               /\ query' = [query EXCEPT ![k] = r]
               /\ r.at = at /\ r.pc \in {"stored", "lost"}
  <2> DEFINE r == Row(pc, at)
  <2>1. r \in Rows
    BY <1>3, RowTyped
  <2>2. r.at = at /\ r.pc = pc
    BY DEF Row
  <2>3. query' = [query EXCEPT ![k] = r]
    BY <1>4
  <2> HIDE DEF r, at
  <2>4. QED
    BY <2>1, <2>2, <2>3
<1>5. CASE at \in Live
  <2> DEFINE t == Titled(query[k].seen, title[at])
  <2>1. query' = [query EXCEPT ![k] = Row("stored", at)]
    BY <1>5 DEF Commit
  <2>2. title' = [title EXCEPT ![at] = t] /\ at \in Sessions
    BY <1>5 DEF Commit, Live
  <2>3. t \in Titles /\ (t = "auto" => title[at] = "auto" \/ query[k].seen = "new")
    BY <1>1, <2>2 DEF Titled, Titles
  <2> HIDE DEF t, at
  <2>4. /\ title' \in [Sessions -> Titles]
        /\ \A s \in Sessions : title'[s] = "auto" =>
             title[s] = "auto" \/ (s = at /\ query[k].seen = "new")
    BY <1>1, <2>2, <2>3
  <2>5. QED
    BY <1>2, <1>4, <2>1, <2>4 DEF at
<1>6. CASE at \notin Live
  <2>1. query' = [query EXCEPT ![k] = Row("lost", at)] /\ title' = title
    BY <1>6 DEF Commit
  <2>2. QED
    BY <1>1, <1>2, <1>4, <2>1
<1>7. QED
  BY <1>5, <1>6

LEMMA Restarted ==
  ASSUME TypeOK, Restart
  PROVE  /\ query' \in [Queries -> Rows] /\ UNCHANGED <<title, page, apart>>
         /\ \A q \in Queries :
              IF q \in Running
              THEN query'[q].pc = "lost" /\ query'[q].at = query[q].at
              ELSE query'[q] = query[q]
<1>1. query' = [q \in Queries |-> query'[q]] /\ UNCHANGED <<title, page, apart>>
  BY DEF Restart
<1>2. ASSUME NEW q \in Queries
      PROVE  /\ query'[q] \in Rows
             /\ IF q \in Running
                THEN query'[q].pc = "lost" /\ query'[q].at = query[q].at
                ELSE query'[q] = query[q]
  <2>1. query[q] \in Rows /\ query[q].at \in Sessions \cup {None}
    BY Types DEF Rows
  <2>2. CASE q \in Running
    <3>1. query'[q] = Row("lost", query[q].at)
      BY <2>2 DEF Restart
    <3>2. Row("lost", query[q].at) \in Rows
      BY <2>1, RowTyped
    <3>3. QED
      BY <2>2, <3>1, <3>2 DEF Row
  <2>3. CASE q \notin Running
    BY <2>1, <2>3 DEF Restart
  <2>4. QED
    BY <2>2, <2>3
<1>3. QED
  BY <1>1, <1>2

LEMMA Deleted ==
  ASSUME TypeOK, NEW s \in Sessions, DeleteSession(s)
  PROVE  /\ query' \in [Queries -> Rows] /\ title' = [title EXCEPT ![s] = "deleted"]
         /\ \A q \in Queries :
              IF q \in Messages(s)
              THEN query'[q].pc = "deleted" /\ query'[q].at = s
              ELSE query'[q] = query[q]
<1>1. query' = [q \in Queries |-> query'[q]] /\ title' = [title EXCEPT ![s] = "deleted"]
  BY DEF DeleteSession
<1>2. ASSUME NEW q \in Queries
      PROVE  /\ query'[q] \in Rows
             /\ IF q \in Messages(s)
                THEN query'[q].pc = "deleted" /\ query'[q].at = s
                ELSE query'[q] = query[q]
  <2>1. query[q] \in Rows
    BY Types
  <2>2. CASE q \in Messages(s)
    <3>1. query'[q] = [query[q] EXCEPT !.pc = "deleted"]
      BY <2>2 DEF DeleteSession
    <3>2. query[q].at = s
      BY <2>2 DEF Messages
    <3>3. QED
      BY <2>1, <2>2, <3>1, <3>2, RowMoved
  <2>3. CASE q \notin Messages(s)
    BY <2>1, <2>3 DEF DeleteSession
  <2>4. QED
    BY <2>2, <2>3
<1>3. QED
  BY <1>1, <1>2

---------------------------------------------------------------------------
(* Steps of the page, field by field *)

PageIs(active, loading, loads, shown) ==
  /\ page' \in Pages
  /\ page'.active = active /\ page'.loading = loading
  /\ page'.loads = loads /\ page'.shown = shown

ReadLoad(l) == [s |-> l.s, read |-> TRUE, got |-> Messages(l.s)]

LEMMA ExchangeShown ==
  ASSUME NEW qs \in SUBSET Queries
  PROVE  Exchange(qs) \in SUBSET Shown
BY DEF Exchange, Shown

LEMMA LoadReads ==
  ASSUME TypeOK, NEW l \in page.loads, LoadRead(l)
  PROVE  /\ PageIs(page.active, page.loading, (page.loads \ {l}) \cup {ReadLoad(l)},
                   page.shown)
         /\ UNCHANGED <<title, query, apart>>
<1>1. page \in Pages
  BY Types
<1>2. l \in Loads
  BY <1>1 DEF Pages
<1>3. ReadLoad(l) \in Loads
  BY <1>2 DEF ReadLoad, Loads, Messages
<1> DEFINE loads == (page.loads \ {l}) \cup {ReadLoad(l)}
<1>4. loads \in SUBSET Loads
  BY <1>1, <1>3 DEF Pages
<1>5. page' = [page EXCEPT !.loads = loads]
  BY DEF LoadRead, ReadLoad
<1> HIDE DEF loads
<1>6. PageIs(page.active, page.loading, loads, page.shown)
  BY <1>1, <1>4, <1>5 DEF PageIs, Pages
<1>7. QED
  BY <1>6 DEF LoadRead, loads

LEMMA LoadLands ==
  ASSUME TypeOK, NEW l \in page.loads, LoadArrives(l)
  PROVE  /\ PageIs(page.active, page.loading, page.loads \ {l}, Exchange(l.got))
         /\ UNCHANGED <<title, query, apart>>
<1>1. page \in Pages
  BY Types
<1>2. l \in Loads
  BY <1>1 DEF Pages
<1>3. l.got \in SUBSET Queries
  BY <1>2 DEF Loads
<1> DEFINE loads == page.loads \ {l}
           shown == Exchange(l.got)
<1>4. loads \in SUBSET Loads /\ shown \in SUBSET Shown
  BY <1>1, <1>3, ExchangeShown DEF Pages
<1>5. page' = [page EXCEPT !.loads = loads, !.shown = shown]
  BY DEF LoadArrives
<1> HIDE DEF loads, shown
<1>6. PageIs(page.active, page.loading, loads, shown)
  BY <1>1, <1>4, <1>5 DEF PageIs, Pages
<1>7. QED
  BY <1>6 DEF LoadArrives, loads, shown

LEMMA LoadLost ==
  ASSUME TypeOK, NEW l \in page.loads, LoadFails(l)
  PROVE  /\ page' \in Pages /\ UNCHANGED <<title, query>>
         /\ apart' = TRUE
<1>1. page \in Pages
  BY Types
<1> DEFINE loads == page.loads \ {l}
<1>2. loads \in SUBSET Loads /\ {} \in SUBSET Shown
  BY <1>1 DEF Pages
<1>3. page' = [page EXCEPT !.loads = loads, !.shown = {}]
  BY DEF LoadFails
<1> HIDE DEF loads
<1>4. page' \in Pages
  BY <1>1, <1>2, <1>3 DEF Pages
<1>5. QED
  BY <1>4 DEF LoadFails

\* A line of q is added to what is shown.
Added(q, role) == page.shown \cup {[q |-> q, role |-> role]}

LEMMA AddedShown ==
  ASSUME TypeOK, NEW q \in Queries, NEW role \in {"user", "agent", "error"}
  PROVE  Added(q, role) \in SUBSET Shown
<1>1. page \in Pages
  BY Types
<1>2. [q |-> q, role |-> role] \in Shown
  BY DEF Shown
<1>3. QED
  BY <1>1, <1>2 DEF Pages, Added

LEMMA Lines ==
  ASSUME TypeOK, NEW q \in Queries, NEW role \in {"user", "agent", "error"},
         NEW loading \in Queries \cup {None},
         page' = [page EXCEPT !.shown = Added(q, role), !.loading = loading]
  PROVE  PageIs(page.active, loading, page.loads, Added(q, role))
<1> DEFINE shown == Added(q, role)
<1>1. page \in Pages /\ shown \in SUBSET Shown
  BY Types, AddedShown
<1>2. page' = [page EXCEPT !.shown = shown, !.loading = loading]
  OBVIOUS
<1> HIDE DEF shown
<1>3. PageIs(page.active, loading, page.loads, shown)
  BY <1>1, <1>2 DEF PageIs, Pages
<1>4. QED
  BY <1>3 DEF shown

LEMMA Submitted ==
  ASSUME TypeOK, NEW q \in Queries, Submit(q)
  PROVE  /\ PageIs(page.active, q, page.loads, Added(q, "user"))
         /\ query[q] = NoQuery /\ page.active # None /\ page.loading = None
         /\ Row("sent", page.active) \in Rows
         /\ query' = [query EXCEPT ![q] = Row("sent", page.active)]
         /\ apart' = (apart \/ page.loads # {} \/ Running # {})
         /\ UNCHANGED title
<1>1. page' = [page EXCEPT !.shown = Added(q, "user"), !.loading = q]
  BY DEF Submit, Added
<1>2. PageIs(page.active, q, page.loads, Added(q, "user"))
  BY <1>1, Lines
<1>3. page.active \in Sessions \cup {None}
  BY Types DEF Pages
<1>4. Row("sent", page.active) \in Rows
  BY <1>3, RowTyped
<1>5. QED
  BY <1>2, <1>4 DEF Submit

LEMMA Answered ==
  ASSUME TypeOK, NEW q \in Queries, AnswerArrives(q)
  PROVE  /\ PageIs(page.active, None, page.loads, Added(q, "agent"))
         /\ page.loading = q /\ query[q].pc \in {"stored", "deleted"}
         /\ UNCHANGED <<title, query, apart>>
<1>1. page' = [page EXCEPT !.shown = Added(q, "agent"), !.loading = None]
  BY DEF AnswerArrives, Added
<1>2. QED
  BY <1>1, Lines DEF AnswerArrives

LEMMA Failed ==
  ASSUME TypeOK, NEW q \in Queries, ErrorArrives(q)
  PROVE  page' \in Pages /\ apart' = TRUE /\ UNCHANGED <<title, query>>
<1>1. page' = [page EXCEPT !.shown = Added(q, "error"), !.loading = None]
  BY DEF ErrorArrives, Added
<1>2. QED
  BY <1>1, Lines DEF ErrorArrives, PageIs

\* A session is opened, or the page is left with none.
OpensOrNone ==
  \/ UNCHANGED <<page, apart>>
  \/ \E t \in Sessions, shown \in SUBSET Shown : Open(t, shown)
  \/ page' = [page EXCEPT !.active = None, !.shown = {}] /\ apart' = ~Calm

LEMMA Opens ==
  ASSUME TypeOK, NEW s \in Sessions, CreateSession(s) \/ Switch(s) \/ DeleteSession(s)
  PROVE  OpensOrNone
<1>1. page.shown \in SUBSET Shown /\ {} \in SUBSET Shown
  BY Types DEF Pages
<1>2. CASE CreateSession(s)
  BY <1>1, <1>2 DEF CreateSession, OpensOrNone
<1>3. CASE Switch(s)
  BY <1>1, <1>3 DEF Switch, OpensOrNone
<1>4. CASE DeleteSession(s)
  <2>1. \/ UNCHANGED <<page, apart>>
        \/ \E t \in Live : Open(t, page.shown)
        \/ page' = [page EXCEPT !.active = None, !.shown = {}] /\ apart' = ~Calm
    BY <1>4 DEF DeleteSession
  <2>2. Live \subseteq Sessions
    BY DEF Live
  <2>3. QED
    BY <1>1, <2>1, <2>2 DEF OpensOrNone
<1>5. QED
  BY <1>2, <1>3, <1>4

LEMMA OpensTyped ==
  ASSUME TypeOK, OpensOrNone
  PROVE  page' \in Pages /\ apart' \in BOOLEAN
<1>1. page \in Pages /\ apart \in BOOLEAN
  BY Types
<1>2. Calm \in BOOLEAN
  BY DEF Calm
<1>3. QED
  BY <1>1, <1>2, PageOpened, PageClosed DEF OpensOrNone

---------------------------------------------------------------------------
(* Types *)

LEMMA InitTypeOK == Init => TypeOK
<1> SUFFICES ASSUME Init PROVE TypeOK
  OBVIOUS
<1>1. NoQuery \in Rows
  BY DEF NoQuery, Rows
<1>2. query \in [Queries -> Rows]
  BY <1>1 DEF Init
<1>3. page \in Pages
  BY DEF Init, Pages
<1>4. title \in [Sessions -> Titles] /\ apart \in BOOLEAN
  BY DEF Init, Titles
<1>5. QED
  BY <1>2, <1>3, <1>4, Types

LEMMA PrimedTypes ==
  ASSUME title' \in [Sessions -> Titles], query' \in [Queries -> Rows],
         page' \in Pages, apart' \in BOOLEAN
  PROVE  TypeOK'
BY DEF TypeOK, Rows, Titles, Pages, Loads, Shown

LEMMA TypeStep == TypeOK /\ [Next]_vars => TypeOK'
<1> SUFFICES ASSUME TypeOK, [Next]_vars PROVE TypeOK'
  OBVIOUS
<1>1. /\ title \in [Sessions -> Titles] /\ query \in [Queries -> Rows]
      /\ page \in Pages /\ apart \in BOOLEAN
  BY Types
<1>2. ASSUME NEW s \in Sessions, CreateSession(s) \/ Switch(s) \/ DeleteSession(s)
      PROVE  TypeOK'
  <2>1. page' \in Pages /\ apart' \in BOOLEAN
    BY <1>2, Opens, OpensTyped
  <2>2. CASE DeleteSession(s)
    <3>1. query' \in [Queries -> Rows] /\ title' = [title EXCEPT ![s] = "deleted"]
      BY <2>2, Deleted
    <3>2. title' \in [Sessions -> Titles]
      BY <1>1, <3>1 DEF Titles
    <3>3. QED
      BY <2>1, <3>1, <3>2, PrimedTypes
  <2>3. CASE CreateSession(s) \/ Switch(s)
    <3>1. query' \in [Queries -> Rows] /\ title' \in [Sessions -> Titles]
      BY <1>1, <2>3 DEF CreateSession, Switch, Titles
    <3>2. QED
      BY <2>1, <3>1, PrimedTypes
  <2>4. QED
    BY <1>2, <2>2, <2>3
<1>3. ASSUME NEW s \in Sessions, NEW name \in {"new", "named"}, RenameSession(s, name)
      PROVE  TypeOK'
  <2>1. title' \in [Sessions -> Titles]
    BY <1>1, <1>3 DEF RenameSession, Titles
  <2>2. QED
    BY <1>1, <1>3, <2>1, PrimedTypes DEF RenameSession
<1>4. ASSUME NEW l \in page.loads, LoadRead(l) \/ LoadArrives(l) \/ LoadFails(l)
      PROVE  TypeOK'
  <2>1. page' \in Pages /\ apart' \in BOOLEAN /\ UNCHANGED <<title, query>>
    BY <1>1, <1>4, LoadReads, LoadLands, LoadLost DEF PageIs
  <2>2. QED
    BY <1>1, <2>1, PrimedTypes
<1>5. ASSUME NEW q \in Queries, Submit(q) PROVE TypeOK'
  <2>1. /\ page' \in Pages /\ Row("sent", page.active) \in Rows
        /\ query' = [query EXCEPT ![q] = Row("sent", page.active)]
        /\ apart' = (apart \/ page.loads # {} \/ Running # {}) /\ UNCHANGED title
    BY <1>5, Submitted DEF PageIs
  <2>2. query' \in [Queries -> Rows] /\ apart' \in BOOLEAN
    BY <1>1, <2>1
  <2>3. QED
    BY <1>1, <2>1, <2>2, PrimedTypes
<1>6. ASSUME NEW q \in Queries, ServerStep(q) PROVE TypeOK'
  <2>1. PICK r : Served(q, r)
    BY <1>6, ServedBy
  <2>2. QED
    BY <1>1, <2>1, PrimedTypes DEF Served
<1>7. ASSUME NEW q \in Queries, Commit(q) PROVE TypeOK'
  BY <1>1, <1>7, Committed, PrimedTypes
<1>8. ASSUME NEW q \in Queries, AnswerArrives(q) \/ ErrorArrives(q) PROVE TypeOK'
  <2>1. page' \in Pages /\ apart' \in BOOLEAN /\ UNCHANGED <<title, query>>
    BY <1>1, <1>8, Answered, Failed DEF PageIs
  <2>2. QED
    BY <1>1, <2>1, PrimedTypes
<1>9. CASE Restart
  BY <1>1, <1>9, Restarted, PrimedTypes
<1>10. CASE UNCHANGED vars
  BY <1>1, <1>10, PrimedTypes DEF vars
<1>11. QED
  BY <1>2, <1>3, <1>4, <1>5, <1>6, <1>7, <1>8, <1>9, <1>10 DEF Next, Serve, ServerStep

\* Sessions, questions and the page keep their types, however requests of the
\* page and of the server interleave.
THEOREM TypeCorrect == Spec => []TypeOK
BY InitTypeOK, TypeStep, PTL DEF Spec

---------------------------------------------------------------------------
(* What the tools did is told. *)

ToldInv == \A q \in Queries : Told(query[q])

LEMMA InitTold == Init => ToldInv
BY DEF Init, ToldInv, Told, NoQuery

LEMMA ToldRow ==
  ASSUME TypeOK, ToldInv, NEW k \in Queries, NEW r, query' = [query EXCEPT ![k] = r],
         Told(r)
  PROVE  ToldInv'
<1>1. query \in [Queries -> Rows]
  BY Types
<1>2. ASSUME NEW q \in Queries PROVE Told(query'[q])
  BY <1>1 DEF ToldInv
<1>3. QED
  BY <1>2 DEF ToldInv, Told

LEMMA ToldSame == ToldInv /\ UNCHANGED query => ToldInv'
BY DEF ToldInv, Told

LEMMA ToldStep == TypeOK /\ ToldInv /\ [Next]_vars => ToldInv'
<1> SUFFICES ASSUME TypeOK, ToldInv, [Next]_vars PROVE ToldInv'
  OBVIOUS
<1>1. ASSUME NEW s \in Sessions, CreateSession(s) \/ Switch(s) PROVE ToldInv'
  BY <1>1, ToldSame DEF CreateSession, Switch
<1>2. ASSUME NEW s \in Sessions, DeleteSession(s) PROVE ToldInv'
  <2>1. ASSUME NEW q \in Queries PROVE Told(query'[q])
    BY <1>2, Deleted DEF ToldInv, Told
  <2>2. QED
    BY <2>1 DEF ToldInv, Told
<1>3. ASSUME NEW s \in Sessions, NEW name \in {"new", "named"}, RenameSession(s, name)
      PROVE  ToldInv'
  BY <1>3, ToldSame DEF RenameSession
<1>4. ASSUME NEW l \in page.loads, LoadRead(l) \/ LoadArrives(l) \/ LoadFails(l)
      PROVE  ToldInv'
  BY <1>4, ToldSame DEF LoadRead, LoadArrives, LoadFails
<1>5. ASSUME NEW q \in Queries, Submit(q) PROVE ToldInv'
  <2> DEFINE r == Row("sent", page.active)
  <2>1. query' = [query EXCEPT ![q] = r]
    BY <1>5 DEF Submit
  <2>2. Told(r)
    BY DEF Row, Told
  <2> HIDE DEF r
  <2>3. QED
    BY <2>1, <2>2, ToldRow
<1>6. ASSUME NEW q \in Queries, ServerStep(q) PROVE ToldInv'
  <2>1. PICK r : Served(q, r)
    BY <1>6, ServedBy
  <2>2. Told(r) /\ query' = [query EXCEPT ![q] = r]
    BY <2>1 DEF Served, ToldInv
  <2>3. QED
    BY <2>2, ToldRow
<1>7. ASSUME NEW q \in Queries, Commit(q) PROVE ToldInv'
  <2>1. PICK r \in Rows : query' = [query EXCEPT ![q] = r] /\ r.pc \in {"stored", "lost"}
    BY <1>7, Committed
  <2>2. Told(r)
    BY <2>1 DEF Told
  <2>3. QED
    BY <2>1, <2>2, ToldRow
<1>8. ASSUME NEW q \in Queries, AnswerArrives(q) \/ ErrorArrives(q) PROVE ToldInv'
  BY <1>8, ToldSame DEF AnswerArrives, ErrorArrives
<1>9. CASE Restart
  <2>1. ASSUME NEW q \in Queries PROVE Told(query'[q])
    BY <1>9, Restarted DEF ToldInv, Told
  <2>2. QED
    BY <2>1 DEF ToldInv, Told
<1>10. CASE UNCHANGED vars
  BY <1>10, ToldSame DEF vars
<1>11. QED
  BY <1>1, <1>2, <1>3, <1>4, <1>5, <1>6, <1>7, <1>8, <1>9, <1>10
     DEF Next, Serve, ServerStep

\* A query whose tools created something is answered by what they did,
\* whichever of them failed, unless the answer is withheld
\* (ChatAgentGraph.handle_message).
THEOREM ToldCorrect == Spec => []EffectsAreTold
<1>1. TypeOK /\ ToldInv /\ [Next]_vars => TypeOK' /\ ToldInv'
  BY TypeStep, ToldStep
<1>2. ToldInv => EffectsAreTold
  BY DEF ToldInv, Told, EffectsAreTold
<1>3. QED
  BY <1>1, <1>2, InitTypeOK, InitTold, PTL DEF Spec

---------------------------------------------------------------------------
(* A name stays. *)

NamedStep ==
  \A s \in Sessions :
    /\ title[s] = "named"
    /\ \A q \in Running : query[q].at = s => query[q].seen # "new"
    => title'[s] # "auto"

LEMMA NamedKept == TypeOK /\ [Next]_vars => NamedStep
<1> SUFFICES ASSUME TypeOK, [Next]_vars, NEW s \in Sessions, title[s] = "named",
                    \A q \in Running : query[q].at = s => query[q].seen # "new"
             PROVE  title'[s] # "auto"
  BY DEF NamedStep
<1>1. title \in [Sessions -> Titles]
  BY Types
<1>2. ASSUME NEW t \in Sessions, CreateSession(t) \/ Switch(t) \/ DeleteSession(t)
      PROVE  title'[s] # "auto"
  BY <1>1, <1>2 DEF CreateSession, Switch, DeleteSession
<1>3. ASSUME NEW t \in Sessions, NEW name \in {"new", "named"}, RenameSession(t, name)
      PROVE  title'[s] # "auto"
  BY <1>1, <1>3 DEF RenameSession
<1>4. ASSUME NEW q \in Queries, Commit(q) PROVE title'[s] # "auto"
  <2>1. query[q].pc = "answered"
    BY <1>4, Committed
  <2>2. q \in Running
    BY <2>1, RunningIs DEF Working
  <2>3. title'[s] = "auto" => s = query[q].at /\ query[q].seen = "new"
    BY <1>4, Committed
  <2>4. QED
    BY <2>2, <2>3
<1>5. ASSUME UNCHANGED title PROVE title'[s] # "auto"
  BY <1>5
<1>6. ASSUME NEW q \in Queries, ServerStep(q) PROVE UNCHANGED title
  BY <1>6, ServedBy DEF Served
<1>7. ASSUME NEW q \in Queries, Submit(q) \/ AnswerArrives(q) \/ ErrorArrives(q)
      PROVE  UNCHANGED title
  BY <1>7 DEF Submit, AnswerArrives, ErrorArrives
<1>8. ASSUME NEW l \in page.loads, LoadRead(l) \/ LoadArrives(l) \/ LoadFails(l)
      PROVE  UNCHANGED title
  BY <1>8 DEF LoadRead, LoadArrives, LoadFails
<1>9. Restart \/ UNCHANGED vars => UNCHANGED title
  BY DEF Restart, vars
<1>10. QED
  BY <1>2, <1>3, <1>4, <1>5, <1>6, <1>7, <1>8, <1>9 DEF Next, Serve, ServerStep

\* A name the user gave stays until the user gives another, unless a query
\* that began under the default title is still running
\* (ChatAgentGraph.handle_message sets the title it decided on at the start).
THEOREM NamedCorrect == Spec => NamedStays
<1>1. TypeOK /\ [Next]_vars => [NamedStep]_vars
  BY NamedKept
<1>2. Spec => [][NamedStep]_vars
  BY <1>1, TypeCorrect, PTL DEF Spec
<1>3. QED
  BY <1>2 DEF NamedStays, NamedStep

---------------------------------------------------------------------------
(* The page shows the session. *)

\* What is stored of the active session.
Here == Messages(page.active)

\* The page awaits the answer of a question: nothing else is under way, and
\* the question, which is or was running, is shown besides what is stored.
Waiting ==
  LET q == page.loading IN
  /\ page.loads = {} /\ page.active # None
  /\ Running \subseteq {q}
  /\ query[q].at = page.active
  /\ Working(query[q].pc) \/ query[q].pc \in {"stored", "lost"}
  /\ page.shown = Exchange(Here \ {q}) \cup {[q |-> q, role |-> "user"]}

\* The page awaits the one load of its session.
Opening ==
  \E l \in page.loads :
    /\ page.loads = {l} /\ page.active # None /\ l.s = page.active
    /\ l.read => l.got = Here

Settled == page.shown = (IF page.active = None THEN {} ELSE Exchange(Here))

ShowInv ==
  ~apart =>
    /\ page.loading = None => Running = {}
    /\ page.loading # None => Waiting
    /\ page.loads # {} => Opening
    /\ page.loading = None /\ page.loads = {} => Settled

LEMMA HereSame ==
  ASSUME page'.active = page.active,
         \A q \in Queries : query'[q].pc = "stored" /\ query'[q].at = page.active
                            <=> query[q].pc = "stored" /\ query[q].at = page.active
  PROVE  Here' = Here
BY DEF Here, Messages

\* Questions that were running go on, or end, while the page stays.
LEMMA ShowQueries ==
  ASSUME TypeOK, ShowInv, UNCHANGED <<page, apart>>,
         \A q \in Queries :
           \/ query'[q] = query[q]
           \/ /\ q \in Running /\ query'[q].at = query[q].at
              /\ Working(query'[q].pc) \/ query'[q].pc \in {"stored", "lost"}
  PROVE  ShowInv'
<1> SUFFICES ASSUME ~apart
             PROVE  /\ page.loading = None => Running' = {}
                    /\ page.loading # None => Waiting'
                    /\ page.loads # {} => Opening'
                    /\ page.loading = None /\ page.loads = {} => Settled'
  BY DEF ShowInv
<1>1. Running' \subseteq Running
  BY RunningIs DEF Running, Working
<1>2. CASE page.loading = None
  <2>1. Running = {} /\ Running' = {}
    BY <1>1, <1>2 DEF ShowInv
  <2>2. Here' = Here
    BY <2>1, HereSame
  <2>3. page.loads # {} => Opening'
    BY <2>2 DEF ShowInv, Opening
  <2>4. page.loads = {} => Settled'
    BY <1>2, <2>2 DEF ShowInv, Settled
  <2>5. QED
    BY <1>2, <2>1, <2>3, <2>4
<1>3. CASE page.loading # None
  <2> DEFINE q == page.loading
  <2>1. q \in Queries
    BY <1>3, Types DEF Pages
  <2>2. /\ page.loads = {} /\ page.active # None /\ Running \subseteq {q}
        /\ query[q].at = page.active
        /\ Working(query[q].pc) \/ query[q].pc \in {"stored", "lost"}
        /\ page.shown = Exchange(Here \ {q}) \cup {[q |-> q, role |-> "user"]}
    BY <1>3 DEF ShowInv, Waiting
  <2>3. (Here \ {q})' = Here \ {q}
    <3>1. \A k \in Queries \ {q} : query'[k] = query[k]
      BY <2>2
    <3>2. QED
      BY <3>1 DEF Here, Messages
  <2>4. /\ query'[q].at = page.active
        /\ Working(query'[q].pc) \/ query'[q].pc \in {"stored", "lost"}
    BY <2>1, <2>2
  <2>5. Waiting'
    BY <1>1, <2>2, <2>3, <2>4 DEF Waiting, Working
  <2>6. QED
    BY <1>3, <2>2, <2>5
<1>4. QED
  BY <1>2, <1>3

LEMMA ShowOne ==
  ASSUME TypeOK, ShowInv, UNCHANGED <<page, apart>>, NEW k \in Queries, NEW r,
         query' = [query EXCEPT ![k] = r], Working(query[k].pc),
         r.at = query[k].at, Working(r.pc) \/ r.pc \in {"stored", "lost"}
  PROVE  ShowInv'
<1>1. query \in [Queries -> Rows]
  BY Types
<1>2. k \in Running
  BY RunningIs
<1>3. query'[k] = r /\ \A q \in Queries \ {k} : query'[q] = query[q]
  BY <1>1
<1>4. ASSUME NEW q \in Queries
      PROVE  \/ query'[q] = query[q]
             \/ /\ q \in Running /\ query'[q].at = query[q].at
                /\ Working(query'[q].pc) \/ query'[q].pc \in {"stored", "lost"}
  BY <1>2, <1>3
<1>5. QED
  BY <1>4, ShowQueries

\* The page opens a session or is left with none.
LEMMA ShowOpens ==
  ASSUME TypeOK, OpensOrNone, ~UNCHANGED <<page, apart>>, Running' \subseteq Running
  PROVE  ShowInv'
<1> SUFFICES ASSUME ~apart' PROVE ShowInv'
  BY DEF ShowInv
<1>1. page \in Pages
  BY Types
<1>2. ASSUME NEW s \in Sessions, NEW shown \in SUBSET Shown, Open(s, shown)
      PROVE  ShowInv'
  <2> DEFINE l == [s |-> s, read |-> FALSE, got |-> {}]
  <2>1. /\ apart' = ~Calm /\ page'.active = s
        /\ page'.loading = page.loading /\ page'.loads = page.loads \cup {l}
    BY <1>2, PageOpened
  <2>2. page.loads = {} /\ page.loading = None /\ Running = {}
    BY <2>1 DEF Calm
  <2>3. page'.loads = {l} /\ page'.loading = None /\ Running' = {}
    BY <2>1, <2>2
  <2>4. l.s = s /\ ~l.read
    OBVIOUS
  <2>5. s # None
    OBVIOUS
  <2> HIDE DEF l
  <2>6. Opening'
    BY <2>1, <2>3, <2>4, <2>5 DEF Opening
  <2>7. QED
    BY <2>3, <2>6 DEF ShowInv
<1>3. ASSUME page' = [page EXCEPT !.active = None, !.shown = {}], apart' = ~Calm
      PROVE  ShowInv'
  <2>1. page.loads = {} /\ page.loading = None /\ Running = {}
    BY <1>3 DEF Calm
  <2>2. /\ page'.active = None /\ page'.shown = {}
        /\ page'.loads = {} /\ page'.loading = None /\ Running' = {}
    BY <1>1, <1>3, <2>1, PageClosed
  <2>3. QED
    BY <2>2 DEF ShowInv, Settled
<1>4. QED
  BY <1>2, <1>3 DEF OpensOrNone

\* A session that the page does not show is deleted.
LEMMA ShowDeletes ==
  ASSUME TypeOK, ShowInv, NEW s \in Sessions, DeleteSession(s), UNCHANGED <<page, apart>>
  PROVE  ShowInv'
<1>1. s # page.active
  <2>1. ASSUME NEW t \in Live \ {s}, Open(t, page.shown) PROVE page'.active = t
    <3>1. t \in Sessions /\ page.shown \in SUBSET Shown
      BY Types DEF Live, Pages
    <3>2. QED
      BY <2>1, <3>1, PageOpened
  <2>2. ASSUME page' = [page EXCEPT !.active = None, !.shown = {}]
        PROVE  page'.active = None
    BY <2>2, Types, PageClosed
  <2>3. s # None
    OBVIOUS
  <2>4. QED
    BY <2>1, <2>2, <2>3 DEF DeleteSession
<1>2. \A q \in Queries : IF q \in Messages(s)
                         THEN query'[q].pc = "deleted" /\ query'[q].at = s
                         ELSE query'[q] = query[q]
  BY Deleted
<1>3. \A q \in Queries : query[q].at = page.active => query'[q] = query[q]
  BY <1>1, <1>2 DEF Messages
<1>4. \A q \in Queries : query'[q].at = page.active => query'[q] = query[q]
  BY <1>1, <1>2 DEF Messages
<1>5. Here' = Here
  BY <1>3, <1>4, HereSame
<1>6. Running' = Running
  BY <1>2 DEF Running, Messages
<1> SUFFICES ASSUME ~apart
             PROVE  /\ page.loading = None => Running' = {}
                    /\ page.loading # None => Waiting'
                    /\ page.loads # {} => Opening'
                    /\ page.loading = None /\ page.loads = {} => Settled'
  BY DEF ShowInv
<1>7. page.loading = None => Running' = {}
  BY <1>6 DEF ShowInv
<1>8. ASSUME page.loading # None PROVE Waiting'
  <2>1. page.loading \in Queries
    BY <1>8, Types DEF Pages
  <2>2. Waiting
    BY <1>8 DEF ShowInv
  <2>3. query'[page.loading] = query[page.loading]
    BY <1>3, <2>1, <2>2 DEF Waiting
  <2>4. QED
    BY <1>5, <1>6, <2>2, <2>3 DEF Waiting, Working
<1>9. page.loads # {} => Opening'
  BY <1>5 DEF ShowInv, Opening
<1>10. page.loading = None /\ page.loads = {} => Settled'
  BY <1>5 DEF ShowInv, Settled
<1>11. QED
  BY <1>7, <1>8, <1>9, <1>10

LEMMA ShowSame == ShowInv /\ UNCHANGED <<query, page, apart>> => ShowInv'
<1> SUFFICES ASSUME ShowInv, UNCHANGED <<query, page, apart>> PROVE ShowInv'
  OBVIOUS
<1>1. Here' = Here /\ Running' = Running
  BY DEF Here, Messages, Running
<1>2. Waiting' = Waiting /\ Opening' = Opening /\ Settled' = Settled
  BY <1>1 DEF Waiting, Opening, Settled, Working
<1>3. QED
  BY <1>1, <1>2 DEF ShowInv

LEMMA ShowRead ==
  ASSUME TypeOK, ShowInv, NEW l \in page.loads, LoadRead(l)
  PROVE  ShowInv'
<1> SUFFICES ASSUME ~apart PROVE ShowInv'
  BY LoadReads DEF ShowInv
<1>1. /\ page'.active = page.active /\ page'.loading = page.loading
      /\ page'.loads = (page.loads \ {l}) \cup {ReadLoad(l)}
      /\ UNCHANGED <<query, apart>>
  BY LoadReads DEF PageIs
<1>2. Here' = Here /\ Running' = Running
  BY <1>1 DEF Here, Messages, Running
<1>3. page.loads = {l} /\ page.active # None /\ l.s = page.active
  BY DEF ShowInv, Opening
<1>4. page.loading = None /\ Running = {}
  BY <1>3 DEF ShowInv, Waiting
<1>5. page'.loads = {ReadLoad(l)}
  BY <1>1, <1>3
<1>6. ReadLoad(l).s = page.active /\ ReadLoad(l).got = Here
  BY <1>3 DEF ReadLoad, Here
<1>7. Opening'
  BY <1>1, <1>2, <1>3, <1>5, <1>6 DEF Opening
<1>8. QED
  BY <1>1, <1>2, <1>4, <1>5, <1>7 DEF ShowInv

LEMMA ShowLands ==
  ASSUME TypeOK, ShowInv, NEW l \in page.loads, LoadArrives(l)
  PROVE  ShowInv'
<1> SUFFICES ASSUME ~apart PROVE ShowInv'
  BY LoadLands DEF ShowInv
<1>1. /\ page'.active = page.active /\ page'.loading = page.loading
      /\ page'.loads = page.loads \ {l} /\ page'.shown = Exchange(l.got)
      /\ UNCHANGED <<query, apart>>
  BY LoadLands DEF PageIs
<1>2. Here' = Here /\ Running' = Running
  BY <1>1 DEF Here, Messages, Running
<1>3. l.read
  BY DEF LoadArrives
<1>4. page.loads = {l} /\ page.active # None /\ l.got = Here
  BY <1>3 DEF ShowInv, Opening
<1>5. page.loading = None /\ Running = {}
  BY <1>4 DEF ShowInv, Waiting
<1>6. page'.loads = {} /\ Settled'
  BY <1>1, <1>2, <1>4 DEF Settled
<1>7. QED
  BY <1>1, <1>2, <1>5, <1>6 DEF ShowInv

LEMMA ShowSubmits ==
  ASSUME TypeOK, ShowInv, NEW q \in Queries, Submit(q)
  PROVE  ShowInv'
<1> SUFFICES ASSUME ~apart' PROVE ShowInv'
  BY DEF ShowInv
<1>1. /\ page'.active = page.active /\ page'.loading = q
      /\ page'.loads = page.loads /\ page'.shown = Added(q, "user")
      /\ query[q] = NoQuery /\ page.active # None /\ page.loading = None
      /\ query' = [query EXCEPT ![q] = Row("sent", page.active)]
      /\ apart' = (apart \/ page.loads # {} \/ Running # {})
  BY Submitted DEF PageIs
<1>2. ~apart /\ page.loads = {} /\ Running = {}
  BY <1>1
<1>3. page.shown = Exchange(Here)
  BY <1>1, <1>2 DEF ShowInv, Settled
<1>4. query \in [Queries -> Rows]
  BY Types
<1>5. /\ \A k \in Queries \ {q} : query'[k] = query[k]
      /\ query'[q].pc = "sent" /\ query'[q].at = page.active
  BY <1>1, <1>4 DEF Row
<1>6. Here' \ {q} = Here
  <2>1. q \notin Here
    BY <1>1 DEF Here, Messages, NoQuery
  <2>2. \A k \in Queries \ {q} : k \in Here' <=> k \in Here
    BY <1>1, <1>5 DEF Here, Messages
  <2>3. Here \subseteq Queries /\ Here' \subseteq Queries
    BY DEF Here, Messages
  <2>4. QED
    BY <2>1, <2>2, <2>3
<1>7. Running' \subseteq {q}
  BY <1>2, <1>5 DEF Running
<1>8. page'.shown = Exchange(Here' \ {q}) \cup {[q |-> q, role |-> "user"]}
  BY <1>1, <1>3, <1>6 DEF Added
<1>9. Waiting'
  BY <1>1, <1>2, <1>5, <1>7, <1>8 DEF Waiting, Working
<1>10. q # None
  OBVIOUS
<1>11. QED
  BY <1>1, <1>2, <1>9, <1>10 DEF ShowInv

LEMMA ExchangeWhole ==
  ASSUME NEW qs, NEW q \in qs
  PROVE  (Exchange(qs \ {q}) \cup {[q |-> q, role |-> "user"]})
           \cup {[q |-> q, role |-> "agent"]} = Exchange(qs)
<1> DEFINE left == (Exchange(qs \ {q}) \cup {[q |-> q, role |-> "user"]})
                     \cup {[q |-> q, role |-> "agent"]}
<1>1. ASSUME NEW e \in left PROVE e \in Exchange(qs)
  BY <1>1 DEF Exchange
<1>2. ASSUME NEW e \in Exchange(qs) PROVE e \in left
  <2>1. e.q \in qs /\ e.role \in {"user", "agent"} /\ e = [q |-> e.q, role |-> e.role]
    BY <1>2 DEF Exchange
  <2>2. CASE e.q = q
    BY <2>1, <2>2
  <2>3. CASE e.q # q
    BY <2>1, <2>3 DEF Exchange
  <2>4. QED
    BY <2>2, <2>3
<1> HIDE DEF left
<1>3. left = Exchange(qs)
  BY <1>1, <1>2
<1>4. QED
  BY <1>3 DEF left

LEMMA ShowAnswers ==
  ASSUME TypeOK, ShowInv, NEW q \in Queries, AnswerArrives(q)
  PROVE  ShowInv'
<1> SUFFICES ASSUME ~apart PROVE ShowInv'
  BY Answered DEF ShowInv
<1>1. /\ page'.active = page.active /\ page'.loading = None
      /\ page'.loads = page.loads /\ page'.shown = Added(q, "agent")
      /\ page.loading = q /\ query[q].pc \in {"stored", "deleted"}
      /\ UNCHANGED <<query, apart>>
  BY Answered DEF PageIs
<1>2. Here' = Here /\ Running' = Running
  BY <1>1 DEF Here, Messages, Running
<1>3. q # None
  OBVIOUS
<1>4. Waiting
  BY <1>1, <1>3 DEF ShowInv
<1>5. query[q].pc = "stored"
  BY <1>1, <1>4 DEF Waiting, Working
<1>6. q \in Here /\ Running = {}
  BY <1>1, <1>4, <1>5 DEF Waiting, Here, Messages, Running
<1>7. page.shown = Exchange(Here \ {q}) \cup {[q |-> q, role |-> "user"]}
  BY <1>1, <1>4 DEF Waiting
<1>8. page'.shown = Exchange(Here)
  BY <1>1, <1>6, <1>7, ExchangeWhole DEF Added
<1>9. page.loads = {} /\ page.active # None
  BY <1>4 DEF Waiting
<1>10. Settled'
  BY <1>1, <1>2, <1>8, <1>9 DEF Settled
<1>11. QED
  BY <1>1, <1>2, <1>6, <1>9, <1>10 DEF ShowInv

LEMMA ShowStep == TypeOK /\ ShowInv /\ [Next]_vars => ShowInv'
<1> SUFFICES ASSUME TypeOK, ShowInv, [Next]_vars PROVE ShowInv'
  OBVIOUS
<1>1. ASSUME NEW s \in Sessions, CreateSession(s) \/ Switch(s) PROVE ShowInv'
  <2>1. UNCHANGED query
    BY <1>1 DEF CreateSession, Switch
  <2>2. Running' = Running
    BY <2>1 DEF Running
  <2>3. OpensOrNone
    BY <1>1, Opens
  <2>4. QED
    BY <2>1, <2>2, <2>3, ShowOpens, ShowSame
<1>2. ASSUME NEW s \in Sessions, DeleteSession(s) PROVE ShowInv'
  <2>1. OpensOrNone
    BY <1>2, Opens
  <2>2. Running' \subseteq Running
    BY <1>2, Deleted DEF Running
  <2>3. QED
    BY <1>2, <2>1, <2>2, ShowOpens, ShowDeletes
<1>3. ASSUME NEW s \in Sessions, NEW name \in {"new", "named"}, RenameSession(s, name)
      PROVE  ShowInv'
  BY <1>3, ShowSame DEF RenameSession
<1>4. ASSUME NEW l \in page.loads, LoadRead(l) \/ LoadArrives(l) PROVE ShowInv'
  BY <1>4, ShowRead, ShowLands
<1>5. ASSUME apart' PROVE ShowInv'
  BY <1>5 DEF ShowInv
<1>6. ASSUME NEW l \in page.loads, LoadFails(l) PROVE apart'
  BY <1>6, LoadLost
<1>7. ASSUME NEW q \in Queries, ErrorArrives(q) PROVE apart'
  BY <1>7, Failed
<1>8. ASSUME NEW q \in Queries, ServerStep(q) PROVE ShowInv'
  <2>1. PICK r : Served(q, r)
    BY <1>8, ServedBy
  <2>2. /\ query' = [query EXCEPT ![q] = r] /\ UNCHANGED <<page, apart>>
        /\ Working(query[q].pc) /\ r.at = query[q].at
        /\ Working(r.pc) \/ r.pc \in {"stored", "lost"}
    BY <2>1 DEF Served
  <2>3. QED
    BY <2>2, ShowOne
<1>9. ASSUME NEW q \in Queries, Commit(q) PROVE ShowInv'
  <2>1. PICK r \in Rows :
          /\ query' = [query EXCEPT ![q] = r]
          /\ r.at = query[q].at /\ r.pc \in {"stored", "lost"}
    BY <1>9, Committed
  <2>2. query[q].pc = "answered" /\ UNCHANGED <<page, apart>>
    BY <1>9, Committed
  <2>3. Working(query[q].pc)
    BY <2>2 DEF Working
  <2>4. QED
    BY <2>1, <2>2, <2>3, ShowOne
<1>10. CASE Restart
  <2>1. /\ UNCHANGED <<page, apart>>
        /\ \A q \in Queries : IF q \in Running
                              THEN query'[q].pc = "lost" /\ query'[q].at = query[q].at
                              ELSE query'[q] = query[q]
    BY <1>10, Restarted
  <2>2. QED
    BY <2>1, ShowQueries
<1>11. CASE UNCHANGED vars
  BY <1>11, ShowSame DEF vars
<1>12. QED
  BY <1>1, <1>2, <1>3, <1>4, <1>5, <1>6, <1>7, <1>8, <1>9, <1>10, <1>11,
     ShowSubmits, ShowAnswers DEF Next, Serve, ServerStep

LEMMA InitShow == Init => ShowInv
<1> SUFFICES ASSUME Init PROVE ShowInv
  OBVIOUS
<1>1. page.loading = None /\ page.loads = {} /\ page.shown = {} /\ page.active = None
  BY DEF Init
<1>2. Running = {}
  BY DEF Init, Running, NoQuery
<1>3. QED
  BY <1>1, <1>2 DEF ShowInv, Settled

\* With no request of its own in flight the page shows what is stored of the
\* active session, unless its requests overlapped or failed since it opened
\* that session (AgentPage: loadMessages, createSession, deleteSession, handleSubmit).
THEOREM ShowCorrect == Spec => []PageShowsTheSession
<1>1. TypeOK /\ ShowInv /\ [Next]_vars => TypeOK' /\ ShowInv'
  BY TypeStep, ShowStep
<1>2. ShowInv => PageShowsTheSession
  BY DEF ShowInv, Settled, Here, PageShowsTheSession
<1>3. QED
  BY <1>1, <1>2, InitTypeOK, InitShow, PTL DEF Spec
===========================================================================
