------------------------ MODULE SourceMonitorProofs ------------------------
(* Theorems about the polling of a source, for any numbers of requests,     *)
(* files and failures and any sizes of pages and batches.                   *)
EXTENDS SourceMonitor, TLAPS

USE SourceMonitorAssumption

LEMMA HeadsAreParts ==
  ASSUME NEW n, NEW S, NEW order, NEW T \in Heads(n, S, order)
  PROVE  T \subseteq S
BY DEF Heads

LEMMA SpansAreFiles ==
  ASSUME published \in 0 .. MaxFiles, NEW k \in Nat \ {0}
  PROVE  Span(k) \subseteq Files
BY DEF Span, Files

---------------------------------------------------------------------------
(* Types *)

LEMMA RowsAreTyped ==
  ASSUME row \in Row, NEW s \in Chosen \cup {"none", "deleted"},
         NEW t \in Nat, NEW e \in Nat
  PROVE  /\ [row EXCEPT !.status = s] \in Row
         /\ [row EXCEPT !.status = s, !.errors = e] \in Row
         /\ [row EXCEPT !.errors = e, !.status = s] \in Row
         /\ [row EXCEPT !.token = t, !.errors = e, !.status = s] \in Row
BY DEF Row

LEMMA ListedTyped ==
  ASSUME TypeOK, NEW passed \in SUBSET Files, NEW page \in SUBSET passed,
         NEW order \in {"oldest", "newest", "any"}, NEW token \in Nat,
         Listed(passed, page, order, token)
  PROVE  TypeOK'
<1>1. poll' \in [seen : Row, files : SUBSET Files,
                 order : {"oldest", "newest", "any"}, token : Nat,
                 left : SUBSET Files]
  BY DEF TypeOK, Listed
<1>2. QED
  BY <1>1 DEF TypeOK, Listed, provider, history, Kinds

LEMMA CommitTyped ==
  ASSUME TypeOK, NEW batch \in Batches, NEW token \in Nat, NEW errors \in Nat,
         Commit(batch, token, errors)
  PROVE  TypeOK'
<1>1. Recovered(poll.seen) \in Chosen \cup {"none", "deleted"}
  BY DEF TypeOK, Recovered, Row, Chosen
<1>2. row' \in Row
  BY <1>1, RowsAreTyped DEF TypeOK, Commit
<1>3. poll.files \subseteq Files /\ poll.left \subseteq Files
  BY DEF TypeOK
<1>4. batch \subseteq poll.files
  BY HeadsAreParts DEF Batches
<1>5. handed' \subseteq Files /\ unlisted' \subseteq Files
  BY <1>3, <1>4 DEF TypeOK, Commit
<1>6. expired' \in BOOLEAN
  BY DEF TypeOK, Commit
<1>7. NoPoll \in [seen : Row, files : SUBSET Files,
                  order : {"oldest", "newest", "any"}, token : Nat,
                  left : SUBSET Files]
  BY DEF NoPoll, NoRow, NoToken, Row
<1>8. QED
  BY <1>2, <1>5, <1>6, <1>7 DEF TypeOK, Commit, Stop, Kinds

\* Every reachable state of the model is well typed.
THEOREM TypeCorrect == Spec => []TypeOK
<1>1. Init => TypeOK
  <2>1. NoRow \in Row
    BY DEF NoRow, NoToken, Row
  <2>2. NoPoll \in [seen : Row, files : SUBSET Files,
                    order : {"oldest", "newest", "any"}, token : Nat,
                    left : SUBSET Files]
    BY <2>1 DEF NoPoll, NoToken
  <2>3. NoReq \in [op : Chosen \cup {"none", "reconnect"},
                   status : Chosen \cup {"none"}, clean : BOOLEAN]
    BY DEF NoReq
  <2>4. ASSUME Init
        PROVE  /\ row \in Row /\ poll \in [seen : Row, files : SUBSET Files,
                      order : {"oldest", "newest", "any"}, token : Nat,
                      left : SUBSET Files]
               /\ req \in [Handlers -> [op : Chosen \cup {"none", "reconnect"},
                                       status : Chosen \cup {"none"},
                                       clean : BOOLEAN]]
    BY <2>1, <2>2, <2>3, <2>4 DEF Init
  <2>5. ASSUME Init PROVE job \in BOOLEAN /\ expired \in BOOLEAN
    BY <2>5 DEF Init
  <2>6. ASSUME Init PROVE kind \in Kinds /\ elsewhere \subseteq Files
    BY <2>6 DEF Init, Files
  <2>7. ASSUME Init
        PROVE  /\ published \in 0 .. MaxFiles /\ crashes \in 0 .. MaxCrashes
               /\ fails \in Nat /\ since \in Nat
    BY <2>7 DEF Init
  <2>8. QED
    BY <2>4, <2>5, <2>6, <2>7, Zenon DEF Init, TypeOK
<1>2. TypeOK /\ [Next]_vars => TypeOK'
  <2> SUFFICES ASSUME TypeOK, [Next]_vars PROVE TypeOK'
    OBVIOUS
  <2> DEFINE Polls == [seen : Row, files : SUBSET Files,
                       order : {"oldest", "newest", "any"}, token : Nat,
                       left : SUBSET Files]
  <2>0. NoPoll \in Polls
    BY DEF NoPoll, NoRow, NoToken, Row
  <2>1. CASE Publish
    <3>1. published + 1 \in Files /\ published' \in 0 .. MaxFiles
      BY <2>1 DEF Publish, TypeOK, Files
    <3>2. poll' \in Polls
      BY <2>1, <3>1 DEF Publish, TypeOK
    <3>3. QED
      BY <2>1, <3>1, <3>2 DEF Publish, TypeOK, history
  <2>2. CASE Expire
    BY <2>2 DEF Expire, TypeOK, history
  <2>3. CASE CreateSource
    <3>1. row' \in Row
      BY <2>3 DEF CreateSource, NoRow, NoToken, Row, Chosen
    <3>2. QED
      BY <2>3, <3>1 DEF CreateSource, TypeOK, provider, history
  <2>4. CASE DeleteSource
    <3>1. row' \in Row
      BY <2>4, RowsAreTyped DEF DeleteSource, TypeOK
    <3>2. QED
      BY <2>4, <3>1 DEF DeleteSource, TypeOK, provider, history
  <2>5. ASSUME NEW h \in Handlers, NEW op \in Chosen \cup {"reconnect"},
               RequestRead(h, op)
        PROVE  TypeOK'
    <3>1. req' \in [Handlers -> [op : Chosen \cup {"none", "reconnect"},
                                 status : Chosen \cup {"none"},
                                 clean : BOOLEAN]]
      BY <2>5 DEF RequestRead, TypeOK, Exists
    <3>2. QED
      BY <2>5, <3>1 DEF RequestRead, TypeOK, provider, history
  <2>6. ASSUME NEW h \in Handlers, Answer(h)
        PROVE  /\ req' \in [Handlers -> [op : Chosen \cup {"none", "reconnect"},
                                         status : Chosen \cup {"none"},
                                         clean : BOOLEAN]]
               /\ row' \in Row /\ since' \in Nat => TypeOK'
    <3>1. NoReq \in [op : Chosen \cup {"none", "reconnect"},
                     status : Chosen \cup {"none"}, clean : BOOLEAN]
      BY DEF NoReq
    <3>2. req' \in [Handlers -> [op : Chosen \cup {"none", "reconnect"},
                                 status : Chosen \cup {"none"},
                                 clean : BOOLEAN]]
      BY <2>6, <3>1 DEF Answer, TypeOK
    <3>3. QED
      BY <2>6, <3>2 DEF Answer, TypeOK, provider
  <2>7. ASSUME NEW h \in Handlers, UpdateCommit(h) PROVE TypeOK'
    <3>1. row' \in Row
      <4>1. CASE Exists /\ req[h].op # req[h].status
        <5>1. row' = [row EXCEPT !.status = req[h].op] /\ req[h].op \in Chosen
          BY <2>7, <4>1 DEF UpdateCommit
        <5>2. QED
          BY <5>1, RowsAreTyped DEF TypeOK
      <4>2. CASE ~(Exists /\ req[h].op # req[h].status)
        BY <2>7, <4>2 DEF UpdateCommit, TypeOK
      <4>3. QED
        BY <4>1, <4>2
    <3>2. since' \in Nat
      BY <2>7 DEF UpdateCommit, TypeOK
    <3>3. QED
      BY <2>6, <2>7, <3>1, <3>2 DEF UpdateCommit
  <2>8. ASSUME NEW h \in Handlers, ReconnectCommit(h) PROVE TypeOK'
    <3>1. /\ Recovered(req[h]) \in Chosen \cup {"none", "deleted"}
          /\ Cleared(req[h].clean) \in Nat
      BY DEF TypeOK, Recovered, Cleared, Row, Chosen
    <3>2. row' \in Row
      <4>1. CASE Exists
        <5>1. row' = [row EXCEPT !.status = Recovered(req[h]),
                                 !.errors = Cleared(req[h].clean)]
          BY <2>8, <4>1 DEF ReconnectCommit
        <5>2. QED
          BY <3>1, <5>1, RowsAreTyped DEF TypeOK
      <4>2. CASE ~Exists
        BY <2>8, <4>2 DEF ReconnectCommit, TypeOK
      <4>3. QED
        BY <4>1, <4>2
    <3>3. since' \in Nat
      BY <2>8 DEF ReconnectCommit, TypeOK
    <3>4. QED
      BY <2>6, <2>8, <3>2, <3>3 DEF ReconnectCommit
  <2>9. CASE PollRead
    <3>1. poll' \in Polls
      BY <2>9, <2>0 DEF PollRead, TypeOK
    <3>2. QED
      BY <2>9, <3>1 DEF PollRead, TypeOK, provider, history
  <2>10. CASE ListFolder
    <3>1. Span(1) \subseteq Files
      BY SpansAreFiles DEF TypeOK
    <3>2. PICK page \in Heads(PageSize, Span(1),
                              IF kind = "gmail" THEN "newest" ELSE "any") :
            poll' = [poll EXCEPT !.files = page, !.left = Span(1) \ page,
                       !.order = IF kind = "gmail" THEN "newest" ELSE "any"]
      BY <2>10 DEF ListFolder
    <3>3. page \subseteq Span(1)
      BY <3>2, HeadsAreParts
    <3>4. poll' \in Polls
      BY <3>1, <3>2, <3>3 DEF TypeOK
    <3>5. QED
      BY <2>10, <3>4 DEF ListFolder, TypeOK, provider, history
  <2>11. CASE StartToken
    <3>1. poll' \in Polls
      BY <2>11 DEF StartToken, TypeOK
    <3>2. QED
      BY <2>11, <3>1 DEF StartToken, TypeOK, provider, history
  <2>12. CASE ListChanges
    <3>1. Span(poll.seen.token) \subseteq Files
      BY <2>12, SpansAreFiles DEF ListChanges, TypeOK, Row, NoToken
    <3>2. PICK page \in Heads(IF kind = "gmail" THEN PageSize ELSE published,
                              Span(poll.seen.token) \ elsewhere, "oldest") :
            Listed(Span(poll.seen.token), page, "oldest", published + 1)
      BY <2>12 DEF ListChanges
    <3>3. page \subseteq Span(poll.seen.token) /\ published + 1 \in Nat
      BY <3>2, HeadsAreParts DEF TypeOK
    <3>4. QED
      BY <3>1, <3>2, <3>3, ListedTyped
  <2>13. CASE ListEvents
    <3> DEFINE first == IF poll.seen.token = NoToken \/ expired
                        THEN 1 ELSE poll.seen.token
    <3>1. Span(first) \subseteq Files
      BY SpansAreFiles DEF TypeOK, Row, NoToken
    <3>2. PICK page \in Heads(PageSize, Span(first), "any") :
            Listed(Span(first), page, "any",
                   IF page = Span(first) THEN published + 1 ELSE NoToken)
      BY <2>13 DEF ListEvents
    <3>3. /\ page \subseteq Span(first)
          /\ (IF page = Span(first) THEN published + 1 ELSE NoToken) \in Nat
      BY <3>2, HeadsAreParts DEF TypeOK, NoToken
    <3> HIDE DEF first
    <3>4. QED
      BY <3>1, <3>2, <3>3, ListedTyped
  <2>14. CASE PollCommit
    <3>1. PICK batch \in Batches : Commit(batch, TokenAfter(batch), NoErrors)
      BY <2>14 DEF PollCommit
    <3>2. TokenAfter(batch) \in Nat /\ NoErrors \in Nat
      BY DEF TokenAfter, NoErrors, Cleared, TypeOK, Row
    <3>3. QED
      BY <3>1, <3>2, CommitTyped
  <2>15. CASE PollFail
    <3>1. poll.seen.errors + 1 \in Nat /\ row.status \in Chosen
      BY <2>15 DEF PollFail, TypeOK, Row, Exists
    <3>2. row' \in Row
      BY <2>15, <3>1 DEF PollFail, TypeOK, Row, Chosen
    <3>3. QED
      BY <2>0, <2>15, <3>2 DEF PollFail, TypeOK, Stop, provider
  <2>16. CASE PollLost
    BY <2>0, <2>16 DEF PollLost, TypeOK, Stop, provider, history
  <2>17. CASE Restart
    <3>1. job' \in BOOLEAN
      BY <2>17 DEF Restart
    <3>2. crashes' \in 0 .. MaxCrashes
      BY <2>17 DEF Restart, TypeOK
    <3>3. req' \in [Handlers -> [op : Chosen \cup {"none", "reconnect"},
                                 status : Chosen \cup {"none"},
                                 clean : BOOLEAN]]
      BY <2>17 DEF Restart, NoReq
    <3>4. QED
      BY <2>0, <2>17, <3>1, <3>2, <3>3
      DEF Restart, TypeOK, Stop, provider, history
  <2>18. CASE UNCHANGED vars
    BY <2>18 DEF vars, TypeOK, provider, history
  <2>19. QED
    BY <2>1, <2>2, <2>3, <2>4, <2>5, <2>7, <2>8, <2>9, <2>10, <2>11, <2>12,
       <2>13, <2>14, <2>15, <2>16, <2>17, <2>18 DEF Next, Lists
<1>3. QED
  BY <1>1, <1>2, PTL DEF Spec

---------------------------------------------------------------------------
(* The error count *)

\* During a poll only requests write the row: they lower the count, and a
\* user's intervention lowers `since` with it.
CountInv ==
  /\ ErrorCountIsTrue
  /\ pc # "idle" => /\ since <= poll.seen.errors
                    /\ row.errors <= poll.seen.errors
                    /\ poll.seen.errors <= fails

LEMMA CountStep ==
  ASSUME TypeOK, TypeOK', CountInv, [Next]_vars
  PROVE  CountInv'
<1> USE DEF CountInv, ErrorCountIsTrue
<1> row.errors \in Nat /\ poll.seen.errors \in Nat /\ fails \in Nat /\ since \in Nat
  BY DEF TypeOK, Row
<1>1. CASE Publish
  <2>1. poll'.seen = poll.seen
    BY <1>1 DEF Publish, TypeOK
  <2>2. QED
    BY <1>1, <2>1 DEF Publish, history
<1>2. CASE Expire
  BY <1>2 DEF Expire, history
<1>3. CASE CreateSource
  <2>1. row'.errors = 0 /\ row.errors = 0
    BY <1>3 DEF CreateSource, NoRow
  <2>2. QED
    BY <1>3, <2>1 DEF CreateSource, history
<1>4. CASE DeleteSource
  <2>1. row'.errors = row.errors
    BY <1>4 DEF DeleteSource, TypeOK, Row
  <2>2. QED
    BY <1>4, <2>1 DEF DeleteSource, history
<1>5. ASSUME NEW h \in Handlers, NEW op, RequestRead(h, op) PROVE CountInv'
  BY <1>5 DEF RequestRead, history
<1>6. ASSUME NEW h \in Handlers, UpdateCommit(h) PROVE CountInv'
  <2>1. row'.errors = row.errors /\ since' \in {since, 0}
    BY <1>6 DEF UpdateCommit, TypeOK, Row
  <2>2. QED
    BY <1>6, <2>1 DEF UpdateCommit, Answer
<1>7. ASSUME NEW h \in Handlers, ReconnectCommit(h) PROVE CountInv'
  <2>1. CASE Exists
    <3>1. row'.errors = Cleared(req[h].clean) /\ since' = 0
      BY <1>7, <2>1 DEF ReconnectCommit, TypeOK, Row
    <3>2. row'.errors \in {row.errors, 0}
      BY <3>1 DEF Cleared
    <3>3. QED
      BY <1>7, <3>1, <3>2 DEF ReconnectCommit, Answer
  <2>2. CASE ~Exists
    BY <1>7, <2>2 DEF ReconnectCommit, Answer
  <2>3. QED
    BY <2>1, <2>2
<1>8. CASE PollRead
  <2>1. poll'.seen = row
    BY <1>8 DEF PollRead, NoPoll
  <2>2. QED
    BY <1>8, <2>1 DEF PollRead, history
<1>9. CASE ListFolder
  <2>1. poll'.seen = poll.seen /\ pc # "idle"
    BY <1>9 DEF ListFolder, TypeOK
  <2>2. QED
    BY <1>9, <2>1 DEF ListFolder, history
<1>10. CASE StartToken
  <2>1. poll'.seen = poll.seen /\ pc # "idle"
    BY <1>10 DEF StartToken, TypeOK
  <2>2. QED
    BY <1>10, <2>1 DEF StartToken, history
<1>11. CASE ListChanges \/ ListEvents
  <2>1. poll'.seen = poll.seen /\ pc # "idle"
    BY <1>11 DEF ListChanges, ListEvents, Listed, TypeOK
  <2>2. UNCHANGED <<row, history>>
    BY <1>11 DEF ListChanges, ListEvents, Listed
  <2>3. QED
    BY <2>1, <2>2 DEF history
<1>12. CASE PollCommit
  <2>1. PICK batch \in Batches : Commit(batch, TokenAfter(batch), NoErrors)
    BY <1>12 DEF PollCommit
  <2>2. /\ row'.errors = NoErrors /\ fails' = 0 /\ since' = 0
        /\ pc # "idle" /\ pc' = "idle"
    BY <2>1 DEF Commit, Stop, TypeOK, Row
  <2>3. NoErrors = 0
    BY <2>2 DEF NoErrors, Cleared
  <2>4. QED
    BY <2>2, <2>3
<1>13. CASE PollFail
  <2>1. row'.errors = poll.seen.errors + 1
    BY <1>13 DEF PollFail, TypeOK, Row
  <2>2. QED
    BY <1>13, <2>1 DEF PollFail, Stop
<1>14. CASE PollLost
  BY <1>14 DEF PollLost, Stop, history
<1>15. CASE Restart
  BY <1>15 DEF Restart, Stop, history
<1>16. CASE UNCHANGED vars
  BY <1>16 DEF vars, history
<1>17. QED
  BY <1>1, <1>2, <1>3, <1>4, <1>5, <1>6, <1>7, <1>8, <1>9, <1>10, <1>11,
     <1>12, <1>13, <1>14, <1>15, <1>16 DEF Next, Lists

\* error_count never exceeds the polls that failed in a row nor misses one
\* since the user last intervened.
THEOREM CountCorrect == Spec => []ErrorCountIsTrue
<1>1. Init => CountInv
  BY DEF Init, CountInv, ErrorCountIsTrue, NoRow
<1>2. TypeOK /\ TypeOK' /\ CountInv /\ [Next]_vars => CountInv'
  BY CountStep
<1>3. CountInv => ErrorCountIsTrue
  BY DEF CountInv
<1>4. QED
  BY <1>1, <1>2, <1>3, TypeCorrect, PTL DEF Spec

---------------------------------------------------------------------------
(* Suspension *)

\* A poll that read "error" and has seen no intervention since finds the
\* source in error still, or deleted.
SuspendInv ==
  /\ ThreeFailuresSuspend
  /\ pc # "idle" /\ since >= 1 /\ poll.seen.status = "error" =>
       row.status \notin {"active", "paused"}

LEMMA SuspendStep ==
  ASSUME TypeOK, CountInv, SuspendInv, [Next]_vars
  PROVE  SuspendInv'
<1> USE SourceMonitorAssumption DEF SuspendInv, ThreeFailuresSuspend
<1> /\ row.errors \in Nat /\ poll.seen.errors \in Nat
    /\ since \in Nat /\ MaxErrorCount \in Nat
  BY DEF TypeOK, Row
<1>1. CASE Publish
  <2>1. poll'.seen = poll.seen
    BY <1>1 DEF Publish, TypeOK
  <2>2. QED
    BY <1>1, <2>1 DEF Publish, history
<1>2. CASE Expire
  BY <1>2 DEF Expire, history
<1>3. CASE CreateSource
  <2>1. since = 0
    BY <1>3 DEF CreateSource, NoRow, CountInv, ErrorCountIsTrue
  <2>2. QED
    BY <1>3, <2>1 DEF CreateSource, history
<1>4. CASE DeleteSource
  <2>1. row'.status = "deleted"
    BY <1>4 DEF DeleteSource, TypeOK, Row
  <2>2. QED
    BY <2>1
<1>5. ASSUME NEW h \in Handlers, NEW op, RequestRead(h, op) PROVE SuspendInv'
  BY <1>5 DEF RequestRead, history
<1>6. ASSUME NEW h \in Handlers, UpdateCommit(h) PROVE SuspendInv'
  BY <1>6 DEF UpdateCommit, Answer
<1>7. ASSUME NEW h \in Handlers, ReconnectCommit(h) PROVE SuspendInv'
  BY <1>7 DEF ReconnectCommit, Answer
<1>8. CASE PollRead
  <2>1. poll'.seen = row
    BY <1>8 DEF PollRead, NoPoll
  <2>2. QED
    BY <1>8, <2>1 DEF PollRead, history
<1>9. CASE ListFolder
  <2>1. poll'.seen = poll.seen /\ pc # "idle"
    BY <1>9 DEF ListFolder, TypeOK
  <2>2. QED
    BY <1>9, <2>1 DEF ListFolder, history
<1>10. CASE StartToken
  <2>1. poll'.seen = poll.seen /\ pc # "idle"
    BY <1>10 DEF StartToken, TypeOK
  <2>2. QED
    BY <1>10, <2>1 DEF StartToken, history
<1>11. CASE ListChanges \/ ListEvents
  <2>1. poll'.seen = poll.seen /\ pc # "idle"
    BY <1>11 DEF ListChanges, ListEvents, Listed, TypeOK
  <2>2. UNCHANGED <<row, history>>
    BY <1>11 DEF ListChanges, ListEvents, Listed
  <2>3. QED
    BY <2>1, <2>2 DEF history
<1>12. CASE PollCommit
  <2>1. since' = 0 /\ pc' = "idle"
    BY <1>12 DEF PollCommit, Commit, Stop
  <2>2. QED
    BY <2>1
<1>13. CASE PollFail
  <2>1. pc # "idle" /\ pc' = "idle" /\ since' = since + 1
    BY <1>13 DEF PollFail, Stop
  <2>2. since <= poll.seen.errors
    BY <2>1 DEF CountInv
  <2>3. SUFFICES ASSUME since' >= MaxErrorCount
                 PROVE  row'.status \notin {"active", "paused"}
    BY <2>1
  <2>4. poll.seen.errors + 1 >= MaxErrorCount /\ since >= 1
    BY <2>1, <2>2, <2>3
  <2>5. CASE poll.seen.status = "error"
    <3>1. row'.status = row.status
      BY <1>13, <2>5 DEF PollFail, TypeOK, Row
    <3>2. QED
      BY <2>1, <2>4, <2>5, <3>1
  <2>6. CASE poll.seen.status # "error"
    <3>1. row'.status = "error"
      BY <1>13, <2>4, <2>6 DEF PollFail, TypeOK, Row
    <3>2. QED
      BY <3>1
  <2>7. QED
    BY <2>5, <2>6
<1>14. CASE PollLost
  BY <1>14 DEF PollLost, Stop, history
<1>15. CASE Restart
  BY <1>15 DEF Restart, Stop, history
<1>16. CASE UNCHANGED vars
  BY <1>16 DEF vars, history
<1>17. QED
  BY <1>1, <1>2, <1>3, <1>4, <1>5, <1>6, <1>7, <1>8, <1>9, <1>10, <1>11,
     <1>12, <1>13, <1>14, <1>15, <1>16 DEF Next, Lists

\* MAX_ERROR_COUNT failures in a row on which the user did not intervene
\* leave the source neither active nor paused.
THEOREM SuspendCorrect == Spec => []ThreeFailuresSuspend
<1>1. Init => CountInv /\ SuspendInv
  BY SourceMonitorAssumption
  DEF Init, CountInv, SuspendInv, ErrorCountIsTrue, ThreeFailuresSuspend, NoRow
<1>2. /\ TypeOK /\ TypeOK' /\ CountInv /\ SuspendInv /\ [Next]_vars
      => CountInv' /\ SuspendInv'
  BY CountStep, SuspendStep
<1>3. SuspendInv => ThreeFailuresSuspend
  BY DEF SuspendInv
<1>4. QED
  BY <1>1, <1>2, <1>3, TypeCorrect, PTL DEF Spec

---------------------------------------------------------------------------
(* The sync token *)

\* What a poll has listed by now covers what its token will pass.
Covered ==
  /\ pc = "listing" => Span(1) \subseteq poll.files \cup poll.left
  /\ pc = "listed" /\ poll.token # NoToken =>
       /\ row.token <= poll.token /\ poll.token <= published + 1
       /\ \A f \in Files : row.token <= f /\ f < poll.token =>
                             f \in poll.files \cup poll.left

TokenInv ==
  /\ row.token <= published + 1
  /\ pc # "idle" => poll.seen.token = row.token
  /\ Covered

LEMMA ListedCovers ==
  ASSUME TypeOK, TokenInv, pc # "idle",
         NEW first \in Nat, first <= poll.seen.token \/ first = 1,
         NEW page \in SUBSET Span(first), NEW order,
         NEW token \in {published + 1, NoToken},
         Listed(Span(first), page, order, token)
  PROVE  TokenInv'
<1> row.token \in Nat /\ published \in Nat
  BY DEF TypeOK, Row
<1>1. /\ poll'.seen = poll.seen /\ poll'.token = token
      /\ poll'.files = page /\ poll'.left = Span(first) \ page
  BY DEF Listed, TypeOK
<1>2. /\ pc' = "listed" /\ row' = row /\ published' = published
  BY DEF Listed, provider
<1>3. poll'.files \cup poll'.left = Span(first)
  BY <1>1
<1>4. ASSUME NEW f \in Files, row.token <= f, f < published + 1
      PROVE  f \in Span(first)
  <2>1. f \in Nat /\ 1 <= f
    BY DEF Files
  <2>2. first <= f
    BY <1>4, <2>1 DEF TokenInv
  <2>3. QED
    BY <1>4, <2>1, <2>2 DEF Span
<1>5. QED
  BY <1>1, <1>2, <1>3, <1>4 DEF TokenInv, Covered, NoToken

\* A commit stores the token of a listing of which nothing was cut, or none.
LEMMA CommitMoves ==
  ASSUME TypeOK, TokenInv, NEW batch \in Batches,
         Commit(batch, TokenAfter(batch), NoErrors)
  PROVE  /\ row.token <= row'.token /\ row'.token <= published + 1
         /\ \A f \in Files : row.token <= f /\ f < row'.token =>
                               f \in handed' \cup unlisted'
<1> row.token \in Nat /\ published \in Nat /\ poll.token \in Nat
  BY DEF TypeOK, Row
<1>1. row'.token = TokenAfter(batch) /\ pc = "listed"
  BY DEF Commit, TypeOK, Row
<1>2. CASE Moves(batch)
  <2>1. /\ row'.token = poll.token /\ poll.token # NoToken
        /\ batch = poll.files
    BY <1>1, <1>2 DEF TokenAfter, Moves
  <2>2. row.token <= poll.token /\ poll.token <= published + 1
    BY <1>1, <2>1 DEF TokenInv, Covered
  <2>3. poll.files \subseteq handed'
    BY <2>1 DEF Commit
  <2>4. poll.token # row.token => poll.left \subseteq unlisted'
    BY <1>1, <2>1 DEF Commit
  <2>5. ASSUME NEW f \in Files, row.token <= f, f < poll.token
        PROVE  f \in handed' \cup unlisted'
    <3>1. f \in poll.files \cup poll.left
      BY <1>1, <2>1, <2>5 DEF TokenInv, Covered
    <3>2. poll.token # row.token
      BY <2>5 DEF Files
    <3>3. QED
      BY <2>3, <2>4, <3>1, <3>2
  <2>6. QED
    BY <2>1, <2>2, <2>5
<1>3. CASE ~Moves(batch)
  <2>1. row'.token = row.token
    BY <1>1, <1>3 DEF TokenAfter
  <2>2. \A f \in Files : ~(row.token <= f /\ f < row.token)
    BY DEF Files
  <2>3. QED
    BY <2>1, <2>2 DEF TokenInv
<1>4. QED
  BY <1>2, <1>3

\* Only a commit of a poll writes the token.
LEMMA TokenStays ==
  ASSUME TypeOK, [Next]_vars, ~PollCommit
  PROVE  row'.token = row.token /\ UNCHANGED <<handed, unlisted>>
<1>1. CASE CreateSource
  BY <1>1 DEF CreateSource, NoRow, history
<1>2. CASE DeleteSource
  BY <1>2 DEF DeleteSource, TypeOK, Row, history
<1>3. ASSUME NEW h \in Handlers, UpdateCommit(h) \/ ReconnectCommit(h)
      PROVE  row'.token = row.token /\ UNCHANGED <<handed, unlisted>>
  BY <1>3 DEF UpdateCommit, ReconnectCommit, Answer, TypeOK, Row
<1>4. CASE PollFail
  BY <1>4 DEF PollFail, TypeOK, Row
<1>5. ASSUME NEW h \in Handlers, NEW op, RequestRead(h, op)
      PROVE  row'.token = row.token /\ UNCHANGED <<handed, unlisted>>
  BY <1>5 DEF RequestRead, history
<1>6. CASE Publish \/ Expire \/ PollRead \/ PollLost \/ Restart
  BY <1>6 DEF Publish, Expire, PollRead, PollLost, Restart, history
<1>7. CASE Lists
  BY <1>7 DEF Lists, ListFolder, StartToken, ListChanges, ListEvents, Listed,
              history
<1>8. CASE UNCHANGED vars
  BY <1>8 DEF vars, history
<1>9. QED
  BY <1>1, <1>2, <1>3, <1>4, <1>5, <1>6, <1>7, <1>8 DEF Next

LEMMA TokenStep ==
  ASSUME TypeOK, TokenInv, [Next]_vars
  PROVE  TokenInv'
<1> /\ row.token \in Nat /\ published \in Nat /\ published <= MaxFiles
    /\ poll.token \in Nat
  BY SourceMonitorAssumption DEF TypeOK, Row
<1>1. CASE Publish
  <2>1. /\ row' = row /\ pc' = pc /\ published' = published + 1
        /\ poll'.seen = poll.seen /\ poll'.token = poll.token
        /\ poll'.files = poll.files
    BY <1>1 DEF Publish, TypeOK
  <2>2. CASE pc = "listing"
    <3>1. poll'.left = poll.left \cup {published + 1}
      BY <1>1, <2>2 DEF Publish, TypeOK
    <3>2. Span(1)' \subseteq Span(1) \cup {published + 1}
      BY <2>1 DEF Span
    <3>3. QED
      BY <2>1, <2>2, <3>1, <3>2 DEF TokenInv, Covered
  <2>3. CASE pc # "listing"
    <3>1. poll' = poll
      BY <1>1, <2>3 DEF Publish
    <3>2. QED
      BY <2>1, <2>3, <3>1 DEF TokenInv, Covered
  <2>4. QED
    BY <2>2, <2>3
<1>2. ASSUME UNCHANGED <<published, pc, poll>>, row'.token = row.token
      PROVE  TokenInv'
  BY <1>2 DEF TokenInv, Covered, Span
<1>3. CASE PollRead
  <2>1. poll'.seen = row /\ pc' = "polling" /\ UNCHANGED <<row, published>>
    BY <1>3 DEF PollRead, NoPoll, provider
  <2>2. QED
    BY <2>1 DEF TokenInv, Covered
<1>4. CASE ListFolder
  <2>1. PICK page \in Heads(PageSize, Span(1),
                            IF kind = "gmail" THEN "newest" ELSE "any") :
          poll' = [poll EXCEPT !.files = page, !.left = Span(1) \ page,
                     !.order = IF kind = "gmail" THEN "newest" ELSE "any"]
    BY <1>4 DEF ListFolder
  <2>2. /\ poll'.files = page /\ poll'.left = Span(1) \ page
        /\ poll'.seen = poll.seen
    BY <2>1 DEF TypeOK
  <2>3. /\ pc = "polling" /\ pc' = "listing"
        /\ row' = row /\ published' = published
    BY <1>4 DEF ListFolder, provider
  <2>4. Span(1)' \subseteq poll'.files \cup poll'.left
    BY <2>2, <2>3 DEF Span
  <2>5. QED
    BY <2>2, <2>3, <2>4 DEF TokenInv, Covered
<1>5. CASE StartToken
  <2>1. /\ poll'.seen = poll.seen /\ poll'.token = published + 1
        /\ poll'.files = poll.files /\ poll'.left = poll.left
    BY <1>5 DEF StartToken, TypeOK
  <2>2. /\ pc = "listing" /\ pc' = "listed"
        /\ row' = row /\ published' = published
    BY <1>5 DEF StartToken, provider
  <2>3. ASSUME NEW f \in Files, f < published + 1
        PROVE  f \in poll.files \cup poll.left
    <3>1. f \in Span(1)
      BY <2>3 DEF Files, Span
    <3>2. QED
      BY <2>2, <3>1 DEF TokenInv, Covered
  <2>4. QED
    BY <2>1, <2>2, <2>3 DEF TokenInv, Covered
<1>6. CASE ListChanges
  <2>1. PICK page \in Heads(IF kind = "gmail" THEN PageSize ELSE published,
                            Span(poll.seen.token) \ elsewhere, "oldest") :
          Listed(Span(poll.seen.token), page, "oldest", published + 1)
    BY <1>6 DEF ListChanges
  <2>2. page \subseteq Span(poll.seen.token)
    BY <2>1, HeadsAreParts
  <2>3. poll.seen.token \in Nat /\ pc # "idle"
    BY <1>6 DEF ListChanges, TypeOK, Row
  <2>4. QED
    BY <2>1, <2>2, <2>3, ListedCovers
<1>7. CASE ListEvents
  <2> DEFINE first == IF poll.seen.token = NoToken \/ expired
                      THEN 1 ELSE poll.seen.token
  <2>1. PICK page \in Heads(PageSize, Span(first), "any") :
          Listed(Span(first), page, "any",
                 IF page = Span(first) THEN published + 1 ELSE NoToken)
    BY <1>7 DEF ListEvents
  <2>2. page \subseteq Span(first)
    BY <2>1, HeadsAreParts
  <2>3. /\ first \in Nat /\ pc # "idle"
        /\ first <= poll.seen.token \/ first = 1
    BY <1>7 DEF ListEvents, TypeOK, Row
  <2> HIDE DEF first
  <2>4. QED
    BY <2>1, <2>2, <2>3, ListedCovers
<1>8. CASE PollCommit
  <2>1. PICK batch \in Batches : Commit(batch, TokenAfter(batch), NoErrors)
    BY <1>8 DEF PollCommit
  <2>2. pc' = "idle" /\ published' = published
    BY <2>1 DEF Commit, Stop
  <2>3. QED
    BY <2>1, <2>2, CommitMoves DEF TokenInv, Covered
<1>9. ASSUME Stop, UNCHANGED provider, row'.token = row.token
      PROVE  TokenInv'
  BY <1>9 DEF Stop, provider, TokenInv, Covered
<1>10. CASE PollFail \/ PollLost \/ Restart
  <2>1. row'.token = row.token
    BY <1>10 DEF PollFail, PollLost, Restart, TypeOK, Row
  <2>2. QED
    BY <1>9, <1>10, <2>1 DEF PollFail, PollLost, Restart
<1>11. ASSUME NEW h \in Handlers, UpdateCommit(h) \/ ReconnectCommit(h)
       PROVE  TokenInv'
  BY <1>2, <1>11
  DEF UpdateCommit, ReconnectCommit, Answer, provider, TypeOK, Row
<1>12. ASSUME NEW h \in Handlers, NEW op, RequestRead(h, op) PROVE TokenInv'
  BY <1>2, <1>12 DEF RequestRead, provider
<1>13. CASE Expire
  BY <1>2, <1>13 DEF Expire
<1>14. CASE CreateSource
  <2>1. row'.token = row.token
    BY <1>14 DEF CreateSource, NoRow
  <2>2. QED
    BY <1>2, <1>14, <2>1 DEF CreateSource, provider
<1>15. CASE DeleteSource
  <2>1. row'.token = row.token
    BY <1>15 DEF DeleteSource, TypeOK, Row
  <2>2. QED
    BY <1>2, <1>15, <2>1 DEF DeleteSource, provider
<1>16. CASE UNCHANGED vars
  BY <1>2, <1>16 DEF vars, provider
<1>17. QED
  BY <1>1, <1>3, <1>4, <1>5, <1>6, <1>7, <1>8, <1>10, <1>11, <1>12, <1>13,
     <1>14, <1>15, <1>16 DEF Next, Lists

LEMMA PassedStep ==
  ASSUME TypeOK, TokenInv, PassedFilesWereHanded, [Next]_vars
  PROVE  PassedFilesWereHanded' /\ row'.token >= row.token
<1> row.token \in Nat
  BY DEF TypeOK, Row
<1>1. CASE PollCommit
  <2>1. PICK batch \in Batches : Commit(batch, TokenAfter(batch), NoErrors)
    BY <1>1 DEF PollCommit
  <2>2. handed \cup unlisted \subseteq handed' \cup unlisted'
    BY <2>1 DEF Commit
  <2>3. /\ row.token <= row'.token
        /\ \A f \in Files : row.token <= f /\ f < row'.token =>
                              f \in handed' \cup unlisted'
    BY <2>1, CommitMoves
  <2>4. QED
    BY <2>2, <2>3 DEF PassedFilesWereHanded, Files
<1>2. CASE ~PollCommit
  BY <1>2, TokenStays DEF PassedFilesWereHanded
<1>3. QED
  BY <1>1, <1>2

LEMMA TokenStarts == Init => TokenInv /\ PassedFilesWereHanded
BY DEF Init, TokenInv, Covered, PassedFilesWereHanded, NoRow, NoToken, Files

\* The token never passes a file that was neither handed to the caller nor
\* left out of its listing by the provider's adapter.
THEOREM PassedCorrect == Spec => []PassedFilesWereHanded
<1>1. /\ TypeOK /\ TokenInv /\ PassedFilesWereHanded /\ [Next]_vars
      => TokenInv' /\ PassedFilesWereHanded'
  BY TokenStep, PassedStep
<1>2. QED
  BY <1>1, TokenStarts, TypeCorrect, PTL DEF Spec

\* The token never goes back.
THEOREM TokenMonotone == Spec => TokenNeverGoesBack
<1>1. /\ TypeOK /\ TokenInv /\ PassedFilesWereHanded /\ [Next]_vars
      => TokenInv' /\ PassedFilesWereHanded' /\ [row'.token >= row.token]_vars
  BY TokenStep, PassedStep
<1>2. QED
  BY <1>1, TokenStarts, TypeCorrect, PTL DEF Spec, TokenNeverGoesBack
===========================================================================
