--------------------------- MODULE SourceMonitor ---------------------------
(***************************************************************************)
(* Polling of one monitored source: SourceMonitorService, the interval job *)
(* of SourcePollScheduler, the sources API, and the ways the Google Drive, *)
(* Gmail and Google Calendar adapters list what is new.                    *)
(*                                                                         *)
(* The provider is a feed of files (attachments, events) numbered in the   *)
(* order they appear; a sync token is the number of the first file it has  *)
(* not passed.  Only Drive's changes are read page after page, every other *)
(* listing stops after one page.  A mailbox is first listed by all labels  *)
(* of its source, afterwards by the first of them alone.  The mailbox and  *)
(* the calendar forget an old token.                                       *)
(*                                                                         *)
(* A poll reads the row, lists files, and commits what follows from the    *)
(* row it read; requests of the user run between these steps.  A commit    *)
(* writes only the columns whose value differs from the one read.          *)
(* APScheduler runs one instance of a job at a time and the server has one *)
(* process, so there is one poll at a time.                                *)
(***************************************************************************)
EXTENDS Integers, FiniteSets

CONSTANTS
  Handlers,      \* concurrent requests (a bound)
  MaxFiles,      \* files that ever appear at the provider (a bound)
  Unlabelled,    \* sets of files that may lack the first label (a bound)
  MaxFailures,   \* consecutive failed polls (a bound)
  BatchSize,     \* MAX_FILES_PER_CYCLE (10 in the code)
  PageSize,      \* files of a page (Gmail 50, Drive and Calendar 100)
  MaxErrorCount, \* MAX_ERROR_COUNT (3 in the code)
  MaxCrashes     \* restarts of a working process (a bound)

ASSUME SourceMonitorAssumption ==
  /\ MaxFiles \in Nat /\ MaxFailures \in Nat
  /\ Unlabelled \subseteq SUBSET (1 .. MaxFiles)
  /\ BatchSize \in Nat \ {0} /\ PageSize \in Nat \ {0}
  /\ MaxErrorCount \in Nat \ {0, 1} /\ MaxCrashes \in Nat

VARIABLES
  row,        \* the monitored_sources row
  job,        \* the scheduler holds an interval job for it
  kind,       \* its provider; never changes
  elsewhere,  \* files of a mailbox without the first label; never changes
  published,  \* files at the provider
  expired,    \* the provider no longer knows the row's token
  pc, poll,   \* the poll's control point and local variables
  req,        \* each request's operation and the row it read
  handed,     \* history: files of the changesets poll_source returned
  unlisted,   \* history: files passed by a token whose listing left them out
  fails,      \* history: failed polls since the last success
  since,      \* ... and since the user last changed or reconnected it
  crashes     \* restarts of a working process so far

provider == <<kind, elsewhere, published, expired>>
history  == <<handed, unlisted, fails, since>>
vars     == <<row, job, provider, pc, poll, req, history, crashes>>

Files    == 1 .. MaxFiles
Kinds    == {"drive", "gmail", "calendar"}
NoToken  == 0
Chosen   == {"active", "error", "paused"}
Row      == [status : Chosen \cup {"none", "deleted"}, token : Nat,
             errors : Nat]
NoRow    == [status |-> "none", token |-> NoToken, errors |-> 0]
Exists   == row.status \in Chosen
NoPoll   == [seen |-> NoRow, files |-> {}, order |-> "oldest",
             token |-> NoToken, left |-> {}]
NoReq    == [op |-> "none", status |-> "none", clean |-> FALSE]

Init ==
  /\ row = NoRow /\ job = FALSE
  /\ kind \in Kinds
  /\ elsewhere \in IF kind = "gmail" THEN Unlabelled ELSE {{}}
  /\ published = 0 /\ expired = FALSE
  /\ pc = "idle" /\ poll = NoPoll
  /\ req = [h \in Handlers |-> NoReq]
  /\ handed = {} /\ unlisted = {}
  /\ fails = 0 /\ since = 0 /\ crashes = 0

---------------------------------------------------------------------------
(* The provider *)

Publish ==
  /\ published < MaxFiles
  /\ published' = published + 1
  /\ poll' = IF pc = "listing"
             THEN [poll EXCEPT !.left = @ \cup {published + 1}] ELSE poll
  /\ UNCHANGED <<row, job, kind, elsewhere, expired, pc, req, history, crashes>>

\* A history id (404) or an events token (410) is kept for some time only.
Expire ==
  /\ kind # "drive" /\ row.token # NoToken /\ ~expired
  /\ expired' = TRUE
  /\ UNCHANGED <<row, job, kind, elsewhere, published, pc, poll, req, history,
                 crashes>>

---------------------------------------------------------------------------
(* The sources API *)

\* No job is registered: only the start of the process does that.
CreateSource ==
  /\ row = NoRow
  /\ row' = [NoRow EXCEPT !.status = "active"]
  /\ UNCHANGED <<job, provider, pc, poll, req, history, crashes>>

\* The job stays in the scheduler.
DeleteSource ==
  /\ Exists
  /\ row' = [row EXCEPT !.status = "deleted"]
  /\ UNCHANGED <<job, provider, pc, poll, req, history, crashes>>

\* A PUT of a status, or a reconnect, reads the row; only the latter's
\* writes depend on whether errors were counted.
RequestRead(h, op) ==
  /\ req[h] = NoReq
  /\ Exists
  /\ req' = [req EXCEPT ![h] = [op |-> op, status |-> row.status,
       clean |-> op = "reconnect" /\ row.errors = 0]]
  /\ UNCHANGED <<row, job, provider, pc, poll, history, crashes>>

Answer(h) ==
  /\ req' = [req EXCEPT ![h] = NoReq]
  /\ UNCHANGED <<job, provider, pc, poll, handed, unlisted, fails, crashes>>

UpdateCommit(h) ==
  LET r == req[h] IN
  /\ r.op \in Chosen
  /\ IF Exists /\ r.op # r.status
     THEN /\ row' = [row EXCEPT !.status = r.op]
          /\ since' = 0
     ELSE UNCHANGED <<row, since>>
  /\ Answer(h)

\* What is left of a column set to 0, given that it was read as 0 or not, or
\* of a status "error" set to "active", given the row that was read.
Cleared(clean)  == IF clean THEN row.errors ELSE 0
Recovered(seen) == IF seen.status = "error" THEN "active" ELSE row.status

ReconnectCommit(h) ==
  LET r == req[h] IN
  /\ r.op = "reconnect"
  /\ IF Exists
     THEN /\ row' = [row EXCEPT !.status = Recovered(r),
                                !.errors = Cleared(r.clean)]
          /\ since' = 0
     ELSE UNCHANGED <<row, since>>
  /\ Answer(h)

---------------------------------------------------------------------------
(* The poll *)

\* Mutant of PollRead: a source in error is not polled.
PollReadActive ==
  /\ pc = "idle" /\ job
  /\ row.status = "active"
  /\ pc' = "polling"
  /\ poll' = [NoPoll EXCEPT !.seen = row]
  /\ UNCHANGED <<row, job, provider, req, history, crashes>>

\* The job fires; on a missing or paused source poll_source raises before
\* it changes anything.
PollRead ==
  /\ pc = "idle" /\ job
  /\ row.status \in {"active", "error"}
  /\ pc' = "polling"
  /\ poll' = [NoPoll EXCEPT !.seen = row]
  /\ UNCHANGED <<row, job, provider, req, history, crashes>>

Span(first) == first .. published
Held(n, S)  == IF Cardinality(S) < n THEN Cardinality(S) ELSE n

\* The first n of the files S: the oldest, the newest, or any, in an order
\* (of a folder, of the dates of events) that their appearance does not tell.
Heads(n, S, order) ==
  {T \in SUBSET S :
     /\ Cardinality(T) = Held(n, S)
     /\ order # "any" =>
          \A f \in T, g \in S \ T : IF order = "newest" THEN f > g ELSE f < g}

\* A changeset of one response: all it passes, what it holds, the token.
Listed(passed, page, order, token) ==
  /\ pc' = "listed"
  /\ poll' = [poll EXCEPT !.files = page, !.order = order, !.token = token,
                          !.left = passed \ page]
  /\ UNCHANGED <<row, job, provider, req, history, crashes>>

\* Without a token the adapter lists a page of the folder, or the newest of
\* the mailbox, then asks where the feed stands.  A history that is too old
\* starts the mailbox anew.
ListFolder ==
  LET order == IF kind = "gmail" THEN "newest" ELSE "any" IN
  /\ pc = "polling" /\ kind # "calendar"
  /\ poll.seen.token = NoToken \/ expired
  /\ pc' = "listing"
  /\ \E page \in Heads(PageSize, Span(1), order) :
       poll' = [poll EXCEPT !.files = page, !.left = Span(1) \ page,
                            !.order = order]
  /\ UNCHANGED <<row, job, provider, req, history, crashes>>

StartToken ==
  /\ pc = "listing"
  /\ pc' = "listed"
  /\ poll' = [poll EXCEPT !.token = published + 1]
  /\ UNCHANGED <<row, job, provider, req, history, crashes>>

\* The mailbox's answer holds one page of the records under the first label
\* and its present history id, which passes all others.
ListChanges ==
  /\ pc = "polling" /\ kind # "calendar"
  /\ poll.seen.token # NoToken /\ ~expired
  /\ LET new == Span(poll.seen.token) IN
     \E page \in Heads(IF kind = "gmail" THEN PageSize ELSE published,
                      new \ elsewhere, "oldest") :
       Listed(new, page, "oldest", published + 1)

\* Only the last page of events has a token; a token that is refused is
\* dropped and the events are listed without one.
ListEvents ==
  /\ pc = "polling" /\ kind = "calendar"
  /\ LET new == Span(IF poll.seen.token = NoToken \/ expired
                     THEN 1 ELSE poll.seen.token) IN
     \E page \in Heads(PageSize, new, "any") :
       Listed(new, page, "any", IF page = new THEN published + 1 ELSE NoToken)

Stop == pc' = "idle" /\ poll' = NoPoll

\* The first MAX_FILES_PER_CYCLE files of the changeset, and whether the
\* token moves: if there is one and nothing was cut.
Batches      == Heads(BatchSize, poll.files, poll.order)
Moves(batch) == batch = poll.files /\ poll.token # NoToken

Commit(batch, token, errors) ==
  /\ pc = "listed" /\ Exists
  /\ row' = [row EXCEPT !.token = token, !.errors = errors,
                        !.status = Recovered(poll.seen)]
  /\ handed' = handed \cup batch
  /\ unlisted' = IF token # row.token THEN unlisted \cup poll.left
                 ELSE unlisted
  /\ expired' = (expired /\ ~Moves(batch))
  /\ fails' = 0 /\ since' = 0
  /\ Stop
  /\ UNCHANGED <<job, kind, elsewhere, published, req, crashes>>

TokenAfter(batch) == IF Moves(batch) THEN poll.token ELSE row.token
NoErrors          == Cleared(poll.seen.errors = 0)

\* Mutants of PollCommit: the new token is stored although files were cut,
\* a listing without a token clears the row's, or errors are not reset.
PollCommitToken == \E batch \in Batches : Commit(batch,
  IF poll.token # NoToken THEN poll.token ELSE row.token, NoErrors)
PollCommitClear == \E batch \in Batches :
  Commit(batch, IF Moves(batch) THEN poll.token ELSE NoToken, NoErrors)
PollCommitErrors == \E batch \in Batches :
  Commit(batch, TokenAfter(batch), row.errors)

PollCommit == \E batch \in Batches : Commit(batch, TokenAfter(batch), NoErrors)

\* Mutant of PollFail: the source is suspended one failure late.
PollFailLate ==
  /\ pc \in {"polling", "listing"} /\ Exists
  /\ fails < MaxFailures
  /\ row' = [row EXCEPT
       !.errors = poll.seen.errors + 1,
       !.status = IF poll.seen.errors + 1 > MaxErrorCount THEN "error" ELSE @]
  /\ fails' = fails + 1 /\ since' = since + 1
  /\ Stop
  /\ UNCHANGED <<job, provider, req, handed, unlisted, crashes>>

\* list_changes raises.
PollFail ==
  /\ pc \in {"polling", "listing"} /\ Exists
  /\ fails < MaxFailures
  /\ row' = [row EXCEPT
       !.errors = poll.seen.errors + 1,
       !.status = IF /\ poll.seen.errors + 1 >= MaxErrorCount
                     /\ poll.seen.status # "error"
                  THEN "error" ELSE @]
  /\ fails' = fails + 1 /\ since' = since + 1
  /\ Stop
  /\ UNCHANGED <<job, provider, req, handed, unlisted, crashes>>

\* The row is gone when the poll wants to commit: both commits fail.
PollLost ==
  /\ pc # "idle" /\ ~Exists
  /\ Stop
  /\ UNCHANGED <<row, job, provider, req, history, crashes>>

---------------------------------------------------------------------------
\* The start of the process registers the sources that are then active, or
\* none when it fails to read them: lifespan swallows the error.  It crashes
\* at any moment, a few times, and is restarted for a source it does not
\* poll.
Restart ==
  /\ \/ crashes < MaxCrashes /\ crashes' = crashes + 1
     \/ ~job /\ row.status = "active" /\ UNCHANGED crashes
  /\ job' \in {row.status = "active", FALSE}
  /\ req' = [h \in Handlers |-> NoReq]
  /\ Stop
  /\ UNCHANGED <<row, provider, history>>

Lists == ListFolder \/ StartToken \/ ListChanges \/ ListEvents

Next ==
  \/ Publish \/ Expire \/ CreateSource \/ DeleteSource
  \/ \E h \in Handlers :
       \/ \E op \in Chosen \cup {"reconnect"} : RequestRead(h, op)
       \/ UpdateCommit(h) \/ ReconnectCommit(h)
  \/ PollRead \/ Lists \/ PollCommit \/ PollFail \/ PollLost
  \/ Restart

Spec == Init /\ [][Next]_vars

\* The scheduler fires a registered job again and again and the event loop
\* runs a poll on; a provider asked again and again at last answers.
Fairness ==
  /\ WF_vars(PollRead)
  /\ WF_vars(PollCommit \/ PollLost)
  /\ WF_vars(Lists \/ PollFail)
  /\ SF_vars(ListFolder \/ ListChanges \/ ListEvents)
  /\ SF_vars(StartToken)

FairSpec == Spec /\ Fairness

---------------------------------------------------------------------------
(* Properties *)

\* Every variable holds values of its type.
TypeOK ==
  /\ row \in Row /\ job \in BOOLEAN
  /\ kind \in Kinds /\ elsewhere \subseteq Files
  /\ published \in 0 .. MaxFiles /\ expired \in BOOLEAN
  /\ pc \in {"idle", "polling", "listing", "listed"}
  /\ poll \in [seen : Row, files : SUBSET Files,
               order : {"oldest", "newest", "any"}, token : Nat,
               left : SUBSET Files]
  /\ req \in [Handlers -> [op : Chosen \cup {"none", "reconnect"},
                          status : Chosen \cup {"none"}, clean : BOOLEAN]]
  /\ handed \subseteq Files /\ unlisted \subseteq Files
  /\ fails \in Nat /\ since \in Nat /\ crashes \in 0 .. MaxCrashes

\* error_count, written back from a stale read, still never exceeds the
\* polls that failed in a row, and never misses one since the user last
\* intervened: no source is suspended early or late.
ErrorCountIsTrue == since <= row.errors /\ row.errors <= fails

\* After three failures in a row on which the user did not intervene the
\* source is marked, whatever requests were in flight.
ThreeFailuresSuspend == since >= MaxErrorCount => row.status \notin {"active", "paused"}

\* The sync token never passes a file that was not handed to the caller,
\* save those that its listing left out: they appeared during a first
\* listing, were not on the one page of folder or mailbox that is read, or
\* came to a mailbox without the first of its source's labels.
PassedFilesWereHanded ==
  \A f \in Files : f < row.token => f \in handed \cup unlisted

\* The sync token never goes back, so a file once passed is not listed again,
\* not even after an expired token, when a source is listed anew.
TokenNeverGoesBack == [][row'.token >= row.token]_vars

\* The token, which the provider knows, has not passed all that appeared.
Behind == row.token # NoToken /\ row.token <= published /\ ~expired

\* The source is no longer polled.
Unpolled == row.status \notin {"active", "error"} \/ ~job

\* More appeared than one batch takes.
Overfull == published >= row.token + BatchSize

\* A token that lags behind the feed catches up in the end, so what appeared
\* is handed over, unless the source stops being polled or more files appear
\* than one batch takes: a batch that is cut is listed again and again.
CatchesUp == (Behind /\ job) ~> (~Behind \/ Unpolled \/ Overfull)
===========================================================================
