# AGC Agent: a TLA+ model of the assistant's stateful services

The *Admin & Compliance Guardian* is a FastAPI server (`backend/app`) with a
React client (`frontend/src`). It takes in documents, classifies them with a
language model, puts items with suggested actions into the user's inbox,
watches folders, mailboxes and calendars, escalates deadlines that nobody reacts
to, groups documents into dossiers, answers questions in a chat, and asks for a
human confirmation before anything leaves the system.

The modules here model the parts in which requests, background tasks and
timers share rows of one database. They are written from the source; line
numbers of every definition are in `PROJECT.json` under `map`.

What makes this code hard, and shapes every module:

- **One process, many tasks.** uvicorn runs one process with one event loop.
  Requests, APScheduler jobs and `asyncio` tasks interleave at every `await`.
- **Sessions without versions.** Each request has its own SQLAlchemy session
  (PostgreSQL, READ COMMITTED, `expire_on_commit=False`, no version columns,
  hardly any `FOR UPDATE`). A handler reads a row, checks it, awaits, and
  commits; the `UPDATE` names only the columns whose value differs from the
  one *read* and does not repeat the check. A row that was deleted meanwhile
  makes the commit fail.
- **Effects outside the transaction.** Notifications, files in the storage and
  scheduler jobs are not rolled back with it.
- **Nothing durable but the rows.** Jobs and background tasks are lost when
  the process stops.

An action of these modules is one stretch of a handler between two points at
which another task can change what it relies on; it makes every state change of
that stretch. Reads that decide nothing, formatting and logging are left out.

## Inventory

| Component | State | Operations | Interacts with | Hard behaviours |
|---|---|---|---|---|
| Escalation (`escalation_service.py`, `apscheduler_escalation_adapter.py`, `escalation_rules.py`, `domain/escalation.py`) | rules, executions with `current_step`, `step_history`, `next_step_job_id`; jobs in memory | activate, fire, execute step, resolve, cancel, rule CRUD | notifier, confirmations, scheduler, deadlines | stale history written back; user closes during a step; notification sent, transaction rolled back; jobs lost or misfired |
| Source monitor (`source_monitor_service.py`, `source_poll_scheduler.py`, `sources.py`, the Drive, Gmail and calendar adapters) | `monitored_sources` row: status, token, error count; interval jobs | poll, create, update, reconnect, delete, register jobs | provider, ingestion | batches cut, listings of one page, tokens of a feed that moves or that expire, three strikes against stale counts |
| Confirmations (`confirmation_flow_service.py`, `confirmations.py`) | confirmation and task rows | create, batch, approve, reject | escalation, reports, deadlines | check without lock, then lock at the flush |
| E-mail drafts (`email_drafts.py`) | draft row | create, edit, approve, send, delete | chat agent's tools | edit, approval and sending overlap |
| Folders (`folders.py`) | tree of folders, filing of documents | create, rename, move, delete | documents, dossiers, correlations (foreign keys) | walk up a tree that changes; cascades |
| Intake and inbox (`documents.py`, `document_pipeline.py`, `classification.py`, `triage_graph.py`, `inbox.py`) | documents, files, inbox items; background tasks | upload, pipeline, triage, act, dismiss, file, delete | storage, parser, language model, folders | file and row are two stores; tasks nobody records; untyped answers of the model |
| Dossiers (`dossier_service.py`) | dossiers, members, missing items | CRUD, auto-grouping | correlations, folders | lost updates of a JSON list; overlapping groupings; groups never joined |
| Correlations (`cross_document_service.py`, `cross_doc_graph.py`) | correlations, conflict items | store one or a batch, delete | inbox, dossiers | items committed one by one after the correlations |
| Chat agent (`agent.py`, `chat.py`, `chat_agent.py`, `atomic.py`, `AgentPage.tsx`) | sessions, messages; in the browser the active session and what is shown | create, rename, delete, switch, load, query | tools (drafts, tasks, inbox), language model | tools commit before the answer is checked; stale title; answers that arrive in another session |
| Real-time feed (`websocket_adapter.py`, `websocket.py`, `events.py`, the client's store and socket hook) | connections, last emission, held-back payload; in the browser the socket, its timers, the feed | connect, emit, disconnect, retry, remount, fall back to SSE, log out | ingestion | rate limit, merging, order, sockets that fail at either end |
| Ingestion (`ingest_pipeline_service.py`) | none | ingest a file, emit statuses | monitor, pipeline, feed | one step of several fails |
| Calendar ingestion (`calendar_ingest_service.py`) | proposals | propose import or update | deadlines, inbox | the same event twice |
| Deadlines (`deadlines.py`, `deadline_service.py`) | deadlines | CRUD, recurrence, reminders | escalation, calendar | dates that do not exist |
| Reports, clauses, workflows | single rows | generate, store | confirmations | little shared state |
| Risk engine, guardrails, trust, audit, adapters, accounts, client pages | tables, single statements, I/O | | | none that interleave |

`PROJECT.json` lists every part under `components` with what is left out of it,
and under `hazards` the lines at which this code is hard to test.

## Modules

| Module | Models | State and code |
|---|---|---|
| `Escalation` | the escalation service, rules API and APScheduler adapter | `rows`, `rules`, `confirms`: the tables; `pending`: ordinals of the jobs in the scheduler's memory (`minted` counts them); `sent`: notifications, which no rollback undoes; `pc`, `loc`: tasks. `ActivateCheck`/`ActivateCommit`, `JobFires`, `StepRead`, `StepOverrun`, `StepRaises`/`StepAct`, `StepCommitLast`/`StepCommitNext`/`StepFails` are the stretches of `activate_for_deadline` and `execute_current_step`; `RollsBack`, `CancelUndone` and `StepUndone` their failing transactions, before and after the scheduler was called |
| `EscalationLedger` | what an escalation promises: effects start in order, each is recorded once, after it started, and starts again only if its commit failed after the next job was scheduled | the abstract specification `Escalation` implements |
| `SourceMonitor` | one source of a kind: its row, its job, its poll, requests on it, a provider with a numbered feed, of a mailbox also the files without its first label (`elsewhere`) | `PollRead`, `ListFolder`+`StartToken` or `ListChanges` (folder, mailbox) or `ListEvents` (calendar), `PollCommit`/`PollFail`/`PollLost` are `poll_source`; `RequestRead`, `UpdateCommit`, `ReconnectCommit` the sources API; `Restart` the start of the process |
| `Confirmations` | approval and rejection with the row lock the autoflush takes | `DecideRead`, `DecideFlush`, `DecideCommit` |
| `EmailDrafts` | one draft under concurrent requests | `Begin` (read and check), then one commit action per request |
| `Folders` | the tree, homonym check, walk for cycles, cascades and refusals; `overtaken`, `unchecked`, `passed` are history | `MoveRead`, `WalkGoesOn`/`WalkRefuses`/`WalkEnds`, `MoveCommit`; `DeleteFolder` |
| `Intake` | upload, background task, inbox requests, filing and folder deletion | `Save`, `Insert`, `Start`; `Parse` ... `WriteRow`, `Triage`, `InsertItem`; `ItemRead`, `ActCommit`, `DismissCommit` |
| `Feed` | statuses of `ingest_file` through the adapter, the sockets and the client's hook into its store | `Begin`, `Downloaded`, `Analysed`, `Failed` are `ingest_file`; `HoldBack`/`SendOut`, `SendText`, `SendRaises` are `emit`; `Accept`, `Register`, `HandlerEnds` the endpoint; `Retry`, `RetryLoggedOut`, `Remount`, `OnOpen`, `OnClose`, `StreamFails` the hook; `LogOut`, `LogIn` the token in the browser's storage; `OnMessage` the store |
| `Dossiers` | correlations with their conflict items, dossiers with documents and missing items | `Store`, `Tell`/`TellFails` are `store_correlations_batch`; `GroupCorrelations`, `GroupLook`, `GroupCommit` the three stretches of `auto_group_correlated_documents`; `AddRead`/`AddCommit`, `RemoveRead`/`RemoveCommit`, `ItemsRead`/`ItemsCommit` read and write back a row; `Refused` is what a constraint of the database rejects |
| `Chat` | sessions, queries and the page of one browser | `Ask`, `Refuse`/`ModelAnswers`, `Tool`, `Finish`, `Commit` are the stretches of a query; `Submit`, `Open`, `LoadRead`, `LoadArrives`, `AnswerArrives`, `ErrorArrives` the page |
| `FeedBoard` | what the processing feed promises whoever looks at it, without sockets, payloads and timers | the abstract specification `Feed` implements |
| `EscalationProofs`, `IntakeProofs`, `FeedProofs`, `SourceMonitorProofs`, `FoldersProofs`, `DossiersProofs`, `ChatProofs` | theorems on the module they are named after | |
| `ReviewProofs` | theorems on `Confirmations` and `EmailDrafts`, the two things a user reviews | |
| `MC*` | model values for TLC | |

Definitions whose comment starts with *Mutant of* are used by no
specification: each is a plausible slip in the code, and `PROJECT.json` names
the property that notices it.

Code that is not in the repository (APScheduler, PostgreSQL, the providers, the
language model) is modelled by how the code uses it: a job fires at any moment,
may be dropped when late (`misfire_grace_time`), and is gone after a restart;
a transaction that does not commit leaves nothing; the model may answer JSON
of the wrong type.

## Runs

| Run | Question | Instance and why it is enough |
|---|---|---|
| `escalation` | Do history, confirmations, notifications and jobs agree under all interleavings, restarts, misfires and failing transactions, and is the ledger implemented? | one execution under one editable rule, two requests at a time beside two running jobs, two steps rolled back after scheduling. Executions share only the rows of rules, which `UpdateRule` changes at any moment, and the look for an active one of the deadline; the proofs are for any number. Lists of 1 to 3 steps, valid, too tight, with a template that cannot be filled in, and invalid; delay 2 is one hour |
| `escalation_live` | Does an escalation end by itself? | one execution, no faults, a step callback, templates that can be filled in, every gap schedulable |
| `source` | Is the error count true, is the third failure in a row marked, is no listed file passed over, does the token never go back and at last catch up? | each of the three kinds of source; one request beside the poll, two files in pages and batches of one (so that a batch is cut and a page leaves a file out), of a mailbox the second with or without its first label, three failures, one stop of a working process, an expired token |
| `confirmations` | Do confirmation and task agree? | two confirmations, three requests: one holds the lock while two wait |
| `drafts` | Is nothing sent unapproved, and an approved draft fixed? | three requests: an edit, an approval and a sending in flight |
| `folders` | Does a cycle need a move that another overtook, does a walk that none overtook climb to its end, do documents stay filed? | three folders (a walk below a cycle of two needs three), one document, two movers, one creator; the constraint `Explored` lets the two moves overlap only among folders of one name, before there is a document and while nobody creates |
| `folders_cycle` (violation) | Do the folders stay a tree around two moves? | two folders |
| `intake` | Does an upload reach the inbox with the result in its row? | one document (uploads share nothing), one folder, two inbox requests, two actions, restarts and garbage from the model |
| `dossiers` | Do dossiers hold what correlations connect, keep what was grouped, lack nothing when complete, and are conflicts told? | four documents and two correlations stored alone or as a batch (two neighbourhoods that meet in a document, or do not), two dossiers, two missing items, two requests at a time |
| `dossiers_chain` (violation) | Does a grouping leave a document and its neighbours in one dossier? | a chain of correlations between four documents |
| `chat` | Are the tools' effects told, does the page show its session, does a user's title stay? | two sessions and two queries (one runs on in a session that is left, deleted or whose connection broke, while the other is asked), two loads in flight, restarts |
| `feed` | Does the feed show the statuses of each document in order, none lost on a socket that stays open, and does each mount of the page keep one way to its events? | two documents (one lends the other its type), two sockets (one closing, or forgotten by a remount, beside a live one), one failed attempt before the fall-back, one place in the feed so that it overflows |

Bounds that are only bounds of the instance: the sets of ids, `Handlers` (and
`DraftHandlers`, `Runners`, `Creators`, `Movers`), `MaxFiles`, `MaxFailures`, `MaxCrashes` (stops
of a process that works), `MaxBatch` and `MaxActs` (correlations of a request,
and requests of the user on documents, in `dossiers`), `MaxLoads` (loads of
messages in flight). `MaxSteps` (5 in the code), `MinDelay`, `MaxDelay`,
`MaxUndone` bounds the commits of an execution that fail after a job was scheduled,
`Unlabelled` lists which files of a mailbox may lack its first label.
`BatchSize` (10) and `PageSize` (50 or 100) are scaled down; `MaxErrorCount` is
the code's 3.
In `Dossiers`, conflicts' inbox items, documents and missing items are columns
and tables that no operation but the deletion of a dossier shares; `about` keeps
each behaviour to one of the three, so that two requests can overlap in each.
In `feed`, `MaxFeed` (20) and `MaxAttempts` (3) are scaled to 1, `MaxRemounts`
bounds how often the page is mounted again, and the constraint `Explored` keeps
remounts and two concurrent documents apart: after a remount at most one
document has begun. `CHECK_DEADLOCK FALSE` is set where the bound
on ids or contents lets everything come to rest (all steps done, the draft or
the folders deleted, the browser without a way to its events); in the others a request or a restart is always possible.

### Fairness

- `Escalation`: a started step runs on (the event loop) and a job that the
  scheduler still holds fires (APScheduler's timer). None for requests: users
  need not act. `Faults` is off, as a lost job is lost, and `Wired` on: without a
  step callback a job that fires does nothing.
- `SourceMonitor`: a registered interval job fires again and again, a poll runs
  on, and a provider asked for ever answers now and then (strong fairness of a
  listing, and of the call for the start token); it may fail any number of times
  in between, up to `MaxFailures` in a row. None for requests and restarts.
- `Confirmations`, `Intake`: the event loop runs a started request or
  task on; databases and models answer or raise.
- `Folders`, `Feed`, `Dossiers`, `Chat`: none; their properties are safety properties.

## What the runs show, and the properties that carry them

- **Escalation.** The step code writes back a history and a step number that it
  read before it awaited the notifier. That is safe because of
  `OneTokenPerExecution`: an execution has one job in the scheduler or one task
  in a step, never two. `RecordedJobIsTheScheduledOne` is why closing cancels
  the right job, `AtMostOneStepAfterClose` what closing during a step comes to.
  `ConfirmationsMatchHistory` and `NotificationsMatchHistory` say what a
  rollback leaves: no confirmation, but perhaps a notification of the current
  step. `ImplementsLedger` sums these up as a refinement. All of them hold when a
  commit fails after `schedule_step` succeeded (`escalation_service.py:269-272`),
  and three say what this does: the new job, in `stray`, is named by no row, so
  that closing does not cancel it, and it announces the same step, in `undone`,
  again. Still there is one token, so that the history stays right.
- **Source monitor.** `ErrorCountIsTrue` bounds `error_count`, written back from
  a stale row, between the failures since the user last changed the source and
  the failures since the last success; `ThreeFailuresSuspend` follows up the
  limit. `PassedFilesWereHanded` holds but for what a listing left out
  (`unlisted`): files that appear between Drive's first listing and the request
  for the start token, those beyond the one page of a mailbox or of a folder's first listing,
  and those of a mailbox that lack its first label: the history is asked for with
  `label_ids[0]` (`gmail_monitor_adapter.py:75`), the first listing with all labels. `TokenNeverGoesBack` is about tokens the provider has forgotten:
  the adapters list anew and the row keeps the old token until a new one comes.
  `CatchesUp` is the liveness of polling, over failures and the user's requests,
  as long as the source is polled; it excepts the batch that is cut (see the
  known gaps).
- **Confirmations.** `TaskFollowsDecision` holds although a decision can be
  overwritten, since the flush locks the row before the task is read;
  `RejectionIsFinal` is about the task.
- **Feed.** `WireInOrder`: however tasks interleave at the sendings of one
  emission, a socket gets a document's statuses in order and each once. A payload
  that was held back lends its `document_type` to the next one sent, whatever
  document that is about; `CompletedShowsItsType` says where this cannot mislead:
  a completed document brings its own. `ImplementsBoard` sums up what is shown:
  of each document a status that was told of it, never an earlier one after a
  later one, and a document that is shown gives way only to a new one. This and
  `AddressedArrives` hold while the page is mounted once; after a remount two
  sockets may feed one store and a status can go back, which is why both name
  `remounts`. `WayBack` is the
  reconnection: each mount of the page keeps exactly one way to its events, a
  socket, a timer or an SSE stream, and `lost` counts the two ways to lose it: a try that
  finds no token, and a stream that fails. `LogOut` is a logout in another tab or
  by a 401; that the logout of the page itself unmounts it is a `Remount` that is
  not followed by a mount, and left out.
- **Folders.** `CyclesAreUnchecked`: a move that no other move overtook between
  its reading and its commit closes no cycle, whatever else happens in between;
  every cycle has a folder in it that an overtaken request moved. `WalksClimb`:
  such a walk meets no folder twice, so it ends after as many SELECTs as there
  are folders at most. `DocumentsAreFiled` is about the cascade.
- **Dossiers.** `GroupsAreConnected` and `GroupedAreFiled`: two groupings that
  look before either commits never put unconnected documents into one dossier,
  and each document that a grouping took is in some dossier until it is removed:
  what loses a race is refused by a constraint as a whole. `CompleteLacksNothing`
  holds unless two changes of the missing items overlapped or a caller set the
  status; `unsure` names these dossiers. `ConflictsAreTold`: a conflict has its
  inbox item, or a request is about to make it, or failed to.
- **Chat.** `EffectsAreTold`: whatever tools raise, an answer that is not withheld
  tells what was done. `PageShowsTheSession`: once its requests are over the page
  shows what is stored of the active session, as long as they did not overlap
  since it opened that session. `NamedStays`: only a query that began under
  the default title overwrites a name.
- **Drafts, intake.** See the comments above the properties.

### Where the code and its documents part (violation runs)

1. `folders_cycle`: two moves each find no cycle, then together make one.
2. `dossiers_chain`: a grouping puts the document's direct neighbours into the
   first dossier that holds one of them and leaves alone those that are in
   another. Documents that correlations connect can end in two dossiers, where
   `dossier_service.py:544` promises one.

### Known gaps that are no runs

Found while modelling, and either outside the models or true by construction:

- Escalation: `schedule_step` refuses a gap below an hour, which the validators
  of a rule accept (only the delays themselves are checked). The step is rolled
  back each time, its notification is not, no job remains and the execution stays
  active: with a list like `Tight` of `MCEscalation`, `ActiveEnds` fails. It also fails with
  a `message_template` that has an unknown placeholder, which the validators
  accept and `format` does not (`escalation_service.py:355`), and with `Wired`
  off, which is how the server is put together: `deps.py:166` builds the adapter
  without a step callback, nothing calls `set_step_callback`, and a job that
  fires does nothing (`apscheduler_escalation_adapter.py:43`). A commit that
  fails after the next job was scheduled lets that job repeat the step. Two activations of a deadline that overlap both insert an active
  execution (later look-ups with `scalar_one_or_none` then raise); a closed
  execution can be closed again with another status; after a restart or a
  misfire an active execution has no job and nothing schedules one; nothing but
  tests calls the wiring in `escalation_wiring.py`.
- Source monitor: when files are cut from a batch the old token is kept
  (`source_monitor_service.py:265`), so the next poll hands over the same first
  files and never the rest; without the disjunct `Overfull`, `CatchesUp` fails. A
  calendar with more than one page of events never gets a token
  (`nextSyncToken` is on the last page only) and is listed anew each time. A
  mailbox with more records than a page loses the later ones, and one with several
  labels whatever lacks the first. A source created or reactivated while the process runs gets no
  job until a restart; one in `error` is still polled; `_poll_job` uses the
  dummy adapter and discards the change set; `lifespan` swallows the error when
  registering fails.
- Confirmations: two requests that both read `pending` decide the same
  confirmation one after the other, though `confirmations.py:80` answers "Cannot
  approve confirmation with status" to a second one; an approval that comes late leaves the pair (approved,
  rejected task); approved tasks are carried out by nothing.
- Drafts: an edit that began before the approval changes what was approved; a
  second approval that commits after the sending sets `sent` back to `approved`.
- Folders: below a cycle that two moves closed, the check of a further move goes
  round for ever (`folders.py:45-52`): nothing but the stop of the process ends
  that request, which is why `WalksClimb` excepts `unchecked`. Two requests make homonyms; deleting a folder deletes its documents
  without the confirmation that deleting one document asks for, and nothing
  carries out that confirmation.
- Dossiers: the lost update of a list of missing items leaves a dossier complete
  that lacks something; deleting a document's correlations leaves it in the
  dossiers they made; nothing calls `auto_group_correlated_documents`.
- Chat: a query that began under the default title overwrites a name given
  meanwhile; an answer or a load that comes after the page switched shows one
  session's messages in another until the next load; a session deleted during a
  query loses the exchange, and a withheld answer does not tell what its tools
  have done.
- Calendar ingestion and deadlines, which no module models: an event seen twice
  is proposed twice (`calendar_ingest_service.py:124`), and the next occurrence of
  the 31st raises (`deadline_service.py:82`).
- Intake: an error of the language model gives the type "altro" and `parsed`,
  where `.kiro/specs/acg-mvp/requirements.md:140` has `failed`; an answer of the
  wrong type, or a restart, leaves the document `pending` for ever; an item is
  inserted for a document that was deleted; act and dismiss check no status, so
  a dismissed item may have a choice; files of deleted documents stay; acting on
  an item starts no workflow (`requirements.md:221`).

- Feed: the last status of a burst is held back (`websocket_adapter.py:50`) and
  leaves only with a later event, if there is one
  (`.kiro/specs/acg-agent-enhancement/design.md:703-705`); keys of the held
  payload (`document_type`, `error`) end up in another document's event; after
  three closures in a row (`useWebSocket.ts:70`) the hook opens an SSE stream,
  into which nothing pushes events, and which `/events/stream` refuses, as it asks
  for a Bearer header (`events.py:48`) that an `EventSource` cannot send; `onerror` closes
  the stream and nothing follows (`useWebSocket.ts:38`), so that the page stays without
  events until it is mounted again; the same after a try that finds no token
  (lines 27 and 47); its clean-up leaves timers and sockets that are
  still connecting; a restart leaves a document at its last status on the screen.
  `ingest_file` itself has no caller outside the tests.

## Proofs

TLAPS checks these for all values of the constants. They rest on the named
`ASSUME` of each module, which say that sentinels are no ids, that ids of
different kinds differ where a function ranges over both, that bounds are
naturals and that folders have some name. One of them is a restriction: `SourceMonitorAssumption` has
`MaxErrorCount` above 1 (3 in the code): with 1, a poll that had read `error`
and fails after the user reactivated the source would not mark it again.

**`EscalationProofs`.**

- `TypeCorrect`. `TypeOK` alone is not inductive: a step indexes the list of the
  rule its row names, so `TypeInv` adds that a row in use names a rule and that
  a task past its first read holds the values it needs.
- `OneToken`: `OneTokenPerExecution`. Inductive with `FreshUnused`: an execution
  id not in use has no job and no task.
- `HistoryCorrect`: `HistoryInOrder`. Needs `SnapshotCurrent`: the row a step
  read is the committed one as far as history and step number go. This is where
  `OneTokenPerExecution` is used: nobody else can have appended.
- `JobIsRecorded` and `CloseEnds`: `RecordedJobIsTheScheduledOne`, with the jobs
  of commits that failed after scheduling, and
  `AtMostOneStepAfterClose`. In `CloseInv`, `ClosedStays` says that a row that a
  closer read as not active is not active now, and `ClosedHasRoom` that the
  history of a closed execution has room for one entry only while a step runs.
- `ConfirmationsCorrect` and `NotificationsCorrect`: `ConfirmationsMatchHistory`
  and `NotificationsMatchHistory`. In `EffectInv`, `StartsOnce` counts effects: a
  task that can still start the effect of its step finds as many effects as
  entries of the history and announcements rolled back, a task that has announced
  finds one more.
- `LedgerCorrect`: `ImplementsLedger`. An announcement is the ledger's `Begin`, a
  commit its `Record`, a commit that fails after scheduling its `Undo`, and every
  other step a stutter.

**`IntakeProofs`.**

- `TypeCorrect`.
- `FileKept`: `RowHasFile`, from `FileFirst`: a saved upload has its file, and
  rows are only inserted for saved uploads.
- `ResultAgrees`: `ItemFollowsResult`. The invariant `ResultFirst` follows a
  task: past `ReadRow` it has a result; at `triage` a document that is still
  there has that result in its row (a document that was gone stays gone); an
  item exists only when the task is over.
- `ChoiceKept`: `ActedHasChoice`, from `ChoiceOffered`: what a request is about
  to write was offered, and a choice it has read is still there. Needed because
  a request that read a choice equal to its own does not write the column.
- `NoneForgotten`: `NothingForgotten`.

**`FeedProofs`.** Lists of sockets are cut by `Without`, a recursive function;
what it keeps (`WithoutProperties`) is proved by the least index at which the
claim would fail. `TypeCorrect`, and

- `AlwaysAWayBack`: `WayBack`. Inductive with the type of the hook. Live sockets
  are counted with the library's theorems on cardinalities: each action changes
  one socket at most (`Counted`), and timers, streams and lost ways by as much.
- `OwnType`: `CompletedShowsItsType`. `RightInv` says of every message being sent
  or on the wire, and of every item shown, that a completed document has its own
  type: `Merged` only fills in a type that the new payload lacks.
- `InOrderOnWire`: `WireInOrder`. `Core` adds to the types what a task at a
  sending holds (`GoodTask`: its sockets are not repeated, its message is its
  own) and that registered sockets are served and listed once. `Wires` says of a
  message on a wire that it is no further than its document (`InTime`), and less
  far if the document's present status is still to be sent to that socket.
- `BoardCorrect`: `ImplementsBoard`. While the page was not mounted again there is
  one socket or one timer (`Single`), nothing is on its way to a closed socket
  (`Ends`), a document has one item (`Once`), and what is shown is less far than
  what is on its way (`Shown`). An emission is then the board's `Tell`, a message
  that arrives its `Show`, and every other step a stutter.
- `Arrival`: `AddressedArrives`. In `Owing` a status that is owed is `Due`: it or
  a later one is to be sent, on the wire or shown, or newer documents fill the
  feed.

**`SourceMonitorProofs`.** `TypeCorrect`, and

- `CountCorrect`: `ErrorCountIsTrue`. `CountInv` bounds what a poll has read as
  well as what the row holds: during a poll only requests write the row, they
  lower the count, and a user's intervention lowers `since` with it. The poll
  may therefore write its stale count plus one.
- `SuspendCorrect`: `ThreeFailuresSuspend`. `SuspendInv` adds that a poll that
  read `error`, and saw no intervention since, finds the row in `error` or
  deleted when it commits.
- `PassedCorrect` and `TokenMonotone`: `PassedFilesWereHanded` and
  `TokenNeverGoesBack`. In `TokenInv` the token a poll read is still the row's
  (only a poll writes it, and there is one at a time), and `Covered` says that
  what the poll has listed, or has left out, covers what its new token passes.

**`FoldersProofs`.** Nothing is by induction over paths. That folders have no cycle
is said without paths (`NoCycleIn`): in every set of these folders one has its
parent outside of it. `TypeCorrect`, and

- `FiledCorrect`: `DocumentsAreFiled`.
  `FiledInv` adds that the parent of a folder in use is in use (`Parents`): a
  deletion takes with a folder all that is below it (`SubtreeClosed`).
- `TreeCorrect`: `CyclesAreUnchecked`, for any number of requests that move.
  `WalkInv` says of a request that was not overtaken that its walk has `Passed` a
  set of folders that lacks only the parent of the folder it is at, and that the
  folder to be moved is not in it. When the walk ends at the root that set holds
  the target and all its ancestors, so the move closes no cycle of folders whose
  own moves were not overtaken (`CommitClosesNone`), whatever was created,
  deleted or moved to the root in between.
- `WalksCorrect`: `WalksClimb`. `ClimbInv` says that there is a tree, the one the
  request found (`FoundTree`), of which the present folders are what is left, and
  in which the folders that the walk met follow each other.

**`ReviewProofs`.** On `Confirmations`: `TypeCorrect`, `TasksFollow`
(`TaskFollowsDecision`) and `RejectionStays` (`RejectionIsFinal`). `LockInv` is
what the row lock gives: a request that holds it is the one its row names, and
the task it has read is the task as it is. Without it a late approval could
revive a rejected task. On `EmailDrafts`: `DraftTypeCorrect`, `SentApproved`
(`SentWasApproved`) and `SettledFixed` (`SettledStaysFixed`). The invariant
follows requests that have read the draft: one that is about to send found an
approval recorded.

**`DossiersProofs`.** `TypesCorrect` gives rows their types and each request the
fields of its operation; on it rest

- `ToldCorrect`: `ConflictsAreTold`, with: what a request is about to tell are
  conflicts.
- `FiledCorrect`: `GroupedAreFiled`. A grouping adds some of its documents and
  leaves those that it found in another dossier; `FiledInv` says that these
  stay filed, or are taken out, until it commits.
- `ConnectedCorrect`: `GroupsAreConnected`. The property is not inductive, since
  two groupings may have chosen the same dossier: `ConnInv` is about `Pool(x)`,
  the documents of a dossier together with those that groupings under way are
  about to add to it. Connected sets that meet have a connected union
  (`ConnectedUnion`), a document with all its neighbours is connected
  (`ConnectedStar`), and links only grow (`LinksGrow`).
- `CompleteCorrect`: `CompleteLacksNothing`, with: what a request will write
  satisfies it, if the row is still as it was read.

**`ChatProofs`.** `TypeCorrect`, and

- `ToldCorrect`: `EffectsAreTold`.
- `NamedCorrect`: the action property `NamedStays`, from the types alone.
- `ShowCorrect`: `PageShowsTheSession`. The property speaks of a page at rest;
  `ShowInv` says of one that is not how it will get there: it awaits one answer,
  and shows the question besides what is stored (`Waiting`), or awaits one load,
  which if it was read holds what is stored now (`Opening`).

With these every safety property of the passing runs is a theorem. Only
model-checked is liveness (`ActiveEnds`, `CatchesUp`, `RequestsEnd`,
`PendingEnds`), for which the prover has no rules.

## Plan

Done: `Escalation` with its ledger (the one component with timers, effects
outside the transaction and concurrent writers), `SourceMonitor` for all kinds of
sources, `Confirmations`, `EmailDrafts`, `Folders`, `Intake`, `Feed`, `Dossiers`
with the correlations they are built from, `Chat`; two refinements
(`EscalationLedger`, `FeedBoard`); proofs of all safety properties.

Next, in this order:

1. An abstract source, without tokens and pages, that `SourceMonitor` implements.
2. `Feed`: the SSE queues of the server.
3. Tools of the chat agent as the requests of `EmailDrafts` and `Intake` that
   they amount to.

## Not modelled

Calendar ingestion and reports end in proposals, which are creations of
`Confirmations`, and have no state of their own; the recurrence of deadlines and
the reminders are pure functions that, like calendar ingestion, only tests call.
Not planned either: the language-model adapters, parsers and storage (calls that answer
or fail), risk tables and guardrails (pure functions given by tables), accounts,
read-only queries, the client's pages, and everything under
`backend/.pytest_deps`: these are vendored packages, which make up nine tenths of
the lines of the tree. Of the application's own Python and TypeScript the `map`
covers the parts that keep shared state.
