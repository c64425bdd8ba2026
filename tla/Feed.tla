------------------------------- MODULE Feed -------------------------------
(***************************************************************************)
(* The processing feed: ingest_file of IngestPipelineService tells the     *)
(* status of a document to WebSocketRealtimeAdapter, which sends at most   *)
(* one event a second to the sockets of the user; the browser keeps a      *)
(* socket open (useWebSocket.ts) and shows what arrives (realtime.ts).     *)
(* After a few closures it opens an SSE stream instead, into which nothing *)
(* is ever put.                                                            *)
(*                                                                         *)
(* One user, and the one type of event that the code emits.  A socket is   *)
(* an id that is used again once both ends have let go of it.  The methods *)
(* of the adapter await nothing but the sending of a text (nobody holds    *)
(* its lock over an await), so what is between two sendings is one step.   *)
(***************************************************************************)
EXTENDS Naturals, Sequences, FiniteSets, SequencesExt

CONSTANTS
  Docs,         \* documents being ingested, one task each
  Socks,        \* WebSocket connections
  None,
  MaxFeed,      \* MAX_FEED of the store (20)
  MaxAttempts,  \* closures in a row before the hook falls back to SSE (3)
  MaxRemounts   \* bound: times the page that owns the hook is mounted again

ASSUME FeedAssumption ==
  /\ None \notin Docs \cup Socks
  /\ MaxFeed \in Nat \ {0}
  /\ MaxAttempts \in Nat /\ MaxRemounts \in Nat

VARIABLES
  task,    \* per document: its control point, the last status it emitted
           \* and the sending it is in
  recent,  \* less than RATE_LIMIT_SECONDS since _last_emit
  held,    \* _pending_aggregates
  conns,   \* _connections
  served,  \* per socket: what the server's handler of it does
  wire,    \* per socket: sent and not yet received
  sock,    \* per socket: readyState in the browser
  hook,    \* the refs and timers of useWebSocket, the SSE streams it opened,
           \* and how many of its ways to the events were lost (history)
  token,   \* the browser stores an access token
  feed,    \* processingFeed, newest first
  owed     \* history: per socket, how far a document's status that was
           \* addressed to it is; 0 once either end has let go of it

server == <<task, recent, held, conns>>
client == <<hook, feed, token>>
vars   == <<server, served, wire, sock, client, owed>>

Finals == {"completed", "needs_attention", "failed"}

\* How far along a status is.
Rank(status) ==
  CASE status = "new" -> 0 [] status = "ingesting" -> 1
    [] status = "parsing" -> 2 [] OTHER -> 3

\* type: the document whose document_type the message carries.
Message == [doc : Docs, status : {"ingesting", "parsing"} \cup Finals,
            type : Docs \cup {None}]

Payload(d, status) ==
  [doc |-> d, status |-> status, type |-> IF status = "completed" THEN d ELSE None]

Idle(status) == [at |-> "work", status |-> status, msg |-> None, to |-> <<>>, dead |-> {}]

Init ==
  /\ task   = [d \in Docs |-> [Idle("new") EXCEPT !.at = "new"]]
  /\ recent = FALSE /\ held = None /\ conns = <<>>
  /\ served = [s \in Socks |-> "no"]
  /\ wire   = [s \in Socks |-> <<>>]
  /\ sock   = [s \in Socks |-> "closed"]
  /\ hook   = [current |-> None, attempts |-> 0, timers |-> 1,
               streams |-> 0, lost |-> 0, remounts |-> 0]
  /\ token  = TRUE
  /\ feed   = <<>>
  /\ owed   = [s \in Socks |-> [d \in Docs |-> 0]]

---------------------------------------------------------------------------
(* The server *)

\* Mutant of Merged: the payload held back over the new one.
MergedHeldOver(m) ==
  IF held # None /\ held.type # None THEN [m EXCEPT !.type = held.type] ELSE m

\* What is sent is the new payload over the one that was held back: of the
\* latter only the keys remain that the former lacks.
Merged(m) ==
  IF held # None /\ m.type = None THEN [m EXCEPT !.type = held.type] ELSE m

\* The task after the last step of an emission.
After(status) ==
  [Idle(status) EXCEPT !.at = IF status \in Finals THEN "over" ELSE "work"]

\* The task while its emission is sent.
Sending(status, msg, to, dead) ==
  [at |-> "send", status |-> status, msg |-> msg, to |-> to, dead |-> dead]

\* emit: too early after the last one, the payload replaces the one held.
HoldBack(d, status) ==
  /\ recent
  /\ held' = Payload(d, status)
  /\ task' = [task EXCEPT ![d] = After(status)]
  /\ UNCHANGED <<recent, conns, owed>>

\* emit: the sockets to send to are those registered now.
SendOut(d, status) ==
  /\ ~recent
  /\ task' = [task EXCEPT ![d] =
       IF conns = <<>> THEN After(status)
       ELSE Sending(status, Merged(Payload(d, status)), conns, {})]
  /\ recent' = TRUE /\ held' = None
  /\ owed' = [s \in Socks |->
       IF s \in ToSet(conns) /\ sock[s] \in {"connecting", "open"}
       THEN [owed[s] EXCEPT ![d] = Rank(status)] ELSE owed[s]]
  /\ UNCHANGED conns

Emit(d, status) ==
  /\ HoldBack(d, status) \/ SendOut(d, status)
  /\ UNCHANGED <<served, wire, sock, client>>

\* A file of a supported format.
Begin(d) == task[d].at = "new" /\ Emit(d, "ingesting")

Downloaded(d) ==
  /\ task[d].at = "work" /\ task[d].status = "ingesting"
  /\ Emit(d, "parsing")

Analysed(d) ==
  /\ task[d].at = "work" /\ task[d].status = "parsing"
  /\ \E status \in Finals : Emit(d, status)

\* Mutant of Failed: an error of the last emission is not swallowed.
FailedAfterAll(d) ==
  /\ task[d].at \in {"work", "over"} /\ task[d].status # "new"
  /\ Emit(d, "failed")

\* An exception of the download or of the pipeline.
Failed(d) ==
  /\ task[d].at = "work"
  /\ Emit(d, "failed")

\* What remains of the list: the elements up to i that are not in S.
Without(seq, S) ==
  LET kept[i \in 0 .. Len(seq)] ==
        IF i = 0 THEN <<>>
        ELSE IF seq[i] \in S THEN kept[i - 1] ELSE Append(kept[i - 1], seq[i])
  IN  kept[Len(seq)]

\* The first sending of d is over.  After the last one the sockets that
\* raised are disconnected and ingest_file goes on.
Sent(d, dead) ==
  IF Len(task[d].to) = 1
  THEN /\ conns' = Without(conns, dead)
       /\ task'  = [task EXCEPT ![d] = After(task[d].status)]
  ELSE /\ task'  = [task EXCEPT ![d] = Sending(task[d].status, task[d].msg, Tail(task[d].to), dead)]
       /\ UNCHANGED conns

\* Mutant of SendRaises: the exception ends the emission.
SendRaisesOut(d) ==
  LET s == Head(task[d].to) IN
  /\ task[d].at = "send"
  /\ served[s] # "yes" \/ sock[s] \in {"closing", "closed"}
  /\ conns' = Without(conns, {s})
  /\ task'  = [task EXCEPT ![d] = After(task[d].status)]
  /\ UNCHANGED <<recent, held, served, wire, sock, client, owed>>

\* A text is written to a socket; it is lost if the other end is closed.
SendText(d) ==
  LET s == Head(task[d].to) IN
  /\ task[d].at = "send" /\ served[s] = "yes"
  /\ wire' = [wire EXCEPT ![s] = IF sock[s] \in {"connecting", "open"}
                                 THEN Append(@, task[d].msg) ELSE @]
  /\ Sent(d, task[d].dead)
  /\ UNCHANGED <<recent, held, served, sock, client, owed>>

\* The server notices, while it writes, that the other end is closed.
SendRaises(d) ==
  LET s == Head(task[d].to) IN
  /\ task[d].at = "send"
  /\ served[s] # "yes" \/ sock[s] \in {"closing", "closed"}
  /\ Sent(d, task[d].dead \cup {s})
  /\ UNCHANGED <<recent, held, served, wire, sock, client, owed>>

\* RATE_LIMIT_SECONDS have passed.
SecondPasses ==
  /\ recent /\ recent' = FALSE
  /\ UNCHANGED <<task, held, conns, served, wire, sock, client, owed>>

\* connect: the handshake, then the registration under the lock.
Accept(s) ==
  /\ sock[s] = "connecting" /\ served[s] = "no"
  /\ served' = [served EXCEPT ![s] = "accepted"]
  /\ UNCHANGED <<server, wire, sock, client, owed>>

Register(s) ==
  /\ served[s] = "accepted"
  /\ served' = [served EXCEPT ![s] = "yes"]
  /\ conns'  = Append(conns, s)
  /\ UNCHANGED <<task, recent, held, wire, sock, client, owed>>

\* receive_text raises WebSocketDisconnect.
HandlerEnds(s) ==
  /\ served[s] = "yes" /\ sock[s] \in {"closing", "closed"}
  /\ served' = [served EXCEPT ![s] = "no"]
  /\ conns'  = Without(conns, {s})
  /\ UNCHANGED <<task, recent, held, wire, sock, client, owed>>

\* Everything here lives in the memory of the process.
Restart ==
  /\ recent' = FALSE /\ held' = None /\ conns' = <<>>
  /\ served' = [s \in Socks |-> "no"]
  /\ task' = [d \in Docs |->
       IF task[d].at = "new" THEN task[d] ELSE [Idle(task[d].status) EXCEPT !.at = "over"]]
  \* a handshake that was not over fails
  /\ sock' = [s \in Socks |->
       IF sock[s] = "connecting" /\ served[s] # "no" THEN "closing" ELSE sock[s]]
  /\ owed' = [s \in Socks |-> [d \in Docs |-> 0]]
  /\ UNCHANGED <<wire, client>>

---------------------------------------------------------------------------
(* The browser *)

\* Neither end knows of s any more.
Free(s) ==
  /\ sock[s] = "closed" /\ served[s] = "no"
  /\ \A d \in Docs : s \notin ToSet(task[d].to) \cup task[d].dead

\* The pages of a browser share what is stored: another one logs out or in.
\* (A page that logs out itself leaves the layout that owns the hook.)
LogOut ==
  /\ token /\ token' = FALSE
  /\ UNCHANGED <<server, served, wire, sock, hook, feed, owed>>

LogIn ==
  /\ ~token /\ token' = TRUE
  /\ UNCHANGED <<server, served, wire, sock, hook, feed, owed>>

\* connect of the hook, for a timer that fired or the first effect.
Retry(s) ==
  /\ hook.timers > 0 /\ token /\ Free(s)
  /\ sock' = [sock EXCEPT ![s] = "connecting"]
  /\ hook' = [hook EXCEPT !.current = s, !.timers = @ - 1]
  /\ UNCHANGED <<server, served, wire, feed, token, owed>>

\* Without a token connect returns; nothing calls it again.
RetryLoggedOut ==
  /\ hook.timers > 0 /\ ~token
  /\ hook' = [hook EXCEPT !.timers = @ - 1, !.lost = @ + 1]
  /\ UNCHANGED <<server, served, wire, sock, feed, token, owed>>

\* The effect is cleaned up and run again, in a page that AuthGuard let in.
\* A socket that is still connecting is left alone, timers are not cleared.
Remount(s) ==
  /\ hook.remounts < MaxRemounts /\ token /\ Free(s)
  /\ sock' = [t \in Socks |->
       IF t = s THEN "connecting"
       ELSE IF t = hook.current /\ sock[t] = "open" THEN "closing" ELSE sock[t]]
  /\ hook' = [hook EXCEPT !.current = s, !.remounts = @ + 1]
  /\ UNCHANGED <<server, served, wire, feed, token, owed>>

\* Mutant of OnOpen: the feed begins anew with each connection.
OnOpenAnew(s) ==
  /\ sock[s] = "connecting" /\ served[s] # "no"
  /\ sock' = [sock EXCEPT ![s] = "open"]
  /\ hook' = [hook EXCEPT !.attempts = 0]
  /\ feed' = <<>>
  /\ UNCHANGED <<server, served, wire, token, owed>>

\* A stream that is open stays open.
OnOpen(s) ==
  /\ sock[s] = "connecting" /\ served[s] # "no"
  /\ sock' = [sock EXCEPT ![s] = "open"]
  /\ hook' = [hook EXCEPT !.attempts = 0]
  /\ UNCHANGED <<server, served, wire, feed, token, owed>>

\* What follows the closure of a socket: another attempt, or connectSSE, which
\* returns without a token.
Again == [hook EXCEPT !.attempts = @ + 1, !.timers = @ + 1]
SSE   == IF token THEN [hook EXCEPT !.streams = @ + 1]
         ELSE [hook EXCEPT !.lost = @ + 1]

Closes(s, after) ==
  /\ sock[s] # "closed"
  /\ sock' = [sock EXCEPT ![s] = "closed"]
  /\ wire' = [wire EXCEPT ![s] = <<>>]
  /\ owed' = [owed EXCEPT ![s] = [d \in Docs |-> 0]]
  /\ hook' = after
  /\ UNCHANGED <<server, served, feed, token>>

\* Mutant of OnClose: no new attempt follows a handshake that failed.
OnCloseIfOpened(s) ==
  Closes(s, IF sock[s] = "connecting" THEN hook
            ELSE IF hook.attempts >= MaxAttempts THEN SSE ELSE Again)

\* Refused, dropped or closed by the hook itself.
OnClose(s) == Closes(s, IF hook.attempts >= MaxAttempts THEN SSE ELSE Again)

\* onerror of an EventSource closes it.  /events/stream asks for a header that
\* an EventSource cannot send, so this comes at once.
StreamFails ==
  /\ hook.streams > 0
  /\ hook' = [hook EXCEPT !.streams = @ - 1, !.lost = @ + 1]
  /\ UNCHANGED <<server, served, wire, sock, feed, token, owed>>

Item(m) == [id |-> m.doc, status |-> m.status, documentType |-> m.type]

\* handleEvent: an item is updated in its place or put in front.
Handled(m) ==
  IF \E i \in DOMAIN feed : feed[i].id = m.doc
  THEN [i \in DOMAIN feed |-> IF feed[i].id = m.doc THEN Item(m) ELSE feed[i]]
  ELSE SubSeq(<<Item(m)>> \o feed, 1, IF Len(feed) < MaxFeed THEN Len(feed) + 1 ELSE MaxFeed)

OnMessage(s) ==
  /\ sock[s] = "open" /\ wire[s] # <<>>
  /\ feed' = Handled(Head(wire[s]))
  /\ wire' = [wire EXCEPT ![s] = Tail(@)]
  /\ UNCHANGED <<server, served, sock, hook, token, owed>>

---------------------------------------------------------------------------
TaskStep(d) ==
  Begin(d) \/ Downloaded(d) \/ Analysed(d) \/ Failed(d) \/ SendText(d) \/ SendRaises(d)

Next ==
  \/ \E d \in Docs : TaskStep(d)
  \/ SecondPasses \/ Restart
  \/ LogOut \/ LogIn \/ RetryLoggedOut \/ StreamFails
  \/ \E s \in Socks :
       \/ Accept(s) \/ Register(s) \/ HandlerEnds(s)
       \/ Retry(s) \/ Remount(s) \/ OnOpen(s) \/ OnClose(s) \/ OnMessage(s)

Spec == Init /\ [][Next]_vars

---------------------------------------------------------------------------
(* Properties *)

\* Every variable holds values of its type; the feed has at most MaxFeed items.
TypeOK ==
  /\ task \in [Docs -> [at : {"new", "work", "send", "over"},
                        status : {"new", "ingesting", "parsing"} \cup Finals,
                        msg : Message \cup {None}, to : Seq(Socks), dead : SUBSET Socks]]
  /\ recent \in BOOLEAN /\ held \in Message \cup {None}
  /\ conns \in Seq(Socks)
  /\ served \in [Socks -> {"no", "accepted", "yes"}]
  /\ wire \in [Socks -> Seq(Message)]
  /\ sock \in [Socks -> {"closed", "connecting", "open", "closing"}]
  /\ hook \in [current : Socks \cup {None}, attempts : 0 .. MaxAttempts,
                timers : Nat, streams : Nat, lost : Nat,
                remounts : 0 .. MaxRemounts]
  /\ token \in BOOLEAN
  /\ feed \in Seq([id : Docs, status : {"ingesting", "parsing"} \cup Finals,
                   documentType : Docs \cup {None}])
  /\ Len(feed) <= MaxFeed
  /\ owed \in [Socks -> [Docs -> 0 .. 3]]

\* A socket receives the statuses of a document in their order and each once,
\* although payloads are held back and merged and several tasks send at once.
WireInOrder ==
  \A s \in Socks : \A i \in DOMAIN wire[s] :
    LET m == wire[s][i] IN
    /\ \A j \in DOMAIN wire[s] :
         (i < j /\ wire[s][j].doc = m.doc) => Rank(m.status) < Rank(wire[s][j].status)
    /\ s \in ToSet(task[m.doc].to) => Rank(m.status) < Rank(task[m.doc].msg.status)

\* A payload held back lends its document_type to the next document that is
\* sent, but a document shown as completed is shown with its own type.
CompletedShowsItsType ==
  \A i \in DOMAIN feed :
    feed[i].status = "completed" => feed[i].documentType = feed[i].id

\* The status that the feed shows of d.
StatusShown(d) ==
  IF \E i \in DOMAIN feed : feed[i].id = d
  THEN feed[CHOOSE i \in DOMAIN feed : feed[i].id = d].status ELSE "new"

Board == INSTANCE FeedBoard WITH
  told  <- [d \in Docs |-> task[d].status],
  shown <- [d \in Docs |-> StatusShown(d)],
  first <- (hook.remounts = 0)

\* The feed implements the board: while the page was not mounted again, what
\* it shows of a document was told of it and never goes back, over any number
\* of closures, and a document that is shown gives way only to a new one.
ImplementsBoard == Board!BoardSpec

\* What the feed shows of d is at least as far as rank r.
ShownUpTo(d, r) ==
  \E i \in DOMAIN feed : feed[i].id = d /\ Rank(feed[i].status) >= r

\* A status that was addressed to a socket still open is on its way to the
\* browser or shown, whatever happened to the other sockets; unless the
\* server restarted, or newer documents fill the feed.
AddressedArrives ==
  hook.remounts = 0 =>
    \A s \in Socks, d \in Docs :
      (sock[s] = "open" /\ owed[s][d] > 0) =>
        \/ s \in ToSet(task[d].to)
        \/ \E i \in DOMAIN wire[s] :
             wire[s][i].doc = d /\ Rank(wire[s][i].status) >= owed[s][d]
        \/ ShownUpTo(d, owed[s][d])
        \/ Len(feed) = MaxFeed /\ ~ShownUpTo(d, 0)

\* The sockets that the browser has not seen the end of.
Live == {s \in Socks : sock[s] # "closed"}

\* Each mount of the page keeps exactly one way to its events, however sockets
\* fail and the page is mounted again: a socket, a timer that opens one, or an
\* SSE stream.  None is doubled, and none is lost but by a try without a token
\* or by the failure of a stream.
WayBack ==
  Cardinality(Live) + hook.timers + hook.streams + hook.lost = 1 + hook.remounts
===========================================================================
