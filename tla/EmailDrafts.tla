---------------------------- MODULE EmailDrafts ----------------------------
(***************************************************************************)
(* The life of one e-mail draft: the email-drafts API and the tool that    *)
(* creates drafts.                                                         *)
(*                                                                         *)
(* Every request reads the row and checks its status, then commits what it *)
(* changed; other requests run in between.  Sending only marks the row: no *)
(* sender is called.                                                       *)
(***************************************************************************)
EXTENDS Naturals

CONSTANTS
  Contents,       \* contents a draft may have
  DraftHandlers,  \* concurrent requests (a bound)
  NoContent       \* no value

ASSUME EmailDraftsAssumption == NoContent \notin Contents

VARIABLES
  status,            \* the row's status
  content,           \* subject, body and addresses
  approved,          \* history: content when the draft was first approved
  draftPc, draftLoc  \* each request's control point and the content it writes

draftVars == <<status, content, approved, draftPc, draftLoc>>

DraftInit ==
  /\ status = "none" /\ content = NoContent /\ approved = NoContent
  /\ draftPc  = [h \in DraftHandlers |-> "idle"]
  /\ draftLoc = [h \in DraftHandlers |-> NoContent]

Exists == status \in {"pending_review", "approved", "sent"}

CreateDraft(c) ==
  /\ status = "none"
  /\ status' = "pending_review" /\ content' = c
  /\ UNCHANGED <<approved, draftPc, draftLoc>>

\* A request has read the row with the status it asks for.
Begin(h, point, wanted, c) ==
  /\ draftPc[h] = "idle"
  /\ status = wanted
  /\ draftPc'  = [draftPc EXCEPT ![h] = point]
  /\ draftLoc' = [draftLoc EXCEPT ![h] = c]
  /\ UNCHANGED <<status, content, approved>>

\* Mutant of UpdateRead: an approved draft may be edited.
UpdateReadAny(h, c) ==
  Exists /\ Begin(h, "updating", status, c)

UpdateRead(h, c) == Begin(h, "updating", "pending_review", c)
ApproveRead(h)   == Begin(h, "approving", "pending_review", NoContent)

\* Mutant of SendRead: the status is not checked.
SendReadAny(h) == Exists /\ Begin(h, "sending", status, NoContent)

SendRead(h)      == Begin(h, "sending", "approved", NoContent)

End(h) ==
  /\ draftPc'  = [draftPc EXCEPT ![h] = "idle"]
  /\ draftLoc' = [draftLoc EXCEPT ![h] = NoContent]

UpdateCommit(h) ==
  /\ draftPc[h] = "updating"
  /\ content' = IF Exists THEN draftLoc[h] ELSE content
  /\ End(h)
  /\ UNCHANGED <<status, approved>>

ApproveCommit(h) ==
  /\ draftPc[h] = "approving"
  /\ IF Exists
     THEN /\ status' = "approved"
          /\ approved' = IF approved = NoContent THEN content ELSE approved
     ELSE UNCHANGED <<status, approved>>
  /\ End(h)
  /\ UNCHANGED content

SendCommit(h) ==
  /\ draftPc[h] = "sending"
  /\ status' = IF Exists THEN "sent" ELSE status
  /\ End(h)
  /\ UNCHANGED <<content, approved>>

\* In any status; requests in flight then fail at their commit.
DeleteDraft ==
  /\ Exists
  /\ status' = "deleted"
  /\ UNCHANGED <<content, approved, draftPc, draftLoc>>

Request(h) ==
  \/ \E c \in Contents : UpdateRead(h, c)
  \/ UpdateCommit(h)
  \/ ApproveRead(h) \/ ApproveCommit(h)
  \/ SendRead(h) \/ SendCommit(h)

DraftNext ==
  \/ \E c \in Contents : CreateDraft(c)
  \/ \E h \in DraftHandlers : Request(h)
  \/ DeleteDraft

DraftSpec == DraftInit /\ [][DraftNext]_draftVars

---------------------------------------------------------------------------
(* Properties *)

\* Every variable holds values of its type.
DraftTypeOK ==
  /\ status \in {"none", "pending_review", "approved", "sent", "deleted"}
  /\ content \in Contents \cup {NoContent} /\ approved \in Contents \cup {NoContent}
  /\ draftPc \in [DraftHandlers -> {"idle", "updating", "approving", "sending"}]
  /\ draftLoc \in [DraftHandlers -> Contents \cup {NoContent}]

\* No draft is sent, and no sending is under way, that was never approved.
SentWasApproved ==
  status = "sent" \/ (\E h \in DraftHandlers : draftPc[h] = "sending") =>
    approved # NoContent

\* Approved, and every edit that had begun is over.
Settled ==
  /\ status \in {"approved", "sent"}
  /\ \A h \in DraftHandlers : draftPc[h] # "updating"

\* From then on the content is fixed until the draft is deleted: a late
\* approval or a late sending opens it to no edit.
SettledStaysFixed ==
  [][Settled => content' = content /\ (Settled' \/ status' = "deleted")]_draftVars
===========================================================================
