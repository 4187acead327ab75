-------------------------- MODULE TicketLifecycle --------------------------
(***************************************************************************)
(* A ticket of a request type without an approval chain, from intake to    *)
(* the star rating: status, board assignment, transfer to a colleague,     *)
(* verification of the resolution, rating and cancellation.  PATCH         *)
(* .../tickets/[id], the board's manual assignment, and the links of the   *)
(* resolution email (route email-verification and page email/action).      *)
(*                                                                         *)
(* Whether a transfer is pending and a resolution verified is not in the   *)
(* row: it is read from the activity log, where the last entry that bears  *)
(* on it counts.  file holds what the log, and the feedback table, say.    *)
(*                                                                         *)
(* Lanes, SLA stamps, notes, the ratings' values and the counter of        *)
(* reopenings are left out, and so is PENDING_INFO, which nothing sets.    *)
(***************************************************************************)
EXTENDS RequestDesk

CONSTANT Legacy  \* whether clients still name an Admin, not a colleague

Person == Agents \union {None}

Statuses == {"OPEN", "IN_PROGRESS", "ESCALATED", "RESOLVED",
             "FOR_CONFIRMATION", "CLOSED"}

Row == [status : Statuses, assigned : Person, priority : BOOLEAN]

\* A transfer requested and not decided; to is None for the Admin's queue.
Transfer == [from : Person, to : Person]

Log == [transfer : Transfer \union {None}, verified : BOOLEAN,
        rated : BOOLEAN, cancelled : BOOLEAN]

ASSUME LifecycleAssumption == Legacy \in BOOLEAN /\ None \notin Transfer

Init ==
  /\ ticket = [status |-> "OPEN", assigned |-> None, priority |-> FALSE]
  /\ file = [transfer |-> None, verified |-> FALSE, rated |-> FALSE,
             cancelled |-> FALSE]
  /\ req = [r \in Requests |-> Idle]

isAwaitingCustomerConfirmation(s) == s \in {"RESOLVED", "FOR_CONFIRMATION"}

Rateable(s) == isAwaitingCustomerConfirmation(s) \/ s = "CLOSED"

\* To close is refused before this is asked.
canTransition(from, to) ==
  \/ from = "OPEN" /\ to \in {"IN_PROGRESS", "RESOLVED", "FOR_CONFIRMATION"}
  \/ from = "IN_PROGRESS" /\ to \in {"RESOLVED", "FOR_CONFIRMATION"}
  \/ from = "ESCALATED"
       /\ to \in {"IN_PROGRESS", "RESOLVED", "FOR_CONFIRMATION"}
  \/ from \in {"RESOLVED", "FOR_CONFIRMATION"} /\ to = "IN_PROGRESS"

-----------------------------------------------------------------------------
(* Requests, past the checks that need only the row.  The requestor, who   *)
(* is no agent, is None.                                                   *)

MayMutate(a) == a = ticket.assigned \/ a \in Admins

\* Mutant: work can start on a ticket that is nobody's.
MayMoveUnassigned(a, s) ==
  /\ IF a = None THEN s = "IN_PROGRESS" /\ ticket.status # "OPEN"
     ELSE MayMutate(a)
  /\ canTransition(ticket.status, s)
  /\ s = "IN_PROGRESS" => ticket.priority

\* The requestor may only send the ticket back to work.
MayMove(a, s) ==
  /\ IF a = None THEN s = "IN_PROGRESS" /\ ticket.status # "OPEN"
     ELSE MayMutate(a)
  /\ canTransition(ticket.status, s)
  /\ s \in {"IN_PROGRESS", "FOR_CONFIRMATION"} => ticket.assigned # None
  /\ s = "IN_PROGRESS" => ticket.priority

Recipients(a) == (Agents \ {a}) \union (IF Legacy THEN {None} ELSE {})

SendByStaff(r) ==
  \/ \E a \in Agents, s \in Statuses : MayMove(a, s) /\ Arrive(r, "status", a, s)
  \/ \E a \in Agents :
       MayMutate(a) /\ ~ticket.priority /\ Arrive(r, "priority", a, None)
  \/ \E a \in Agents, b \in Person :
       a = ticket.assigned /\ b \in Recipients(a) /\ Arrive(r, "transfer", a, b)
  \/ \E a \in Agents, op \in {"accept", "decline"} : Arrive(r, op, a, None)
  \/ \E a \in Admins, b \in Agents : Arrive(r, "board", a, b)

SendByRequestor(r) ==
  \/ MayMove(None, "IN_PROGRESS") /\ Arrive(r, "status", None, "IN_PROGRESS")
  \/ /\ isAwaitingCustomerConfirmation(ticket.status)
     /\ \E op \in {"verify", "reject", "reject_link"} : Arrive(r, op, None, None)
  \/ /\ Rateable(ticket.status)
     /\ \E op \in {"feedback", "rate_link"} : Arrive(r, op, None, None)
  \/ /\ ticket.assigned = None /\ ticket.status # "CLOSED"
     /\ Arrive(r, "cancel", None, None)

Send(r) == SendByStaff(r) \/ SendByRequestor(r)

-----------------------------------------------------------------------------
(* What the requests do *)

ReadsLog == {"transfer", "accept", "decline", "feedback", "rate_link"}

ReadLog(r) == req[r].op \in ReadsLog /\ ReadFile(r)

\* Admins, or the colleague who was asked.
canViewerApproveTransfer(a, t) ==
  \/ a \in Admins
  \/ t # None /\ t.to # None /\ a = t.to

\* The check made on the first reading of the log.
Passes(q) ==
  CASE q.op = "transfer"            -> q.saw.transfer = None
    [] q.op \in {"accept", "decline"} -> q.saw.transfer # None
    [] OTHER                        -> q.saw.verified

\* A decision reads the log anew, for who was asked; a review looks for an
\* earlier one.
ReadsAgain == {"accept", "decline", "feedback"}

ReadAgain(r) ==
  /\ req[r].pc = "act" /\ req[r].op \in ReadsAgain /\ Passes(req[r])
  /\ Hold(r, "decide", file)
  /\ UNCHANGED <<ticket, file>>

Decides(q) ==
  q.op \in {"accept", "decline"}
    => canViewerApproveTransfer(q.actor, q.saw.transfer)

Refuse(r) ==
  /\ \/ req[r].pc = "act" /\ ~Passes(req[r])
     \/ req[r].pc = "decide" /\ ~Decides(req[r])
  /\ Answer(r)
  /\ UNCHANGED <<ticket, file>>

\* The row is written and that is all, or the log is next.
WriteRow(r, row) == ticket' = row /\ Answer(r) /\ UNCHANGED file

WriteRowThenLog(r, row) == ticket' = row /\ Turn(r, "log") /\ UNCHANGED file

\* The log is written and that is all, or the row is next.
WriteLog(r, log) == file' = log /\ Answer(r) /\ UNCHANGED ticket

WriteLogThenRow(r, log) == file' = log /\ Turn(r, "write") /\ UNCHANGED ticket

(* status, priority *)

ChangeStatus(r) ==
  At(r, "status", "read") /\ WriteRow(r, [ticket EXCEPT !.status = req[r].arg])

SetPriority(r) ==
  At(r, "priority", "read") /\ WriteRow(r, [ticket EXCEPT !.priority = TRUE])

(* request_transfer *)

RequestTransfer(r) ==
  LET q == req[r]
  IN  /\ At(r, "transfer", "act") /\ Passes(q)
      /\ WriteLogThenRow(r, [file EXCEPT !.transfer =
           IF q.arg = None THEN [from |-> None, to |-> None]
           ELSE [from |-> q.actor, to |-> q.arg]])

\* A request to a colleague leaves the board; one to an Admin stays there,
\* and writes back the status it read.
Park(r) ==
  LET q == req[r]
  IN  /\ At(r, "transfer", "write")
      /\ WriteRow(r, IF q.arg # None
                     THEN [ticket EXCEPT !.status = "ESCALATED", !.assigned = None]
                     ELSE [ticket EXCEPT !.status =
                             IF q.seen.status = "OPEN" THEN "ESCALATED"
                             ELSE q.seen.status])

(* approve_transfer, reject_transfer *)

\* Mutant: both decisions give the ticket to the colleague and leave it parked.
ResumedParked(q, a) == [ticket EXCEPT !.assigned = a, !.status = q.seen.status]

\* Mutant: both decisions put the ticket in work, whatever has become of it.
ResumedToWork(q, a) == [ticket EXCEPT !.assigned = a, !.status = "IN_PROGRESS"]

Resumed(q, a) ==
  [ticket EXCEPT !.assigned = a,
                 !.status = IF q.seen.status \in {"ESCALATED", "OPEN"}
                            THEN "IN_PROGRESS" ELSE q.seen.status]

Peer(t) == t # None /\ t.to # None

AcceptTransfer(r) ==
  LET q == req[r]
  IN  /\ At(r, "accept", "decide") /\ Decides(q)
      /\ WriteRowThenLog(r, IF Peer(q.saw.transfer)
                            THEN Resumed(q, q.saw.transfer.to)
                            ELSE [ticket EXCEPT !.assigned = None,
                                                !.status = "OPEN"])

DeclineTransfer(r) ==
  LET q == req[r]
  IN  /\ At(r, "decline", "decide") /\ Decides(q)
      /\ IF Peer(q.saw.transfer)
         THEN WriteRowThenLog(r, Resumed(q, q.saw.transfer.from))
         ELSE WriteLog(r, [file EXCEPT !.transfer = None])

LogDecision(r) ==
  /\ req[r].pc = "log" /\ req[r].op \in {"accept", "decline", "board"}
  /\ WriteLog(r, [file EXCEPT !.transfer = None])

(* The board's manual assignment *)

MoveOnBoard(r) ==
  LET q == req[r]
  IN  /\ At(r, "board", "move")
      /\ IF q.seen.status = "ESCALATED"
         THEN WriteRowThenLog(r, [ticket EXCEPT !.assigned = q.arg,
                                                !.status = "IN_PROGRESS"])
         ELSE WriteRow(r, [ticket EXCEPT !.assigned = q.arg])

(* resolution_verification, and the links of the email *)

Verify(r) ==
  At(r, "verify", "read") /\ WriteLog(r, [file EXCEPT !.verified = TRUE])

RejectOnPortal(r) ==
  /\ At(r, "reject", "read")
  /\ WriteRowThenLog(r, [ticket EXCEPT !.status = "OPEN"])

RejectByLink(r) ==
  /\ At(r, "reject_link", "read")
  /\ WriteRowThenLog(r, [ticket EXCEPT !.status =
                           IF req[r].seen.priority THEN "IN_PROGRESS" ELSE "OPEN"])

LogRejection(r) ==
  /\ req[r].pc = "log" /\ req[r].op \in {"reject", "reject_link"}
  /\ WriteLog(r, [file EXCEPT !.verified = FALSE])

(* feedback *)

\* Mutant: the portal closes first and writes the review after.
SaveFeedbackLate(r) ==
  /\ At(r, "feedback", "decide")
  /\ Turn(r, "write") /\ UNCHANGED <<ticket, file>>

SaveFeedback(r) ==
  /\ At(r, "feedback", "decide")
  /\ WriteLogThenRow(r, [file EXCEPT !.rated = TRUE])

\* Only the first review closes.
CloseRated(r) ==
  LET q == req[r]
  IN  /\ At(r, "feedback", "write")
      /\ WriteRow(r, IF ~q.saw.rated /\ isAwaitingCustomerConfirmation(q.seen.status)
                     THEN [ticket EXCEPT !.status = "CLOSED"] ELSE ticket)

RateByLink(r) ==
  /\ At(r, "rate_link", "act") /\ Passes(req[r])
  /\ WriteLogThenRow(r, [file EXCEPT !.rated = TRUE])

\* Mutant: like the portal's, a link closes with the first review only.
CloseByLinkOnce(r) ==
  /\ At(r, "rate_link", "write")
  /\ WriteRow(r, IF req[r].saw.rated THEN ticket
                 ELSE [ticket EXCEPT !.status = "CLOSED"])

CloseByLink(r) ==
  At(r, "rate_link", "write") /\ WriteRow(r, [ticket EXCEPT !.status = "CLOSED"])

(* cancel_request *)

Cancel(r) ==
  /\ At(r, "cancel", "read")
  /\ WriteRowThenLog(r, [ticket EXCEPT !.status = "CLOSED"])

LogCancellation(r) ==
  At(r, "cancel", "log") /\ WriteLog(r, [file EXCEPT !.cancelled = TRUE])

-----------------------------------------------------------------------------
Serve(r) ==
  \/ ReadLog(r) \/ ReadAgain(r) \/ Refuse(r)
  \/ ChangeStatus(r) \/ SetPriority(r)
  \/ RequestTransfer(r) \/ Park(r) \/ AcceptTransfer(r) \/ DeclineTransfer(r)
  \/ LogDecision(r) \/ MoveOnBoard(r)
  \/ Verify(r) \/ RejectOnPortal(r) \/ RejectByLink(r) \/ LogRejection(r)
  \/ SaveFeedback(r) \/ CloseRated(r) \/ RateByLink(r) \/ CloseByLink(r)
  \/ Cancel(r) \/ LogCancellation(r)

Next == Restart \/ \E r \in Requests : Send(r) \/ Serve(r) \/ QueryFails(r)

Spec == Init /\ [][Next]_deskVars

=============================================================================
