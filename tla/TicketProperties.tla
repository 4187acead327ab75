------------------------- MODULE TicketProperties -------------------------
(***************************************************************************)
(* What is asked of TicketLifecycle.  "One at a time": requests do not     *)
(* overlap, but queries fail and the process restarts between two writes.  *)
(* "Always": they overlap too.                                             *)
(***************************************************************************)
EXTENDS TicketLifecycle

RequestOK(q) ==
  \/ q \in {Idle, Lost}
  \/ /\ q.op \in Ops /\ q.seen \in Row /\ q.actor \in Person
     /\ q.pc \in {"move", "read", "act", "decide", "write", "log"}
     /\ q.pc \in {"act", "decide", "write"} => q.saw \in Log
     /\ q.op \in {"transfer", "board"} => q.arg \in Person
     /\ q.op = "status" => q.arg \in Statuses \ {"ESCALATED", "CLOSED"}

\* The row, the log and what requests hold are what the handlers put there.
TicketTypeOK ==
  /\ ticket \in Row /\ file \in Log
  /\ DOMAIN req = Requests /\ \A r \in Requests : RequestOK(req[r])

-----------------------------------------------------------------------------
(* One at a time *)

NobodysWork ==
  ticket.status \in {"IN_PROGRESS", "FOR_CONFIRMATION"} /\ ticket.assigned = None

\* "Unassigned tickets cannot enter the work cycle" (route tickets/[id]): no
\* transfer, decision, move on the board, rejection on the portal or crash
\* leaves a ticket in work, or awaiting confirmation of work, that is
\* nobody's.  The page of the email, which rejects without looking at who has
\* the ticket, is the one way into it.
StartsAssigned ==
  ~NobodysWork /\ NobodysWork' => \E r \in Requests : RejectByLink(r)

\* A ticket shown as "Transfer pending" has a transfer in its log that can
\* be decided, and is in the unassigned pool.
EscalatedIsPending ==
  ticket.status = "ESCALATED" => Peer(file.transfer) /\ ticket.assigned = None

\* A transfer that was pending when the requestor cancelled or closed the
\* ticket can still be decided: the decision does not reopen it.  A closed
\* ticket is taken up again only by a transfer requested anew, or by an Admin
\* who accepts one that names no colleague.
StaysClosed ==
  ticket.status = "CLOSED" /\ ticket'.status # "CLOSED"
    => \E r \in Requests :
         Park(r) \/ (AcceptTransfer(r) /\ ~Peer(req[r].saw.transfer))

-----------------------------------------------------------------------------
(* Always *)

\* "... and star review": unless it is cancelled a ticket is closed with a
\* rating, although the portal and the link write rating and status in two
\* queries, and decisions on transfers write back statuses they read before.
ClosedIsRated ==
  [][ticket.status # "CLOSED" /\ ticket'.status = "CLOSED"
       => file'.rated \/ \E r \in Requests : Cancel(r)]_deskVars

-----------------------------------------------------------------------------
(* Eventually *)

\* The requestor rates by op whenever that would be accepted.
Reviews(op) ==
  \E r \in Requests :
    Rateable(ticket.status) /\ file.verified /\ Arrive(r, op, None, None)

\* A request that has arrived is served unless the process restarts.
Fairness == \A r \in Requests : WF_deskVars(Serve(r))

FaultsEnd == <>[][~Restart /\ ~\E r \in Requests : QueryFails(r)]_deskVars

\* A ticket whose review was written is closed, or sent back to work before.
ReviewCloses ==
  [](file.rated /\ isAwaitingCustomerConfirmation(ticket.status)
       => <>~isAwaitingCustomerConfirmation(ticket.status))

=============================================================================
