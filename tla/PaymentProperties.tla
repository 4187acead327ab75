------------------------- MODULE PaymentProperties -------------------------
(***************************************************************************)
(* What is asked of PaymentApproval.  "One at a time": requests do not     *)
(* overlap and none fails.  "Always": they do, and they may.               *)
(***************************************************************************)
EXTENDS PaymentApproval

\* The copies of the row and of the meta that a request holds.
Copies == {req[r].saw : r \in {s \in Requests : req[s].pc \in {"act", "write"}}}

RequestOK(q) ==
  \/ q \in {Idle, Lost}
  \/ /\ q.op \in Ops /\ q.seen \in Row
     /\ q.pc \in {"move", "read", "act", "write"}
     /\ q.pc \in {"act", "write"} => q.saw \in Meta
     /\ q.op = "seats" => q.arg \in SeatForms
     /\ q.op \in {"request", "board"} => q.arg \in Agents
     /\ q.op = "release" => q.arg \in Person
     /\ q.op = "status" => q.arg \in StatusTargets
     /\ q.op \in {"approve", "complete"} => q.actor \in Agents

\* The row, the meta and what requests hold are what the handlers put there.
PaymentTypeOK ==
  /\ ticket \in Row /\ file \in Meta
  /\ DOMAIN req = Requests /\ \A r \in Requests : RequestOK(req[r])

-----------------------------------------------------------------------------
(* One at a time *)

\* "Put the request on the current procedural role assignee's Request Board":
\* once a request is answered, the ticket is assigned to the holder of the
\* seat whose turn it is.
SeatHolderIsAssigned ==
  (Settled /\ BoardSeat(file) # None) => ticket.assigned = BoardSeat(file)

-----------------------------------------------------------------------------
(* Always *)

\* m is as far as its signatures allow: every step before its own that is not
\* skipped is signed, and Accounting and Finance have clicked Approved.
InOrder(m) ==
  \A s \in StepsFor(m) : Rank(s) < Rank(m.step) =>
    s \in m.completed /\ (s \in AckSteps => s \in m.acked)

\* However many stale copies are written back, the chain never stands at a
\* step whose predecessors have not signed: neither saves that overwrite the
\* whole meta nor a release in the middle of a signature make one count.
ChainIsSigned == InOrder(file) /\ \A m \in Copies : InOrder(m)

\* The description names a mode of payment by the time Accounting has signed,
\* although the two are in different queries.
ModeOnRecord == "APPROVED_BY_ACCOUNTING" \in file.completed => ticket.mode

Chain == INSTANCE ProceduralChain
           WITH Length <- 4,
                steps <- {Rank(s) : s \in StepsFor(file)}, at <- Rank(file.step)

\* "the write is conditional so concurrent completes cannot rewind a later
\* step": what Ticket controls does to the chain is to sign its steps one by
\* one, in order, however the requests cross.
ImplementsChain == Chain!Spec

\* "For Confirmation is locked until the full procedural chain is green-lit".
\* A reopening, a signature and a confirmation may cross.
ConfirmationIsGreenLit ==
  ticket.status = "FOR_CONFIRMATION" => file.step = "DONE"

-----------------------------------------------------------------------------
(* Eventually *)

Fresh(op, a, b) == [op |-> op, actor |-> a, arg |-> b,
                    seen |-> ticket, saw |-> file]

\* A click on a button that would be accepted as things stand.
Click(r, op, a, b) == Accepted(Fresh(op, a, b)) /\ Arrive(r, op, a, b)

Signs(op) ==
  \E r \in Requests, a \in Agents :
    a = ticket.assigned /\ Click(r, op, a, None)

Confirms ==
  \E r \in Requests, a \in Agents :
    /\ a = ticket.assigned /\ canTransition(ticket.status, "FOR_CONFIRMATION")
    /\ Click(r, "status", a, "FOR_CONFIRMATION")

\* An Admin sends a request that is not with the holder of its seat there.
Forwards ==
  /\ ticket.assigned # BoardSeat(file) \/ ticket.assigned = None
  /\ \E r \in Requests, a \in Admins, b \in Agents :
       Click(r, "request", a, b) /\ BoardSeat(file) \in {None, b}

\* A request that has arrived is served unless the process restarts, and
\* people click what they can click again and again.
Fairness ==
  /\ \A r \in Requests : WF_deskVars(Serve(r))
  /\ \A op \in {"approve", "mode", "complete"} : SF_deskVars(Signs(op))
  /\ SF_deskVars(Confirms) /\ SF_deskVars(Forwards)

FaultsEnd == <>[][~Restart /\ ~\E r \in Requests : QueryFails(r)]_deskVars

\* A chain is completed and sent for confirmation once queries stop failing:
\* when a step was saved and the ticket not moved, the next holder cannot
\* sign, and Submit for Next Approval to the same person is the way on.
ReachesConfirmation ==
  FaultsEnd => <>(/\ file.step = "DONE"
                  /\ ticket.status \in {"RESOLVED", "FOR_CONFIRMATION"})

=============================================================================
