------------------------ MODULE ProceduralProperties ------------------------
(***************************************************************************)
(* What is asked of ProceduralRequest.  "One at a time": requests do not   *)
(* overlap and none fails.  "Always": they do, and they may.               *)
(***************************************************************************)
EXTENDS ProceduralRequest

\* The copies of the row and of the meta that a request holds.
Copies == {req[r].saw :
             r \in {s \in Requests : req[s].pc \in {"act", "write", "mark"}}}

RequestOK(q) ==
  \/ q \in {Idle, Lost}
  \/ /\ q.op \in Ops /\ q.seen \in Row
     /\ q.pc \in {"move", "note", "read", "act", "write", "mark",
                   "weigh", "park", "decide", "decided"}
     /\ q.pc \in {"act", "write", "mark"} => q.saw \in Meta
     /\ q.pc = "write" => q.arg \in Person

\* The row, the meta and what requests hold are what the handlers put there.
ProceduralTypeOK ==
  /\ ticket \in Row /\ file \in Meta
  /\ DOMAIN req = Requests /\ \A r \in Requests : RequestOK(req[r])

-----------------------------------------------------------------------------
(* One at a time *)

\* "Request placed on the current procedural assignee's Request Board": once a
\* request is answered, the ticket is assigned to the holder of the seat whose
\* turn it is.  "Green-lit and still waiting for an explicit execution assignee
\* (board icon should be empty)": an approved Job Order is with nobody, and
\* does not stay with its approver.
SeatHolderIsAssigned ==
  Settled =>
    /\ BoardSeat(file) # None => ticket.assigned = BoardSeat(file)
    /\ AwaitsExecution(file) => ticket.assigned = None

\* What is for confirmation has its whole chain signed, and a Job Order has
\* been carried out with its output on record, whether it got there by the last
\* signature, by the move or by Job Done.
ConfirmationIsGreenLit ==
  ticket.status = "FOR_CONFIRMATION" =>
    /\ file.step = "DONE"
    /\ IsJobOrder(file) => file.jobDone /\ ticket.output

-----------------------------------------------------------------------------
(* Always *)

\* m is as far as its signatures allow.
InOrder(m) ==
  \A s \in StepsFor(m) : Rank(s) < Rank(m.step) => s \in m.completed

\* However many stale copies are written back, the undo of a canvass among
\* them, the chain never stands at a step whose predecessors have not signed.
ChainIsSigned == InOrder(file) /\ \A m \in Copies : InOrder(m)

\* "Mark Job Done before completing the final Approved By": saves overwrite
\* each other, but none brings the last signature and loses Job Done.
JobDoneBeforeApproval ==
  \A m \in Copies \union {file} : IsJobOrder(m) /\ m.step = "DONE" => m.jobDone

Chain == INSTANCE ProceduralChain
           WITH Length <- 7,
                steps <- {Rank(s) : s \in StepsFor(file)}, at <- Rank(file.step)

\* The current step signs, at the request of the holder of its seat, and adds
\* to the signatures there are.
NextSignature ==
  /\ Chain!Sign
  /\ file'.completed = file.completed \union {file.step}
  /\ \E r \in Requests : /\ At(r, "complete", "act")
                         /\ req[r].actor = file.seat[file.step]

\* "ACA approval was updated by someone else. Refresh and try again.": however
\* requests cross, repeat and fail, and wherever the board takes the ticket,
\* all that ever happens to the meta of an Authority is its next signature.
AuthorityIsSignedInTurn == [][IsAuthority(file) => NextSignature]_file

-----------------------------------------------------------------------------
(* Eventually *)

Fresh(op, a, b) == [op |-> op, actor |-> a, arg |-> b,
                    seen |-> ticket, saw |-> file]

\* A click on a button that would be accepted as things stand.
Click(r, op, a, b) == Accepted(Fresh(op, a, b)) /\ Arrive(r, op, a, b)

HolderActs ==
  \E r \in Requests, a \in Agents :
    /\ a = ticket.assigned
    /\ Click(r, "complete", a, None) \/ Click(r, "pricing", a, None)

\* The team uploads its output and then says that it is done.
TeamActs ==
  \E r \in Requests, a \in Agents :
    IF ticket.output THEN Click(r, "jobdone", a, None)
                     ELSE Click(r, "upload", a, "job_output")

\* An Admin sends a request that is not with the holder of its seat there: the
\* canvass is given on the board, an Authority moved, a signature asked for.
Forwards ==
  /\ ticket.assigned # BoardSeat(file) \/ ticket.assigned = None
  /\ \E r \in Requests, a \in Admins, b \in Agents :
       /\ BoardSeat(file) \in {None, b}
       /\ IF file.step = "CANVASSED_BY" \/ IsAuthority(file)
          THEN Arrive(r, "board", a, b) ELSE Click(r, "request", a, b)

\* Of an approved Job Order, who executes it.
Assigns ==
  /\ file.step = "DONE" /\ ticket.assigned = None
  /\ \E r \in Requests, a \in Admins, b \in Agents : Click(r, "execute", a, b)

Confirms ==
  \E r \in Requests, a \in Agents :
    MayMoveTo(a, "FOR_CONFIRMATION") /\ file.step = "DONE"
      /\ Click(r, "status", a, "FOR_CONFIRMATION")

\* A request that has arrived is served unless the process restarts, and
\* people click what they can click again and again.
Fairness ==
  /\ \A r \in Requests : WF_deskVars(Serve(r))
  /\ SF_deskVars(HolderActs) /\ SF_deskVars(TeamActs)
  /\ SF_deskVars(Forwards) /\ SF_deskVars(Assigns) /\ SF_deskVars(Confirms)

FaultsEnd == <>[][~Restart /\ ~\E r \in Requests : QueryFails(r)]_deskVars

\* A chain is completed and sent for confirmation once queries stop failing,
\* wherever between the meta and the ticket they did.
ReachesConfirmation ==
  FaultsEnd => <>(/\ file.step = "DONE"
                  /\ ticket.status = "FOR_CONFIRMATION")

=============================================================================
