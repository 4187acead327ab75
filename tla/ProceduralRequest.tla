------------------------- MODULE ProceduralRequest -------------------------
(***************************************************************************)
(* The other approval chains: Item Requisition Slip, Fund Transfer         *)
(* Request, Job Order and Authority to Conduct Activity.                   *)
(* lib/item-requisition-approval, fund-transfer-approval,                  *)
(* job-order-approval and aca-approval, their actions in PATCH             *)
(* .../tickets/[id], the board's manual assignment, and what the page of a *)
(* ticket repairs.                                                         *)
(*                                                                         *)
(* As for a payment the meta is read, changed in memory and written back   *)
(* whole, without looking at what was saved since, but for an Authority,   *)
(* whose save asks for the step it read.  An Authority's seats are given   *)
(* at intake and never change, and it is signed only by who has both the   *)
(* seat and the ticket.  A Job Order is also carried out: whoever executes *)
(* it is picked while it is approved, and its last approver waits for Job  *)
(* Done and for the uploaded Job Output.                                   *)
(*                                                                         *)
(* A requisition and an Authority can moreover be transferred, like a      *)
(* plain ticket: the transfer hands the ticket on and knows nothing of the *)
(* meta.                                                                   *)
(*                                                                         *)
(* Companies and departments, which restrict who can be chosen, are not    *)
(* kept, nor is the text of the pricing and of the feedback.               *)
(***************************************************************************)
EXTENDS ApprovalDesk

CONSTANTS
  Drafts,     \* the requests that intake can store
  SeatForms   \* the forms sent from Ticket controls: step -> person or None

StepsOf(type) ==
  CASE type = "ITEM_REQUISITION_SLIP" -> {"CANVASSED_BY", "APPROVED_BY"}
    [] type = "FUND_TRANSFER_REQUEST" ->
         {"PREPARED_BY", "RECOMMENDING_APPROVAL", "APPROVED_BY"}
    [] type = "AUTHORITY_TO_CONDUCT_ACTIVITY" ->
         {"RECOMMENDED_BY", "FINANCE_MANAGER", "APPROVER_1", "APPROVER_2",
          "APPROVER_3", "APPROVER_4", "APPROVER_5"}
    [] OTHER -> {"NOTED_BY", "APPROVED_BY", "APPROVED_BY_2"}

Types == {"ITEM_REQUISITION_SLIP", "FUND_TRANSFER_REQUEST", "JOB_ORDER",
          "AUTHORITY_TO_CONDUCT_ACTIVITY"}

Steps == UNION {StepsOf(type) : type \in Types}

\* What a request can do without: a Job Order has one to three approvers, an
\* Authority one, four or five.
Skippable(type) ==
  CASE type = "JOB_ORDER" -> {{}, {"NOTED_BY"}, {"APPROVED_BY"},
                              {"NOTED_BY", "APPROVED_BY"}}
    [] type = "AUTHORITY_TO_CONDUCT_ACTIVITY" ->
         {{}, {"APPROVER_5"},
          {"APPROVER_2", "APPROVER_3", "APPROVER_4", "APPROVER_5"}}
    [] OTHER -> {{}}

\* type: the column of tickets the meta is in.
\* pending: who is to execute a Job Order once it is approved; executing:
\* executionAssignedAt is set; workers, assistance: who helps with it.
Meta == [type : Types, step : Steps \union {"DONE"}, seat : [Steps -> Person],
         completed : SUBSET Steps, skips : SUBSET Steps,
         pending : Person, executing : BOOLEAN, workers : SUBSET Agents,
         assistance : SUBSET Agents, jobDone : BOOLEAN]

\* A transfer requested and not decided; to is None for the Admin's queue.
Handover == [from : Person, to : Person]

\* output: a Job Output is among the attachments.
\* transfer: what the activity log says last about transfers.
Row == [status : {"OPEN", "IN_PROGRESS", "ESCALATED", "RESOLVED",
                  "FOR_CONFIRMATION"},
        assigned : Person, output : BOOLEAN,
        transfer : Handover \union {None}]

ASSUME ProceduralAssumption ==
  /\ None \notin Handover
  /\ \A d \in Drafts :
       /\ d.type \in Types /\ d.seat \in [Steps -> Person]
       /\ d.skips \in Skippable(d.type)
       /\ \A s \in d.skips \union {"CANVASSED_BY"} : d.seat[s] = None
       /\ d.type = "AUTHORITY_TO_CONDUCT_ACTIVITY" =>
            \A s, t \in StepsOf(d.type) \ d.skips :
              d.seat[s] # None /\ (d.seat[s] = d.seat[t] => s = t)
  /\ \A f \in SeatForms :
       DOMAIN f \subseteq Steps /\ \A s \in DOMAIN f : f[s] \in Person

-----------------------------------------------------------------------------
(* The rules of the chains *)

Rank(s) == CASE s \in {"CANVASSED_BY", "PREPARED_BY", "NOTED_BY",
                      "RECOMMENDED_BY"} -> 1
             [] s \in {"RECOMMENDING_APPROVAL", "FINANCE_MANAGER"} -> 2
             [] s \in {"APPROVED_BY", "APPROVER_1"} -> 3
             [] s \in {"APPROVED_BY_2", "APPROVER_2"} -> 4
             [] s = "APPROVER_3" -> 5
             [] s = "APPROVER_4" -> 6
             [] s = "APPROVER_5" -> 7
             [] OTHER -> 8

IsJobOrder(m) == m.type = "JOB_ORDER"

IsAuthority(m) == m.type = "AUTHORITY_TO_CONDUCT_ACTIVITY"

SupportsTransfer(m) == m.type = "ITEM_REQUISITION_SLIP" \/ IsAuthority(m)

StepsFor(m) == StepsOf(m.type) \ m.skips

\* The first of some steps.
First(ss) == IF ss = {} THEN "DONE"
             ELSE CHOOSE s \in ss : \A t \in ss : Rank(s) <= Rank(t)

Later(m, s) == {t \in StepsFor(m) : Rank(s) < Rank(t)}

\* Mutant: Approved By is passed over.
NextStepSkipping(m) == First(Later(m, m.step) \ {"APPROVED_BY"})

NextStep(m) == First(Later(m, m.step))

BoardSeat(m) == IF m.step = "DONE" THEN None ELSE m.seat[m.step]

\* A Job Order whose last approver is to sign.
AtLastApprover(m) ==
  IsJobOrder(m) /\ m.step # "DONE" /\ Later(m, m.step) = {}

\* Every seat before the last has signed.
ExecutionWorkspaceOpen(m) ==
  \/ m.step = "DONE"
  \/ \A s \in StepsFor(m) : Later(m, s) # {} => s \in m.completed

ReadyForConfirmation(m) ==
  IsJobOrder(m) => m.jobDone /\ m.step = "DONE"

AwaitsExecution(m) == IsJobOrder(m) /\ m.step = "DONE" /\ ~m.executing

\* Mutant: the last approver does not wait for Job Done.
CanCompleteUndone(m, actor, row) ==
  /\ m.step # "DONE"
  /\ row.assigned # None /\ actor = row.assigned
  /\ IsAuthority(m) => m.seat[m.step] = actor
  /\ AtLastApprover(m) => row.output

\* Whether or not it is his seat, but for an Authority.
CanComplete(m, actor, row) ==
  /\ m.step # "DONE"
  /\ row.assigned # None /\ actor = row.assigned
  /\ IsAuthority(m) => m.seat[m.step] = actor
  /\ AtLastApprover(m) => m.jobDone /\ row.output

Seated(m, s, a) == [m EXCEPT !.seat[s] = a]

\* Of a form, the fields that the type has.
Filled(m, f) ==
  LET fields == DOMAIN f \cap StepsOf(m.type)
  IN  [m EXCEPT !.seat = [s \in Steps |-> IF s \in fields THEN f[s] ELSE @[s]]]

\* Who signs the current step takes its seat, if he does not have it; the last
\* signature makes the pending assignee the one who executes.
Signed(m, a) ==
  LET new == [Seated(m, m.step, a) EXCEPT !.step = NextStep(m),
                                          !.completed = @ \union {m.step},
                                          !.executing = FALSE]
  IN  IF new.step # "DONE" \/ m.pending = None THEN new
      ELSE [new EXCEPT !.executing = TRUE, !.pending = None]

\* Whose board the request belongs on then.
HolderAfter(m, a) ==
  IF Signed(m, a).step = "DONE" THEN m.pending ELSE BoardSeat(Signed(m, a))

Executed(m) == [m EXCEPT !.executing = TRUE, !.pending = None]

\* Saving the pricing signs the canvass; the company's position, if there is
\* one, fills an open Approved By.
Canvassed(m, a, position) ==
  LET new == Signed(m, a)
  IN  IF new.seat["APPROVED_BY"] # None THEN new
      ELSE Seated(new, "APPROVED_BY", position)

Uncanvassed(m) ==
  [m EXCEPT !.seat["CANVASSED_BY"] = None, !.step = "CANVASSED_BY",
            !.completed = @ \ {"CANVASSED_BY"}]

\* Who executes, or will.
Executor(m, row) ==
  IF m.step = "DONE" /\ row.assigned # None THEN row.assigned ELSE m.pending

-----------------------------------------------------------------------------
(* Intake: who submits a fund transfer, if known, has prepared it *)

Prepares(d) ==
  d.type = "FUND_TRANSFER_REQUEST" /\ d.seat["PREPARED_BY"] # None

Intake(d) ==
  LET signed == IF Prepares(d) THEN {"PREPARED_BY"} ELSE {}
  IN  [type |-> d.type, step |-> First((StepsOf(d.type) \ d.skips) \ signed),
       seat |-> d.seat, completed |-> signed, skips |-> d.skips,
       pending |-> None, executing |-> FALSE, workers |-> {},
       assistance |-> {}, jobDone |-> FALSE]

Init ==
  \E d \in Drafts :
    /\ file = Intake(d)
    /\ ticket = [status   |-> IF BoardSeat(Intake(d)) = None THEN "OPEN"
                              ELSE "IN_PROGRESS",
                 assigned |-> BoardSeat(Intake(d)),
                 output   |-> FALSE,
                 transfer |-> None]
    /\ req = [r \in Requests |-> Idle]

-----------------------------------------------------------------------------
(* Requests *)

\* What a client sends, past the checks that need only the row.
SendForApproval(r) ==
  \/ \E a \in Agents, f \in SeatForms : Arrive(r, "seats", a, f)
  \/ \E a, b \in Agents : MayMutate(a) /\ Arrive(r, "request", a, b)
  \/ \E a \in Agents : a = ticket.assigned /\ Arrive(r, "complete", a, None)
  \/ \E a \in Agents, s \in StatusTargets :
       MayMoveTo(a, s) /\ Arrive(r, "status", a, s)
  \/ \E a \in Admins, b \in Agents : Arrive(r, "board", a, b)

\* position: who approves requisitions in the requestor's company.  Undo asks
\* for an Admin of a higher role.
SendForRequisition(r) ==
  \/ \E a \in Agents, position \in Person :
       a = ticket.assigned /\ Arrive(r, "pricing", a, position)
  \/ \E a \in Admins : Arrive(r, "undo", a, None)

SendForExecution(r) ==
  \/ \E a \in Admins, b \in Agents : Arrive(r, "execute", a, b)
  \/ \E a, b \in Agents : Arrive(r, "workers", a, b)
  \/ \E a \in Agents, b \in Person : Arrive(r, "assist", a, b)
  \/ \E a \in Agents, section \in {"planning", "job_output"} :
       Arrive(r, "upload", a, section)
  \/ \E a \in Agents : Arrive(r, "jobdone", a, None)

\* The page of the ticket; creator: the agent its requestor is found to be.
SendView(r) == \E creator \in Person : Arrive(r, "view", None, creator)

\* To a colleague, or to an Admin by clients that still do.
SendForTransfer(r) ==
  \/ \E a \in Agents, b \in Person :
       /\ a = ticket.assigned /\ a # b /\ SupportsTransfer(file)
       /\ Arrive(r, "transfer", a, b)
  \/ \E a \in Agents, op \in {"accept", "decline"} : Arrive(r, op, a, None)

Send(r) == \/ SendForApproval(r) \/ SendForRequisition(r)
           \/ SendForExecution(r) \/ SendView(r) \/ SendForTransfer(r)

TransferOps == {"transfer", "accept", "decline"}

ReadMeta(r) == req[r].op \notin TransferOps /\ ReadFile(r)

\* The rest of the checks, on the copies q.seen of the row and q.saw of the
\* meta.
MayRequest(q) ==
  /\ q.saw.step # "DONE" /\ ~IsAuthority(q.saw)
  /\ q.saw.type = "ITEM_REQUISITION_SLIP" => q.saw.step = "APPROVED_BY"

MayComplete(q) ==
  q.saw.step # "CANVASSED_BY" /\ CanComplete(q.saw, q.actor, q.seen)

\* For Confirmation signs the current step, the canvass too; an Authority
\* has to be green-lit.
MayChangeStatus(q) ==
  q.arg = "FOR_CONFIRMATION" /\ q.saw.step # "DONE"
    => ~IsAuthority(q.saw) /\ CanComplete(q.saw, q.actor, q.seen)

\* What there is to save; Approved By of a requisition is the company's, and
\* an Authority is only moved.
MaySeatFromBoard(q) ==
  IF q.saw.step = "DONE" THEN IsJobOrder(q.saw)
  ELSE /\ ~IsAuthority(q.saw)
       /\ q.saw.type = "ITEM_REQUISITION_SLIP" /\ q.saw.step = "APPROVED_BY"
            => q.saw.seat["APPROVED_BY"] = None

\* After the canvass, pricing changes nothing but the description.
MayPrice(q) ==
  q.saw.step = "CANVASSED_BY" /\ CanComplete(q.saw, q.actor, q.seen)

MayUndo(q) ==
  /\ q.saw.type = "ITEM_REQUISITION_SLIP" /\ q.saw.step # "DONE"
  /\ "APPROVED_BY" \notin q.saw.completed
  /\ "CANVASSED_BY" \in q.saw.completed \/ q.saw.step # "CANVASSED_BY"

MayExecute(q) == IsJobOrder(q.saw) /\ ExecutionWorkspaceOpen(q.saw)

MaySetWorkers(q) ==
  /\ MayExecute(q) /\ Executor(q.saw, q.seen) # None
  /\ q.actor \in Admins \union {q.seen.assigned, Executor(q.saw, q.seen)}

\* The head of the department that the order is for counts as an Admin.
MaySetAssistance(q) ==
  /\ MayExecute(q) /\ q.actor \in Admins \union {q.seen.assigned}
  /\ q.arg # None => Executor(q.saw, q.seen) # None

Team(m) == m.workers \union m.assistance

MayUpload(q) ==
  /\ MayExecute(q)
  /\ \/ q.actor \in Admins \union Team(q.saw)
     \/ q.actor = IF q.seen.assigned # None THEN q.seen.assigned
                  ELSE q.saw.pending

canMarkJobOrderDone(q) ==
  /\ MayExecute(q) /\ ~q.saw.jobDone
  /\ q.seen.status \in {"OPEN", "IN_PROGRESS", "ESCALATED"}
  /\ q.actor \in Admins \union Team(q.saw)
                        \union {q.seen.assigned, q.saw.pending}

Backfills(q) ==
  /\ q.saw.type = "FUND_TRANSFER_REQUEST"
  /\ q.saw.seat["PREPARED_BY"] = None \/ "PREPARED_BY" \notin q.saw.completed
  /\ q.saw.seat["PREPARED_BY"] # None \/ q.arg # None

Reconciles(q) ==
  /\ AwaitsExecution(q.saw)
  /\ q.seen.assigned # None \/ q.seen.status = "FOR_CONFIRMATION"

Accepted(q) ==
  CASE q.op = "seats"    -> ~IsAuthority(q.saw)
    [] q.op = "request"  -> MayRequest(q)
    [] q.op = "complete" -> MayComplete(q)
    [] q.op = "status"   -> MayChangeStatus(q)
    [] q.op = "board"    -> MaySeatFromBoard(q)
    [] q.op = "pricing"  -> MayPrice(q)
    [] q.op = "undo"     -> MayUndo(q)
    [] q.op = "execute"  -> MayExecute(q)
    [] q.op = "workers"  -> MaySetWorkers(q)
    [] q.op = "assist"   -> MaySetAssistance(q)
    [] q.op = "upload"   -> MayUpload(q)
    [] q.op = "jobdone"  -> canMarkJobOrderDone(q)
    [] OTHER             -> Backfills(q) \/ Reconciles(q)

\* Mutant: the WHERE clause does not look at the step.
SaveFindsUnguarded(q) == TRUE

\* The UPDATE of an Authority names the step that the request has read.
SaveFinds(q) ==
  IsAuthority(q.saw) /\ q.op = "complete" => file.step = q.saw.step

Acts(r, op) == At(r, op, "act") /\ Accepted(req[r]) /\ SaveFinds(req[r])

\* Refused, in conflict with what was saved since, or nothing to do.
Refuse(r) ==
  /\ req[r].pc = "act" /\ ~(Accepted(req[r]) /\ SaveFinds(req[r]))
  /\ Answer(r)
  /\ UNCHANGED <<ticket, file>>

\* The meta is saved and the ticket is written next, for holder.
Save(r, new, holder) ==
  /\ file' = new
  /\ req' = [req EXCEPT ![r].pc = "write", ![r].saw = new, ![r].arg = holder]
  /\ UNCHANGED ticket

SaveAndAnswer(r, new) == file' = new /\ Answer(r) /\ UNCHANGED ticket

WriteAndAnswer(r, row) == ticket' = row /\ Answer(r) /\ UNCHANGED file

\* The UPDATE that sets the status and hands the ticket to q.arg.
Handed(q, status) ==
  [ticket EXCEPT !.status = status,
                 !.assigned = BoardWrite(q.arg, q.seen.assigned)]

-----------------------------------------------------------------------------
(* The chain: set_*_approval_assignees, request_*_approval and             *)
(* complete_*_approval_step, and the For Confirmation move                 *)

\* An approved Job Order is with who executes it: its seats do not move it.
SetSeats(r) ==
  LET new == Filled(req[r].saw, req[r].arg)
  IN  /\ Acts(r, "seats")
      /\ IF IsJobOrder(new) /\ new.step = "DONE" THEN SaveAndAnswer(r, new)
         ELSE Save(r, new, BoardSeat(new))

PlaceSeats(r) ==
  LET q == req[r]
  IN  /\ At(r, "seats", "write")
      /\ WriteAndAnswer(r, Handed(q,
           IF q.arg \notin {None, q.seen.assigned} /\ q.seen.status = "OPEN"
           THEN "IN_PROGRESS" ELSE ticket.status))

RequestApproval(r) ==
  LET q == req[r]
  IN  /\ Acts(r, "request")
      /\ Save(r, Seated(q.saw, q.saw.step, q.arg), q.arg)

PlaceRequested(r) ==
  /\ At(r, "request", "write")
  /\ WriteAndAnswer(r, [ticket EXCEPT !.status = "IN_PROGRESS",
                                      !.assigned = req[r].arg])

Signs(q) ==
  \/ q.op = "complete"
  \/ q.op = "status" /\ q.arg = "FOR_CONFIRMATION" /\ q.saw.step # "DONE"

SignStep(r) ==
  LET q == req[r]
  IN  /\ \E op \in {"complete", "status"} : Acts(r, op)
      /\ Signs(q)
      /\ Save(r, Signed(q.saw, q.actor), HolderAfter(q.saw, q.actor))

\* Mutant: what is approved is sent back to work.
PlaceUnconfirmed(r) ==
  /\ \E op \in {"complete", "status"} : At(r, op, "write")
  /\ WriteAndAnswer(r, Handed(req[r], "IN_PROGRESS"))

\* The last signature confirms; a Job Order that gets it by the move goes back
\* to work.
PlaceSigned(r) ==
  LET q == req[r]
  IN  /\ \E op \in {"complete", "status"} : At(r, op, "write")
      /\ WriteAndAnswer(r,
           IF q.saw.step # "DONE" THEN Handed(q, "IN_PROGRESS")
           ELSE IF ~IsJobOrder(q.saw)
                THEN [ticket EXCEPT !.status = "FOR_CONFIRMATION"]
           ELSE Handed(q, IF q.op = "complete" /\ ReadyForConfirmation(q.saw)
                          THEN "FOR_CONFIRMATION" ELSE "IN_PROGRESS"))

ChangeStatus(r) ==
  /\ Acts(r, "status") /\ ~Signs(req[r])
  /\ WriteAndAnswer(r, [ticket EXCEPT !.status = req[r].arg])

-----------------------------------------------------------------------------
(* The board's manual assignment: the ticket first, then the meta *)

\* A parked ticket goes back to work, and its transfer is logged as approved.
MoveOnBoard(r) ==
  LET q == req[r]
      parked == q.seen.status = "ESCALATED"
  IN  /\ At(r, "board", "move")
      /\ ticket' = [ticket EXCEPT
              !.assigned = q.arg,
              !.status = IF parked THEN "IN_PROGRESS" ELSE @]
      /\ Turn(r, IF parked THEN "note" ELSE "read")
      /\ UNCHANGED file

LogReassigned(r) ==
  /\ At(r, "board", "note")
  /\ ticket' = [ticket EXCEPT !.transfer = None]
  /\ Turn(r, "read")
  /\ UNCHANGED file

SeatFromBoard(r) ==
  LET q == req[r]
  IN  /\ Acts(r, "board")
      /\ IF q.saw.step # "DONE"
         THEN SaveAndAnswer(r, Seated(q.saw, q.saw.step, q.arg))
         ELSE Save(r, Executed(q.saw), q.arg)

ResumeFromBoard(r) ==
  /\ At(r, "board", "write")
  /\ WriteAndAnswer(r, IF req[r].seen.status \in {"FOR_CONFIRMATION", "OPEN"}
                       THEN [ticket EXCEPT !.status = "IN_PROGRESS"]
                       ELSE ticket)

-----------------------------------------------------------------------------
(* Item Requisition Slip: update_item_requisition_pricing and              *)
(* undo_item_requisition_canvass                                           *)

SavePricing(r) ==
  LET q == req[r]
      new == Canvassed(q.saw, q.actor, q.arg)
  IN  Acts(r, "pricing") /\ Save(r, new, BoardSeat(new))

\* Mutant: the canvasser keeps the ticket.
PlaceCanvassedKept(r) ==
  /\ At(r, "pricing", "write")
  /\ WriteAndAnswer(r, [ticket EXCEPT !.status = "IN_PROGRESS"])

PlaceCanvassed(r) ==
  /\ At(r, "pricing", "write")
  /\ WriteAndAnswer(r, Handed(req[r], "IN_PROGRESS"))

UndoCanvass(r) ==
  Acts(r, "undo") /\ Save(r, Uncanvassed(req[r].saw), None)

PlaceUncanvassed(r) ==
  /\ At(r, "undo", "write")
  /\ WriteAndAnswer(r, [ticket EXCEPT !.status = "IN_PROGRESS"])

-----------------------------------------------------------------------------
(* Job Order: its execution *)

\* set_job_order_execution_assignee: staged until the order is approved, and
\* then the ticket first.
StageExecutor(r) ==
  LET q == req[r]
  IN  /\ Acts(r, "execute") /\ q.saw.step # "DONE"
      /\ SaveAndAnswer(r, [q.saw EXCEPT !.pending = q.arg])

AssignExecutor(r) ==
  LET q == req[r]
  IN  /\ Acts(r, "execute") /\ q.saw.step = "DONE"
      /\ ticket' = [ticket EXCEPT
              !.assigned = q.arg,
              !.status = IF q.seen.status \in {"OPEN", "FOR_CONFIRMATION"}
                         THEN "IN_PROGRESS" ELSE @]
      /\ Turn(r, "mark")
      /\ UNCHANGED file

MarkExecutor(r) ==
  /\ At(r, "execute", "mark")
  /\ SaveAndAnswer(r, Executed(req[r].saw))

SetWorkers(r) ==
  LET q == req[r]
  IN  /\ Acts(r, "workers")
      /\ SaveAndAnswer(r, [q.saw EXCEPT
                             !.workers = {q.arg} \ {Executor(q.saw, q.seen)}])

SetAssistance(r) ==
  LET q == req[r]
  IN  /\ Acts(r, "assist")
      /\ SaveAndAnswer(r, [q.saw EXCEPT !.assistance = {q.arg} \ {None}])

\* The list of attachments is written back whole.
Upload(r) ==
  LET q == req[r]
  IN  /\ Acts(r, "upload")
      /\ WriteAndAnswer(r, [ticket EXCEPT
           !.output = q.seen.output \/ q.arg = "job_output"])

MarkJobDone(r) ==
  LET new == [req[r].saw EXCEPT !.jobDone = TRUE]
  IN  Acts(r, "jobdone") /\ Save(r, new, BoardSeat(new))

\* Mutant: Job Done confirms, whoever has still to sign.
PlaceJobDoneConfirmed(r) ==
  /\ At(r, "jobdone", "write")
  /\ WriteAndAnswer(r, [ticket EXCEPT !.status = "FOR_CONFIRMATION"])

PlaceJobDone(r) ==
  LET q == req[r]
  IN  /\ At(r, "jobdone", "write")
      /\ WriteAndAnswer(r, IF ReadyForConfirmation(q.saw)
                           THEN [ticket EXCEPT !.status = "FOR_CONFIRMATION"]
                           ELSE Handed(q, "IN_PROGRESS"))

-----------------------------------------------------------------------------
(* What the page repairs: a fund transfer nobody prepared, and a Job Order *)
(* that is approved and still with its approver                            *)

BackfillPreparedBy(r) ==
  LET q == req[r]
      creator == IF q.saw.seat["PREPARED_BY"] # None
                 THEN q.saw.seat["PREPARED_BY"] ELSE q.arg
      stamped == [Seated(q.saw, "PREPARED_BY", creator) EXCEPT
                    !.completed = @ \union {"PREPARED_BY"}]
  IN  /\ Acts(r, "view") /\ Backfills(q)
      /\ SaveAndAnswer(r, IF stamped.step = "PREPARED_BY"
                             /\ "PREPARED_BY" \notin q.saw.completed
                          THEN [stamped EXCEPT !.step = "RECOMMENDING_APPROVAL"]
                          ELSE stamped)

ReconcileExecution(r) ==
  /\ Acts(r, "view") /\ Reconciles(req[r])
  /\ WriteAndAnswer(r, [ticket EXCEPT
       !.status = "IN_PROGRESS",
       !.assigned = IF req[r].seen.assigned # None THEN None ELSE @])

-----------------------------------------------------------------------------
(* request_transfer, approve_transfer and reject_transfer, which read the  *)
(* log, a decision for a second time who was asked                         *)

ReadLog(r) ==
  LET q == req[r]
  IN  /\ q.op \in TransferOps
      /\ \/ q.pc = "read"
         \/ q.pc = "weigh" /\ q.op # "transfer" /\ q.seen.transfer # None
      /\ req' = [req EXCEPT ![r].pc = IF q.pc = "read" THEN "weigh" ELSE "decide",
                            ![r].seen.transfer = ticket.transfer]
      /\ UNCHANGED <<ticket, file>>

Peer(t) == t # None /\ t.to # None

\* Admins, or the colleague who was asked.
canViewerApproveTransfer(a, t) == a \in Admins \/ (Peer(t) /\ a = t.to)

\* A transfer is pending already, or none is; or the viewer has no say.
RefuseTransfer(r) ==
  LET q == req[r]
  IN  /\ \/ /\ q.pc = "weigh"
            /\ (q.op = "transfer") = (q.seen.transfer # None)
         \/ /\ q.pc = "decide"
            /\ ~canViewerApproveTransfer(q.actor, q.seen.transfer)
      /\ Answer(r)
      /\ UNCHANGED <<ticket, file>>

RequestTransfer(r) ==
  LET q == req[r]
  IN  /\ At(r, "transfer", "weigh") /\ q.seen.transfer = None
      /\ ticket' = [ticket EXCEPT !.transfer =
           [from |-> IF q.arg = None THEN None ELSE q.actor, to |-> q.arg]]
      /\ Turn(r, "park")
      /\ UNCHANGED file

\* A request to a colleague leaves the board; one to an Admin stays there.
Park(r) ==
  LET q == req[r]
  IN  /\ At(r, "transfer", "park")
      /\ WriteAndAnswer(r,
           IF q.arg # None
           THEN [ticket EXCEPT !.status = "ESCALATED", !.assigned = None]
           ELSE [ticket EXCEPT !.status =
                   IF q.seen.status = "OPEN" THEN "ESCALATED" ELSE q.seen.status])

\* The ticket, before the decision is logged.
WriteDecided(r, op, row) ==
  /\ At(r, op, "decide")
  /\ canViewerApproveTransfer(req[r].actor, req[r].seen.transfer)
  /\ ticket' = row
  /\ Turn(r, "decided")
  /\ UNCHANGED file

Resumed(q, a) ==
  [ticket EXCEPT !.assigned = a,
                 !.status = IF q.seen.status \in {"ESCALATED", "OPEN"}
                            THEN "IN_PROGRESS" ELSE q.seen.status]

AcceptTransfer(r) ==
  LET q == req[r]
  IN  WriteDecided(r, "accept",
        IF Peer(q.seen.transfer) THEN Resumed(q, q.seen.transfer.to)
        ELSE [ticket EXCEPT !.assigned = None, !.status = "OPEN"])

\* One that an Admin declines changes nothing but the log.
DeclineTransfer(r) ==
  LET q == req[r]
  IN  WriteDecided(r, "decline",
        IF Peer(q.seen.transfer) THEN Resumed(q, q.seen.transfer.from)
        ELSE ticket)

LogDecision(r) ==
  /\ req[r].pc = "decided"
  /\ WriteAndAnswer(r, [ticket EXCEPT !.transfer = None])

-----------------------------------------------------------------------------
Approve(r) ==
  \/ SetSeats(r) \/ PlaceSeats(r) \/ RequestApproval(r) \/ PlaceRequested(r)
  \/ SignStep(r) \/ PlaceSigned(r) \/ ChangeStatus(r)
  \/ MoveOnBoard(r) \/ LogReassigned(r)
  \/ SeatFromBoard(r) \/ ResumeFromBoard(r)
  \/ SavePricing(r) \/ PlaceCanvassed(r)
  \/ UndoCanvass(r) \/ PlaceUncanvassed(r)

Execute(r) ==
  \/ StageExecutor(r) \/ AssignExecutor(r) \/ MarkExecutor(r) \/ SetWorkers(r)
  \/ SetAssistance(r) \/ Upload(r) \/ MarkJobDone(r) \/ PlaceJobDone(r)

HandOver(r) ==
  \/ ReadLog(r) \/ RefuseTransfer(r) \/ RequestTransfer(r) \/ Park(r)
  \/ AcceptTransfer(r) \/ DeclineTransfer(r) \/ LogDecision(r)

Serve(r) == \/ ReadMeta(r) \/ Refuse(r) \/ Approve(r) \/ Execute(r)
            \/ BackfillPreparedBy(r) \/ ReconcileExecution(r) \/ HandOver(r)

Next == Restart \/ \E r \in Requests : Send(r) \/ Serve(r) \/ QueryFails(r)

Spec == Init /\ [][Next]_deskVars

=============================================================================
