-------------------------- MODULE PaymentApproval --------------------------
(***************************************************************************)
(* The approval of a Request for Payment: four steps, each with a seat,    *)
(* kept in the JSON column payment_approval_meta, and the board assignee   *)
(* and status of the ticket beside it.  lib/request-for-payment-approval,  *)
(* lib/payment-approval-db, the payment actions of PATCH .../tickets/[id]  *)
(* and the board's manual assignment.                                      *)
(*                                                                         *)
(* The meta is read, changed in memory and written back whole.  A save     *)
(* that names the step it expects fails if the step has moved on; the      *)
(* board's assignment and the release by a Work Plan save without looking. *)
(* The ticket row is a second query.                                       *)
(*                                                                         *)
(* The rosters of companies, which restrict who can be chosen for a seat,  *)
(* are not kept: anybody can be chosen.  Nor is Prepared By, who takes no  *)
(* part.                                                                   *)
(***************************************************************************)
EXTENDS ApprovalDesk

CONSTANTS
  Drafts,     \* the requests that intake can store
  SeatForms   \* the forms sent from Ticket controls: step -> person or None

Steps == {"NOTED_BY", "APPROVED_BY", "APPROVED_BY_ACCOUNTING",
          "APPROVED_BY_FINANCE"}

AckSteps == {"APPROVED_BY_ACCOUNTING", "APPROVED_BY_FINANCE"}

Meta == [step : Steps \union {"DONE"}, seat : [Steps -> Person],
         completed : SUBSET Steps, acked : SUBSET AckSteps,
         skips : SUBSET {"NOTED_BY", "APPROVED_BY"},
         deferred : BOOLEAN, held : BOOLEAN]

\* mode: the description names a valid mode of payment.
Row == [status : {"OPEN", "IN_PROGRESS", "RESOLVED", "FOR_CONFIRMATION"},
        assigned : Person, mode : BOOLEAN]

Rank(s) == CASE s = "NOTED_BY" -> 1
             [] s = "APPROVED_BY" -> 2
             [] s = "APPROVED_BY_ACCOUNTING" -> 3
             [] s = "APPROVED_BY_FINANCE" -> 4
             [] OTHER -> 5

StepsFor(m) == Steps \ m.skips

StartStep(skips) ==
  IF skips = {"NOTED_BY", "APPROVED_BY"} THEN "APPROVED_BY_ACCOUNTING"
  ELSE IF "NOTED_BY" \in skips THEN "APPROVED_BY" ELSE "NOTED_BY"

ASSUME PaymentAssumption ==
  /\ \A d \in Drafts :
       /\ d.skips \subseteq {"NOTED_BY", "APPROVED_BY"}
       /\ d.seat \in [Steps -> Person] /\ \A s \in d.skips : d.seat[s] = None
       /\ d.deferred \in BOOLEAN /\ d.held \in BOOLEAN
       /\ d.deferred => d.seat["APPROVED_BY_ACCOUNTING"] = None
       /\ d.held => d.skips = {"NOTED_BY", "APPROVED_BY"}
  /\ \A f \in SeatForms :
       DOMAIN f \subseteq Steps /\ \A s \in DOMAIN f : f[s] \in Person

-----------------------------------------------------------------------------
(* The rules of the chain *)

NextStep(m) ==
  CASE m.step = "NOTED_BY" /\ "APPROVED_BY" \notin m.skips -> "APPROVED_BY"
    [] m.step = "NOTED_BY" /\ "APPROVED_BY" \in m.skips -> "APPROVED_BY_ACCOUNTING"
    [] m.step = "APPROVED_BY"            -> "APPROVED_BY_ACCOUNTING"
    [] m.step = "APPROVED_BY_ACCOUNTING" -> "APPROVED_BY_FINANCE"
    [] OTHER                             -> "DONE"

\* Whose board the request belongs on: nobody's while it is held.
BoardSeat(m) == IF m.held \/ m.step = "DONE" THEN None ELSE m.seat[m.step]

\* An open seat is anybody's; a taken one is not for who has another.
CanAssign(m, a, s) ==
  \/ m.seat[s] \in {a, None}
  \/ \A t \in StepsFor(m) \ {s} : m.seat[t] # a

CanComplete(m, actor, assigned) ==
  /\ m.step # "DONE"
  /\ ~(m.step = "APPROVED_BY" /\ "APPROVED_BY" \in m.skips)
  /\ assigned # None /\ actor = assigned
  /\ m.seat[m.step] \in {None, actor}

NotedAndApproved(m) ==
  /\ "NOTED_BY" \in m.completed
  /\ "APPROVED_BY" \in m.skips \union m.completed

CanEditMode(m, mode) ==
  /\ m.step # "DONE" /\ NotedAndApproved(m)
  /\ \/ m.step = "APPROVED_BY_ACCOUNTING"
     \/ /\ m.step = "APPROVED_BY" /\ (m.deferred \/ ~mode)
        /\ m.seat["APPROVED_BY_ACCOUNTING"] = None
        /\ m.seat["APPROVED_BY_FINANCE"] = None

Seated(m, s, a) == [m EXCEPT !.seat[s] = a]

\* A new holder of an Accounting or Finance seat must click Approved anew.
Requested(m, a) ==
  IF m.seat[m.step] \in {None, a}
  THEN Seated(m, m.step, a)
  ELSE [Seated(m, m.step, a) EXCEPT !.acked = @ \ {m.step}]

Acked(m, a) == [Seated(m, m.step, a) EXCEPT !.acked = @ \union {m.step}]

Completed(m, a) ==
  [Seated(m, m.step, a) EXCEPT !.step = NextStep(m),
                               !.completed = @ \union {m.step}]

Filled(m, f) ==
  [m EXCEPT !.seat = [s \in Steps |-> IF s \in DOMAIN f THEN f[s] ELSE m.seat[s]]]

\* An Accounting or Finance seat is open past the first two signatures.
SeatsDeferred(m) == NotedAndApproved(m) /\ \E s \in AckSteps : m.seat[s] = None

OnePersonOneSeat(m) ==
  \A s, t \in Steps : s # t /\ m.seat[s] # None => m.seat[s] # m.seat[t]

Released(m, bookkeeper) ==
  [m EXCEPT !.skips = {"NOTED_BY", "APPROVED_BY"},
            !.step = StartStep({"NOTED_BY", "APPROVED_BY"}),
            !.held = FALSE,
            !.seat["NOTED_BY"] = None, !.seat["APPROVED_BY"] = None,
            !.seat["APPROVED_BY_ACCOUNTING"] = IF @ = None THEN bookkeeper ELSE @]

-----------------------------------------------------------------------------
(* Intake *)

Intake(d) ==
  [step |-> StartStep(d.skips), seat |-> d.seat, completed |-> {}, acked |-> {},
   skips |-> d.skips, deferred |-> d.deferred, held |-> d.held]

Init ==
  \E d \in Drafts :
    /\ file = Intake(d)
    /\ ticket = [status   |-> IF BoardSeat(Intake(d)) = None THEN "OPEN"
                              ELSE "IN_PROGRESS",
                 assigned |-> BoardSeat(Intake(d)),
                 mode     |-> ~d.deferred]
    /\ req = [r \in Requests |-> Idle]

-----------------------------------------------------------------------------
(* Requests *)

\* Only Ticket controls saves without naming the step it expects elsewhere:
\* the board and the release overwrite.
SavesGuarded == {"seats", "request", "approve", "complete"}

\* What a client sends, past the checks that need only the row.
Send(r) ==
  \/ \E a \in Agents, f \in SeatForms : Arrive(r, "seats", a, f)
  \/ \E a, b \in Agents : MayMutate(a) /\ Arrive(r, "request", a, b)
  \/ \E a \in Agents :
       a = ticket.assigned /\ \E op \in {"approve", "complete"} :
                                 Arrive(r, op, a, None)
  \/ \E a \in Agents : MayMutate(a) /\ Arrive(r, "mode", a, None)
  \/ \E a \in Agents, s \in StatusTargets :
       MayMoveTo(a, s) /\ Arrive(r, "status", a, s)
  \/ \E a \in Admins, b \in Agents : Arrive(r, "board", a, b)
  \/ \E b \in Person : Arrive(r, "release", None, b)

\* The rest of the checks, on the copies q.seen of the row and q.saw of the
\* meta.
FullEditor(q) ==
  q.actor \in Admins \/ q.actor # q.seen.assigned \/ ~SeatsDeferred(q.saw)

\* Of the form, the assigned Personnel fills these two seats and no others.
FormOf(q) ==
  IF FullEditor(q) THEN q.arg
  ELSE [s \in DOMAIN q.arg \cap AckSteps |-> q.arg[s]]

MaySetSeats(q) ==
  /\ ~FullEditor(q) =>
       \A s \in AckSteps : \/ s \in DOMAIN q.arg /\ q.arg[s] # None
                           \/ q.saw.seat[s] # None
  /\ OnePersonOneSeat(Filled(q.saw, FormOf(q)))

\* Mutant: only an open seat can be filled.
MayRequestOpen(q) ==
  /\ q.saw.step # "DONE"
  /\ ~CanComplete(q.saw, q.actor, q.seen.assigned)
  /\ q.saw.seat[q.saw.step] = None

\* Done comes before asking for the next approval.
MayRequest(q) ==
  /\ q.saw.step # "DONE"
  /\ q.actor = q.seen.assigned =>
       \/ ~CanComplete(q.saw, q.actor, q.seen.assigned)
       \/ \E s \in StepsFor(q.saw) :
            q.saw.seat[s] = q.actor /\ q.actor # q.saw.seat[q.saw.step]
  /\ CanAssign(q.saw, q.arg, q.saw.step)

MayApprove(q) ==
  /\ CanComplete(q.saw, q.actor, q.seen.assigned)
  /\ q.saw.step \in AckSteps \ q.saw.acked
  /\ CanAssign(q.saw, q.actor, q.saw.step)

MayUpdateMode(q) == CanEditMode(q.saw, q.seen.mode)

\* Mutant: Accounting and Finance are done without having clicked Approved.
MayCompleteUnacked(q) ==
  /\ CanComplete(q.saw, q.actor, q.seen.assigned)
  /\ q.saw.step = "APPROVED_BY_ACCOUNTING" => q.seen.mode
  /\ CanAssign(q.saw, q.actor, q.saw.step)

MayComplete(q) ==
  /\ CanComplete(q.saw, q.actor, q.seen.assigned)
  /\ q.saw.step \in AckSteps => q.saw.step \in q.saw.acked
  /\ q.saw.step = "APPROVED_BY_ACCOUNTING" => q.seen.mode
  /\ CanAssign(q.saw, q.actor, q.saw.step)

MayChangeStatus(q) == q.arg = "FOR_CONFIRMATION" => q.saw.step = "DONE"

MaySeatFromBoard(q) == q.saw.step # "DONE" /\ CanAssign(q.saw, q.arg, q.saw.step)

MayRelease(q) == q.saw.held

Accepted(q) ==
  CASE q.op = "seats"    -> MaySetSeats(q)
    [] q.op = "request"  -> MayRequest(q)
    [] q.op = "approve"  -> MayApprove(q)
    [] q.op = "mode"     -> MayUpdateMode(q)
    [] q.op = "complete" -> MayComplete(q)
    [] q.op = "status"   -> MayChangeStatus(q)
    [] q.op = "board"    -> MaySeatFromBoard(q)
    [] OTHER             -> MayRelease(q)

\* Mutant: the WHERE clause does not look at the step.
SaveFindsUnguarded(q) == TRUE

SaveFinds(q) == q.op \in SavesGuarded => file.step = q.saw.step

\* Refused, or in conflict with what was saved since.
Refuse(r) ==
  /\ req[r].pc = "act" /\ ~(Accepted(req[r]) /\ SaveFinds(req[r]))
  /\ Answer(r)
  /\ UNCHANGED <<ticket, file>>

\* The save succeeds and the ticket is written next.
Save(r, op, new) ==
  /\ At(r, op, "act") /\ Accepted(req[r]) /\ SaveFinds(req[r])
  /\ file' = new
  /\ Hold(r, "write", new)
  /\ UNCHANGED ticket

SaveAndAnswer(r, op, new) ==
  /\ At(r, op, "act") /\ Accepted(req[r]) /\ SaveFinds(req[r])
  /\ file' = new
  /\ Answer(r)
  /\ UNCHANGED ticket

-----------------------------------------------------------------------------
(* set_payment_approval_assignees *)

SetSeats(r) == Save(r, "seats", Filled(req[r].saw, FormOf(req[r])))

\* Mutant: the seat moves but not the request.
PlaceSeatsNot(r) ==
  /\ At(r, "seats", "write")
  /\ Answer(r)
  /\ UNCHANGED <<ticket, file>>

PlaceSeats(r) ==
  LET next == BoardSeat(req[r].saw)
      seen == req[r].seen
  IN  /\ At(r, "seats", "write")
      /\ ticket' = [ticket EXCEPT
                      !.assigned = BoardWrite(next, seen.assigned),
                      !.status = IF next \notin {None, seen.assigned}
                                      /\ seen.status = "OPEN"
                                 THEN "IN_PROGRESS" ELSE @]
      /\ Answer(r)
      /\ UNCHANGED file

(* request_payment_approval *)

RequestApproval(r) == Save(r, "request", Requested(req[r].saw, req[r].arg))

PlaceRequested(r) ==
  /\ At(r, "request", "write")
  /\ ticket' = [ticket EXCEPT !.status = "IN_PROGRESS", !.assigned = req[r].arg]
  /\ Answer(r)
  /\ UNCHANGED file

(* approve_payment_step *)

ApproveStep(r) == SaveAndAnswer(r, "approve", Acked(req[r].saw, req[r].actor))

(* update_payment_mode *)

UpdateMode(r) ==
  /\ At(r, "mode", "act") /\ Accepted(req[r])
  /\ ticket' = [ticket EXCEPT !.mode = TRUE]
  /\ Answer(r)
  /\ UNCHANGED file

(* complete_payment_approval_step *)

CompleteStep(r) == Save(r, "complete", Completed(req[r].saw, req[r].actor))

PlaceCompleted(r) ==
  LET new == req[r].saw
  IN  /\ At(r, "complete", "write")
      /\ ticket' =
           IF new.step = "DONE"
           THEN [ticket EXCEPT !.status = "FOR_CONFIRMATION"]
           ELSE [ticket EXCEPT
                   !.status = "IN_PROGRESS",
                   !.assigned = BoardWrite(BoardSeat(new), req[r].seen.assigned)]
      /\ Answer(r)
      /\ UNCHANGED file

(* status: RESOLVED does not ask for the chain *)

ChangeStatus(r) ==
  /\ At(r, "status", "act") /\ Accepted(req[r])
  /\ ticket' = [ticket EXCEPT !.status = req[r].arg]
  /\ Answer(r)
  /\ UNCHANGED file

(* The board's manual assignment: the ticket first, then the seat. *)

MoveOnBoard(r) ==
  /\ At(r, "board", "move")
  /\ ticket' = [ticket EXCEPT !.assigned = req[r].arg]
  /\ Turn(r, "read")
  /\ UNCHANGED file

SeatFromBoard(r) ==
  SaveAndAnswer(r, "board", Seated(req[r].saw, req[r].saw.step, req[r].arg))

(* The release when the Work Plan is approved: only the meta is written. *)

ReleaseHeld(r) == SaveAndAnswer(r, "release", Released(req[r].saw, req[r].arg))

-----------------------------------------------------------------------------
Serve(r) ==
  \/ ReadFile(r) \/ Refuse(r) \/ SetSeats(r) \/ PlaceSeats(r)
  \/ RequestApproval(r) \/ PlaceRequested(r) \/ ApproveStep(r)
  \/ UpdateMode(r) \/ CompleteStep(r) \/ PlaceCompleted(r)
  \/ ChangeStatus(r) \/ MoveOnBoard(r) \/ SeatFromBoard(r) \/ ReleaseHeld(r)

Next == Restart \/ \E r \in Requests : Send(r) \/ Serve(r) \/ QueryFails(r)

Spec == Init /\ [][Next]_deskVars

=============================================================================
