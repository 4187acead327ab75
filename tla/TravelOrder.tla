---------------------------- MODULE TravelOrder ----------------------------
(***************************************************************************)
(* One travel order (a "Work Plan" or a legacy Travel Order) from the row  *)
(* its creation stored to CONFIRMED, CANCELLED or REJECTED, with the task  *)
(* it completes and the row it is mirrored to.                             *)
(*                                                                         *)
(* The handlers are Next.js routes.  None of them opens a transaction: a   *)
(* route reads the row, decides, awaits, and writes.  Each await is a      *)
(* point where the other requests of the process run, so that a handler is *)
(* a chain of actions of one element of Requests, and what it holds across *)
(* an await is in the record req[r].                                       *)
(*                                                                         *)
(* Covered: the status machine, the approval signatures, the gate pass,    *)
(* the visits of the locations, adding locations, the KPI record, the task *)
(* and the MySQL mirror; failures of the confirmation's background work    *)
(* and a restart of the process.                                           *)
(* The linked Request for Payment is the module LinkedRfp: here its        *)
(* requests only take up a slot.  Not covered: remarks, attachments, the   *)
(* decline reason, notifications, and the deletion of the task.            *)
(***************************************************************************)
EXTENDS ApprovalChain, FiniteSets

CONSTANTS
  Requests,      \* slots for requests in flight
  InFlight,      \* how many of them overlap; 1 = one request after the other
  Agents,        \* the staff who send requests
  Managers,      \* agents with perms.canAssignWork or an Admin portal role
  Guards,        \* agents with the Personnel-Guard portal role
  Drafts,        \* the drafts creation may have accepted
  Locations,     \* identifiers of location rows
  MaxLocations,  \* MAX_LOCATIONS_PER_ORDER
  Ops,           \* the operations clients send: the bound of a run
  Faults,        \* the failures that may happen
  None           \* SQL NULL

AllOps == {"approve", "reject", "cancel", "confirm", "resubmit", "submitDone",
           "addLocation", "visitStart", "visitEnd",
           "gateStart", "gateEnd", "gateEdit", "gateDrop",
           "retryRfp", "editRfp"}
AllFaults == {"finalize", "sync", "crash"}

Status == {"SUBMITTED", "APPROVED", "CONFIRMED", "REJECTED", "CANCELLED"}

\* The row's timestamps are written once and compared with NULL only: a stamp
\* is the slot whose request captured it.
Stamp == Requests \cup {None}

Seat == [holder : Agents, alternates : SUBSET Agents, optional : BOOLEAN]

Draft == [seats      : Seq(Seat),
          flat       : SUBSET Agents,          \* approved_by_agent_ids
          creator    : Agents \cup {None},
          confirmer  : Agents \cup {None},
          travelers  : SUBSET Agents,
          owner      : Agents \cup {None},     \* the task's assignee
          workPlan   : BOOLEAN,
          gatePass   : BOOLEAN,
          stops      : SUBSET Locations]

(***************************************************************************)
(* What validateWorkPlanDraft and createTravelOrderWithLocations require.  *)
(* Two seats of a Work Plan have different holders; the alternates of one  *)
(* seat may well hold or stand in for another one.                         *)
(***************************************************************************)
IsAcceptedDraft(d) ==
  /\ d.stops # {}
  /\ d.seats = << >> => d.flat # {}
  /\ d.workPlan =>
       /\ hasHierarchicalApprovals(d.seats)
       /\ \A k, l \in DOMAIN d.seats :
            d.seats[k].holder = d.seats[l].holder => k = l
       /\ d.confirmer # None
       /\ d.creator # None

ASSUME TravelOrderAssumption ==
  /\ None \notin Requests \cup Agents
  /\ Managers \subseteq Agents /\ Guards \subseteq Agents
  /\ IsFiniteSet(Locations)
  /\ Drafts # {} /\ Drafts \subseteq Draft
  /\ \A d \in Drafts : IsAcceptedDraft(d)
  /\ MaxLocations \in Nat /\ InFlight \in Nat \ {0}
  /\ Ops \subseteq AllOps /\ Faults \subseteq AllFaults

-----------------------------------------------------------------------------

VARIABLES
  plan,    \* the columns of the order no handler rewrites
  order,   \* the columns of the order the handlers rewrite
  task,    \* the KPI maintenance row the order completes
  merged,  \* its row in merged_travel_orders (MySQL)
  req      \* what each request in flight holds across its awaits

vars == <<plan, order, task, merged, req>>

Order == [status   : Status,
          signed   : SUBSET Nat,                \* levels with approvedAt
          gatePass : BOOLEAN,                   \* gate_pass_included
          departed : Stamp,                     \* actual_departure_started_at
          returned : Stamp,                     \* actual_departure_ended_at
          locs     : SUBSET Locations,
          started  : [Locations -> Stamp],
          ended    : [Locations -> Stamp],
          kpiAt    : BOOLEAN,                   \* kpi_submitted_at is set
          percent  : 0..100]                    \* kpi_percent

NewOrder(stops, gatePass) ==
  [status |-> "SUBMITTED", signed |-> {}, gatePass |-> gatePass,
   departed |-> None, returned |-> None, locs |-> stops,
   started |-> [l \in Locations |-> None], ended |-> [l \in Locations |-> None],
   kpiAt |-> FALSE, percent |-> 0]

NoOrder == NewOrder({}, FALSE)

PCs == {"idle",
        "approve.read", "approve.sign", "approve.endorse", "approve.reread",
        "approve.release",
        "gate.read", "gate.write", "status.write", "confirm.reread",
        "kpi.record", "kpi.reread", "kpi.task", "sync.reread", "sync.write",
        "visit.write", "location.write", "rfp"}

Request == [pc      : PCs,
            who     : Agents \cup {None},       \* the operator
            goal    : Status \cup {"start", "end", "edit", "drop", "none"},
            place   : Locations \cup {None},    \* the location of a visit
            first   : Status,                   \* status the route read first
            seen    : Order,                    \* the latest copy of the row
            value   : 0..100,                   \* the percentage computed
            confirm : BOOLEAN]                  \* runs after a confirmation

Idle == [pc |-> "idle", who |-> None, goal |-> "none", place |-> None,
         first |-> "SUBMITTED", seen |-> NoOrder, value |-> 0,
         confirm |-> FALSE]

Init ==
  \E d \in Drafts :
    /\ plan = [d EXCEPT !.seats = normalizeApprovalLevelsForStore(d.seats)]
    /\ order = NewOrder(d.stops, d.gatePass)
    /\ task = [done |-> FALSE, value |-> 0]
    /\ merged = [synced |-> FALSE, status |-> "SUBMITTED", percent |-> 0]
    /\ req = [r \in Requests |-> Idle]

-----------------------------------------------------------------------------
(* What the routes ask of the copy of the row they read, lib/travel-order.ts *)

isTravelOrderApproved(o) == o.status \in {"APPROVED", "CONFIRMED"}

isTravelOrderRunning(o) == o.status = "APPROVED"

\* Legacy rows without travelers fall back on the creator.
isTravelOrderTraveler(a) ==
  IF plan.travelers # {} THEN a \in plan.travelers ELSE a = plan.creator

canApproveTravelOrderNow(a, o) ==
  /\ o.status = "SUBMITTED"
  /\ IF hasHierarchicalApprovals(plan.seats)
     THEN ActionableLevels(plan.seats, o.signed, a) # {}
     ELSE a \in plan.flat

canConfirmTravelOrderNow(a, o) == o.status = "APPROVED" /\ a = plan.confirmer

canCancelTravelOrderNow(a, o) ==
  o.status \in {"SUBMITTED", "APPROVED"} /\ a = plan.creator

travelOrderLocationsUnlocked(o) ==
  isTravelOrderApproved(o) /\ (o.gatePass => o.departed # None)

Completed(o) == {l \in o.locs : o.ended[l] # None}

travelOrderAllLocationsCompleted(o) == o.locs # {} /\ Completed(o) = o.locs

isTravelOrderConfirmReady(o) ==
  /\ o.status = "APPROVED"
  /\ \/ plan.workPlan
     \/ IF o.gatePass THEN o.returned # None
                      ELSE travelOrderAllLocationsCompleted(o)

workPlanUsesGatePass(o) == plan.workPlan /\ (plan.gatePass \/ o.gatePass)

\* Math.round((checked / total) * 100)
fieldAssignmentKpiPercent(o) ==
  IF o.locs = {} THEN 0
  ELSE (200 * Cardinality(Completed(o)) + Cardinality(o.locs))
         \div (2 * Cardinality(o.locs))

\* The task's location routes: work-admins, the task's assignee, travelers.
MayVisit(a) == a \in Managers \/ a = plan.owner \/ isTravelOrderTraveler(a)

-----------------------------------------------------------------------------
(* How a request advances *)

At(r, pc) == req[r].pc = pc

\* The slot can take a request.
Free(r) == req[r] = Idle /\ Cardinality({q \in Requests : req[q] # Idle}) < InFlight

\* A request arrives: its first read of the row is order itself.
Arrive(r, pc, goal) ==
  /\ Free(r)
  /\ req' = [req EXCEPT ![r] = [Idle EXCEPT !.pc = pc, !.goal = goal]]

Goto(r, pc) == req' = [req EXCEPT ![r].pc = pc]

\* Answer, or the end of the background work of a confirmation.
Done(r) == req' = [req EXCEPT ![r] = Idle]

\* findTravelOrderById: keep a copy of the row as it is now.
Reread(r, pc) == req' = [req EXCEPT ![r].pc = pc, ![r].seen = order]

\* UPDATE travel_orders SET one column: nothing else is looked at.
SetStatus(s) == order' = [order EXCEPT !.status = s]

-----------------------------------------------------------------------------
(* PATCH .../travel-orders/:id, approve.  The route only remembers the      *)
(* status it read; approveTravelOrderSequential reads the row again.        *)

Approve(r, a) ==
  /\ "approve" \in Ops /\ a \notin Guards
  /\ Free(r)
  /\ req' = [req EXCEPT ![r] = [Idle EXCEPT !.pc = "approve.read", !.who = a,
                                            !.first = order.status]]
  /\ UNCHANGED <<plan, order, task, merged>>

\* The operator holds the first of the seats open to them.
MaySignSeat(o, a, l) ==
  /\ o.status = "SUBMITTED"
  /\ hasHierarchicalApprovals(plan.seats)
  /\ IsOperatorActionableLevel(plan.seats, o.signed, a, l)
  /\ a = plan.seats[l].holder

MaySign(o, a) == \E l \in DOMAIN plan.seats : MaySignSeat(o, a, l)

\* Mutant: whoever may sign now approves the order.
AnySignerEndorses(o, a) == canApproveTravelOrderNow(a, o)

\* A flat order: any approver.  A chain that is complete already (an order
\* sent back to SUBMITTED): any operator at all.
MayEndorse(o, a) ==
  /\ o.status = "SUBMITTED"
  /\ IF hasHierarchicalApprovals(plan.seats)
     THEN isApprovalHierarchySatisfied(plan.seats, o.signed)
     ELSE a \in plan.flat

ReadToSign(r) ==
  /\ At(r, "approve.read")
  /\ MaySign(order, req[r].who)
  /\ Reread(r, "approve.sign")
  /\ UNCHANGED <<plan, order, task, merged>>

ReadToEndorse(r) ==
  /\ At(r, "approve.read")
  /\ MayEndorse(order, req[r].who)
  /\ Goto(r, "approve.endorse")
  /\ UNCHANGED <<plan, order, task, merged>>

\* Otherwise the handler throws and the route answers 400 or 403.
RefuseApproval(r) ==
  /\ At(r, "approve.read")
  /\ ~MaySign(order, req[r].who) /\ ~MayEndorse(order, req[r].who)
  /\ Done(r)
  /\ UNCHANGED <<plan, order, task, merged>>

\* Mutant: optional seats complete the chain like the others.
StatusOfFullChain(signed) ==
  IF DOMAIN plan.seats \subseteq signed THEN "APPROVED" ELSE "SUBMITTED"

StatusAfter(signed) ==
  IF isApprovalHierarchySatisfied(plan.seats, signed)
  THEN "APPROVED" ELSE "SUBMITTED"

\* approval_levels is one JSON value: the signatures written are those of the
\* copy plus one, and the status is what they amount to.
WriteSignature(r) ==
  /\ At(r, "approve.sign")
  /\ \E l \in DOMAIN plan.seats :
       /\ MaySignSeat(req[r].seen, req[r].who, l)
       /\ LET signed == req[r].seen.signed \cup {l}
          IN order' = [order EXCEPT !.signed = signed,
                                    !.status = StatusAfter(signed)]
  /\ Goto(r, "approve.reread")
  /\ UNCHANGED <<plan, task, merged>>

WriteEndorsement(r) ==
  /\ At(r, "approve.endorse")
  /\ SetStatus("APPROVED")
  /\ Goto(r, "approve.reread")
  /\ UNCHANGED <<plan, task, merged>>

\* The linked payment request is released when the row, read once more, is
\* APPROVED and was not when the route began.
RereadApproved(r) ==
  /\ At(r, "approve.reread")
  /\ IF order.status = "APPROVED" /\ req[r].first # "APPROVED"
     THEN Goto(r, "approve.release")
     ELSE Done(r)
  /\ UNCHANGED <<plan, order, task, merged>>

\* releaseRfpAfterTravelOrderApproved touches none of these variables, and
\* its failure is caught.
Release(r) ==
  /\ At(r, "approve.release")
  /\ Done(r)
  /\ UNCHANGED <<plan, order, task, merged>>

-----------------------------------------------------------------------------
(* PATCH .../travel-orders/:id, the other statuses: the guard is evaluated  *)
(* on the row the route read, the write is unconditional.                   *)

Reject(r, a) ==
  /\ "reject" \in Ops /\ a \notin Guards
  /\ canApproveTravelOrderNow(a, order) \/ canConfirmTravelOrderNow(a, order)
  /\ Arrive(r, "status.write", "REJECTED")
  /\ UNCHANGED <<plan, order, task, merged>>

Cancel(r, a) ==
  /\ "cancel" \in Ops /\ a \notin Guards
  /\ canCancelTravelOrderNow(a, order)
  /\ Arrive(r, "status.write", "CANCELLED")
  /\ UNCHANGED <<plan, order, task, merged>>

Confirm(r, a) ==
  /\ "confirm" \in Ops /\ a \notin Guards
  /\ canConfirmTravelOrderNow(a, order) /\ isTravelOrderConfirmReady(order)
  /\ Arrive(r, "status.write", "CONFIRMED")
  /\ UNCHANGED <<plan, order, task, merged>>

\* { status: "SUBMITTED" } has no guard at all, and unsigns nothing.
Resubmit(r, a) ==
  /\ "resubmit" \in Ops /\ a \notin Guards
  /\ Arrive(r, "status.write", "SUBMITTED")
  /\ UNCHANGED <<plan, order, task, merged>>

\* updateTravelOrderStatus
WriteStatus(r) ==
  /\ At(r, "status.write")
  /\ SetStatus(req[r].goal)
  /\ IF req[r].goal = "CONFIRMED" THEN Goto(r, "confirm.reread") ELSE Done(r)
  /\ UNCHANGED <<plan, task, merged>>

-----------------------------------------------------------------------------
(* PATCH .../travel-orders/:id, gate pass.  The route checks the row it     *)
(* read; updateTravelOrderGatePass reads it again and writes.               *)

\* Guards need a gate pass on the order, travelers and work-admins do not.
MayCaptureGate(a) ==
  /\ plan.workPlan => workPlanUsesGatePass(order)
  /\ IF a \in Guards THEN order.gatePass \/ workPlanUsesGatePass(order)
     ELSE a \in Managers \/ isTravelOrderTraveler(a)

GateVisit(r, a, goal) ==
  /\ MayCaptureGate(a)
  /\ isTravelOrderApproved(order)
  /\ Arrive(r, "gate.read", goal)
  /\ UNCHANGED <<plan, order, task, merged>>

GateStart(r, a) == "gateStart" \in Ops /\ GateVisit(r, a, "start")
GateEnd(r, a)   == "gateEnd" \in Ops /\ GateVisit(r, a, "end")

\* Estimates and guard names, or the whole pass dropped: whatever the status.
GateRevise(r, a, goal) ==
  /\ a \notin Guards
  /\ MayCaptureGate(a)
  /\ Arrive(r, "gate.read", goal)
  /\ UNCHANGED <<plan, order, task, merged>>

GateEdit(r, a) == "gateEdit" \in Ops /\ GateRevise(r, a, "edit")
GateDrop(r, a) == "gateDrop" \in Ops /\ GateRevise(r, a, "drop")

\* Mutant: a return needs no departure.
GateOnce(o, goal) ==
  (goal = "start" => o.departed = None) /\ (goal = "end" => o.returned = None)

GateReady(o, goal) ==
  CASE goal = "start" -> o.departed = None
    [] goal = "end"   -> o.departed # None /\ o.returned = None
    [] OTHER          -> TRUE

ReadGate(r) ==
  /\ At(r, "gate.read")
  /\ IF GateReady(order, req[r].goal) THEN Reread(r, "gate.write") ELSE Done(r)
  /\ UNCHANGED <<plan, order, task, merged>>

\* An edit writes back the departure of the copy it holds.
WriteGate(r) ==
  /\ At(r, "gate.write")
  /\ order' =
       CASE req[r].goal = "start" ->
              [order EXCEPT !.gatePass = TRUE, !.departed = r]
         [] req[r].goal = "end" ->
              [order EXCEPT !.gatePass = TRUE, !.returned = r]
         [] req[r].goal = "edit" ->
              [order EXCEPT !.gatePass = TRUE,
                            !.departed = req[r].seen.departed,
                            !.returned = req[r].seen.returned]
         [] OTHER ->
              [order EXCEPT !.gatePass = FALSE, !.departed = None,
                            !.returned = None]
  /\ Done(r)
  /\ UNCHANGED <<plan, task, merged>>

-----------------------------------------------------------------------------
(* PATCH .../locations/:locationId and POST .../locations                   *)

VisitStart(r, a, l) ==
  /\ "visitStart" \in Ops /\ a \notin Guards
  /\ MayVisit(a) /\ travelOrderLocationsUnlocked(order)
  /\ l \in order.locs /\ order.started[l] = None
  /\ Free(r)
  /\ req' = [req EXCEPT ![r] = [Idle EXCEPT !.pc = "visit.write",
                                            !.goal = "start", !.place = l]]
  /\ UNCHANGED <<plan, order, task, merged>>

VisitEnd(r, a, l) ==
  /\ "visitEnd" \in Ops /\ a \notin Guards
  /\ MayVisit(a) /\ travelOrderLocationsUnlocked(order)
  /\ l \in order.locs /\ order.started[l] # None /\ order.ended[l] = None
  /\ Free(r)
  /\ req' = [req EXCEPT ![r] = [Idle EXCEPT !.pc = "visit.write",
                                            !.goal = "end", !.place = l]]
  /\ UNCHANGED <<plan, order, task, merged>>

\* Mutant: the UPDATE finds the row by its identifier only.
WriteVisitById(r) ==
  /\ At(r, "visit.write")
  /\ order' = IF req[r].goal = "start"
              THEN [order EXCEPT !.started[req[r].place] = r]
              ELSE [order EXCEPT !.ended[req[r].place] = r]
  /\ Done(r)
  /\ UNCHANGED <<plan, task, merged>>

\* The UPDATE carries its guard in the WHERE clause: it may change no row,
\* and the route does not look.
WriteVisit(r) ==
  /\ At(r, "visit.write")
  /\ LET l == req[r].place
     IN order' =
          IF req[r].goal = "start" /\ order.started[l] = None
          THEN [order EXCEPT !.started[l] = r]
          ELSE IF /\ req[r].goal = "end"
                  /\ order.started[l] # None /\ order.ended[l] = None
          THEN [order EXCEPT !.ended[l] = r]
          ELSE order
  /\ Done(r)
  /\ UNCHANGED <<plan, task, merged>>

\* Mutant: up to and including the cap.
OpenUpToCap(o) == isTravelOrderApproved(o) /\ ~o.kpiAt
                    /\ Cardinality(o.locs) <= MaxLocations

LocationsOpen(o) == isTravelOrderApproved(o) /\ ~o.kpiAt
                      /\ Cardinality(o.locs) < MaxLocations

AddLocation(r, a) ==
  /\ "addLocation" \in Ops /\ a \notin Guards
  /\ ~plan.workPlan
  /\ a \in Managers \/ isTravelOrderTraveler(a)
  /\ LocationsOpen(order)
  /\ Arrive(r, "location.write", "none")
  /\ UNCHANGED <<plan, order, task, merged>>

\* INSERT with a new identifier.
WriteLocation(r) ==
  /\ At(r, "location.write")
  /\ \E l \in Locations \ order.locs :
       order' = [order EXCEPT !.locs = @ \cup {l}]
  /\ Done(r)
  /\ UNCHANGED <<plan, task, merged>>

-----------------------------------------------------------------------------
(* finalizeFieldAssignmentKpiFromTravelOrder: from the copy of the order it *)
(* is given, record the percentage on the order, then on the task.          *)

\* Nothing to record when it was recorded before.
FinalizeAt(o, next) == IF o.kpiAt \/ o.locs = {} THEN next ELSE "kpi.record"

\* The task's row is read here too; what is kept of it are the fields of
\* other parts of the task.
FinalizeFrom(r, o, confirm, next) ==
  req' = [req EXCEPT ![r] =
    [Idle EXCEPT !.confirm = confirm,
                 !.seen = o,
                 !.value = fieldAssignmentKpiPercent(o),
                 !.pc = FinalizeAt(o, next)]]

\* POST .../submit-done
SubmitDone(r, a) ==
  /\ "submitDone" \in Ops /\ a \notin Guards
  /\ ~plan.workPlan
  /\ MayVisit(a)
  /\ isTravelOrderRunning(order) /\ ~order.kpiAt
  /\ order.locs # {}
  /\ Free(r)
  /\ FinalizeFrom(r, order, FALSE, "kpi.record")
  /\ UNCHANGED <<plan, order, task, merged>>

\* The row updateTravelOrderStatus returns is what the side effects work on.
ConfirmReread(r) ==
  /\ At(r, "confirm.reread")
  /\ FinalizeFrom(r, order, TRUE, "sync.write")
  /\ UNCHANGED <<plan, order, task, merged>>

RecordKpi(r) ==
  /\ At(r, "kpi.record")
  /\ order' = [order EXCEPT !.kpiAt = TRUE, !.percent = req[r].value]
  /\ Goto(r, "kpi.reread")
  /\ UNCHANGED <<plan, task, merged>>

\* Mutants: the copy read before is good enough; the answer is sent now.
SkipReread(r) ==
  At(r, "kpi.reread") /\ Goto(r, "kpi.task") /\ UNCHANGED <<plan, order, task, merged>>
AnswerEarly(r) ==
  At(r, "kpi.reread") /\ Done(r) /\ UNCHANGED <<plan, order, task, merged>>

RereadKpi(r) ==
  /\ At(r, "kpi.reread")
  /\ Reread(r, "kpi.task")
  /\ UNCHANGED <<plan, order, task, merged>>

\* Mutant: the background work ends with the task.
CompleteTaskOnly(r) ==
  /\ At(r, "kpi.task")
  /\ task' = [done |-> TRUE, value |-> req[r].value]
  /\ Done(r)
  /\ UNCHANGED <<plan, order, merged>>

CompleteTask(r) ==
  /\ At(r, "kpi.task")
  /\ task' = [done |-> TRUE, value |-> req[r].value]
  /\ IF req[r].confirm THEN Goto(r, "sync.write") ELSE Done(r)
  /\ UNCHANGED <<plan, order, merged>>

(* triggerTravelOrderConfirmedSideEffects, in the background                *)

\* The upsert into MySQL of the copy of the order the side effects hold.
SyncMerged(r) ==
  /\ At(r, "sync.write")
  /\ merged' = [synced |-> TRUE, status |-> req[r].seen.status,
                percent |-> req[r].seen.percent]
  /\ Done(r)
  /\ UNCHANGED <<plan, order, task>>

\* After a failure of the KPI record the order is read again, best effort.
RereadToSync(r) ==
  /\ At(r, "sync.reread")
  /\ Reread(r, "sync.write")
  /\ UNCHANGED <<plan, order, task, merged>>

-----------------------------------------------------------------------------
(* POST and PATCH .../linked-rfp: the creator or a work-admin, whatever the *)
(* status of the order.                                                     *)

OpenRfp(r, a, goal) ==
  /\ a \notin Guards
  /\ a = plan.creator \/ a \in Managers
  /\ Arrive(r, "rfp", goal)
  /\ UNCHANGED <<plan, order, task, merged>>

RetryRfp(r, a) == "retryRfp" \in Ops /\ OpenRfp(r, a, "none")
EditRfp(r, a)  == "editRfp" \in Ops /\ OpenRfp(r, a, "edit")

CloseRfp(r) ==
  /\ At(r, "rfp")
  /\ Done(r)
  /\ UNCHANGED <<plan, order, task, merged>>

-----------------------------------------------------------------------------
(* Failures *)

\* A query of the KPI record throws: submit-done answers 500, a confirmation
\* goes on to the mirror.
FinalizeFails(r) ==
  /\ "finalize" \in Faults
  /\ req[r].pc \in {"kpi.record", "kpi.reread", "kpi.task"}
  /\ IF req[r].confirm THEN Goto(r, "sync.reread") ELSE Done(r)
  /\ UNCHANGED <<plan, order, task, merged>>

\* MySQL is not reachable: logged, never retried.  That the reload before it
\* fails as well, which the code tolerates, is not modelled.
SyncFails(r) ==
  /\ "sync" \in Faults
  /\ At(r, "sync.write")
  /\ Done(r)
  /\ UNCHANGED <<plan, order, task, merged>>

\* The process restarts: every request in flight is gone, nothing records
\* how far it came.
Crash ==
  /\ "crash" \in Faults
  /\ req # [r \in Requests |-> Idle]
  /\ req' = [r \in Requests |-> Idle]
  /\ UNCHANGED <<plan, order, task, merged>>

-----------------------------------------------------------------------------

Accept(r) ==
  \E a \in Agents :
    \/ Approve(r, a) \/ Reject(r, a) \/ Cancel(r, a) \/ Confirm(r, a)
    \/ Resubmit(r, a) \/ SubmitDone(r, a) \/ AddLocation(r, a)
    \/ GateStart(r, a) \/ GateEnd(r, a) \/ GateEdit(r, a) \/ GateDrop(r, a)
    \/ RetryRfp(r, a) \/ EditRfp(r, a)
    \/ \E l \in Locations : VisitStart(r, a, l) \/ VisitEnd(r, a, l)

Advance(r) ==
  \/ ReadToSign(r) \/ ReadToEndorse(r) \/ RefuseApproval(r)
  \/ WriteSignature(r) \/ WriteEndorsement(r) \/ RereadApproved(r)
  \/ WriteStatus(r) \/ ReadGate(r) \/ WriteGate(r)
  \/ WriteVisit(r) \/ WriteLocation(r) \/ ConfirmReread(r)
  \/ RecordKpi(r) \/ RereadKpi(r) \/ CompleteTask(r)
  \/ RereadToSync(r) \/ SyncMerged(r)

\* The steps of the payment request: one each here, several in LinkedRfp.
Pay(r) == Release(r) \/ CloseRfp(r)

Continue(r) == Advance(r) \/ Pay(r)

Fail(r) == FinalizeFails(r) \/ SyncFails(r)

Next == Crash \/ \E r \in Requests : Accept(r) \/ Continue(r) \/ Fail(r)

Spec == Init /\ [][Next]_vars

\* An accepted request is carried on; nobody has to send one.
Fairness == \A r \in Requests : WF_vars(Continue(r))

FairSpec == Spec /\ Fairness

=============================================================================
