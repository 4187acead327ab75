----------------------- MODULE TravelOrderProperties -----------------------
(***************************************************************************)
(* What is asked of TravelOrder.  Under "one at a time" are the properties *)
(* that hold when the requests for an order do not overlap (one slot);     *)
(* under "always" those that hold however they interleave, fail and crash; *)
(* under "contradicted" those a comment or test claims and the code does   *)
(* not keep.                                                               *)
(***************************************************************************)
EXTENDS TravelOrder

\* Every copy of the row is a row whose signatures are those of existing
\* seats; the slots hold what their handlers put there.
TypeOK ==
  /\ plan \in Draft
  /\ order \in Order /\ order.signed \subseteq DOMAIN plan.seats
  /\ task \in [done : BOOLEAN, value : 0..100]
  /\ merged \in [synced : BOOLEAN, status : Status, percent : 0..100]
  /\ req \in [Requests -> Request]
  /\ \A r \in Requests : req[r].seen.signed \subseteq DOMAIN plan.seats

-----------------------------------------------------------------------------
(* One at a time *)

Lifecycle == INSTANCE OrderLifecycle
               WITH seats <- plan.seats, status <- order.status,
                    signed <- order.signed

\* Without overlap the handlers implement the atomic approval workflow of
\* OrderLifecycle: the chain is complete whenever the order is APPROVED or
\* CONFIRMED, and only the steps named there change status or signatures.
ImplementsLifecycle == Lifecycle!Spec

\* finalizeFieldAssignmentKpiFromTravelOrder: the percentage is recorded
\* once, and is the share of the visits made when it is recorded.
KpiRecordedOnce ==
  [][ \/ UNCHANGED <<order.kpiAt, order.percent>>
      \/ /\ ~order.kpiAt
         /\ order'.kpiAt
         /\ order'.percent = fieldAssignmentKpiPercent(order) ]_vars

\* The recorded percentage never exceeds the share of the locations that are
\* visited: locations cannot be added to a submitted order to make it so.
KpiNeverOverstated ==
  order.kpiAt => order.percent <= fieldAssignmentKpiPercent(order)

\* Between requests the order, its task and the mirror tell the same story:
\* the task is done exactly when the KPI is recorded, with the same value,
\* and a mirrored row says CONFIRMED and carries that value too.
RecordsAgree ==
  (\A r \in Requests : req[r] = Idle) =>
    /\ order.kpiAt <=> task.done
    /\ task.done => task.value = order.percent
    /\ merged.synced => /\ merged.status = "CONFIRMED"
                        /\ merged.percent = task.value

Gate == INSTANCE VisitLog
          WITH Locations <- {"gate"}, Stamps <- Requests,
               started <- [l \in {"gate"} |-> order.departed],
               ended <- [l \in {"gate"} |-> order.returned]

\* What the guards capture is a VisitLog of one place: nobody returns before
\* leaving, and no edit of estimates or guard names, no rejection and no
\* resubmission moves a capture or erases it.
ImplementsGateLog == Gate!Spec

-----------------------------------------------------------------------------
(* Always *)

\* The required seats a row (or a copy of it) shows as signed have all the
\* required seats before them signed: however stale the copies signatures
\* are written from, no seat ever counts before the ones it waits for.
InOrder(signed) ==
  \A l \in signed \cap RequiredLevels(plan.seats) :
    \A k \in RequiredLevels(plan.seats) : k < l => k \in signed

RequiredSeatsInOrder == InOrder(order.signed)

\* As long as no client sends SUBMITTED, an order that is APPROVED has its
\* required signatures, and one that waits does not have them all: no stale
\* write of the JSON column separates the status from the signatures.
ApprovedIffSigned ==
  hasHierarchicalApprovals(plan.seats) =>
    /\ order.status = "APPROVED" =>
         isApprovalHierarchySatisfied(plan.seats, order.signed)
    /\ order.status = "SUBMITTED" =>
         ~isApprovalHierarchySatisfied(plan.seats, order.signed)

Visits == INSTANCE VisitLog
            WITH Stamps <- Requests, started <- order.started,
                 ended <- order.ended

\* The visits of the locations are a VisitLog: the guards in the UPDATE's
\* WHERE clause keep the first capture, whatever the route had read.
ImplementsVisitLog == Visits!Spec

\* The task is completed only after the percentage is on the order, so that
\* a crash in between leaves a recorded KPI without a task, never a completed
\* task whose order may still record another percentage.
TaskAfterKpi == task.done => order.kpiAt

\* MAX_LOCATIONS_PER_ORDER is counted before the insert: n requests can
\* exceed it by n - 1 at most.  Creation does not count, but an order planned
\* with more locations than that gets no others.
LocationOvershoot ==
  \/ order.locs = plan.stops
  \/ Cardinality(order.locs) <= MaxLocations + Cardinality(Requests) - 1

\* Without failures a recorded KPI reaches its task and a confirmation
\* reaches the mirror, although nothing waits for either.
KpiReachesTask == order.kpiAt ~> task.done
ConfirmationReachesMirror == (order.status = "CONFIRMED") ~> merged.synced

-----------------------------------------------------------------------------
(* Contradicted *)

\* "Work Plan: after every required approver has signed": a confirmed order
\* shows the signature of every required seat.
ConfirmedIsFullySigned ==
  (order.status = "CONFIRMED" /\ RequiredLevels(plan.seats) # {}) =>
    isApprovalHierarchySatisfied(plan.seats, order.signed)

\* Once the gate pass shows a departure or a return, that capture stays: no
\* edit of estimates or guard names moves or erases it.
DepartureKept ==
  [][ /\ order.departed # None => order'.departed = order.departed
      /\ order.returned # None => order'.returned = order.returned ]_vars

=============================================================================
