------------------------- MODULE TravelOrderProofs -------------------------
(***************************************************************************)
(* Proofs about TravelOrder, for every set of requests, agents, drafts and *)
(* locations, and for every choice of operations and faults.               *)
(***************************************************************************)
EXTENDS TravelOrderProperties, FiniteSetTheorems, TLAPS

(***************************************************************************)
(* The percentage is one: 200 c + n over 2 n, with c of the n locations    *)
(* visited, is at most 100.                                                *)
(***************************************************************************)
LEMMA RoundedShare ==
  ASSUME NEW c \in Nat, NEW n \in Nat, n # 0, c <= n
  PROVE  (200 * c + n) \div (2 * n) \in 0..100
<1> DEFINE a == 200 * c + n
           b == 2 * n
           q == a \div b
<1>1. a \in Nat /\ b \in Nat /\ b > 0 /\ a <= 201 * n
  OBVIOUS
<1>2. q \in Int /\ b * q <= a /\ a < b * (q + 1)
  <2>1. \A x \in Int, y \in Int : y > 0 =>
          /\ x \div y \in Int
          /\ y * (x \div y) <= x
          /\ x < y * ((x \div y) + 1)
    BY Z3
  <2> QED BY <1>1, <2>1
<1>3. q >= 0
  BY <1>1, <1>2, SMT
<1>4. q <= 100
  BY <1>1, <1>2, SMT
<1> QED BY <1>2, <1>3, <1>4

LEMMA ShareInRange ==
  ASSUME NEW o \in Order
  PROVE  fieldAssignmentKpiPercent(o) \in 0..100
<1>1. o.locs \subseteq Locations
  BY DEF Order
<1>2. IsFiniteSet(o.locs)
  BY <1>1, TravelOrderAssumption, FS_Subset DEF TravelOrderAssumption
<1>3. Completed(o) \subseteq o.locs
  BY DEF Completed
<1>4. /\ Cardinality(Completed(o)) \in Nat
      /\ Cardinality(o.locs) \in Nat
      /\ Cardinality(Completed(o)) <= Cardinality(o.locs)
  BY <1>2, <1>3, FS_Subset, FS_CardinalityType
<1>5. CASE o.locs = {}
  BY <1>5 DEF fieldAssignmentKpiPercent
<1>6. CASE o.locs # {}
  <2>1. Cardinality(o.locs) # 0
    BY <1>2, <1>6, FS_EmptySet
  <2> QED BY <1>4, <1>6, <2>1, RoundedShare DEF fieldAssignmentKpiPercent
<1> QED BY <1>5, <1>6

-----------------------------------------------------------------------------
(* Type correctness *)

\* A status.write carries the status it writes.
GoalOK == \A r \in Requests : At(r, "status.write") => req[r].goal \in Status

LEMMA NoOrderType == NoOrder \in Order /\ NoOrder.signed = {}
BY DEF NoOrder, NewOrder, Order, Status, Stamp

LEMMA IdleType == Idle \in Request /\ Idle.pc = "idle" /\ Idle.seen = NoOrder
BY NoOrderType DEF Idle, Request, PCs, Status

LEMMA NormalizedType ==
  ASSUME NEW d \in Draft
  PROVE  [d EXCEPT !.seats = normalizeApprovalLevelsForStore(d.seats)] \in Draft
<1> DEFINE s == normalizeApprovalLevelsForStore(d.seats)
<1>1. d.seats \in Seq(Seat)
  BY DEF Draft
<1>2. DOMAIN d.seats = 1..Len(d.seats) /\ Len(d.seats) \in Nat
  BY <1>1
<1>3. \A l \in 1..Len(d.seats) : d.seats[l] \in Seat
  BY <1>1
<1>4. s \in [1..Len(d.seats) -> Seat]
  BY <1>2, <1>3 DEF normalizeApprovalLevelsForStore, Seat,
                    approvalLevelsAllowOptional
<1>5. s \in Seq(Seat)
  BY <1>2, <1>4
<1> QED BY <1>5 DEF Draft

LEMMA TypeInit == Init => TypeOK /\ GoalOK
<1> SUFFICES ASSUME Init PROVE TypeOK /\ GoalOK
  OBVIOUS
<1>1. PICK d \in Drafts :
        /\ plan = [d EXCEPT !.seats = normalizeApprovalLevelsForStore(d.seats)]
        /\ order = NewOrder(d.stops, d.gatePass)
  BY DEF Init
<1>2. d \in Draft
  BY TravelOrderAssumption DEF TravelOrderAssumption
<1>3. plan \in Draft
  BY <1>1, <1>2, NormalizedType
<1>4. order \in Order /\ order.signed = {}
  BY <1>1, <1>2 DEF NewOrder, Order, Draft, Status, Stamp
<1>5. req = [r \in Requests |-> Idle] /\ req \in [Requests -> Request]
  BY IdleType DEF Init
<1>6. \A r \in Requests : req[r].seen.signed = {}
  BY <1>5, NoOrderType, IdleType
<1> QED BY <1>3, <1>4, <1>5, <1>6, IdleType
        DEF Init, TypeOK, GoalOK, At, Status

(***************************************************************************)
(* The two halves of the type invariant: the rows, and the slots.  A       *)
(* handler changes one slot, by one of four means.                         *)
(***************************************************************************)
RowsOK ==
  /\ plan \in Draft
  /\ order \in Order /\ order.signed \subseteq DOMAIN plan.seats
  /\ task \in [done : BOOLEAN, value : 0..100]
  /\ merged \in [synced : BOOLEAN, status : Status, percent : 0..100]

SlotOK(q) == /\ q \in Request
             /\ q.seen.signed \subseteq DOMAIN plan.seats
             /\ q.pc = "status.write" => q.goal \in Status

SlotsOK == req \in [Requests -> Request] /\ \A r \in Requests : SlotOK(req[r])

LEMMA TypeHalves == TypeOK /\ GoalOK <=> RowsOK /\ SlotsOK
BY DEF TypeOK, GoalOK, RowsOK, SlotsOK, SlotOK, At

LEMMA PutType ==
  ASSUME SlotsOK, plan' = plan, NEW r \in Requests,
         NEW q, SlotOK(q), req' = [req EXCEPT ![r] = q]
  PROVE  SlotsOK'
BY DEF SlotsOK, SlotOK

LEMMA IdleSlot == SlotOK(Idle)
BY IdleType, NoOrderType DEF SlotOK

LEMMA DoneType ==
  ASSUME SlotsOK, plan' = plan, NEW r \in Requests, Done(r)
  PROVE  SlotsOK'
BY IdleSlot, PutType DEF Done

LEMMA GotoType ==
  ASSUME SlotsOK, plan' = plan, NEW r \in Requests,
         NEW pc \in PCs, pc # "status.write", Goto(r, pc)
  PROVE  SlotsOK'
<1>1. SlotOK([req[r] EXCEPT !.pc = pc])
  BY DEF SlotsOK, SlotOK, Request
<1>2. req' = [req EXCEPT ![r] = [req[r] EXCEPT !.pc = pc]]
  BY DEF SlotsOK, Goto
<1> QED BY <1>1, <1>2, PutType

LEMMA RereadType ==
  ASSUME RowsOK, SlotsOK, plan' = plan, NEW r \in Requests,
         NEW pc \in PCs, pc # "status.write", Reread(r, pc)
  PROVE  SlotsOK'
<1>1. SlotOK([req[r] EXCEPT !.pc = pc, !.seen = order])
  BY ZenonT(40) DEF RowsOK, SlotsOK, SlotOK, Request
<1>2. req' = [req EXCEPT ![r] = [req[r] EXCEPT !.pc = pc, !.seen = order]]
  BY DEF SlotsOK, Reread
<1> QED BY <1>1, <1>2, PutType

LEMMA ArriveType ==
  ASSUME SlotsOK, plan' = plan, NEW r \in Requests,
         NEW pc \in PCs, NEW goal, Arrive(r, pc, goal),
         goal \in Status \cup {"start", "end", "edit", "drop", "none"},
         pc = "status.write" => goal \in Status
  PROVE  SlotsOK'
<1> DEFINE q == [Idle EXCEPT !.pc = pc, !.goal = goal]
<1>1. q \in Request /\ q.pc = pc /\ q.goal = goal /\ q.seen = NoOrder
  BY IdleType DEF Idle, Request
<1>2. SlotOK(q)
  BY <1>1, NoOrderType DEF SlotOK
<1>3. req' = [req EXCEPT ![r] = q]
  BY DEF Arrive
<1> HIDE DEF q
<1> QED BY <1>2, <1>3, PutType

LEMMA FinalizeType ==
  ASSUME RowsOK, SlotsOK, plan' = plan, NEW r \in Requests,
         NEW confirm \in BOOLEAN, NEW next \in {"idle", "sync.write"},
         FinalizeFrom(r, order, confirm, next)
  PROVE  SlotsOK'
<1> DEFINE q == [Idle EXCEPT !.confirm = confirm,
                   !.seen = order,
                   !.value = fieldAssignmentKpiPercent(order),
                   !.pc = FinalizeAt(order, next)]
<1>1. fieldAssignmentKpiPercent(order) \in 0..100
  BY ShareInRange DEF RowsOK
<1>2. q \in Request /\ q.seen = order /\ q.pc # "status.write"
  BY ZenonT(40), <1>1, IdleType DEF RowsOK, Idle, Request, PCs, FinalizeAt
<1>3. SlotOK(q)
  BY <1>2 DEF SlotOK, RowsOK
<1>4. req' = [req EXCEPT ![r] = q]
  BY DEF FinalizeFrom
<1> HIDE DEF q
<1> QED BY <1>3, <1>4, PutType

\* The rows of a handler that only reads.
LEMMA SameRows ==
  ASSUME RowsOK, UNCHANGED <<plan, order, task, merged>>
  PROVE  RowsOK'
BY DEF RowsOK

LEMMA AcceptType ==
  ASSUME RowsOK, SlotsOK, NEW r \in Requests, Accept(r)
  PROVE  RowsOK' /\ SlotsOK'
<1>1. PICK a \in Agents :
        \/ Approve(r, a) \/ Reject(r, a) \/ Cancel(r, a) \/ Confirm(r, a)
        \/ Resubmit(r, a) \/ SubmitDone(r, a) \/ AddLocation(r, a)
        \/ GateStart(r, a) \/ GateEnd(r, a) \/ GateEdit(r, a) \/ GateDrop(r, a)
        \/ RetryRfp(r, a) \/ EditRfp(r, a)
        \/ \E l \in Locations : VisitStart(r, a, l) \/ VisitEnd(r, a, l)
  BY DEF Accept
<1>2. CASE Approve(r, a)
  <2> DEFINE q == [Idle EXCEPT !.pc = "approve.read", !.who = a,
                               !.first = order.status]
  <2>1. q \in Request /\ q.pc = "approve.read" /\ q.seen = NoOrder
    BY IdleType DEF RowsOK, Order, Idle, Request, PCs
  <2>2. SlotOK(q)
    BY <2>1, NoOrderType DEF SlotOK
  <2>3. req' = [req EXCEPT ![r] = q]
    BY <1>2 DEF Approve
  <2> HIDE DEF q
  <2> QED BY <1>2, <2>2, <2>3, PutType, SameRows DEF Approve
<1>3. CASE Reject(r, a)
  BY <1>3, ArriveType, SameRows DEF Reject, PCs, Status
<1>4. CASE Cancel(r, a)
  BY <1>4, ArriveType, SameRows DEF Cancel, PCs, Status
<1>5. CASE Confirm(r, a)
  BY <1>5, ArriveType, SameRows DEF Confirm, PCs, Status
<1>6. CASE Resubmit(r, a)
  BY <1>6, ArriveType, SameRows DEF Resubmit, PCs, Status
<1>7. CASE SubmitDone(r, a)
  <2>1. FinalizeFrom(r, order, FALSE, "kpi.record") /\ order.locs # {}
        /\ ~order.kpiAt /\ UNCHANGED <<plan, order, task, merged>>
    BY <1>7 DEF SubmitDone
  <2>2. FinalizeFrom(r, order, FALSE, "idle")
    BY <2>1 DEF FinalizeFrom, FinalizeAt
  <2> QED BY <2>1, <2>2, FinalizeType, SameRows
<1>8. CASE AddLocation(r, a)
  BY <1>8, ArriveType, SameRows DEF AddLocation, PCs
<1>9. CASE GateStart(r, a) \/ GateEnd(r, a) \/ GateEdit(r, a) \/ GateDrop(r, a)
  <2>1. PICK goal \in {"start", "end", "edit", "drop"} :
          Arrive(r, "gate.read", goal) /\ UNCHANGED <<plan, order, task, merged>>
    BY <1>9 DEF GateStart, GateEnd, GateEdit, GateDrop, GateVisit, GateRevise, RetryRfp, EditRfp, OpenRfp
  <2> QED BY <2>1, ArriveType, SameRows DEF PCs
<1>10. CASE \E l \in Locations : VisitStart(r, a, l) \/ VisitEnd(r, a, l)
  <2>1. PICK l \in Locations, goal \in {"start", "end"} :
          /\ req' = [req EXCEPT ![r] = [Idle EXCEPT !.pc = "visit.write",
                                          !.goal = goal, !.place = l]]
          /\ UNCHANGED <<plan, order, task, merged>>
    BY <1>10 DEF VisitStart, VisitEnd
  <2> DEFINE q == [Idle EXCEPT !.pc = "visit.write", !.goal = goal, !.place = l]
  <2>2. q \in Request /\ q.pc = "visit.write" /\ q.seen = NoOrder
    BY IdleType DEF Idle, Request, PCs
  <2>3. SlotOK(q)
    BY <2>2, NoOrderType DEF SlotOK
  <2>4. req' = [req EXCEPT ![r] = q]
    BY <2>1
  <2> HIDE DEF q
  <2> QED BY <2>1, <2>3, <2>4, PutType, SameRows
<1>11. CASE RetryRfp(r, a) \/ EditRfp(r, a)
  BY <1>11, ArriveType, SameRows DEF RetryRfp, EditRfp, OpenRfp, PCs
<1> QED BY <1>1, <1>2, <1>3, <1>4, <1>5, <1>6, <1>7, <1>8, <1>9, <1>10, <1>11

LEMMA ContinueType ==
  ASSUME RowsOK, SlotsOK, NEW r \in Requests, Continue(r)
  PROVE  RowsOK' /\ SlotsOK'
<1>1. CASE ReadToSign(r)
  BY <1>1, RereadType, SameRows DEF ReadToSign, PCs
<1>2. CASE ReadToEndorse(r)
  BY <1>2, GotoType, SameRows DEF ReadToEndorse, PCs
<1>3. CASE RefuseApproval(r)
  BY <1>3, DoneType, SameRows DEF RefuseApproval
<1>4. CASE WriteSignature(r)
  <2>1. PICK l \in DOMAIN plan.seats :
          LET signed == req[r].seen.signed \cup {l}
          IN order' = [order EXCEPT !.signed = signed,
                                    !.status = StatusAfter(signed)]
    BY <1>4 DEF WriteSignature
  <2>2. DOMAIN plan.seats \subseteq Nat
    BY DEF RowsOK, Draft
  <2>3. req[r].seen.signed \subseteq DOMAIN plan.seats
    BY DEF SlotsOK, SlotOK
  <2>4. order' \in Order /\ order'.signed \subseteq DOMAIN plan.seats
    <3> DEFINE signed == req[r].seen.signed \cup {l}
               status == StatusAfter(signed)
    <3>1. order' = [order EXCEPT !.signed = signed, !.status = status]
      BY <2>1
    <3>2. signed \subseteq DOMAIN plan.seats /\ signed \in SUBSET Nat
      BY <2>2, <2>3
    <3>3. status \in Status
      BY DEF Status, StatusAfter
    <3> HIDE DEF signed, status
    <3> QED BY <3>1, <3>2, <3>3 DEF RowsOK, Order
  <2>5. UNCHANGED <<plan, task, merged>> /\ Goto(r, "approve.reread")
    BY <1>4 DEF WriteSignature
  <2>6. RowsOK'
    BY <2>4, <2>5 DEF RowsOK
  <2>7. SlotsOK'
    BY <2>5, GotoType DEF PCs
  <2> QED BY <2>6, <2>7
<1>5. CASE WriteEndorsement(r)
  <2>1. UNCHANGED <<plan, task, merged>> /\ Goto(r, "approve.reread")
    BY <1>5 DEF WriteEndorsement
  <2>2. order' \in Order /\ order'.signed = order.signed
    BY <1>5 DEF WriteEndorsement, SetStatus, RowsOK, Order, Status
  <2> QED BY <2>1, <2>2, GotoType DEF RowsOK, PCs
<1>6. CASE RereadApproved(r)
  BY <1>6, GotoType, DoneType, SameRows DEF RereadApproved, PCs
<1>7. CASE Release(r)
  BY <1>7, DoneType, SameRows DEF Release
<1>19. CASE CloseRfp(r)
  BY <1>19, DoneType, SameRows DEF CloseRfp
<1>8. CASE WriteStatus(r)
  <2>1. req[r].goal \in Status
    BY <1>8 DEF WriteStatus, At, SlotsOK, SlotOK
  <2>2. order' \in Order /\ order'.signed = order.signed
    BY <1>8, <2>1 DEF WriteStatus, SetStatus, RowsOK, Order
  <2>3. SlotsOK'
    BY <1>8, GotoType, DoneType DEF WriteStatus, PCs
  <2> QED BY <1>8, <2>2, <2>3 DEF WriteStatus, RowsOK
<1>9. CASE ReadGate(r)
  BY <1>9, RereadType, DoneType, SameRows DEF ReadGate, PCs
<1>10. CASE WriteGate(r)
  <2>1. req[r].seen \in Order
    BY DEF SlotsOK, SlotOK, Request
  <2>2. PICK g \in BOOLEAN, d \in Stamp, t \in Stamp :
          order' = [order EXCEPT !.gatePass = g, !.departed = d,
                                 !.returned = t]
    <3>1. order \in Order /\ r \in Stamp /\ None \in Stamp
      BY DEF RowsOK, Stamp
    <3>2. CASE req[r].goal = "start"
      <4>1. order' = [order EXCEPT !.gatePass = TRUE, !.departed = r,
                                   !.returned = order.returned]
        BY <1>10, <3>1, <3>2 DEF WriteGate, Order
      <4> QED BY <3>1, <4>1 DEF Order
    <3>3. CASE req[r].goal = "end"
      <4>1. order' = [order EXCEPT !.gatePass = TRUE,
                                   !.departed = order.departed,
                                   !.returned = r]
        BY <1>10, <3>1, <3>3 DEF WriteGate, Order
      <4> QED BY <3>1, <4>1 DEF Order
    <3>4. CASE req[r].goal = "edit"
      BY <1>10, <2>1, <3>1, <3>4 DEF WriteGate, Order
    <3>5. CASE req[r].goal \notin {"start", "end", "edit"}
      BY <1>10, <3>1, <3>5 DEF WriteGate, Order
    <3> QED BY <3>2, <3>3, <3>4, <3>5
  <2>3. order' \in Order /\ order'.signed = order.signed
    BY <2>2 DEF RowsOK, Order
  <2> QED BY <1>10, <2>3, DoneType DEF WriteGate, RowsOK
<1>11. CASE WriteVisit(r)
  <2>1. order' \in Order /\ order'.signed = order.signed
    BY <1>11 DEF WriteVisit, RowsOK, Order, Stamp
  <2> QED BY <1>11, <2>1, DoneType DEF WriteVisit, RowsOK
<1>12. CASE WriteLocation(r)
  <2>1. order' \in Order /\ order'.signed = order.signed
    BY <1>12 DEF WriteLocation, RowsOK, Order
  <2> QED BY <1>12, <2>1, DoneType DEF WriteLocation, RowsOK
<1>13. CASE ConfirmReread(r)
  BY <1>13, FinalizeType, SameRows DEF ConfirmReread
<1>14. CASE RecordKpi(r)
  <2>1. req[r].value \in 0..100
    BY DEF SlotsOK, SlotOK, Request
  <2>2. order' \in Order /\ order'.signed = order.signed
    BY <1>14, <2>1 DEF RecordKpi, RowsOK, Order
  <2> QED BY <1>14, <2>2, GotoType DEF RecordKpi, RowsOK, PCs
<1>15. CASE RereadKpi(r)
  BY <1>15, RereadType, SameRows DEF RereadKpi, PCs
<1>16. CASE CompleteTask(r)
  <2>1. req[r].value \in 0..100
    BY DEF SlotsOK, SlotOK, Request
  <2>2. SlotsOK'
    BY <1>16, GotoType, DoneType DEF CompleteTask, PCs
  <2> QED BY <1>16, <2>1, <2>2 DEF CompleteTask, RowsOK
<1>17. CASE RereadToSync(r)
  BY <1>17, RereadType, SameRows DEF RereadToSync, PCs
<1>18. CASE SyncMerged(r)
  <2>1. req[r].seen \in Order
    BY DEF SlotsOK, SlotOK, Request
  <2> QED BY <1>18, <2>1, DoneType DEF SyncMerged, RowsOK, Order
<1> QED
  <2>1. Advance(r) \/ Release(r) \/ CloseRfp(r)
    BY DEF Continue, Pay
  <2> QED BY <2>1, <1>1, <1>2, <1>3, <1>4, <1>5, <1>6, <1>7, <1>8, <1>9,
             <1>10, <1>11, <1>12, <1>13, <1>14, <1>15, <1>16, <1>17, <1>18,
             <1>19
          DEF Advance

LEMMA TypeStep == RowsOK /\ SlotsOK /\ [Next]_vars => RowsOK' /\ SlotsOK'
<1> SUFFICES ASSUME RowsOK, SlotsOK, [Next]_vars PROVE RowsOK' /\ SlotsOK'
  OBVIOUS
<1>1. ASSUME NEW r \in Requests, Accept(r) PROVE RowsOK' /\ SlotsOK'
  BY <1>1, AcceptType
<1>2. ASSUME NEW r \in Requests, Continue(r) PROVE RowsOK' /\ SlotsOK'
  BY <1>2, ContinueType
<1>3. ASSUME NEW r \in Requests, Fail(r) PROVE RowsOK' /\ SlotsOK'
  BY <1>3, GotoType, DoneType, SameRows DEF Fail, FinalizeFails, SyncFails, PCs
<1>4. CASE Crash
  <2>1. SlotOK(Idle)'
    BY <1>4, IdleType, NoOrderType DEF Crash, SlotOK
  <2>2. SlotsOK'
    BY <1>4, <2>1, IdleType DEF Crash, SlotsOK
  <2> QED BY <1>4, <2>2, SameRows DEF Crash
<1>5. CASE UNCHANGED vars
  BY <1>5 DEF vars, RowsOK, SlotsOK, SlotOK
<1> QED BY <1>1, <1>2, <1>3, <1>4, <1>5 DEF Next

\* Every behaviour, whatever is sent and whatever fails, stays within the
\* types: the row, the copies of it in flight, the task and the mirror.
THEOREM TypeInvariant == Spec => []TypeOK
<1>1. Init => RowsOK /\ SlotsOK
  BY TypeInit, TypeHalves
<1>2. RowsOK /\ SlotsOK => TypeOK
  BY TypeHalves
<1> QED BY <1>1, <1>2, TypeStep, PTL DEF Spec

-----------------------------------------------------------------------------
(***************************************************************************)
(* What a step may do to the plan, to the signatures and to the copies:    *)
(* nothing, but for the one write of the JSON column; a copy is the copy   *)
(* held before, the row as it is, or none.                                 *)
(***************************************************************************)
Copies == \A s \in Requests : req'[s].seen \in {req[s].seen, order, NoOrder}

LEMMA AcceptReads ==
  ASSUME NEW r \in Requests, Accept(r)
  PROVE  UNCHANGED <<plan, order, task, merged>>
BY DEF Accept, Approve, Reject, Cancel, Confirm, Resubmit, SubmitDone,
   AddLocation, GateStart, GateEnd, GateEdit, GateDrop, GateVisit, GateRevise, RetryRfp, EditRfp, OpenRfp,
   VisitStart, VisitEnd

LEMMA PlanFrame == [Next]_vars => plan' = plan
<1>1. ASSUME NEW r \in Requests, Accept(r) PROVE plan' = plan
  BY <1>1, AcceptReads
<1>2. ASSUME NEW r \in Requests, Continue(r) PROVE plan' = plan
  BY <1>2
  DEF Continue, Pay, CloseRfp, Advance, ReadToSign, ReadToEndorse, RefuseApproval,
      WriteSignature, WriteEndorsement, RereadApproved, Release, WriteStatus,
      ReadGate, WriteGate, WriteVisit, WriteLocation, ConfirmReread,
      RecordKpi, RereadKpi, CompleteTask, RereadToSync, SyncMerged
<1>3. ASSUME NEW r \in Requests, Fail(r) PROVE plan' = plan
  BY <1>3 DEF Fail, FinalizeFails, SyncFails
<1> QED BY <1>1, <1>2, <1>3 DEF Next, Crash, vars

LEMMA SeenFrame == SlotsOK /\ [Next]_vars => Copies
<1> SUFFICES ASSUME SlotsOK, [Next]_vars PROVE Copies
  OBVIOUS
<1>1. ASSUME NEW r \in Requests, Accept(r) PROVE Copies
  <2>1. ASSUME NEW pc, NEW goal, Arrive(r, pc, goal) PROVE Copies
    BY <2>1 DEF Arrive, Copies, SlotsOK, Idle
  <2>2. ASSUME NEW a, Approve(r, a) PROVE Copies
    BY <2>2 DEF Approve, Copies, SlotsOK, Idle
  <2>3. ASSUME NEW a, SubmitDone(r, a) PROVE Copies
    BY <2>3 DEF SubmitDone, FinalizeFrom, FinalizeAt, Copies, SlotsOK, Idle
  <2>4. ASSUME NEW a, NEW l, VisitStart(r, a, l) \/ VisitEnd(r, a, l)
        PROVE  Copies
    BY <2>4 DEF VisitStart, VisitEnd, Copies, SlotsOK, Idle
  <2> QED
    BY <1>1, <2>1, <2>2, <2>3, <2>4
    DEF Accept, Reject, Cancel, Confirm, Resubmit, AddLocation, GateStart,
        GateEnd, GateEdit, GateDrop, GateVisit, GateRevise, RetryRfp, EditRfp, OpenRfp
<1>2. ASSUME NEW r \in Requests, Continue(r) PROVE Copies
  <2>1. ASSUME NEW pc, Goto(r, pc) \/ Reread(r, pc) PROVE Copies
    BY <2>1 DEF Goto, Reread, Copies, SlotsOK, SlotOK, Request
  <2>2. ASSUME Done(r) PROVE Copies
    BY <2>2, IdleType DEF Done, Copies, SlotsOK
  <2>3. CASE ConfirmReread(r)
    BY <2>3 DEF ConfirmReread, FinalizeFrom, Copies, SlotsOK, Idle
  <2> QED
    BY <1>2, <2>1, <2>2, <2>3
    DEF Continue, Pay, CloseRfp, Advance, ReadToSign, ReadToEndorse, RefuseApproval,
        WriteSignature, WriteEndorsement, RereadApproved, Release,
        WriteStatus, ReadGate, WriteGate, WriteVisit, WriteLocation,
        RecordKpi, RereadKpi, CompleteTask, RereadToSync, SyncMerged
<1>3. ASSUME NEW r \in Requests, Fail(r) PROVE Copies
  BY <1>3, IdleType
  DEF Fail, FinalizeFails, SyncFails, Goto, Done, Copies, SlotsOK, SlotOK,
      Request
<1>4. CASE Crash
  BY <1>4, IdleType DEF Crash, Copies
<1>5. CASE UNCHANGED vars
  BY <1>5 DEF vars, Copies
<1> QED BY <1>1, <1>2, <1>3, <1>4, <1>5 DEF Next

LEMMA SignedFrame ==
  ASSUME RowsOK, [Next]_vars
  PROVE  \/ order'.signed = order.signed
         \/ \E r \in Requests : WriteSignature(r)
<1>1. ASSUME NEW r \in Requests, Accept(r) PROVE order'.signed = order.signed
  BY <1>1, AcceptReads
<1>2. ASSUME NEW r \in Requests, Continue(r), ~WriteSignature(r)
      PROVE  order'.signed = order.signed
  BY <1>2
  DEF RowsOK, Order, Continue, Pay, CloseRfp, Advance, ReadToSign,
      ReadToEndorse,
      RefuseApproval, WriteEndorsement, SetStatus, RereadApproved, Release,
      WriteStatus, ReadGate, WriteGate, WriteVisit, WriteLocation,
      ConfirmReread, RecordKpi, RereadKpi, CompleteTask, RereadToSync,
      SyncMerged
<1>3. ASSUME NEW r \in Requests, Fail(r) PROVE order'.signed = order.signed
  BY <1>3 DEF Fail, FinalizeFails, SyncFails
<1>4. Crash \/ UNCHANGED vars => order'.signed = order.signed
  BY DEF Crash, vars
<1> QED BY <1>1, <1>2, <1>3, <1>4 DEF Next

-----------------------------------------------------------------------------
(***************************************************************************)
(* Required seats are signed in order.  The row alone is not inductive: a  *)
(* signature is added to a copy, however old, so the copies in flight must *)
(* be in order as well.                                                    *)
(***************************************************************************)
AllInOrder ==
  InOrder(order.signed) /\ \A r \in Requests : InOrder(req[r].seen.signed)

\* Signing the first seat open to an agent keeps a copy in order: a required
\* seat is open only when the required seats before it have signed.
LEMMA SigningKeepsOrder ==
  ASSUME NEW o, NEW a, NEW l, MaySignSeat(o, a, l), InOrder(o.signed)
  PROVE  InOrder(o.signed \cup {l})
<1>1. isApprovalLevelUnlocked(plan.seats, o.signed, l)
  BY DEF MaySignSeat, IsOperatorActionableLevel, ActionableLevels,
         getUnlockedIncompleteLevels
<1>2. l \in RequiredLevels(plan.seats) =>
        \A k \in RequiredLevels(plan.seats) : k < l => k \in o.signed
  BY <1>1 DEF isApprovalLevelUnlocked, RequiredLevels
<1> QED BY <1>2 DEF InOrder

LEMMA OrderStep == RowsOK /\ SlotsOK /\ AllInOrder /\ [Next]_vars => AllInOrder'
<1> SUFFICES ASSUME RowsOK, SlotsOK, AllInOrder, [Next]_vars
             PROVE  AllInOrder'
  OBVIOUS
<1>1. plan' = plan
  BY PlanFrame
<1>2. InOrder(order.signed)'
  <2>1. CASE order'.signed = order.signed
    BY <1>1, <2>1 DEF AllInOrder, InOrder
  <2>2. ASSUME NEW r \in Requests, WriteSignature(r)
        PROVE  InOrder(order.signed)'
    <3>1. PICK l \in DOMAIN plan.seats :
            /\ MaySignSeat(req[r].seen, req[r].who, l)
            /\ order'.signed = req[r].seen.signed \cup {l}
      BY <2>2 DEF WriteSignature, RowsOK, Order
    <3>2. InOrder(req[r].seen.signed \cup {l})
      BY <3>1, SigningKeepsOrder DEF AllInOrder
    <3> QED BY <1>1, <3>1, <3>2 DEF InOrder
  <2> QED BY <2>1, <2>2, SignedFrame
<1>3. ASSUME NEW r \in Requests PROVE InOrder(req[r].seen.signed)'
  <2>1. req'[r].seen \in {req[r].seen, order, NoOrder}
    BY SeenFrame DEF Copies
  <2>2. InOrder(req'[r].seen.signed)
    BY <2>1, NoOrderType DEF AllInOrder, InOrder
  <2> QED BY <1>1, <2>2 DEF InOrder
<1> QED BY <1>2, <1>3 DEF AllInOrder

\* However the requests of a travel order interleave, fail and are lost, no
\* required seat counts as signed while one before it does not.
THEOREM SeatsInOrder == Spec => []RequiredSeatsInOrder
<1>1. Init => RowsOK /\ SlotsOK
  BY TypeInit, TypeHalves
<1>2. Init => AllInOrder
  <2> SUFFICES ASSUME Init PROVE AllInOrder
    OBVIOUS
  <2>1. order.signed = {}
    BY DEF Init, NewOrder
  <2>2. \A r \in Requests : req[r].seen.signed = {}
    BY NoOrderType, IdleType DEF Init
  <2> QED BY <2>1, <2>2 DEF AllInOrder, InOrder
<1>3. AllInOrder => RequiredSeatsInOrder
  BY DEF AllInOrder, RequiredSeatsInOrder
<1> QED BY <1>1, <1>2, <1>3, TypeStep, OrderStep, PTL DEF Spec

-----------------------------------------------------------------------------
(***************************************************************************)
(* Without SUBMITTED sent by a client, the status of an order with a chain *)
(* and its signatures agree: one statement writes both, and a complete     *)
(* chain is never waited for, so that nobody endorses it from an old copy. *)
(***************************************************************************)
OrderlySlots ==
  \A r \in Requests :
    /\ At(r, "status.write") => req[r].goal \notin {"SUBMITTED", "APPROVED"}
    /\ At(r, "approve.endorse") => ~hasHierarchicalApprovals(plan.seats)

LEMMA SlotsStayOrderly ==
  ASSUME "resubmit" \notin Ops, RowsOK, SlotsOK, OrderlySlots,
         ApprovedIffSigned, [Next]_vars
  PROVE  OrderlySlots'
<1>0. plan' = plan
  BY PlanFrame
<1> DEFINE Safe(q) ==
      /\ q.pc = "status.write" => q.goal \notin {"SUBMITTED", "APPROVED"}
      /\ q.pc = "approve.endorse" => ~hasHierarchicalApprovals(plan.seats)
<1>1. \A s \in Requests : Safe(req[s])
  BY DEF OrderlySlots, At
<1>2. ASSUME \A s \in Requests : Safe(req'[s]) PROVE OrderlySlots'
  BY <1>0, <1>2 DEF OrderlySlots, At
<1>3. Safe(Idle)
  BY DEF Idle
<1>4. ASSUME NEW r \in Requests, Accept(r) PROVE OrderlySlots'
  <2>1. \A s \in Requests : s # r => req'[s] = req[s]
    BY <1>4
    DEF SlotsOK, Accept, Approve, Reject, Cancel, Confirm, Resubmit,
        SubmitDone, AddLocation, GateStart, GateEnd, GateEdit, GateDrop,
        GateVisit, GateRevise, RetryRfp, EditRfp, OpenRfp, VisitStart, VisitEnd, Arrive, FinalizeFrom
  <2>2. ASSUME NEW pc, NEW goal, Arrive(r, pc, goal),
               pc \in {"gate.read", "location.write", "rfp"} \/
               goal \in {"REJECTED", "CANCELLED", "CONFIRMED"},
               pc # "approve.endorse"
        PROVE  Safe(req'[r])
    BY <2>2 DEF Arrive, SlotsOK, Idle
  <2>3. ASSUME NEW a, Approve(r, a) PROVE Safe(req'[r])
    BY <2>3 DEF Approve, SlotsOK, Idle
  <2>4. ASSUME NEW a, SubmitDone(r, a) PROVE Safe(req'[r])
    BY <2>4 DEF SubmitDone, FinalizeFrom, FinalizeAt, SlotsOK, Idle
  <2>5. ASSUME NEW a, NEW l, VisitStart(r, a, l) \/ VisitEnd(r, a, l)
        PROVE  Safe(req'[r])
    BY <2>5 DEF VisitStart, VisitEnd, SlotsOK, Idle
  <2>6. ASSUME NEW a PROVE ~Resubmit(r, a)
    BY DEF Resubmit
  <2>7. Safe(req'[r])
    <3> HIDE DEF Safe
    <3> QED BY <1>4, <2>2, <2>3, <2>4, <2>5, <2>6
            DEF Accept, Reject, Cancel, Confirm, AddLocation, GateStart,
                GateEnd, GateEdit, GateDrop, GateVisit, GateRevise, RetryRfp,
                EditRfp, OpenRfp
  <2> QED BY <1>1, <1>2, <2>1, <2>7
<1>5. ASSUME NEW r \in Requests, NEW pc, Goto(r, pc) \/ Reread(r, pc),
             pc \notin {"status.write", "approve.endorse"}
      PROVE  OrderlySlots'
  <2>1. \A s \in Requests : Safe(req'[s])
    BY <1>1, <1>5 DEF Goto, Reread, SlotsOK, SlotOK, Request
  <2> QED BY <1>2, <2>1
<1>6. ASSUME NEW r \in Requests, Done(r) PROVE OrderlySlots'
  <2>1. \A s \in Requests : Safe(req'[s])
    BY <1>1, <1>3, <1>6 DEF Done, SlotsOK
  <2> QED BY <1>2, <2>1
<1>7. ASSUME NEW r \in Requests, Continue(r) PROVE OrderlySlots'
  <2>1. CASE ReadToEndorse(r)
    <3>1. ~hasHierarchicalApprovals(plan.seats)
      BY <2>1 DEF ReadToEndorse, MayEndorse, ApprovedIffSigned
    <3>2. \A s \in Requests : Safe(req'[s])
      BY <1>1, <2>1, <3>1 DEF ReadToEndorse, Goto, SlotsOK, SlotOK, Request
    <3> QED BY <1>2, <3>2
  <2>2. CASE ConfirmReread(r)
    <3>1. \A s \in Requests : Safe(req'[s])
      BY <1>1, <2>2 DEF ConfirmReread, FinalizeFrom, FinalizeAt, SlotsOK, Idle
    <3> QED BY <1>2, <3>1
  <2>3. CASE \/ ReadToSign(r) \/ ReadGate(r) \/ RereadKpi(r)
             \/ RereadToSync(r)
    <3>1. PICK pc \in {"approve.sign", "gate.write", "kpi.task",
                       "sync.write"} : Reread(r, pc) \/ Done(r)
      BY <2>3 DEF ReadToSign, ReadGate, RereadKpi, RereadToSync
    <3> QED BY <1>5, <1>6, <3>1
  <2>4. CASE \/ WriteSignature(r) \/ WriteEndorsement(r) \/ RereadApproved(r)
             \/ WriteStatus(r) \/ RecordKpi(r) \/ CompleteTask(r)
    <3>1. PICK pc \in {"approve.reread", "approve.release", "confirm.reread",
                       "kpi.reread", "sync.write"} : Goto(r, pc) \/ Done(r)
      BY <2>4 DEF WriteSignature, WriteEndorsement, RereadApproved,
                  WriteStatus, RecordKpi, CompleteTask
    <3> QED BY <1>5, <1>6, <3>1
  <2>5. CASE \/ RefuseApproval(r) \/ Release(r) \/ WriteGate(r)
             \/ WriteVisit(r) \/ WriteLocation(r) \/ SyncMerged(r)
             \/ CloseRfp(r)
    BY <1>6, <2>5 DEF RefuseApproval, Release, WriteGate, WriteVisit,
                      WriteLocation, SyncMerged, CloseRfp
  <2> QED BY <1>7, <2>1, <2>2, <2>3, <2>4, <2>5 DEF Continue, Pay, Advance
<1>8. ASSUME NEW r \in Requests, Fail(r) PROVE OrderlySlots'
  BY <1>5, <1>6, <1>8 DEF Fail, FinalizeFails, SyncFails
<1>9. CASE Crash
  BY <1>2, <1>3, <1>9 DEF Crash
<1>10. CASE UNCHANGED vars
  BY <1>10 DEF vars, OrderlySlots, At
<1> QED BY <1>4, <1>7, <1>8, <1>9, <1>10 DEF Next

LEMMA StatusFrame ==
  ASSUME RowsOK, [Next]_vars
  PROVE  \/ UNCHANGED <<order.status, order.signed>>
         \/ \E r \in Requests : \/ WriteSignature(r) \/ WriteEndorsement(r)
                                \/ WriteStatus(r)
<1> DEFINE Same == UNCHANGED <<order.status, order.signed>>
<1>1. ASSUME NEW r \in Requests, Accept(r) PROVE Same
  BY <1>1, AcceptReads
<1>2. ASSUME NEW r \in Requests, Continue(r), ~WriteSignature(r),
             ~WriteEndorsement(r), ~WriteStatus(r)
      PROVE  Same
  BY <1>2
  DEF RowsOK, Order, Continue, Pay, CloseRfp, Advance, ReadToSign,
      ReadToEndorse,
      RefuseApproval, RereadApproved, Release, ReadGate, WriteGate,
      WriteVisit, WriteLocation, ConfirmReread, RecordKpi, RereadKpi,
      CompleteTask, RereadToSync, SyncMerged
<1>3. ASSUME NEW r \in Requests, Fail(r) PROVE Same
  BY <1>3 DEF Fail, FinalizeFails, SyncFails
<1>4. Crash \/ UNCHANGED vars => Same
  BY DEF Crash, vars
<1> QED BY <1>1, <1>2, <1>3, <1>4 DEF Next

LEMMA AgreementStep ==
  ASSUME RowsOK, SlotsOK, OrderlySlots, ApprovedIffSigned, [Next]_vars
  PROVE  ApprovedIffSigned'
<1>1. plan' = plan
  BY PlanFrame
<1>2. CASE UNCHANGED <<order.status, order.signed>>
  BY <1>1, <1>2 DEF ApprovedIffSigned
<1>3. ASSUME NEW r \in Requests, WriteSignature(r) PROVE ApprovedIffSigned'
  <2>1. PICK l \in DOMAIN plan.seats :
          LET signed == req[r].seen.signed \cup {l}
          IN order' = [order EXCEPT !.signed = signed,
                                    !.status = StatusAfter(signed)]
    BY <1>3 DEF WriteSignature
  <2> DEFINE signed == req[r].seen.signed \cup {l}
             complete == isApprovalHierarchySatisfied(plan.seats, signed)
             status == StatusAfter(signed)
  <2>2. order' = [order EXCEPT !.signed = signed, !.status = status]
    BY <2>1
  <2>3. /\ status = "APPROVED" => complete
        /\ status = "SUBMITTED" => ~complete
    BY DEF StatusAfter
  <2>4. order'.signed = signed /\ order'.status = status
    <3> HIDE DEF signed, status
    <3> QED BY <2>2 DEF RowsOK, Order
  <2>5. isApprovalHierarchySatisfied(plan'.seats, order'.signed) = complete
    BY <1>1, <2>4
  <2> HIDE DEF signed, complete, status
  <2> QED BY <2>3, <2>4, <2>5 DEF ApprovedIffSigned
<1>4. ASSUME NEW r \in Requests, WriteEndorsement(r) PROVE ApprovedIffSigned'
  BY <1>1, <1>4 DEF WriteEndorsement, OrderlySlots, ApprovedIffSigned
<1>5. ASSUME NEW r \in Requests, WriteStatus(r) PROVE ApprovedIffSigned'
  <2>1. order'.status \notin {"SUBMITTED", "APPROVED"}
    BY <1>5 DEF WriteStatus, SetStatus, OrderlySlots, RowsOK, Order
  <2> QED BY <2>1 DEF ApprovedIffSigned
<1> QED BY <1>2, <1>3, <1>4, <1>5, StatusFrame

\* When no client sends SUBMITTED, a travel order with a chain is APPROVED
\* only with its required signatures and SUBMITTED only without them all,
\* although signatures are written from stale copies.
THEOREM ApprovedWithSignatures ==
  ASSUME "resubmit" \notin Ops
  PROVE  Spec => []ApprovedIffSigned
<1>1. Init => RowsOK /\ SlotsOK
  BY TypeInit, TypeHalves
<1>2. Init => OrderlySlots /\ ApprovedIffSigned
  <2> SUFFICES ASSUME Init PROVE OrderlySlots /\ ApprovedIffSigned
    OBVIOUS
  <2>1. order.signed = {} /\ order.status = "SUBMITTED"
    BY DEF Init, NewOrder
  <2>2. ~isApprovalHierarchySatisfied(plan.seats, {})
    BY DEF isApprovalHierarchySatisfied
  <2>3. \A r \in Requests : req[r].pc = "idle"
    BY IdleType DEF Init
  <2> QED BY <2>1, <2>2, <2>3 DEF OrderlySlots, ApprovedIffSigned, At
<1> DEFINE Inv == RowsOK /\ SlotsOK /\ OrderlySlots /\ ApprovedIffSigned
<1>3. Inv /\ [Next]_vars => Inv'
  BY TypeStep, SlotsStayOrderly, AgreementStep
<1>4. Inv => ApprovedIffSigned
  OBVIOUS
<1>5. Init => Inv
  BY <1>1, <1>2
<1> HIDE DEF Inv
<1> QED BY <1>3, <1>4, <1>5, PTL DEF Spec

-----------------------------------------------------------------------------
(* The records an order keeps: the KPI and its task, the visits of its     *)
(* locations, and how many locations there can be.                         *)

(***************************************************************************)
(* The task is completed after the percentage is on the order: a request   *)
(* that is past recording has recorded, and kpi_submitted_at is never      *)
(* cleared.                                                                *)
(***************************************************************************)
PastRecord == {"kpi.reread", "kpi.task"}

RecordedFirst ==
  /\ task.done => order.kpiAt
  /\ \A r \in Requests : req[r].pc \in PastRecord => order.kpiAt

\* What one step does to the slots past recording.
LEMMA PastRecordFrame ==
  ASSUME RowsOK, SlotsOK, [Next]_vars
  PROVE  \A s \in Requests : req'[s].pc \in PastRecord =>
           \/ req[s].pc \in PastRecord
           \/ \E r \in Requests : RecordKpi(r)
<1> DEFINE Was == \A s \in Requests :
                    req'[s].pc \in PastRecord => req[s].pc \in PastRecord
<1>1. Idle.pc \notin PastRecord
  BY DEF Idle, PastRecord
<1>2. ASSUME NEW r \in Requests, NEW pc, Goto(r, pc) \/ Reread(r, pc),
             pc \notin PastRecord \/ req[r].pc \in PastRecord
      PROVE  Was
  BY <1>2 DEF Goto, Reread, SlotsOK, SlotOK, Request
<1>3. ASSUME NEW r \in Requests, Done(r) PROVE Was
  BY <1>1, <1>3 DEF Done, SlotsOK
<1>4. ASSUME NEW r \in Requests, Accept(r) PROVE Was
  <2>1. ASSUME NEW pc, NEW goal, Arrive(r, pc, goal), pc \notin PastRecord
        PROVE  Was
    BY <2>1 DEF Arrive, SlotsOK, Idle
  <2>2. ASSUME NEW a, Approve(r, a) PROVE Was
    BY <2>2 DEF Approve, PastRecord, SlotsOK, Idle
  <2>3. ASSUME NEW a, SubmitDone(r, a) PROVE Was
    BY <2>3 DEF SubmitDone, FinalizeFrom, FinalizeAt, PastRecord, SlotsOK, Idle
  <2>4. ASSUME NEW a, NEW l, VisitStart(r, a, l) \/ VisitEnd(r, a, l)
        PROVE  Was
    BY <2>4 DEF VisitStart, VisitEnd, PastRecord, SlotsOK, Idle
  <2> HIDE DEF Was
  <2> QED BY <1>4, <2>1, <2>2, <2>3, <2>4
          DEF PastRecord, Accept, Reject, Cancel, Confirm, Resubmit,
              AddLocation, GateStart, GateEnd, GateEdit, GateDrop, GateVisit,
              GateRevise, RetryRfp, EditRfp, OpenRfp
<1>5. ASSUME NEW r \in Requests, Continue(r), ~RecordKpi(r) PROVE Was
  <2>1. CASE ConfirmReread(r)
    BY <2>1 DEF ConfirmReread, FinalizeFrom, FinalizeAt, PastRecord, SlotsOK,
                Idle
  <2>2. CASE RereadKpi(r)
    BY <1>2, <2>2 DEF RereadKpi, At, PastRecord
  <2> HIDE DEF Was
  <2> QED BY <1>2, <1>3, <1>5, <2>1, <2>2
          DEF PastRecord, Continue, Pay, CloseRfp, Advance, ReadToSign, ReadToEndorse,
              RefuseApproval, WriteSignature, WriteEndorsement,
              RereadApproved, Release, WriteStatus, ReadGate, WriteGate,
              WriteVisit, WriteLocation, CompleteTask, RereadToSync,
              SyncMerged
<1>6. ASSUME NEW r \in Requests, Fail(r) PROVE Was
  <2> HIDE DEF Was
  <2> QED BY <1>2, <1>3, <1>6 DEF Fail, FinalizeFails, SyncFails, PastRecord
<1>7. Crash \/ UNCHANGED vars => Was
  BY <1>1 DEF Crash, vars
<1> QED BY <1>4, <1>5, <1>6, <1>7 DEF Next

\* kpi_submitted_at is set once and for all, and CompleteTask alone writes
\* the task.
LEMMA KpiFrame ==
  ASSUME RowsOK, [Next]_vars
  PROVE  /\ order.kpiAt => order'.kpiAt
         /\ task' = task \/ \E r \in Requests : CompleteTask(r)
<1> DEFINE Goal == /\ order.kpiAt => order'.kpiAt
                   /\ task' = task \/ \E r \in Requests : CompleteTask(r)
<1>1. ASSUME NEW r \in Requests, Accept(r) PROVE Goal
  BY <1>1, AcceptReads
<1>2. ASSUME NEW r \in Requests, Continue(r) PROVE Goal
  <2>1. order.kpiAt => order'.kpiAt
    BY <1>2
    DEF RowsOK, Order, Continue, Pay, CloseRfp, Advance, ReadToSign, ReadToEndorse,
        RefuseApproval, WriteSignature, WriteEndorsement, SetStatus,
        RereadApproved, Release, WriteStatus, ReadGate, WriteGate, WriteVisit,
        WriteLocation, ConfirmReread, RecordKpi, RereadKpi, CompleteTask,
        RereadToSync, SyncMerged
  <2>2. task' = task \/ CompleteTask(r)
    BY <1>2
    DEF Continue, Pay, CloseRfp, Advance, ReadToSign, ReadToEndorse, RefuseApproval,
        WriteSignature, WriteEndorsement, RereadApproved, Release,
        WriteStatus, ReadGate, WriteGate, WriteVisit, WriteLocation,
        ConfirmReread, RecordKpi, RereadKpi, RereadToSync, SyncMerged
  <2> QED BY <2>1, <2>2
<1>3. ASSUME NEW r \in Requests, Fail(r) PROVE Goal
  BY <1>3 DEF Fail, FinalizeFails, SyncFails
<1>4. Crash \/ UNCHANGED vars => Goal
  BY DEF Crash, vars
<1> QED BY <1>1, <1>2, <1>3, <1>4 DEF Next

LEMMA RecordedFirstStep ==
  RowsOK /\ SlotsOK /\ RecordedFirst /\ [Next]_vars => RecordedFirst'
<1> SUFFICES ASSUME RowsOK, SlotsOK, RecordedFirst, [Next]_vars
             PROVE  RecordedFirst'
  OBVIOUS
<1>1. ASSUME NEW r \in Requests, RecordKpi(r) PROVE order'.kpiAt
  BY <1>1 DEF RecordKpi, RowsOK, Order
<1>2. task'.done => order'.kpiAt
  <2>1. CASE task' = task
    BY <2>1, KpiFrame DEF RecordedFirst
  <2>2. ASSUME NEW r \in Requests, CompleteTask(r) PROVE order'.kpiAt
    BY <2>2, KpiFrame DEF CompleteTask, At, RecordedFirst, PastRecord
  <2> QED BY <2>1, <2>2, KpiFrame
<1>3. ASSUME NEW s \in Requests, req'[s].pc \in PastRecord PROVE order'.kpiAt
  BY <1>1, <1>3, PastRecordFrame, KpiFrame DEF RecordedFirst
<1> QED BY <1>2, <1>3 DEF RecordedFirst

\* Whatever is interrupted, and wherever: a completed task has a travel order
\* whose KPI is recorded.
THEOREM TaskCompletedAfterKpi == Spec => []TaskAfterKpi
<1>1. Init => RowsOK /\ SlotsOK
  BY TypeInit, TypeHalves
<1>2. Init => RecordedFirst
  BY IdleType DEF Init, RecordedFirst, PastRecord
<1>3. RecordedFirst => TaskAfterKpi
  BY DEF RecordedFirst, TaskAfterKpi
<1> QED BY <1>1, <1>2, <1>3, TypeStep, RecordedFirstStep, PTL DEF Spec

-----------------------------------------------------------------------------
(***************************************************************************)
(* The visits implement VisitLog: WriteVisit is the only statement that    *)
(* writes them, and it looks at the row it changes.                        *)
(***************************************************************************)
LEMMA VisitFrame ==
  ASSUME RowsOK, [Next]_vars
  PROVE  \/ UNCHANGED <<order.started, order.ended>>
         \/ \E r \in Requests : WriteVisit(r)
<1> DEFINE Same == UNCHANGED <<order.started, order.ended>>
<1>1. ASSUME NEW r \in Requests, Accept(r) PROVE Same
  BY <1>1, AcceptReads
<1>2. ASSUME NEW r \in Requests, Continue(r), ~WriteVisit(r) PROVE Same
  BY <1>2
  DEF RowsOK, Order, Continue, Pay, CloseRfp, Advance, ReadToSign, ReadToEndorse,
      RefuseApproval, WriteSignature, WriteEndorsement, SetStatus,
      RereadApproved, Release, WriteStatus, ReadGate, WriteGate,
      WriteLocation, ConfirmReread, RecordKpi, RereadKpi, CompleteTask,
      RereadToSync, SyncMerged
<1>3. ASSUME NEW r \in Requests, Fail(r) PROVE Same
  BY <1>3 DEF Fail, FinalizeFails, SyncFails
<1>4. Crash \/ UNCHANGED vars => Same
  BY DEF Crash, vars
<1> QED BY <1>1, <1>2, <1>3, <1>4 DEF Next

LEMMA VisitStep ==
  RowsOK /\ SlotsOK /\ [Next]_vars => [Visits!Next]_(Visits!visits)
<1> SUFFICES ASSUME RowsOK, SlotsOK, [Next]_vars
             PROVE  [Visits!Next]_(Visits!visits)
  OBVIOUS
<1>1. CASE UNCHANGED <<order.started, order.ended>>
  BY <1>1 DEF Visits!visits
<1>2. ASSUME NEW r \in Requests, WriteVisit(r)
      PROVE  [Visits!Next]_(Visits!visits)
  <2> DEFINE l == req[r].place
  <2>1. /\ order.started \in [Locations -> Stamp]
        /\ order.ended \in [Locations -> Stamp]
        /\ l \in Locations \cup {None}
    BY DEF RowsOK, Order, SlotsOK, SlotOK, Request
  <2>2. CASE l \notin Locations
    <3>1. order'.started = order.started /\ order'.ended = order.ended
      BY <1>2, <2>1, <2>2 DEF WriteVisit, RowsOK, Order
    <3> QED BY <3>1, <1>1
  <2>3. CASE l \in Locations /\ req[r].goal = "start" /\ order.started[l] = None
    <3>1. /\ order'.started = [order.started EXCEPT ![l] = r]
          /\ order'.ended = order.ended
      BY <1>2, <2>3 DEF WriteVisit, RowsOK, Order
    <3> QED BY <2>3, <3>1 DEF Visits!Next, Visits!Start
  <2>4. CASE /\ l \in Locations /\ req[r].goal = "end"
             /\ order.started[l] # None /\ order.ended[l] = None
    <3>1. /\ order'.ended = [order.ended EXCEPT ![l] = r]
          /\ order'.started = order.started
      BY <1>2, <2>4 DEF WriteVisit, RowsOK, Order
    <3> QED BY <2>4, <3>1 DEF Visits!Next, Visits!End
  <2>5. CASE /\ ~(req[r].goal = "start" /\ order.started[l] = None)
             /\ ~(/\ req[r].goal = "end"
                  /\ order.started[l] # None /\ order.ended[l] = None)
    <3>1. order' = order
      BY <1>2, <2>5 DEF WriteVisit
    <3> QED BY <3>1, <1>1
  <2> QED BY <2>2, <2>3, <2>4, <2>5
<1> QED BY <1>1, <1>2, VisitFrame

\* Of every location the first start and the first end after it are kept,
\* however many requests capture the same visit at once.
THEOREM VisitsAreALog == Spec => ImplementsVisitLog
<1>1. Init => RowsOK /\ SlotsOK
  BY TypeInit, TypeHalves
<1>2. Init => Visits!Init
  BY DEF Init, NewOrder, Visits!Init
<1> QED BY <1>1, <1>2, TypeStep, VisitStep, PTL
        DEF Spec, ImplementsVisitLog, Visits!Spec

-----------------------------------------------------------------------------
(***************************************************************************)
(* The cap on locations.  Every insert on its way was admitted below the   *)
(* cap, so that the rows there are and the inserts on their way, counted   *)
(* together, stay below the cap plus the number of requests.               *)
(***************************************************************************)
Inserting == {r \in Requests : req[r].pc = "location.write"}

LocationBudget ==
  \/ order.locs = plan.stops /\ Inserting = {}
  \/ Cardinality(order.locs) + Cardinality(Inserting)
       <= MaxLocations + Cardinality(Requests) - 1

\* What one step does to the locations and to the inserts on their way.
LEMMA InsertFrame ==
  ASSUME RowsOK, SlotsOK, [Next]_vars
  PROVE  \/ order'.locs = order.locs /\ Inserting' \subseteq Inserting
         \/ order'.locs = order.locs /\ LocationsOpen(order)
         \/ \E r \in Requests, l \in Locations :
              /\ r \in Inserting /\ Inserting' = Inserting \ {r}
              /\ order'.locs = order.locs \cup {l}
<1> DEFINE Kept == Inserting' \subseteq Inserting
           Rest == order'.locs = order.locs /\ Kept
           Open == order'.locs = order.locs /\ LocationsOpen(order)
           More == \E r \in Requests, l \in Locations :
                     /\ r \in Inserting /\ Inserting' = Inserting \ {r}
                     /\ order'.locs = order.locs \cup {l}
<1>1. ASSUME NEW r \in Requests, NEW pc, Goto(r, pc) \/ Reread(r, pc),
             pc # "location.write"
      PROVE  Kept
  BY <1>1 DEF Goto, Reread, SlotsOK, SlotOK, Request, Inserting
<1>2. ASSUME NEW r \in Requests, Done(r)
      PROVE  Inserting' = Inserting \ {r}
  BY <1>2 DEF Done, SlotsOK, Idle, Inserting
<1>3. ASSUME NEW r \in Requests, Accept(r) PROVE Rest \/ Open
  <2>1. order' = order
    BY <1>3, AcceptReads
  <2>2. ASSUME NEW a, AddLocation(r, a) PROVE LocationsOpen(order)
    BY <2>2 DEF AddLocation
  <2>3. ASSUME NEW pc, NEW goal, Arrive(r, pc, goal), pc # "location.write"
        PROVE  Kept
    BY <2>3 DEF Arrive, SlotsOK, Idle, Inserting
  <2>4. ASSUME NEW a, Approve(r, a) \/ SubmitDone(r, a) PROVE Kept
    BY <2>4 DEF Approve, SubmitDone, FinalizeFrom, FinalizeAt, SlotsOK, Idle,
                Inserting
  <2>5. ASSUME NEW a, NEW l, VisitStart(r, a, l) \/ VisitEnd(r, a, l)
        PROVE  Kept
    BY <2>5 DEF VisitStart, VisitEnd, SlotsOK, Idle, Inserting
  <2> HIDE DEF Kept
  <2> QED BY <1>3, <2>1, <2>2, <2>3, <2>4, <2>5
          DEF Accept, Reject, Cancel, Confirm, Resubmit, GateStart, GateEnd,
              GateEdit, GateDrop, GateVisit, GateRevise, RetryRfp, EditRfp, OpenRfp
<1>4. ASSUME NEW r \in Requests, Continue(r) PROVE Rest \/ More
  <2>1. CASE WriteLocation(r)
    <3>1. PICK l \in Locations : order'.locs = order.locs \cup {l}
      BY <2>1 DEF WriteLocation, RowsOK, Order
    <3>2. r \in Inserting /\ Inserting' = Inserting \ {r}
      BY <1>2, <2>1 DEF WriteLocation, At, Inserting
    <3> QED BY <3>1, <3>2
  <2>2. CASE ~WriteLocation(r)
    <3>1. order'.locs = order.locs
      BY <1>4, <2>2
      DEF RowsOK, Order, Continue, Pay, CloseRfp, Advance, ReadToSign, ReadToEndorse,
          RefuseApproval, WriteSignature, WriteEndorsement, SetStatus,
          RereadApproved, Release, WriteStatus, ReadGate, WriteGate,
          WriteVisit, ConfirmReread, RecordKpi, RereadKpi, CompleteTask,
          RereadToSync, SyncMerged
    <3>2. CASE ConfirmReread(r)
      <4>1. Kept
        BY <3>2 DEF ConfirmReread, FinalizeFrom, FinalizeAt, SlotsOK, Idle,
                    Inserting
      <4> QED BY <3>1, <4>1
    <3>3. Kept
      <4> HIDE DEF Kept
      <4>1. ASSUME Done(r) PROVE Kept
        BY <1>2, <4>1 DEF Kept
      <4>2. CASE \/ ReadToSign(r) \/ ReadToEndorse(r) \/ RefuseApproval(r)
                 \/ WriteSignature(r) \/ WriteEndorsement(r)
                 \/ RereadApproved(r) \/ Release(r)
        BY <1>1, <4>1, <4>2
        DEF ReadToSign, ReadToEndorse, RefuseApproval, WriteSignature,
            WriteEndorsement, RereadApproved, Release
      <4>3. CASE \/ WriteStatus(r) \/ ReadGate(r) \/ WriteGate(r)
                 \/ WriteVisit(r) \/ RecordKpi(r) \/ RereadKpi(r)
                 \/ CompleteTask(r) \/ RereadToSync(r) \/ SyncMerged(r)
                 \/ CloseRfp(r)
        BY <1>1, <4>1, <4>3
        DEF CloseRfp, WriteStatus, ReadGate, WriteGate, WriteVisit, RecordKpi,
            RereadKpi, CompleteTask, RereadToSync, SyncMerged
      <4> QED BY <1>4, <2>2, <3>2, <4>2, <4>3 DEF Continue, Pay, Advance, Kept
    <3> QED BY <3>1, <3>3
  <2> QED BY <2>1, <2>2
<1>5. ASSUME NEW r \in Requests, Fail(r) PROVE Rest
  <2>1. order' = order
    BY <1>5 DEF Fail, FinalizeFails, SyncFails
  <2>2. Kept
    <3>1. ASSUME Done(r) PROVE Kept
      BY <1>2, <3>1
    <3> HIDE DEF Kept
    <3> QED BY <1>1, <1>5, <3>1 DEF Fail, FinalizeFails, SyncFails
  <2> QED BY <2>1, <2>2
<1>6. Crash \/ UNCHANGED vars => Rest
  BY DEF Crash, vars, Inserting, Idle
<1> QED BY <1>3, <1>4, <1>5, <1>6 DEF Next

LEMMA Sums ==
  ASSUME NEW m \in Nat, NEW n \in Nat, NEW m2 \in Nat, NEW n2 \in Nat,
         NEW max \in Nat, NEW all \in Nat,
         \/ m2 = m /\ n2 <= n /\ m + n <= max + all - 1
         \/ m2 = m /\ m < max /\ n2 <= all
         \/ m2 <= m + 1 /\ n2 = n - 1 /\ m + n <= max + all - 1
  PROVE  m2 + n2 <= max + all - 1
OBVIOUS

LEMMA BudgetStep ==
  ASSUME IsFiniteSet(Requests), RowsOK, SlotsOK, LocationBudget, [Next]_vars
  PROVE  LocationBudget'
<1> DEFINE n == Cardinality(Inserting)
           m == Cardinality(order.locs)
           all == Cardinality(Requests)
<1>1. Inserting \subseteq Requests /\ Inserting' \subseteq Requests
  BY DEF Inserting
<1>2. order.locs \subseteq Locations /\ IsFiniteSet(Locations)
  BY TravelOrderAssumption DEF RowsOK, Order, TravelOrderAssumption
<1>3. IsFiniteSet(order.locs) /\ IsFiniteSet(Inserting)
  BY <1>1, <1>2, FS_Subset
<1>4. /\ n \in Nat /\ n' \in Nat /\ m \in Nat /\ m' \in Nat /\ all \in Nat
      /\ n <= all /\ n' <= all /\ MaxLocations \in Nat
  <2>1. order'.locs \subseteq Locations
    BY TypeStep DEF RowsOK, Order
  <2> QED BY <1>1, <1>2, <1>3, <2>1, FS_Subset, FS_CardinalityType,
             TravelOrderAssumption
          DEF TravelOrderAssumption
<1>5. plan' = plan
  BY PlanFrame
<1>6. CASE order'.locs = order.locs /\ Inserting' \subseteq Inserting
  <2>1. n' <= n
    BY <1>3, <1>6, FS_Subset
  <2>2. m' = m
    BY <1>6
  <2>3. CASE order.locs = plan.stops /\ Inserting = {}
    BY <1>5, <1>6, <2>3 DEF LocationBudget
  <2>4. CASE m + n <= MaxLocations + all - 1
    <3>1. m' + n' <= MaxLocations + all - 1
      BY <1>4, <2>1, <2>2, <2>4, Sums
    <3> QED BY <3>1 DEF LocationBudget
  <2> QED BY <2>3, <2>4 DEF LocationBudget
<1>7. CASE order'.locs = order.locs /\ LocationsOpen(order)
  <2>1. m < MaxLocations
    BY <1>7 DEF LocationsOpen
  <2>2. m' = m
    BY <1>7
  <2>3. m' + n' <= MaxLocations + all - 1
    BY <1>4, <2>1, <2>2, Sums
  <2> QED BY <2>3 DEF LocationBudget
<1>8. ASSUME NEW r \in Inserting, NEW l \in Locations,
             Inserting' = Inserting \ {r}, order'.locs = order.locs \cup {l}
      PROVE  LocationBudget'
  <2>1. n' = n - 1
    BY <1>3, <1>8, FS_RemoveElement
  <2>2. m' <= m + 1
    <3>1. Cardinality(order.locs \cup {l}) \in {m, m + 1}
      BY <1>3, FS_AddElement
    <3>2. m' \in {m, m + 1}
      BY <1>8, <3>1
    <3> QED BY <1>4, <3>2
  <2>3. m + n <= MaxLocations + all - 1
    BY <1>8 DEF LocationBudget
  <2>4. m' + n' <= MaxLocations + all - 1
    BY <1>4, <2>1, <2>2, <2>3, Sums
  <2> QED BY <2>4 DEF LocationBudget
<1> QED BY <1>6, <1>7, <1>8, InsertFrame

\* With n requests at once an order gets at most n - 1 locations more than
\* MAX_LOCATIONS_PER_ORDER, and none when it was planned with that many.
THEOREM LocationsAreBounded ==
  ASSUME IsFiniteSet(Requests)
  PROVE  Spec => []LocationOvershoot
<1>1. Init => RowsOK /\ SlotsOK
  BY TypeInit, TypeHalves
<1>2. Init => LocationBudget
  <2> SUFFICES ASSUME Init PROVE LocationBudget
    OBVIOUS
  <2>1. PICK d \in Drafts :
          /\ plan = [d EXCEPT !.seats = normalizeApprovalLevelsForStore(d.seats)]
          /\ order = NewOrder(d.stops, d.gatePass)
    BY DEF Init
  <2>2. d \in Draft
    BY TravelOrderAssumption DEF TravelOrderAssumption
  <2>3. order.locs = plan.stops
    BY <2>1, <2>2 DEF NewOrder, Draft
  <2>4. Inserting = {}
    BY IdleType DEF Init, Inserting
  <2> QED BY <2>3, <2>4 DEF LocationBudget
<1>3. RowsOK /\ LocationBudget => LocationOvershoot
  <2> SUFFICES ASSUME RowsOK, LocationBudget PROVE LocationOvershoot
    OBVIOUS
  <2>1. IsFiniteSet(Inserting) /\ IsFiniteSet(order.locs)
    BY TravelOrderAssumption, FS_Subset
       DEF Inserting, RowsOK, Order, TravelOrderAssumption
  <2>2. /\ Cardinality(Inserting) \in Nat /\ Cardinality(order.locs) \in Nat
        /\ Cardinality(Requests) \in Nat /\ MaxLocations \in Nat
    BY <2>1, FS_CardinalityType, TravelOrderAssumption
       DEF TravelOrderAssumption
  <2> QED BY <2>2 DEF LocationBudget, LocationOvershoot
<1> DEFINE Inv == RowsOK /\ SlotsOK /\ LocationBudget
<1>4. Inv /\ [Next]_vars => Inv'
  BY TypeStep, BudgetStep
<1>5. Init => Inv
  BY <1>1, <1>2
<1>6. Inv => LocationOvershoot
  BY <1>3
<1> HIDE DEF Inv
<1> QED BY <1>4, <1>5, <1>6, PTL DEF Spec

=============================================================================
