---------------------- MODULE TravelOrderSerialProofs ----------------------
(***************************************************************************)
(* Proofs about requests that come one after the other: the handlers       *)
(* implement OrderLifecycle and, at the gate, VisitLog, record the KPI     *)
(* once, and carry it to the task and to the mirror.                       *)
(*                                                                         *)
(* What a route decided stays true until it writes, because nobody else    *)
(* writes in between.  The invariant says so: one slot at most is taken,   *)
(* and its decision (Holds) is about the row as it is now.                 *)
(***************************************************************************)
EXTENDS TravelOrderProofs

\* The guard of the operation that asked for the status.
MaySet(goal) ==
  /\ goal # "APPROVED"
  /\ goal = "REJECTED" =>
       \/ order.status = "APPROVED"
       \/ /\ order.status = "SUBMITTED"
          /\ hasHierarchicalApprovals(plan.seats) =>
               getUnlockedIncompleteLevels(plan.seats, order.signed) # {}
  /\ goal = "CANCELLED" => order.status \in {"SUBMITTED", "APPROVED"}
  /\ goal = "CONFIRMED" => order.status = "APPROVED"

MayGate(goal) ==
  goal \in {"start", "end", "edit"} \/ "gateDrop" \in Ops

\* What slot q has decided is still so.
Holds(q) ==
  /\ q.pc = "approve.sign" => q.seen = order
  /\ q.pc = "approve.endorse" => MayEndorse(order, q.who)
  /\ q.pc = "status.write" => MaySet(q.goal)
  /\ q.pc = "gate.read" => MayGate(q.goal)
  /\ q.pc = "gate.write" => /\ MayGate(q.goal)
                            /\ GateReady(order, q.goal)
                            /\ q.seen = order
  /\ q.pc = "location.write" => ~order.kpiAt
  /\ q.pc = "kpi.record" => /\ ~order.kpiAt
                            /\ q.value = fieldAssignmentKpiPercent(order)

\* The points at which nothing is decided.
Silent == PCs \ {"approve.sign", "approve.endorse", "status.write",
                 "gate.read", "gate.write", "location.write",
                 "kpi.record"}

Alone == \A q, r \in Requests : req[q] # Idle /\ req[r] # Idle => q = r

ApprovedIsComplete == order.status = "APPROVED" => Lifecycle!Complete

OneByOne == /\ Alone
            /\ \A r \in Requests : Holds(req[r])
            /\ ApprovedIsComplete

-----------------------------------------------------------------------------
(* A step is taken by one slot, and the others are idle.                    *)

OthersIdle(r) == \A s \in Requests \ {r} : req[s] = Idle

LEMMA FreeIsAlone ==
  ASSUME InFlight = 1, Alone, NEW r \in Requests, Free(r)
  PROVE  OthersIdle(r)
<1> DEFINE Taken == {q \in Requests : req[q] # Idle}
<1>1. ASSUME NEW s \in Taken PROVE FALSE
  <2>1. Taken = {s}
    BY <1>1 DEF Alone
  <2>2. Cardinality({s}) = 1
    BY FS_Singleton
  <2> QED BY <2>1, <2>2 DEF Free
<1> QED BY <1>1 DEF OthersIdle

LEMMA BusyIsAlone ==
  ASSUME Alone, NEW r \in Requests, req[r].pc # "idle"
  PROVE  OthersIdle(r)
<1>1. req[r] # Idle
  BY DEF Idle
<1> QED BY <1>1 DEF Alone, OthersIdle

\* It is enough to know the slot that was put.
LEMMA PutHolds ==
  ASSUME NEW r \in Requests, OthersIdle(r),
         \A s \in Requests \ {r} : req'[s] = req[s],
         Holds(req[r])'
  PROVE  Alone' /\ \A s \in Requests : Holds(req[s])'
<1>1. \A s \in Requests \ {r} : req'[s] = Idle
  BY DEF OthersIdle
<1>2. Alone'
  BY <1>1 DEF Alone
<1>3. ASSUME NEW s \in Requests PROVE Holds(req[s])'
  <2>1. CASE s # r
    <3>1. req'[s].pc = "idle"
      BY <1>1, <2>1 DEF Idle
    <3> QED BY <3>1 DEF Holds
  <2> QED BY <2>1
<1> QED BY <1>2, <1>3

\* A slot that goes where nothing is decided.
LEMMA SilentHolds ==
  ASSUME NEW r \in Requests, req'[r].pc \in Silent
  PROVE  Holds(req[r])'
BY DEF Silent, Holds

-----------------------------------------------------------------------------
(* What arrives: the decision was just taken.                               *)

LEMMA AcceptHolds ==
  ASSUME SlotsOK, NEW r \in Requests, Accept(r)
  PROVE  /\ Free(r)
         /\ \A s \in Requests \ {r} : req'[s] = req[s]
         /\ Holds(req[r])'
<1>0. UNCHANGED <<plan, order, task, merged>>
  BY AcceptReads
<1> DEFINE Put == /\ Free(r)
                  /\ \A s \in Requests \ {r} : req'[s] = req[s]
<1>1. ASSUME NEW pc, NEW goal, Arrive(r, pc, goal)
      PROVE  Put /\ req'[r].pc = pc /\ req'[r].goal = goal
  BY <1>1 DEF Arrive, SlotsOK, Idle
<1>2. ASSUME NEW a \in Agents,
             \/ Reject(r, a) \/ Cancel(r, a) \/ Confirm(r, a)
             \/ Resubmit(r, a)
      PROVE  Put /\ Holds(req[r])'
  <2>1. PICK goal \in Status : Arrive(r, "status.write", goal) /\ MaySet(goal)
    BY <1>2
    DEF Reject, Cancel, Confirm, Resubmit, MaySet, Status,
        canApproveTravelOrderNow, canConfirmTravelOrderNow,
        canCancelTravelOrderNow, ActionableLevels
  <2>2. Put /\ req'[r].pc = "status.write" /\ req'[r].goal = goal
    BY <1>1, <2>1
  <2>3. MaySet(goal)'
    BY <1>0, <2>1 DEF MaySet
  <2> QED BY <2>2, <2>3 DEF Holds
<1>3. ASSUME NEW a \in Agents,
             \/ GateStart(r, a) \/ GateEnd(r, a) \/ GateEdit(r, a)
             \/ GateDrop(r, a)
      PROVE  Put /\ Holds(req[r])'
  <2>1. PICK goal \in {"start", "end", "edit", "drop"} :
          Arrive(r, "gate.read", goal) /\ MayGate(goal)
    BY <1>3 DEF GateStart, GateEnd, GateEdit, GateDrop, GateVisit, GateRevise,
                MayGate
  <2>2. Put /\ req'[r].pc = "gate.read" /\ req'[r].goal = goal
    BY <1>1, <2>1
  <2> QED BY <2>1, <2>2 DEF Holds, MayGate
<1>4. ASSUME NEW a \in Agents,
             AddLocation(r, a) \/ RetryRfp(r, a) \/ EditRfp(r, a)
      PROVE  Put /\ Holds(req[r])'
  <2>1. PICK pc \in {"location.write", "rfp"}, goal \in {"none", "edit"} :
          Arrive(r, pc, goal) /\ (pc = "location.write" => ~order.kpiAt)
    BY <1>4 DEF AddLocation, LocationsOpen, RetryRfp, EditRfp, OpenRfp
  <2>2. Put /\ req'[r].pc = pc
    BY <1>1, <2>1
  <2> QED BY <1>0, <2>1, <2>2 DEF Holds
<1>5. ASSUME NEW a \in Agents, Approve(r, a) PROVE Put /\ Holds(req[r])'
  BY <1>5 DEF Approve, SlotsOK, Idle, Holds
<1>6. ASSUME NEW a \in Agents, NEW l \in Locations,
             VisitStart(r, a, l) \/ VisitEnd(r, a, l)
      PROVE  Put /\ Holds(req[r])'
  <2>1. Put /\ req'[r].pc = "visit.write"
    BY <1>6 DEF VisitStart, VisitEnd, SlotsOK, Idle
  <2> QED BY <2>1 DEF Holds
<1>7. ASSUME NEW a \in Agents, SubmitDone(r, a) PROVE Put /\ Holds(req[r])'
  <2>1. Put /\ Free(r)
    BY <1>7 DEF SubmitDone, FinalizeFrom, SlotsOK
  <2>2. /\ req'[r].pc \in {"kpi.record"}
        /\ req'[r].value = fieldAssignmentKpiPercent(order)
        /\ ~order.kpiAt
    BY <1>7 DEF SubmitDone, FinalizeFrom, FinalizeAt, SlotsOK, Idle
  <2> QED BY <1>0, <2>1, <2>2 DEF Holds, fieldAssignmentKpiPercent, Completed
<1> HIDE DEF Put
<1> QED BY <1>2, <1>3, <1>4, <1>5, <1>6, <1>7 DEF Accept, Put

-----------------------------------------------------------------------------
(* What goes on: either it decides, or it goes where nothing is decided.    *)

LEMMA GotoSlot ==
  ASSUME SlotsOK, NEW r \in Requests, NEW pc, Goto(r, pc) \/ Reread(r, pc)
  PROVE  /\ \A s \in Requests \ {r} : req'[s] = req[s]
         /\ req'[r].pc = pc /\ req'[r].goal = req[r].goal
         /\ req'[r].who = req[r].who
BY DEF Goto, Reread, SlotsOK, SlotOK, Request

LEMMA RereadSlot ==
  ASSUME SlotsOK, NEW r \in Requests, NEW pc, Reread(r, pc)
  PROVE  req'[r].seen = order
BY DEF Reread, SlotsOK, SlotOK, Request

LEMMA DoneSlot ==
  ASSUME SlotsOK, NEW r \in Requests, Done(r)
  PROVE  /\ \A s \in Requests \ {r} : req'[s] = req[s]
         /\ Holds(req[r])'
BY DEF Done, SlotsOK, Idle, Holds

LEMMA ContinueHolds ==
  ASSUME SlotsOK, NEW r \in Requests, Holds(req[r]), Continue(r)
  PROVE  /\ req[r].pc # "idle"
         /\ \A s \in Requests \ {r} : req'[s] = req[s]
         /\ Holds(req[r])'
<1> DEFINE Others == \A s \in Requests \ {r} : req'[s] = req[s]
<1>1. req[r].pc # "idle"
  BY DEF Continue, Pay, CloseRfp, Advance, ReadToSign, ReadToEndorse,
         RefuseApproval, WriteSignature, WriteEndorsement, RereadApproved,
         Release, WriteStatus, ReadGate, WriteGate, WriteVisit,
         WriteLocation, ConfirmReread, RecordKpi, RereadKpi, CompleteTask,
         RereadToSync, SyncMerged, At
<1>2. CASE ReadToSign(r)
  <2>1. Reread(r, "approve.sign") /\ order' = order
    BY <1>2 DEF ReadToSign
  <2>2. Others /\ req'[r].pc = "approve.sign" /\ req'[r].seen = order
    BY <2>1, GotoSlot, RereadSlot
  <2> QED BY <1>1, <2>1, <2>2 DEF Holds
<1>3. CASE ReadToEndorse(r)
  <2>1. /\ Goto(r, "approve.endorse") /\ MayEndorse(order, req[r].who)
        /\ order' = order /\ plan' = plan
    BY <1>3 DEF ReadToEndorse
  <2>2. /\ Others /\ req'[r].pc = "approve.endorse"
        /\ req'[r].who = req[r].who
    BY <2>1, GotoSlot
  <2> QED BY <1>1, <2>1, <2>2 DEF Holds, MayEndorse
<1>4. CASE ReadGate(r) /\ GateReady(order, req[r].goal)
  <2>1. /\ Reread(r, "gate.write") /\ order' = order
        /\ MayGate(req[r].goal)
    BY <1>4 DEF ReadGate, Holds, At
  <2>2. /\ Others /\ req'[r].pc = "gate.write" /\ req'[r].seen = order
        /\ req'[r].goal = req[r].goal
    BY <2>1, GotoSlot, RereadSlot
  <2> QED BY <1>1, <1>4, <2>1, <2>2 DEF Holds, GateReady, MayGate
<1>5. CASE ConfirmReread(r)
  <2>1. Others /\ order' = order
    BY <1>5 DEF ConfirmReread, FinalizeFrom, SlotsOK
  <2>2. /\ req'[r].pc \in {"kpi.record", "sync.write"}
        /\ req'[r].pc = "kpi.record" => ~order.kpiAt
        /\ req'[r].value = fieldAssignmentKpiPercent(order)
    BY <1>5 DEF ConfirmReread, FinalizeFrom, FinalizeAt, SlotsOK, Idle
  <2> QED BY <1>1, <2>1, <2>2
          DEF Holds, fieldAssignmentKpiPercent, Completed
<1>6. ASSUME NEW pc \in Silent, Goto(r, pc) \/ Reread(r, pc)
      PROVE  Others /\ Holds(req[r])'
  BY <1>6, GotoSlot, SilentHolds
<1>7. CASE \/ WriteSignature(r) \/ WriteEndorsement(r) \/ RereadApproved(r)
           \/ WriteStatus(r) \/ RecordKpi(r) \/ RereadKpi(r)
           \/ CompleteTask(r) \/ RereadToSync(r)
  <2>1. \/ Done(r)
        \/ \E pc \in Silent : Goto(r, pc) \/ Reread(r, pc)
    BY <1>7 DEF WriteSignature, WriteEndorsement, RereadApproved, WriteStatus,
                RecordKpi, RereadKpi, CompleteTask, RereadToSync, Silent, PCs
  <2> QED BY <1>1, <1>6, <2>1, DoneSlot
<1>8. CASE \/ RefuseApproval(r) \/ Release(r) \/ WriteGate(r)
           \/ ReadGate(r) /\ ~GateReady(order, req[r].goal)
           \/ WriteVisit(r) \/ WriteLocation(r) \/ SyncMerged(r)
           \/ CloseRfp(r)
  <2>1. Done(r)
    BY <1>8 DEF RefuseApproval, Release, WriteGate, ReadGate, WriteVisit,
                WriteLocation, SyncMerged, CloseRfp
  <2> QED BY <1>1, <2>1, DoneSlot
<1> QED BY <1>2, <1>3, <1>4, <1>5, <1>7, <1>8 DEF Continue, Pay, Advance

-----------------------------------------------------------------------------
(* The steps of OrderLifecycle                                              *)

\* The chain of the abstract machine is the chain of the code.
LEMMA SameChain ==
  ASSUME NEW seats, NEW signed
  PROVE  /\ Lifecycle!hasHierarchicalApprovals(seats)
              = hasHierarchicalApprovals(seats)
         /\ Lifecycle!isApprovalHierarchySatisfied(seats, signed)
              = isApprovalHierarchySatisfied(seats, signed)
         /\ Lifecycle!getUnlockedIncompleteLevels(seats, signed)
              = getUnlockedIncompleteLevels(seats, signed)
BY DEF Lifecycle!hasHierarchicalApprovals, hasHierarchicalApprovals,
       Lifecycle!isApprovalHierarchySatisfied, isApprovalHierarchySatisfied,
       Lifecycle!getUnlockedIncompleteLevels, getUnlockedIncompleteLevels,
       Lifecycle!isApprovalLevelUnlocked, isApprovalLevelUnlocked,
       Lifecycle!RequiredLevels, RequiredLevels

LEMMA SignatureIsSign ==
  ASSUME RowsOK, NEW r \in Requests, Holds(req[r]), WriteSignature(r)
  PROVE  Lifecycle!Sign
<1>1. req[r].seen = order
  BY DEF WriteSignature, At, Holds
<1>2. PICK l \in DOMAIN plan.seats :
        /\ MaySignSeat(order, req[r].who, l)
        /\ LET signed == order.signed \cup {l}
           IN order' = [order EXCEPT !.signed = signed,
                                     !.status = StatusAfter(signed)]
  BY <1>1 DEF WriteSignature
<1> DEFINE signed == order.signed \cup {l}
           status == StatusAfter(signed)
<1>3. order' = [order EXCEPT !.signed = signed, !.status = status]
  BY <1>2
<1>4. status = IF isApprovalHierarchySatisfied(plan.seats, signed)
               THEN "APPROVED" ELSE "SUBMITTED"
  BY DEF StatusAfter
<1>5. order'.signed = signed /\ order'.status = status
  <2> HIDE DEF signed, status
  <2> QED BY <1>3 DEF RowsOK, Order
<1>6. /\ order.status = "SUBMITTED"
      /\ l \in getUnlockedIncompleteLevels(plan.seats, order.signed)
  BY <1>2 DEF MaySignSeat, IsOperatorActionableLevel, ActionableLevels
<1>7. plan' = plan
  BY DEF WriteSignature
<1> HIDE DEF status
<1> QED BY <1>4, <1>5, <1>6, <1>7, SameChain DEF Lifecycle!Sign

LEMMA LifecycleStep ==
  ASSUME RowsOK, SlotsOK, OneByOne, [Next]_vars
  PROVE  [Lifecycle!Next]_(Lifecycle!lifecycle)
<1>1. plan' = plan
  BY PlanFrame
<1>2. CASE UNCHANGED <<order.status, order.signed>>
  BY <1>1, <1>2 DEF Lifecycle!lifecycle
<1>3. ASSUME NEW r \in Requests, WriteSignature(r) PROVE Lifecycle!Next
  BY <1>3, SignatureIsSign DEF OneByOne, Lifecycle!Next
<1>4. ASSUME NEW r \in Requests, WriteEndorsement(r) PROVE Lifecycle!Next
  <2>1. MayEndorse(order, req[r].who)
    BY <1>4 DEF WriteEndorsement, At, OneByOne, Holds
  <2>2. order.status = "SUBMITTED" /\ Lifecycle!Complete
    BY <2>1, SameChain DEF MayEndorse, Lifecycle!Complete
  <2>3. order'.status = "APPROVED" /\ order'.signed = order.signed
    BY <1>4 DEF WriteEndorsement, SetStatus, RowsOK, Order
  <2> QED BY <1>1, <2>2, <2>3 DEF Lifecycle!Next, Lifecycle!Endorse
<1>5. ASSUME NEW r \in Requests, WriteStatus(r) PROVE Lifecycle!Next
  <2> DEFINE goal == req[r].goal
  <2>1. MaySet(goal) /\ goal \in Status
    BY <1>5 DEF WriteStatus, At, OneByOne, Holds, SlotsOK, SlotOK
  <2>2. order'.status = goal /\ order'.signed = order.signed
    BY <1>5 DEF WriteStatus, SetStatus, RowsOK, Order
  <2>3. CASE goal = "REJECTED"
    BY <1>1, <2>1, <2>2, <2>3, SameChain
    DEF MaySet, Lifecycle!Next, Lifecycle!Decline
  <2>4. CASE goal = "CANCELLED"
    BY <1>1, <2>1, <2>2, <2>4 DEF MaySet, Lifecycle!Next, Lifecycle!Withdraw
  <2>5. CASE goal = "CONFIRMED"
    BY <1>1, <2>1, <2>2, <2>5
    DEF MaySet, OneByOne, ApprovedIsComplete, Lifecycle!Next,
        Lifecycle!Confirm
  <2>6. CASE goal = "SUBMITTED"
    BY <1>1, <2>2, <2>6 DEF Lifecycle!Next, Lifecycle!Reopen
  <2> QED BY <2>1, <2>3, <2>4, <2>5, <2>6 DEF MaySet, Status
<1> QED BY <1>2, <1>3, <1>4, <1>5, StatusFrame

\* The machine itself is APPROVED only with a complete chain.
LEMMA LifecycleApproves ==
  ASSUME ApprovedIsComplete, [Lifecycle!Next]_(Lifecycle!lifecycle)
  PROVE  ApprovedIsComplete'
<1>1. CASE Lifecycle!Sign
  BY <1>1 DEF Lifecycle!Sign, Lifecycle!Complete, ApprovedIsComplete
<1>2. CASE Lifecycle!Endorse
  BY <1>2 DEF Lifecycle!Endorse, Lifecycle!Complete, ApprovedIsComplete
<1>3. CASE Lifecycle!Decline \/ Lifecycle!Withdraw \/ Lifecycle!Confirm
           \/ Lifecycle!Reopen
  BY <1>3 DEF Lifecycle!Decline, Lifecycle!Withdraw, Lifecycle!Confirm,
              Lifecycle!Reopen, ApprovedIsComplete
<1>4. CASE UNCHANGED Lifecycle!lifecycle
  BY <1>4 DEF Lifecycle!lifecycle, Lifecycle!Complete, ApprovedIsComplete
<1> QED BY <1>1, <1>2, <1>3, <1>4 DEF Lifecycle!Next

LEMMA OneByOneStep ==
  ASSUME InFlight = 1, RowsOK, SlotsOK, OneByOne, [Next]_vars
  PROVE  OneByOne'
<1>1. ApprovedIsComplete'
  BY LifecycleStep, LifecycleApproves DEF OneByOne
<1> DEFINE Kept == Alone' /\ \A s \in Requests : Holds(req[s])'
<1>2. ASSUME NEW r \in Requests, Accept(r) PROVE Kept
  BY <1>2, AcceptHolds, FreeIsAlone, PutHolds DEF OneByOne
<1>3. ASSUME NEW r \in Requests, Continue(r) PROVE Kept
  BY <1>3, ContinueHolds, BusyIsAlone, PutHolds DEF OneByOne
<1>4. ASSUME NEW r \in Requests, Fail(r) PROVE Kept
  <2>1. req[r].pc # "idle"
    BY <1>4 DEF Fail, FinalizeFails, SyncFails, At
  <2>2. Done(r) \/ Goto(r, "sync.reread")
    BY <1>4 DEF Fail, FinalizeFails, SyncFails
  <2>3. /\ \A s \in Requests \ {r} : req'[s] = req[s]
        /\ Holds(req[r])'
    <3>1. "sync.reread" \in Silent
      BY DEF Silent, PCs
    <3> QED BY <2>2, <3>1, DoneSlot, GotoSlot, SilentHolds
  <2> QED BY <2>1, <2>3, BusyIsAlone, PutHolds DEF OneByOne
<1>5. ASSUME Crash PROVE Kept
  <2>1. \A s \in Requests : req'[s] = Idle
    BY <1>5 DEF Crash
  <2>2. \A s \in Requests : req'[s].pc = "idle"
    BY <2>1 DEF Idle
  <2>3. ASSUME NEW s \in Requests PROVE Holds(req[s])'
    BY <2>2 DEF Holds
  <2>4. Alone'
    BY <2>1 DEF Alone
  <2> QED BY <2>3, <2>4
<1>6. ASSUME UNCHANGED vars PROVE Kept
  <2>1. UNCHANGED <<plan, order, req>>
    BY <1>6 DEF vars
  <2>2. ASSUME NEW s \in Requests PROVE Holds(req[s])'
    BY <2>1 DEF OneByOne, Holds, MayEndorse, MaySet, MayGate, GateReady,
                fieldAssignmentKpiPercent, Completed
  <2>3. Alone'
    BY <2>1 DEF OneByOne, Alone
  <2> QED BY <2>2, <2>3
<1> QED BY <1>1, <1>2, <1>3, <1>4, <1>5, <1>6 DEF Next, OneByOne

LEMMA OneByOneInit == Init => OneByOne
<1> SUFFICES ASSUME Init PROVE OneByOne
  OBVIOUS
<1>1. \A r \in Requests : req[r] = Idle /\ req[r].pc = "idle"
  BY IdleType DEF Init
<1>2. order.status = "SUBMITTED"
  BY DEF Init, NewOrder
<1> QED BY <1>1, <1>2 DEF OneByOne, Alone, Holds, ApprovedIsComplete

\* When requests do not overlap, what the handlers do to the status and the
\* signatures is the approval workflow of OrderLifecycle, whatever the chain
\* and whatever fails: the check that a route makes on its copy and the
\* unconditional write that follows amount to one step.
THEOREM SerialHandlersImplementLifecycle ==
  ASSUME InFlight = 1
  PROVE  Spec => ImplementsLifecycle
<1> DEFINE Inv == RowsOK /\ SlotsOK /\ OneByOne
<1>1. Init => Inv
  BY TypeInit, TypeHalves, OneByOneInit
<1>2. Inv /\ [Next]_vars => Inv'
  BY TypeStep, OneByOneStep
<1>3. Init => Lifecycle!Init
  BY DEF Init, NewOrder, Lifecycle!Init
<1>4. Inv /\ [Next]_vars => [Lifecycle!Next]_(Lifecycle!lifecycle)
  BY LifecycleStep
<1> HIDE DEF Inv
<1> QED BY <1>1, <1>2, <1>3, <1>4, PTL
        DEF Spec, ImplementsLifecycle, Lifecycle!Spec

-----------------------------------------------------------------------------
(* The captures at the gate                                                 *)

LEMMA GateFrame ==
  ASSUME RowsOK, [Next]_vars
  PROVE  \/ UNCHANGED <<order.departed, order.returned>>
         \/ \E r \in Requests : WriteGate(r)
<1> DEFINE Same == UNCHANGED <<order.departed, order.returned>>
<1>1. ASSUME NEW r \in Requests, Accept(r) PROVE Same
  BY <1>1, AcceptReads
<1>2. ASSUME NEW r \in Requests, Continue(r), ~WriteGate(r) PROVE Same
  BY <1>2
  DEF RowsOK, Order, Continue, Pay, CloseRfp, Advance, ReadToSign,
      ReadToEndorse, RefuseApproval, WriteSignature, WriteEndorsement,
      SetStatus, RereadApproved, Release, WriteStatus, ReadGate, WriteVisit,
      WriteLocation, ConfirmReread, RecordKpi, RereadKpi, CompleteTask,
      RereadToSync, SyncMerged
<1>3. ASSUME NEW r \in Requests, Fail(r) PROVE Same
  BY <1>3 DEF Fail, FinalizeFails, SyncFails
<1>4. Crash \/ UNCHANGED vars => Same
  BY DEF Crash, vars
<1> QED BY <1>1, <1>2, <1>3, <1>4 DEF Next

LEMMA GateStep ==
  ASSUME "gateDrop" \notin Ops, RowsOK, SlotsOK, OneByOne, [Next]_vars
  PROVE  [Gate!Next]_(Gate!visits)
<1>1. CASE UNCHANGED <<order.departed, order.returned>>
  BY <1>1 DEF Gate!visits
<1>2. ASSUME NEW r \in Requests, WriteGate(r)
      PROVE  [Gate!Next]_(Gate!visits)
  <2>1. /\ req[r].goal \in {"start", "end", "edit"}
        /\ GateReady(order, req[r].goal)
        /\ req[r].seen = order
    BY <1>2 DEF WriteGate, At, OneByOne, Holds, MayGate
  <2>2. CASE req[r].goal = "start"
    <3>1. /\ order.departed = None
          /\ order'.departed = r /\ order'.returned = order.returned
      BY <1>2, <2>1, <2>2 DEF WriteGate, GateReady, RowsOK, Order
    <3> QED BY <3>1 DEF Gate!Next, Gate!Start
  <2>3. CASE req[r].goal = "end"
    <3>1. /\ order.departed # None /\ order.returned = None
          /\ order'.returned = r /\ order'.departed = order.departed
      BY <1>2, <2>1, <2>3 DEF WriteGate, GateReady, RowsOK, Order
    <3> QED BY <3>1 DEF Gate!Next, Gate!End
  <2>4. CASE req[r].goal = "edit"
    <3>1. UNCHANGED <<order.departed, order.returned>>
      BY <1>2, <2>1, <2>4 DEF WriteGate, RowsOK, Order
    <3> QED BY <1>1, <3>1
  <2> QED BY <2>1, <2>2, <2>3, <2>4
<1> QED BY <1>1, <1>2, GateFrame

\* When requests do not overlap and nobody drops the pass, what is captured
\* at the gate is kept: an edit writes back the captures it read, which are
\* those of the row.
THEOREM SerialGateIsALog ==
  ASSUME InFlight = 1, "gateDrop" \notin Ops
  PROVE  Spec => ImplementsGateLog
<1> DEFINE Inv == RowsOK /\ SlotsOK /\ OneByOne
<1>1. Init => Inv
  BY TypeInit, TypeHalves, OneByOneInit
<1>2. Inv /\ [Next]_vars => Inv'
  BY TypeStep, OneByOneStep
<1>3. Init => Gate!Init
  BY DEF Init, NewOrder, Gate!Init
<1>4. Inv /\ [Next]_vars => [Gate!Next]_(Gate!visits)
  BY GateStep
<1> HIDE DEF Inv
<1> QED BY <1>1, <1>2, <1>3, <1>4, PTL
        DEF Spec, ImplementsGateLog, Gate!Spec

-----------------------------------------------------------------------------
(* The KPI                                                                  *)

LEMMA RecordFrame ==
  ASSUME RowsOK, [Next]_vars
  PROVE  \/ UNCHANGED <<order.kpiAt, order.percent>>
         \/ \E r \in Requests : RecordKpi(r)
<1> DEFINE Same == UNCHANGED <<order.kpiAt, order.percent>>
<1>1. ASSUME NEW r \in Requests, Accept(r) PROVE Same
  BY <1>1, AcceptReads
<1>2. ASSUME NEW r \in Requests, Continue(r), ~RecordKpi(r) PROVE Same
  BY <1>2
  DEF RowsOK, Order, Continue, Pay, CloseRfp, Advance, ReadToSign,
      ReadToEndorse, RefuseApproval, WriteSignature, WriteEndorsement,
      SetStatus, RereadApproved, Release, WriteStatus, ReadGate, WriteGate,
      WriteVisit, WriteLocation, ConfirmReread, RereadKpi, CompleteTask,
      RereadToSync, SyncMerged
<1>3. ASSUME NEW r \in Requests, Fail(r) PROVE Same
  BY <1>3 DEF Fail, FinalizeFails, SyncFails
<1>4. Crash \/ UNCHANGED vars => Same
  BY DEF Crash, vars
<1> QED BY <1>1, <1>2, <1>3, <1>4 DEF Next

LEMMA RecordStep ==
  ASSUME RowsOK, OneByOne, [Next]_vars
  PROVE  \/ UNCHANGED <<order.kpiAt, order.percent>>
         \/ /\ ~order.kpiAt
            /\ order'.kpiAt
            /\ order'.percent = fieldAssignmentKpiPercent(order)
<1>1. ASSUME NEW r \in Requests, RecordKpi(r)
      PROVE  /\ ~order.kpiAt
             /\ order'.kpiAt
             /\ order'.percent = fieldAssignmentKpiPercent(order)
  <2>1. /\ ~order.kpiAt
        /\ req[r].value = fieldAssignmentKpiPercent(order)
    BY <1>1 DEF RecordKpi, At, OneByOne, Holds
  <2>2. order'.kpiAt /\ order'.percent = req[r].value
    BY <1>1 DEF RecordKpi, RowsOK, Order
  <2> QED BY <2>1, <2>2
<1> QED BY <1>1, RecordFrame

\* When requests do not overlap, the percentage is recorded once, as the
\* share of the locations that are visited then: a submit-done and a
\* confirmation one after the other do not record twice.
THEOREM SerialKpiIsRecordedOnce ==
  ASSUME InFlight = 1
  PROVE  Spec => KpiRecordedOnce
<1> DEFINE Inv == RowsOK /\ SlotsOK /\ OneByOne
<1>1. Init => Inv
  BY TypeInit, TypeHalves, OneByOneInit
<1>2. Inv /\ [Next]_vars => Inv'
  BY TypeStep, OneByOneStep
<1>3. ASSUME Inv, [Next]_vars
      PROVE  [ \/ UNCHANGED <<order.kpiAt, order.percent>>
               \/ /\ ~order.kpiAt
                  /\ order'.kpiAt
                  /\ order'.percent = fieldAssignmentKpiPercent(order) ]_vars
  BY <1>3, RecordStep
<1> HIDE DEF Inv
<1> QED BY <1>1, <1>2, <1>3, PTL DEF Spec, KpiRecordedOnce

(***************************************************************************)
(* The recorded share is not more than the share there is: after the       *)
(* record no location is added, and a visit only adds to the share.        *)
(***************************************************************************)
LEMMA MoreVisitsMoreShare ==
  ASSUME NEW b \in Nat, NEW c \in Nat, b <= c, NEW n \in Nat, n # 0
  PROVE  (200 * b + n) \div (2 * n) <= (200 * c + n) \div (2 * n)
<1> DEFINE x == 200 * b + n
           y == 200 * c + n
           d == 2 * n
<1>1. x \in Int /\ y \in Int /\ d \in Int /\ d > 0 /\ x <= y
  OBVIOUS
<1>2. \A u \in Int, v \in Int : v > 0 =>
        /\ u \div v \in Int
        /\ v * (u \div v) <= u
        /\ u < v * ((u \div v) + 1)
  BY Z3
<1> HIDE DEF x, y, d
<1>3. /\ x \div d \in Int /\ y \div d \in Int
      /\ d * (x \div d) < d * ((y \div d) + 1)
  BY <1>1, <1>2
<1>4. \A p, q \in Int : d * p < d * (q + 1) => p <= q
  BY <1>1
<1>5. x \div d <= y \div d
  BY <1>3, <1>4
<1> QED BY <1>5 DEF x, y, d

LEMMA VisitsAddToShare ==
  ASSUME NEW o \in Order, NEW p \in Order,
         o.locs = p.locs, Completed(o) \subseteq Completed(p)
  PROVE  fieldAssignmentKpiPercent(o) <= fieldAssignmentKpiPercent(p)
<1>1. IsFiniteSet(p.locs)
  BY TravelOrderAssumption, FS_Subset DEF TravelOrderAssumption, Order
<1>2. Completed(p) \subseteq p.locs
  BY DEF Completed
<1>3. /\ Cardinality(Completed(o)) \in Nat
      /\ Cardinality(Completed(p)) \in Nat
      /\ Cardinality(Completed(o)) <= Cardinality(Completed(p))
      /\ Cardinality(p.locs) \in Nat
  BY <1>1, <1>2, FS_Subset, FS_CardinalityType
<1>4. CASE p.locs = {}
  BY <1>4 DEF fieldAssignmentKpiPercent
<1>5. CASE p.locs # {}
  <2>1. Cardinality(p.locs) # 0
    BY <1>1, <1>5, FS_EmptySet
  <2> QED BY <1>3, <1>5, <2>1, MoreVisitsMoreShare
          DEF fieldAssignmentKpiPercent
<1> QED BY <1>4, <1>5

\* What a step may do to what the share is made of.
LEMMA ShareFrame ==
  ASSUME RowsOK, [Next]_vars
  PROVE  \/ UNCHANGED <<order.locs, order.ended>>
         \/ \E r \in Requests : WriteVisit(r) \/ WriteLocation(r)
<1> DEFINE Same == UNCHANGED <<order.locs, order.ended>>
<1>1. ASSUME NEW r \in Requests, Accept(r) PROVE Same
  BY <1>1, AcceptReads
<1>2. ASSUME NEW r \in Requests, Continue(r), ~WriteVisit(r),
             ~WriteLocation(r)
      PROVE  Same
  BY <1>2
  DEF RowsOK, Order, Continue, Pay, CloseRfp, Advance, ReadToSign,
      ReadToEndorse, RefuseApproval, WriteSignature, WriteEndorsement,
      SetStatus, RereadApproved, Release, WriteStatus, ReadGate, WriteGate,
      ConfirmReread, RecordKpi, RereadKpi, CompleteTask, RereadToSync,
      SyncMerged
<1>3. ASSUME NEW r \in Requests, Fail(r) PROVE Same
  BY <1>3 DEF Fail, FinalizeFails, SyncFails
<1>4. Crash \/ UNCHANGED vars => Same
  BY DEF Crash, vars
<1> QED BY <1>1, <1>2, <1>3, <1>4 DEF Next

LEMMA NotOverstatedStep ==
  ASSUME RowsOK, RowsOK', SlotsOK, OneByOne, KpiNeverOverstated, [Next]_vars
  PROVE  KpiNeverOverstated'
<1>1. order \in Order /\ order' \in Order
  BY DEF RowsOK
<1>2. CASE /\ order'.locs = order.locs
           /\ Completed(order) \subseteq Completed(order')
  <2>1. fieldAssignmentKpiPercent(order) <= fieldAssignmentKpiPercent(order')
    BY <1>1, <1>2, VisitsAddToShare
  <2>2. /\ fieldAssignmentKpiPercent(order) \in Int
        /\ fieldAssignmentKpiPercent(order') \in Int
        /\ order.percent \in Int /\ order'.percent \in Int
    BY <1>1, ShareInRange DEF Order
  <2>3. order'.kpiAt => order'.percent <= fieldAssignmentKpiPercent(order)
    <3>1. CASE UNCHANGED <<order.kpiAt, order.percent>>
      BY <3>1 DEF KpiNeverOverstated
    <3>2. CASE order'.percent = fieldAssignmentKpiPercent(order)
      BY <2>2, <3>2
    <3> QED BY <3>1, <3>2, RecordStep
  <2>4. order'.kpiAt => order'.percent <= fieldAssignmentKpiPercent(order')
    BY <2>1, <2>2, <2>3
  <2> QED BY <2>4 DEF KpiNeverOverstated, fieldAssignmentKpiPercent, Completed
<1>3. CASE UNCHANGED <<order.locs, order.ended>>
  BY <1>2, <1>3 DEF Completed
<1>4. ASSUME NEW r \in Requests, WriteVisit(r) PROVE KpiNeverOverstated'
  <2>1. /\ order'.locs = order.locs
        /\ \A l \in Locations : order.ended[l] # None => order'.ended[l] # None
    BY <1>4, TravelOrderAssumption
    DEF WriteVisit, RowsOK, Order, TravelOrderAssumption
  <2>2. Completed(order) \subseteq Completed(order')
    BY <1>1, <2>1 DEF Completed, Order
  <2> QED BY <1>2, <2>1, <2>2
<1>5. ASSUME NEW r \in Requests, WriteLocation(r) PROVE KpiNeverOverstated'
  <2>1. ~order.kpiAt
    BY <1>5 DEF WriteLocation, At, OneByOne, Holds
  <2>2. order'.kpiAt = order.kpiAt
    BY <1>5 DEF WriteLocation, RowsOK, Order
  <2> QED BY <2>1, <2>2 DEF KpiNeverOverstated
<1> QED BY <1>3, <1>4, <1>5, ShareFrame

\* When requests do not overlap, an order never claims more of its locations
\* than have been visited: the route refuses a new location once the KPI is
\* recorded, and nothing comes between its check and its INSERT.
THEOREM SerialKpiIsNotOverstated ==
  ASSUME InFlight = 1
  PROVE  Spec => []KpiNeverOverstated
<1> DEFINE Inv == RowsOK /\ SlotsOK /\ OneByOne /\ KpiNeverOverstated
<1>1. Init => Inv
  <2>1. Init => KpiNeverOverstated
    BY DEF Init, NewOrder, KpiNeverOverstated
  <2> QED BY <2>1, TypeInit, TypeHalves, OneByOneInit
<1>2. Inv /\ [Next]_vars => Inv'
  BY TypeStep, OneByOneStep, NotOverstatedStep
<1>3. Inv => KpiNeverOverstated
  OBVIOUS
<1> HIDE DEF Inv
<1> QED BY <1>1, <1>2, <1>3, PTL DEF Spec

-----------------------------------------------------------------------------
(* The order, its task and the mirror                                       *)

\* What a slot knows while it carries a record to the task and to the mirror.
Recording(q) ==
  /\ q.pc # "sync.reread"
  /\ \/ q.pc \in {"confirm.reread", "sync.write"}
     \/ q.pc \in {"kpi.record", "kpi.reread", "kpi.task"} /\ q.confirm
     => order.status = "CONFIRMED"
  /\ q.pc \in {"kpi.reread", "kpi.task"} =>
       ~task.done /\ order.kpiAt /\ order.percent = q.value
  /\ q.pc \in {"kpi.task", "sync.write"} => q.seen = order
  /\ q.pc = "sync.write" => order.kpiAt

\* No record is on its way to the task.
Settled == \A r \in Requests : req[r].pc \notin {"kpi.reread", "kpi.task"}

\* A mirrored order has its record, so that nothing is recorded afterwards.
RecordsKept ==
  /\ order.locs # {}
  /\ Settled => (order.kpiAt <=> task.done) /\ task.value = order.percent
  /\ merged.synced => /\ order.kpiAt /\ task.done
                      /\ merged.status = "CONFIRMED"
                      /\ merged.percent = task.value

RecordsInv == RecordsKept /\ \A r \in Requests : Recording(req[r])

LEMMA PutRecords ==
  ASSUME NEW r \in Requests, OthersIdle(r),
         \A s \in Requests \ {r} : req'[s] = req[s],
         Recording(req[r])'
  PROVE  \A s \in Requests : Recording(req[s])'
<1> SUFFICES ASSUME NEW s \in Requests \ {r} PROVE Recording(req[s])'
  OBVIOUS
<1>1. req'[s].pc = "idle"
  BY DEF OthersIdle, Idle
<1> QED BY <1>1 DEF Recording

\* Everything else leaves record, task and mirror alone, and takes no
\* location away.
LEMMA UnrecordedKept ==
  ASSUME RecordsKept, Settled, UNCHANGED <<task, merged>>,
         order'.kpiAt = order.kpiAt, order'.percent = order.percent,
         order.locs \subseteq order'.locs
  PROVE  RecordsKept'
BY DEF RecordsKept, Settled

LEMMA AcceptRecords ==
  ASSUME SlotsOK, RecordsInv, NEW r \in Requests, OthersIdle(r), Free(r),
         Accept(r)
  PROVE  RecordsInv'
<1>0. UNCHANGED <<plan, order, task, merged>>
  BY AcceptReads
<1>1. Settled
  BY DEF OthersIdle, Free, Settled, Idle
<1>2. RecordsKept'
  BY <1>0, <1>1, UnrecordedKept DEF RecordsInv
<1>3. /\ \A s \in Requests \ {r} : req'[s] = req[s]
      /\ \/ req'[r].pc \in {"approve.read", "status.write", "gate.read",
                            "visit.write", "location.write", "rfp"}
         \/ req'[r].pc = "kpi.record" /\ ~req'[r].confirm
  <2>1. ASSUME NEW pc, NEW goal, Arrive(r, pc, goal)
        PROVE  /\ \A s \in Requests \ {r} : req'[s] = req[s]
               /\ req'[r].pc = pc
    BY <2>1 DEF Arrive, SlotsOK, Idle
  <2>2. ASSUME NEW a \in Agents,
               \/ Reject(r, a) \/ Cancel(r, a) \/ Confirm(r, a)
               \/ Resubmit(r, a) \/ AddLocation(r, a) \/ RetryRfp(r, a)
               \/ EditRfp(r, a) \/ GateStart(r, a) \/ GateEnd(r, a)
               \/ GateEdit(r, a) \/ GateDrop(r, a)
        PROVE  \E pc \in {"status.write", "gate.read", "location.write", "rfp"} :
                  \E goal : Arrive(r, pc, goal)
    BY <2>2 DEF Reject, Cancel, Confirm, Resubmit, AddLocation, RetryRfp,
       EditRfp, OpenRfp, GateStart, GateEnd, GateEdit, GateDrop, GateVisit,
       GateRevise
  <2>3. ASSUME NEW a \in Agents, Approve(r, a)
        PROVE  /\ \A s \in Requests \ {r} : req'[s] = req[s]
               /\ req'[r].pc = "approve.read"
    BY <2>3 DEF Approve, SlotsOK, Idle
  <2>4. ASSUME NEW a \in Agents, NEW l \in Locations,
               VisitStart(r, a, l) \/ VisitEnd(r, a, l)
        PROVE  /\ \A s \in Requests \ {r} : req'[s] = req[s]
               /\ req'[r].pc = "visit.write"
    BY <2>4 DEF VisitStart, VisitEnd, SlotsOK, Idle
  <2>5. ASSUME NEW a \in Agents, SubmitDone(r, a)
        PROVE  /\ \A s \in Requests \ {r} : req'[s] = req[s]
               /\ req'[r].pc = "kpi.record" /\ ~req'[r].confirm
    BY <2>5 DEF SubmitDone, FinalizeFrom, FinalizeAt, SlotsOK, Idle
  <2> QED BY <2>1, <2>2, <2>3, <2>4, <2>5 DEF Accept
<1>4. Recording(req[r])'
  BY <1>3 DEF Recording
<1> QED BY <1>2, <1>3, <1>4, PutRecords DEF RecordsInv

\* The steps before a record, and those that have nothing to do with it.
LEMMA OtherRecords ==
  ASSUME RowsOK, SlotsOK, RecordsInv, NEW r \in Requests, OthersIdle(r),
         \/ ReadToSign(r) \/ ReadToEndorse(r) \/ RefuseApproval(r)
         \/ WriteSignature(r) \/ WriteEndorsement(r) \/ RereadApproved(r)
         \/ WriteStatus(r) \/ ReadGate(r) \/ WriteGate(r)
         \/ WriteVisit(r) \/ WriteLocation(r) \/ Pay(r) \/ SyncFails(r)
  PROVE  RecordsInv'
<1>1. Settled
  <2>1. req[r].pc \notin {"kpi.reread", "kpi.task"}
    BY DEF Pay, CloseRfp, ReadToSign, ReadToEndorse, RefuseApproval,
       WriteSignature, WriteEndorsement, RereadApproved, Release, WriteStatus,
       ReadGate, WriteGate, WriteVisit, WriteLocation, SyncFails, At
  <2>2. \A s \in Requests \ {r} : req[s].pc = "idle"
    BY DEF OthersIdle, Idle
  <2> QED BY <2>1, <2>2 DEF Settled
<1>2. /\ UNCHANGED <<task, merged>>
      /\ order'.kpiAt = order.kpiAt /\ order'.percent = order.percent
      /\ order.locs \subseteq order'.locs
  <2>1. CASE \/ WriteSignature(r) \/ WriteEndorsement(r) \/ WriteStatus(r)
    BY <2>1 DEF RowsOK, Order, WriteSignature, WriteEndorsement, WriteStatus,
       SetStatus
  <2>2. CASE WriteVisit(r) \/ WriteLocation(r)
    BY <2>2 DEF RowsOK, Order, WriteVisit, WriteLocation
  <2>3. CASE \/ ReadToSign(r) \/ ReadToEndorse(r) \/ RefuseApproval(r)
             \/ RereadApproved(r) \/ ReadGate(r) \/ WriteGate(r)
             \/ Pay(r) \/ SyncFails(r)
    BY <2>3 DEF RowsOK, Order, Pay, CloseRfp, ReadToSign, ReadToEndorse,
       RefuseApproval, RereadApproved, Release, ReadGate, WriteGate, SyncFails
  <2> QED BY <2>1, <2>2, <2>3
<1>3. CASE Done(r)
  <2>1. (\A s \in Requests \ {r} : req'[s] = req[s]) /\ req'[r].pc = "idle"
    BY <1>3 DEF Done, SlotsOK, Idle
  <2> QED BY <1>1, <1>2, <2>1, PutRecords, UnrecordedKept
          DEF RecordsInv, Recording
<1>4. ASSUME NEW pc \in {"approve.sign", "approve.endorse", "approve.reread",
                         "approve.release", "gate.write"},
             Goto(r, pc) \/ Reread(r, pc)
      PROVE  RecordsInv'
  <2>1. (\A s \in Requests \ {r} : req'[s] = req[s]) /\ req'[r].pc = pc
    BY <1>4, GotoSlot
  <2> QED BY <1>1, <1>2, <2>1, PutRecords, UnrecordedKept
          DEF RecordsInv, Recording
<1>5. CASE WriteStatus(r) /\ Goto(r, "confirm.reread")
  <2>1. /\ \A s \in Requests \ {r} : req'[s] = req[s]
        /\ req'[r].pc = "confirm.reread"
    BY <1>5, GotoSlot
  <2>2. order'.status = "CONFIRMED"
    <3> req[r].goal = "CONFIRMED"
      <4> SUFFICES ASSUME Done(r) PROVE FALSE
        BY <1>5 DEF WriteStatus
      <4> QED BY <2>1 DEF Done, SlotsOK, Idle
    <3> QED BY <1>5 DEF WriteStatus, SetStatus, RowsOK, Order
  <2> QED BY <1>1, <1>2, <2>1, <2>2, PutRecords, UnrecordedKept
          DEF RecordsInv, Recording
<1> QED BY <1>3, <1>4, <1>5
        DEF Pay, CloseRfp, ReadToSign, ReadToEndorse, RefuseApproval,
        WriteSignature, WriteEndorsement, RereadApproved, Release, WriteStatus,
        ReadGate, WriteGate, WriteVisit, WriteLocation, SyncFails

\* The record, step by step.
LEMMA CarryRecords ==
  ASSUME RowsOK, SlotsOK, RecordsInv, NEW r \in Requests, OthersIdle(r),
         Holds(req[r]),
         \/ ConfirmReread(r) \/ RecordKpi(r) \/ RereadKpi(r)
         \/ CompleteTask(r) \/ RereadToSync(r) \/ SyncMerged(r)
  PROVE  RecordsInv'
<1> Recording(req[r]) /\ RecordsKept
  BY DEF RecordsInv
<1>0. \A s \in Requests \ {r} : req[s].pc = "idle"
  BY DEF OthersIdle, Idle
<1>1. CASE ConfirmReread(r)
  <2>1. /\ order.status = "CONFIRMED" /\ order.locs # {}
        /\ UNCHANGED <<plan, order, task, merged>>
        /\ FinalizeFrom(r, order, TRUE, "sync.write")
    BY <1>1 DEF ConfirmReread, At, Recording, RecordsKept
  <2>2. Settled
    BY <1>0, <1>1 DEF ConfirmReread, At, Settled
  <2>3. /\ \A s \in Requests \ {r} : req'[s] = req[s]
        /\ req'[r].pc = IF order.kpiAt THEN "sync.write" ELSE "kpi.record"
        /\ req'[r].seen = order
    BY <2>1 DEF FinalizeFrom, FinalizeAt, SlotsOK, Idle
  <2>4. Recording(req[r])'
    BY <2>1, <2>3 DEF Recording
  <2> QED BY <2>1, <2>2, <2>3, <2>4, PutRecords, UnrecordedKept DEF RecordsInv
<1>2. CASE RecordKpi(r)
  <2>1. /\ ~order.kpiAt /\ UNCHANGED <<task, merged>>
        /\ order'.kpiAt /\ order'.percent = req[r].value
        /\ order'.status = order.status /\ order'.locs = order.locs
    BY <1>2 DEF RecordKpi, At, Holds, RowsOK, Order
  <2>2. ~task.done /\ ~merged.synced
    BY <1>0, <1>2, <2>1 DEF RecordsKept, Settled, RecordKpi, At
  <2>3. /\ \A s \in Requests \ {r} : req'[s] = req[s]
        /\ req'[r].pc = "kpi.reread" /\ req'[r].value = req[r].value
        /\ req'[r].confirm = req[r].confirm
    BY <1>2 DEF RecordKpi, Goto, SlotsOK, SlotOK, Request
  <2>4. ~Settled'
    BY <2>3 DEF Settled
  <2>5. RecordsKept'
    BY <2>1, <2>2, <2>4 DEF RecordsKept
  <2>6. Recording(req[r])'
    BY <1>2, <2>1, <2>2, <2>3 DEF Recording, RecordKpi, At
  <2> QED BY <2>3, <2>5, <2>6, PutRecords DEF RecordsInv
<1>3. CASE RereadKpi(r)
  <2>1. UNCHANGED <<order, task, merged>> /\ req[r].pc = "kpi.reread"
    BY <1>3 DEF RereadKpi, At
  <2>2. /\ \A s \in Requests \ {r} : req'[s] = req[s]
        /\ req'[r].pc = "kpi.task" /\ req'[r].value = req[r].value
        /\ req'[r].confirm = req[r].confirm /\ req'[r].seen = order
    BY <1>3 DEF RereadKpi, Reread, SlotsOK, SlotOK, Request
  <2>3. ~Settled'
    BY <2>2 DEF Settled
  <2>4. RecordsKept'
    BY <2>1, <2>3 DEF RecordsKept
  <2>5. Recording(req[r])'
    BY <2>1, <2>2 DEF Recording
  <2> QED BY <2>2, <2>4, <2>5, PutRecords DEF RecordsInv
<1>4. CASE CompleteTask(r)
  <2>1. /\ UNCHANGED <<order, merged>> /\ req[r].pc = "kpi.task"
        /\ task' = [done |-> TRUE, value |-> req[r].value]
    BY <1>4 DEF CompleteTask, At
  <2>2. /\ ~task.done /\ order.kpiAt /\ order.percent = req[r].value
        /\ req[r].seen = order /\ (req[r].confirm => order.status = "CONFIRMED")
    BY <2>1 DEF Recording
  <2>3. ~merged.synced
    BY <2>2 DEF RecordsKept
  <2>4. /\ \A s \in Requests \ {r} : req'[s] = req[s]
        /\ req'[r].pc = IF req[r].confirm THEN "sync.write" ELSE "idle"
        /\ req'[r].pc = "sync.write" => req'[r].seen = req[r].seen
    BY <1>4 DEF CompleteTask, Goto, Done, Idle, SlotsOK, SlotOK, Request
  <2>5. RecordsKept'
    BY <2>1, <2>2, <2>3 DEF RecordsKept
  <2>6. Recording(req[r])'
    BY <2>1, <2>2, <2>4 DEF Recording
  <2> QED BY <2>4, <2>5, <2>6, PutRecords DEF RecordsInv
<1>5. ~RereadToSync(r)
  BY DEF RereadToSync, At, Recording
<1>6. CASE SyncMerged(r)
  <2>1. /\ UNCHANGED <<order, task>> /\ req[r].pc = "sync.write"
        /\ merged' = [synced |-> TRUE, status |-> req[r].seen.status,
                      percent |-> req[r].seen.percent]
        /\ Done(r)
    BY <1>6 DEF SyncMerged, At
  <2>2. order.status = "CONFIRMED" /\ order.kpiAt /\ req[r].seen = order
    BY <2>1 DEF Recording
  <2>3. Settled
    BY <1>0, <2>1 DEF Settled
  <2>4. (\A s \in Requests \ {r} : req'[s] = req[s]) /\ req'[r].pc = "idle"
    BY <2>1 DEF Done, SlotsOK, Idle
  <2>5. RecordsKept'
    BY <2>1, <2>2, <2>3 DEF RecordsKept
  <2>6. Recording(req[r])'
    BY <2>4 DEF Recording
  <2> QED BY <2>4, <2>5, <2>6, PutRecords DEF RecordsInv
<1> QED BY <1>1, <1>2, <1>3, <1>4, <1>5, <1>6

LEMMA RecordsStep ==
  ASSUME InFlight = 1, Faults \subseteq {"sync"}, RowsOK, SlotsOK, OneByOne,
         RecordsInv, [Next]_vars
  PROVE  RecordsInv'
<1>1. ASSUME NEW r \in Requests, Accept(r) PROVE RecordsInv'
  BY <1>1, AcceptHolds, FreeIsAlone, AcceptRecords DEF OneByOne
<1>2. ASSUME NEW r \in Requests, Continue(r) PROVE RecordsInv'
  <2>1. OthersIdle(r) /\ Holds(req[r])
    BY <1>2, ContinueHolds, BusyIsAlone DEF OneByOne
  <2> QED BY <1>2, <2>1, OtherRecords, CarryRecords DEF Continue, Advance
<1>3. ASSUME NEW r \in Requests, Fail(r) PROVE RecordsInv'
  <2>1. SyncFails(r) /\ req[r].pc = "sync.write"
    BY <1>3 DEF Fail, FinalizeFails, SyncFails, At
  <2> QED BY <2>1, BusyIsAlone, OtherRecords DEF OneByOne
<1>4. ~Crash
  BY DEF Crash
<1>5. CASE UNCHANGED vars
  BY <1>5 DEF vars, RecordsInv, RecordsKept, Recording, Settled
<1> QED BY <1>1, <1>2, <1>3, <1>4, <1>5 DEF Next

\* When requests do not overlap and the process and the KPI record do not
\* fail, then between requests the task is done exactly when the KPI is
\* recorded, with the same value, and a mirrored row says what the order says:
\* also when the mirror fails, and when an order is confirmed, resubmitted and
\* confirmed again.
THEOREM SerialRecordsAgree ==
  ASSUME InFlight = 1, Faults \subseteq {"sync"}
  PROVE  Spec => []RecordsAgree
<1> DEFINE Inv == RowsOK /\ SlotsOK /\ OneByOne /\ RecordsInv
<1>1. Init => Inv
  <2> SUFFICES ASSUME Init PROVE RecordsInv
    BY TypeInit, TypeHalves, OneByOneInit
  <2>1. PICK d \in Drafts : order = NewOrder(d.stops, d.gatePass)
    BY DEF Init
  <2>2. order.locs # {} /\ ~order.kpiAt /\ order.percent = 0
    BY <2>1, TravelOrderAssumption
       DEF TravelOrderAssumption, IsAcceptedDraft, NewOrder
  <2>3. ~task.done /\ task.value = 0 /\ ~merged.synced
    BY DEF Init
  <2>4. \A r \in Requests : req[r].pc = "idle"
    BY IdleType DEF Init
  <2> QED BY <2>2, <2>3, <2>4 DEF RecordsInv, RecordsKept, Recording
<1>2. Inv /\ [Next]_vars => Inv'
  BY TypeStep, OneByOneStep, RecordsStep
<1>3. Inv => RecordsAgree
  BY IdleType DEF RecordsInv, RecordsKept, Settled, RecordsAgree
<1> HIDE DEF Inv
<1> QED BY <1>1, <1>2, <1>3, PTL DEF Spec

=============================================================================
