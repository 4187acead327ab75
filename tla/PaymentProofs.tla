---------------------------- MODULE PaymentProofs ----------------------------
(***************************************************************************)
(* Proofs about PaymentApproval: its types, that no signature is passed    *)
(* over however stale the copies are that are written back, that what      *)
(* Ticket controls does to the chain is a ProceduralChain, and that its    *)
(* requests, one after the other, leave the ticket where its seat is.      *)
(***************************************************************************)
EXTENDS MCPayment, TLAPS

(***************************************************************************)
(* The operations on the meta.                                             *)
(***************************************************************************)
LEMMA NextStepType ==
  ASSUME NEW m \in Meta
  PROVE  NextStep(m) \in Steps \union {"DONE"}
BY DEF NextStep, Meta, Steps

LEMMA SeatedType ==
  ASSUME NEW m \in Meta, NEW s \in Steps, NEW a \in Person
  PROVE  Seated(m, s, a) \in Meta
BY DEF Meta, Seated

LEMMA RequestedType ==
  ASSUME NEW m \in Meta, m.step # "DONE", NEW a \in Agents
  PROVE  Requested(m, a) \in Meta
<1>1. m.step \in Steps /\ a \in Person
  BY DEF Meta, Person
<1>2. Seated(m, m.step, a) \in Meta
  BY <1>1, SeatedType
<1> QED BY <1>2 DEF Requested, Meta

LEMMA AckedType ==
  ASSUME NEW m \in Meta, m.step \in AckSteps, NEW a \in Agents
  PROVE  Acked(m, a) \in Meta
<1>1. m.step \in Steps /\ a \in Person
  BY DEF AckSteps, Steps, Person
<1>2. Seated(m, m.step, a) \in Meta
  BY <1>1, SeatedType
<1> QED BY <1>2 DEF Acked, Meta

LEMMA CompletedType ==
  ASSUME NEW m \in Meta, m.step # "DONE", NEW a \in Agents
  PROVE  Completed(m, a) \in Meta
<1>1. m.step \in Steps /\ a \in Person
  BY DEF Meta, Person
<1>2. Seated(m, m.step, a) \in Meta /\ NextStep(m) \in Steps \union {"DONE"}
  BY <1>1, SeatedType, NextStepType
<1> QED BY <1>1, <1>2 DEF Completed, Meta

LEMMA FilledType ==
  ASSUME NEW m \in Meta, NEW f, \A s \in DOMAIN f : f[s] \in Person
  PROVE  Filled(m, f) \in Meta
<1>1. [s \in Steps |-> IF s \in DOMAIN f THEN f[s] ELSE m.seat[s]]
        \in [Steps -> Person]
  BY DEF Meta
<1> QED BY <1>1 DEF Filled, Meta

LEMMA ReleasedType ==
  ASSUME NEW m \in Meta, NEW b \in Person
  PROVE  Released(m, b) \in Meta
BY DEF Released, Meta, Steps, StartStep, Person

LEMMA BoardSeatType == ASSUME NEW m \in Meta PROVE BoardSeat(m) \in Person
BY DEF BoardSeat, Meta, Person

LEMMA IntakeType == ASSUME NEW d \in Drafts PROVE Intake(d) \in Meta
BY PaymentAssumption DEF PaymentAssumption, Intake, StartStep, Meta, Steps

(***************************************************************************)
(* Type correctness.  A step changes one slot, so that only the new value  *)
(* of the slot is to be looked at.                                         *)
(***************************************************************************)
SlotsOK == DOMAIN req = Requests /\ \A r \in Requests : RequestOK(req[r])

LEMMA SlotStep ==
  ASSUME SlotsOK, NEW r \in Requests, NEW q, RequestOK(q),
         req' = [req EXCEPT ![r] = q]
  PROVE  SlotsOK'
BY DEF SlotsOK

LEMMA AnswerType ==
  ASSUME SlotsOK, NEW r \in Requests, Answer(r) \/ QueryFails(r)
  PROVE  SlotsOK'
BY SlotStep DEF Answer, QueryFails, RequestOK

LEMMA RestartType == ASSUME SlotsOK, Restart PROVE SlotsOK'
<1>1. /\ DOMAIN req' = Requests
      /\ \A s \in Requests : req'[s] \in {req[s], Lost}
  BY DEF Restart
<1> QED BY <1>1 DEF SlotsOK, RequestOK

LEMMA RestartClears ==
  ASSUME Restart, NEW s \in Requests PROVE req'[s].pc = "idle"
<1>1. req'[s] = IF IsIdle(s) THEN req[s] ELSE Lost
  BY DEF Restart
<1> QED BY <1>1 DEF IsIdle, Lost

LEMMA HoldType ==
  ASSUME SlotsOK, NEW r \in Requests, ~IsIdle(r), NEW pc \in {"act", "write"},
         NEW m \in Meta, Hold(r, pc, m)
  PROVE  SlotsOK'
<1> DEFINE q == [req[r] EXCEPT !.pc = pc, !.saw = m]
<1>1. req[r] \notin {Idle, Lost} /\ RequestOK(req[r])
  BY DEF SlotsOK, IsIdle, Idle, Lost
<1>2. RequestOK(q)
  BY <1>1 DEF RequestOK
<1>3. req' = [req EXCEPT ![r] = q]
  BY DEF Hold
<1> QED BY <1>2, <1>3, SlotStep

LEMMA SaveType ==
  ASSUME PaymentTypeOK, NEW r \in Requests, NEW op, NEW m \in Meta,
         Save(r, op, m) \/ SaveAndAnswer(r, op, m)
  PROVE  PaymentTypeOK'
<1>1. SlotsOK
  BY DEF PaymentTypeOK, SlotsOK
<1>2. ~IsIdle(r)
  BY DEF Save, SaveAndAnswer, At, IsIdle
<1>3. SlotsOK'
  BY <1>1, <1>2, HoldType, AnswerType DEF Save, SaveAndAnswer
<1> QED BY <1>3 DEF PaymentTypeOK, SlotsOK, Save, SaveAndAnswer

\* What a request holds when it has read the meta.
LEMMA HeldType ==
  ASSUME PaymentTypeOK, NEW r \in Requests, req[r].pc \in {"act", "write"}
  PROVE  /\ RequestOK(req[r]) /\ req[r] \notin {Idle, Lost}
         /\ req[r].saw \in Meta /\ req[r].seen \in Row
BY DEF PaymentTypeOK, RequestOK, Idle, Lost

LEMMA SendType ==
  ASSUME PaymentTypeOK, NEW r \in Requests, Send(r) PROVE PaymentTypeOK'
<1>1. ASSUME NEW op, NEW a, NEW b, Arrive(r, op, a, b),
             op = "seats" => b \in SeatForms,
             op \in {"request", "board"} => b \in Agents,
             op = "release" => b \in Person,
             op = "status" => b \in StatusTargets,
             op \in {"approve", "complete"} => a \in Agents
      PROVE  PaymentTypeOK'
  <2> DEFINE q == [pc |-> IF op = "board" THEN "move" ELSE "read", op |-> op,
                   actor |-> a, arg |-> b, seen |-> ticket, saw |-> None]
  <2>1. RequestOK(q)
    BY <1>1 DEF RequestOK, Arrive, PaymentTypeOK
  <2>2. SlotsOK /\ req' = [req EXCEPT ![r] = q]
    BY <1>1 DEF PaymentTypeOK, SlotsOK, Arrive
  <2>3. SlotsOK'
    BY <2>1, <2>2, SlotStep
  <2> QED BY <1>1, <2>3 DEF PaymentTypeOK, SlotsOK, Arrive
<1> QED BY <1>1 DEF Send, Person

LEMMA SaveHandlersType ==
  ASSUME PaymentTypeOK, NEW r \in Requests,
         \/ SetSeats(r) \/ RequestApproval(r) \/ ApproveStep(r)
         \/ CompleteStep(r) \/ SeatFromBoard(r) \/ ReleaseHeld(r)
  PROVE  PaymentTypeOK'
<1> DEFINE q == req[r]
<1>1. CASE SetSeats(r)
  <2>1. q.pc = "act" /\ q.op = "seats"
    BY <1>1 DEF SetSeats, Save, At
  <2>2. q.arg \in SeatForms /\ q.saw \in Meta
    BY <2>1, HeldType DEF RequestOK
  <2>3. \A s \in DOMAIN FormOf(q) : FormOf(q)[s] \in Person
    BY <2>2, PaymentAssumption DEF PaymentAssumption, FormOf
  <2> HIDE DEF q
  <2>4. Filled(q.saw, FormOf(q)) \in Meta
    BY <2>2, <2>3, FilledType
  <2> QED BY <1>1, <2>4, SaveType DEF SetSeats, q
<1>2. CASE RequestApproval(r)
  <2>1. q.pc = "act" /\ q.op = "request" /\ q.saw.step # "DONE"
    BY <1>2 DEF RequestApproval, Save, At, Accepted, MayRequest
  <2>2. q.arg \in Agents /\ q.saw \in Meta
    BY <2>1, HeldType DEF RequestOK
  <2> QED BY <1>2, <2>1, <2>2, RequestedType, SaveType DEF RequestApproval
<1>3. CASE ApproveStep(r)
  <2>1. q.pc = "act" /\ q.op = "approve" /\ q.saw.step \in AckSteps
    BY <1>3 DEF ApproveStep, SaveAndAnswer, At, Accepted, MayApprove
  <2>2. q.actor \in Agents /\ q.saw \in Meta
    BY <2>1, HeldType DEF RequestOK
  <2> QED BY <1>3, <2>1, <2>2, AckedType, SaveType DEF ApproveStep
<1>4. CASE CompleteStep(r)
  <2>1. q.pc = "act" /\ q.op = "complete" /\ q.saw.step # "DONE"
    BY <1>4 DEF CompleteStep, Save, At, Accepted, MayComplete, CanComplete
  <2>2. q.actor \in Agents /\ q.saw \in Meta
    BY <2>1, HeldType DEF RequestOK
  <2> QED BY <1>4, <2>1, <2>2, CompletedType, SaveType DEF CompleteStep
<1>5. CASE SeatFromBoard(r)
  <2>1. q.pc = "act" /\ q.op = "board" /\ q.saw.step # "DONE"
    BY <1>5 DEF SeatFromBoard, SaveAndAnswer, At, Accepted, MaySeatFromBoard
  <2>2. q.arg \in Agents /\ q.saw \in Meta
    BY <2>1, HeldType DEF RequestOK
  <2>3. q.saw.step \in Steps /\ q.arg \in Person
    BY <2>1, <2>2 DEF Meta, Person
  <2> QED BY <1>5, <2>2, <2>3, SeatedType, SaveType DEF SeatFromBoard
<1>6. CASE ReleaseHeld(r)
  <2>1. q.pc = "act" /\ q.op = "release"
    BY <1>6 DEF ReleaseHeld, SaveAndAnswer, At
  <2>2. q.arg \in Person /\ q.saw \in Meta
    BY <2>1, HeldType DEF RequestOK
  <2> QED BY <1>6, <2>2, ReleasedType, SaveType DEF ReleaseHeld
<1> QED BY <1>1, <1>2, <1>3, <1>4, <1>5, <1>6

LEMMA TicketHandlersType ==
  ASSUME PaymentTypeOK, NEW r \in Requests,
         \/ PlaceSeats(r) \/ PlaceRequested(r) \/ UpdateMode(r)
         \/ PlaceCompleted(r) \/ ChangeStatus(r)
  PROVE  PaymentTypeOK'
<1>1. /\ Answer(r) /\ UNCHANGED file /\ req[r].pc \in {"act", "write"}
  BY DEF PlaceSeats, PlaceRequested, UpdateMode, PlaceCompleted, ChangeStatus, At
<1>2. SlotsOK'
  BY <1>1, AnswerType DEF PaymentTypeOK, SlotsOK
<1>3. /\ RequestOK(req[r]) /\ req[r] \notin {Idle, Lost} /\ BoardSeat(req[r].saw) \in Person
      /\ ticket \in Row
  BY <1>1, HeldType, BoardSeatType DEF PaymentTypeOK
<1>4. ticket' \in Row
  <2>1. CASE PlaceSeats(r)
    BY <2>1, <1>3 DEF PlaceSeats, BoardWrite, Row
  <2>2. CASE PlaceRequested(r)
    BY <2>2, <1>3 DEF PlaceRequested, RequestOK, Row, Person, At
  <2>3. CASE UpdateMode(r)
    BY <2>3, <1>3 DEF UpdateMode, Row
  <2>4. CASE PlaceCompleted(r)
    BY <2>4, <1>3 DEF PlaceCompleted, BoardWrite, Row
  <2>5. CASE ChangeStatus(r)
    BY <2>5, <1>3 DEF ChangeStatus, RequestOK, StatusTargets, Row, At
  <2> QED BY <2>1, <2>2, <2>3, <2>4, <2>5
<1> QED BY <1>1, <1>2, <1>4 DEF PaymentTypeOK, SlotsOK

LEMMA DeskStepsType ==
  ASSUME PaymentTypeOK, NEW r \in Requests,
         ReadFile(r) \/ Refuse(r) \/ QueryFails(r) \/ MoveOnBoard(r)
  PROVE  PaymentTypeOK'
<1>0. SlotsOK
  BY DEF PaymentTypeOK, SlotsOK
<1>1. CASE ReadFile(r)
  <2>1. ~IsIdle(r)
    BY <1>1 DEF ReadFile, IsIdle
  <2>2. SlotsOK'
    BY <1>0, <1>1, <2>1, HoldType DEF ReadFile, PaymentTypeOK
  <2> QED BY <1>1, <2>2 DEF PaymentTypeOK, SlotsOK, ReadFile
<1>2. CASE Refuse(r) \/ QueryFails(r)
  BY <1>0, <1>2, AnswerType DEF Refuse, QueryFails, PaymentTypeOK, SlotsOK
<1>3. CASE MoveOnBoard(r)
  <2> DEFINE q == [req[r] EXCEPT !.pc = "read"]
  <2>1. RequestOK(req[r]) /\ req[r] \notin {Idle, Lost} /\ req[r].op = "board"
    BY <1>0, <1>3 DEF SlotsOK, MoveOnBoard, At, Idle, Lost
  <2>2. RequestOK(q) /\ req[r].arg \in Agents
    BY <2>1 DEF RequestOK
  <2>3. req' = [req EXCEPT ![r] = q]
    BY <1>3 DEF MoveOnBoard, Turn
  <2>4. SlotsOK'
    BY <1>0, <2>2, <2>3, SlotStep
  <2>5. ticket' \in Row
    BY <1>3, <2>2 DEF MoveOnBoard, PaymentTypeOK, Row, Person
  <2> QED BY <1>3, <2>4, <2>5 DEF PaymentTypeOK, SlotsOK, MoveOnBoard
<1> QED BY <1>1, <1>2, <1>3

LEMMA TypeInit == Init => PaymentTypeOK
<1> SUFFICES ASSUME Init PROVE PaymentTypeOK
  OBVIOUS
<1>1. PICK d \in Drafts :
        /\ file = Intake(d)
        /\ ticket = [status   |-> IF BoardSeat(Intake(d)) = None THEN "OPEN"
                                  ELSE "IN_PROGRESS",
                     assigned |-> BoardSeat(Intake(d)),
                     mode     |-> ~d.deferred]
        /\ req = [r \in Requests |-> Idle]
  BY DEF Init
<1>2. Intake(d) \in Meta /\ BoardSeat(Intake(d)) \in Person /\ d.deferred \in BOOLEAN
  BY IntakeType, BoardSeatType, PaymentAssumption DEF PaymentAssumption
<1> QED BY <1>1, <1>2 DEF PaymentTypeOK, Row, RequestOK

LEMMA TypeStep == PaymentTypeOK /\ [Next]_deskVars => PaymentTypeOK'
<1> SUFFICES ASSUME PaymentTypeOK, [Next]_deskVars PROVE PaymentTypeOK'
  OBVIOUS
<1>1. CASE Restart
  BY <1>1, RestartType DEF Restart, PaymentTypeOK, SlotsOK
<1>2. ASSUME NEW r \in Requests, Send(r) \/ Serve(r) \/ QueryFails(r)
      PROVE  PaymentTypeOK'
  BY <1>2, SendType, SaveHandlersType, TicketHandlersType, DeskStepsType
  DEF Serve
<1>3. CASE UNCHANGED deskVars
  BY <1>3 DEF deskVars, PaymentTypeOK
<1> QED BY <1>1, <1>2, <1>3 DEF Next

\* The row, the meta and every request in flight have their types, for any
\* people, drafts, forms, numbers of requests, operations and faults.
THEOREM PaymentTypes == Spec => []PaymentTypeOK
BY TypeInit, TypeStep, PTL DEF Spec

-----------------------------------------------------------------------------
(***************************************************************************)
(* No signature is passed over.  A copy is as old as it is, but it was     *)
(* once the meta or was made from such a copy by one of the operations, so *)
(* that it is in order by itself; hence so is whatever overwrites what.    *)
(* The mode of payment is never taken out of the description.              *)
(***************************************************************************)
PaperOK(m, mode) ==
  /\ m \in Meta /\ InOrder(m)
  /\ "APPROVED_BY_ACCOUNTING" \in m.completed => mode

PapersOK ==
  PaperOK(file, ticket.mode) /\ \A m \in Copies : PaperOK(m, ticket.mode)

SeenOK == \A r \in Requests : ~IsIdle(r) => (req[r].seen.mode => ticket.mode)

SignedInv == PaymentTypeOK /\ PapersOK /\ SeenOK

LEMMA SeatedInOrder ==
  ASSUME NEW mode, NEW m, PaperOK(m, mode), NEW s \in Steps, NEW a \in Person
  PROVE  PaperOK(Seated(m, s, a), mode)
<1>1. Seated(m, s, a) \in Meta
  BY SeatedType DEF PaperOK
<1> QED BY <1>1 DEF PaperOK, InOrder, Seated, Meta, StepsFor

LEMMA RequestedInOrder ==
  ASSUME NEW mode, NEW m, PaperOK(m, mode), m.step # "DONE", NEW a \in Agents
  PROVE  PaperOK(Requested(m, a), mode)
<1>1. Requested(m, a) \in Meta /\ m \in Meta
  BY RequestedType DEF PaperOK
<1>2. /\ Requested(m, a).step = m.step /\ Requested(m, a).skips = m.skips
      /\ Requested(m, a).completed = m.completed
      /\ m.acked \ {m.step} \subseteq Requested(m, a).acked
  BY <1>1 DEF Requested, Seated, Meta
<1>3. Rank(m.step) \in Nat
  BY DEF Rank
<1> QED BY <1>1, <1>2, <1>3 DEF PaperOK, InOrder, StepsFor

LEMMA AckedInOrder ==
  ASSUME NEW mode, NEW m, PaperOK(m, mode), m.step \in AckSteps,
         NEW a \in Agents
  PROVE  PaperOK(Acked(m, a), mode)
<1>1. Acked(m, a) \in Meta /\ m \in Meta
  BY AckedType DEF PaperOK
<1>2. /\ Acked(m, a).step = m.step /\ Acked(m, a).skips = m.skips
      /\ Acked(m, a).completed = m.completed /\ m.acked \subseteq Acked(m, a).acked
  BY <1>1 DEF Acked, Seated, Meta
<1> QED BY <1>1, <1>2 DEF PaperOK, InOrder, StepsFor

\* Between a step and the next one there is none that is not skipped.
LEMMA NothingBetween ==
  ASSUME NEW m \in Meta, m.step # "DONE", NEW s \in StepsFor(m),
         Rank(s) < Rank(NextStep(m))
  PROVE  Rank(s) < Rank(m.step) \/ s = m.step
BY DEF NextStep, StepsFor, Rank, Meta, Steps

LEMMA CompletedInOrder ==
  ASSUME NEW mode, NEW m, PaperOK(m, mode), m.step # "DONE", NEW a \in Agents,
         m.step \in AckSteps => m.step \in m.acked,
         m.step = "APPROVED_BY_ACCOUNTING" => mode
  PROVE  PaperOK(Completed(m, a), mode)
<1>1. Completed(m, a) \in Meta /\ m \in Meta
  BY CompletedType DEF PaperOK
<1>2. /\ Completed(m, a).step = NextStep(m) /\ Completed(m, a).skips = m.skips
      /\ Completed(m, a).completed = m.completed \union {m.step}
      /\ Completed(m, a).acked = m.acked
  BY <1>1 DEF Completed, Seated, Meta
<1> QED BY <1>1, <1>2, NothingBetween DEF PaperOK, InOrder, StepsFor

LEMMA FilledInOrder ==
  ASSUME NEW mode, NEW m, PaperOK(m, mode), NEW f,
         \A s \in DOMAIN f : f[s] \in Person
  PROVE  PaperOK(Filled(m, f), mode)
<1>1. Filled(m, f) \in Meta /\ m \in Meta
  BY FilledType DEF PaperOK
<1>2. /\ Filled(m, f).step = m.step /\ Filled(m, f).skips = m.skips
      /\ Filled(m, f).completed = m.completed /\ Filled(m, f).acked = m.acked
  BY <1>1 DEF Filled, Meta
<1> QED BY <1>1, <1>2 DEF PaperOK, InOrder, StepsFor

\* The released request starts at its first step.
LEMMA ReleasedInOrder ==
  ASSUME NEW mode, NEW m, PaperOK(m, mode), NEW b \in Person
  PROVE  PaperOK(Released(m, b), mode)
<1>1. Released(m, b) \in Meta /\ m \in Meta
  BY ReleasedType DEF PaperOK
<1>2. /\ Released(m, b).step = "APPROVED_BY_ACCOUNTING"
      /\ Released(m, b).skips = {"NOTED_BY", "APPROVED_BY"}
      /\ Released(m, b).completed = m.completed
  BY <1>1 DEF Released, StartStep, Meta
<1> QED BY <1>1, <1>2 DEF PaperOK, InOrder, StepsFor, Rank, Steps

LEMMA PaperStep ==
  ASSUME PapersOK, NEW m, PaperOK(m, ticket.mode), file' \in {file, m},
         Copies' \subseteq Copies \union {m}, ticket.mode => ticket'.mode
  PROVE  PapersOK'
BY DEF PapersOK, PaperOK

LEMMA SaveInOrder ==
  ASSUME SignedInv, NEW r \in Requests, NEW op, NEW m, PaperOK(m, ticket.mode),
         Save(r, op, m) \/ SaveAndAnswer(r, op, m)
  PROVE  PapersOK' /\ SeenOK'
<1>1. \A s \in Requests :
        /\ req'[s].pc \in {"act", "write"} =>
             \/ req'[s].saw = m
             \/ req[s].pc \in {"act", "write"} /\ req'[s].saw = req[s].saw
        /\ req'[s].pc # "idle" =>
             req[s].pc # "idle" /\ req'[s].seen = req[s].seen
  <2>1. DOMAIN req = Requests /\ RequestOK(req[r])
    BY DEF SignedInv, PaymentTypeOK
  <2>2. CASE Save(r, op, m)
    <3>1. req' = [req EXCEPT ![r].pc = "write", ![r].saw = m] /\ req[r].pc = "act"
      BY <2>2 DEF Save, Hold, At
    <3>2. req[r] \notin {Idle, Lost}
      BY <3>1 DEF Idle, Lost
    <3>3. req'[r].pc = "write" /\ req'[r].saw = m /\ req'[r].seen = req[r].seen
      BY <2>1, <3>1, <3>2 DEF RequestOK
    <3>4. \A s \in Requests \ {r} : req'[s] = req[s]
      BY <2>1, <3>1
    <3> QED BY <3>1, <3>3, <3>4
  <2>3. CASE SaveAndAnswer(r, op, m)
    BY <2>1, <2>3 DEF SaveAndAnswer, Answer, Idle, Lost
  <2> QED BY <2>2, <2>3
<1>2. Copies' \subseteq Copies \union {m}
  BY <1>1 DEF Copies
<1>3. SeenOK'
  BY <1>1 DEF Save, SaveAndAnswer, SignedInv, SeenOK, IsIdle
<1> QED BY <1>2, <1>3, PaperStep DEF Save, SaveAndAnswer, SignedInv

LEMMA SaveHandlersInOrder ==
  ASSUME SignedInv, NEW r \in Requests,
         \/ SetSeats(r) \/ RequestApproval(r) \/ ApproveStep(r)
         \/ CompleteStep(r) \/ SeatFromBoard(r) \/ ReleaseHeld(r)
  PROVE  PapersOK' /\ SeenOK'
<1> DEFINE q == req[r]
<1>1. q.pc = "act"
  BY DEF SetSeats, RequestApproval, ApproveStep, CompleteStep, SeatFromBoard,
         ReleaseHeld, Save, SaveAndAnswer, At
<1>2. /\ PaperOK(q.saw, ticket.mode) /\ RequestOK(q) /\ q \notin {Idle, Lost}
      /\ q.seen.mode => ticket.mode
  BY <1>1, HeldType DEF SignedInv, PapersOK, Copies, SeenOK, IsIdle
<1>3. CASE SetSeats(r)
  <2>1. q.arg \in SeatForms
    BY <1>2, <1>3 DEF SetSeats, Save, At, RequestOK
  <2>2. \A s \in DOMAIN FormOf(q) : FormOf(q)[s] \in Person
    BY <2>1, PaymentAssumption DEF PaymentAssumption, FormOf
  <2> HIDE DEF q
  <2>3. PaperOK(Filled(q.saw, FormOf(q)), ticket.mode)
    BY <1>2, <2>2, FilledInOrder
  <2> QED BY <1>3, <2>3, SaveInOrder DEF SetSeats, q
<1>4. CASE RequestApproval(r)
  <2>1. q.arg \in Agents /\ q.saw.step # "DONE"
    BY <1>2, <1>4
    DEF RequestApproval, Save, At, RequestOK, Accepted, MayRequest
  <2> QED BY <1>2, <1>4, <2>1, RequestedInOrder, SaveInOrder DEF RequestApproval
<1>5. CASE ApproveStep(r)
  <2>1. q.actor \in Agents /\ q.saw.step \in AckSteps
    BY <1>2, <1>5
    DEF ApproveStep, SaveAndAnswer, At, RequestOK, Accepted, MayApprove
  <2> QED BY <1>2, <1>5, <2>1, AckedInOrder, SaveInOrder DEF ApproveStep
<1>6. CASE CompleteStep(r)
  <2>1. q.actor \in Agents /\ MayComplete(q)
    BY <1>2, <1>6 DEF CompleteStep, Save, At, RequestOK, Accepted
  <2> QED BY <1>2, <1>6, <2>1, CompletedInOrder, SaveInOrder
          DEF CompleteStep, MayComplete, CanComplete
<1>7. CASE SeatFromBoard(r)
  <2>1. q.arg \in Person /\ q.saw.step \in Steps
    BY <1>2, <1>7
    DEF SeatFromBoard, SaveAndAnswer, At, RequestOK, Accepted,
        MaySeatFromBoard, Person, PaperOK, Meta
  <2> QED BY <1>2, <1>7, <2>1, SeatedInOrder, SaveInOrder DEF SeatFromBoard
<1>8. CASE ReleaseHeld(r)
  <2>1. q.arg \in Person
    BY <1>2, <1>8 DEF ReleaseHeld, SaveAndAnswer, At, RequestOK
  <2> QED BY <1>2, <1>8, <2>1, ReleasedInOrder, SaveInOrder DEF ReleaseHeld
<1> QED BY <1>3, <1>4, <1>5, <1>6, <1>7, <1>8

LEMMA OtherStepsInOrder ==
  ASSUME SignedInv, NEW r \in Requests,
         \/ Send(r) \/ ReadFile(r) \/ Refuse(r) \/ QueryFails(r)
         \/ MoveOnBoard(r) \/ PlaceSeats(r) \/ PlaceRequested(r)
         \/ UpdateMode(r) \/ PlaceCompleted(r) \/ ChangeStatus(r)
  PROVE  PapersOK' /\ SeenOK'
<1>1. UNCHANGED file /\ PaperOK(file, ticket.mode)
  BY DEF SignedInv, PapersOK, Send, Arrive, ReadFile, Refuse, QueryFails,
         MoveOnBoard, PlaceSeats, PlaceRequested, UpdateMode, PlaceCompleted,
         ChangeStatus
<1>2. ticket.mode => ticket'.mode
  <2>1. ticket \in Row
    BY DEF SignedInv, PaymentTypeOK
  <2>2. CASE \/ Send(r) \/ ReadFile(r) \/ Refuse(r) \/ QueryFails(r)
    BY <2>2 DEF Send, Arrive, ReadFile, Refuse, QueryFails
  <2>3. CASE \/ MoveOnBoard(r) \/ PlaceSeats(r) \/ PlaceRequested(r)
             \/ UpdateMode(r) \/ ChangeStatus(r)
    BY <2>1, <2>3 DEF Row, MoveOnBoard, PlaceSeats, PlaceRequested, UpdateMode,
                      ChangeStatus
  <2>4. CASE PlaceCompleted(r)
    BY <2>1, <2>4 DEF Row, PlaceCompleted
  <2> QED BY <2>2, <2>3, <2>4
<1>3. \A s \in Requests :
        /\ req'[s].pc \in {"act", "write"} =>
             \/ req'[s].saw = file
             \/ req[s].pc \in {"act", "write"} /\ req'[s].saw = req[s].saw
        /\ req'[s].pc # "idle" =>
             req'[s].seen \in {req[s].seen, ticket}
             /\ (req[s].pc = "idle" => req'[s].seen = ticket)
  <2>1. DOMAIN req = Requests
    BY DEF SignedInv, PaymentTypeOK
  <2>2. CASE Send(r)
    BY <2>1, <2>2 DEF Send, Arrive
  <2>3. CASE ReadFile(r) \/ MoveOnBoard(r)
    <3>1. RequestOK(req[r]) /\ req[r].pc \in {"read", "move"} /\ req[r] \notin {Idle, Lost}
      BY <2>3 DEF SignedInv, PaymentTypeOK, ReadFile, MoveOnBoard, At, Idle, Lost
    <3>2. CASE ReadFile(r)
      BY <2>1, <3>1, <3>2 DEF ReadFile, Hold, RequestOK
    <3>3. CASE MoveOnBoard(r)
      BY <2>1, <3>1, <3>3 DEF MoveOnBoard, Turn, RequestOK
    <3> QED BY <2>3, <3>2, <3>3
  <2>4. CASE \/ Refuse(r) \/ QueryFails(r) \/ PlaceSeats(r)
             \/ PlaceRequested(r) \/ UpdateMode(r) \/ PlaceCompleted(r)
             \/ ChangeStatus(r)
    BY <2>1, <2>4 DEF Refuse, QueryFails, PlaceSeats, PlaceRequested,
                      UpdateMode, PlaceCompleted, ChangeStatus, Answer, Idle, Lost
  <2> QED BY <2>2, <2>3, <2>4
<1>4. Copies' \subseteq Copies \union {file}
  BY <1>3 DEF Copies
<1>5. SeenOK'
  BY <1>2, <1>3 DEF SignedInv, SeenOK, IsIdle
<1> QED BY <1>1, <1>2, <1>4, <1>5, PaperStep DEF SignedInv

LEMMA SignedInit == Init => SignedInv
<1> SUFFICES ASSUME Init PROVE PapersOK /\ SeenOK
  BY TypeInit DEF SignedInv
<1>1. PICK d \in Drafts : file = Intake(d) /\ req = [r \in Requests |-> Idle]
  BY DEF Init
<1>2. Copies = {} /\ SeenOK
  BY <1>1 DEF Copies, SeenOK, IsIdle, Idle, Lost
<1>3. Intake(d) \in Meta /\ d.skips \subseteq {"NOTED_BY", "APPROVED_BY"}
  BY IntakeType, PaymentAssumption DEF PaymentAssumption
<1>4. InOrder(Intake(d)) /\ Intake(d).completed = {}
  BY <1>3 DEF InOrder, Intake, StepsFor, StartStep, Rank, Steps
<1> QED BY <1>1, <1>2, <1>3, <1>4 DEF PapersOK, PaperOK

LEMMA SignedStep == SignedInv /\ [Next]_deskVars => SignedInv'
<1> SUFFICES ASSUME SignedInv, [Next]_deskVars PROVE PapersOK' /\ SeenOK'
  BY TypeStep DEF SignedInv
<1>1. CASE Restart
  BY <1>1, RestartClears
  DEF Restart, SignedInv, PapersOK, SeenOK, Copies, IsIdle
<1>2. ASSUME NEW r \in Requests, Send(r) \/ Serve(r) \/ QueryFails(r)
      PROVE  PapersOK' /\ SeenOK'
  BY <1>2, SaveHandlersInOrder, OtherStepsInOrder DEF Serve
<1>3. CASE UNCHANGED deskVars
  BY <1>3 DEF deskVars, SignedInv, PapersOK, SeenOK, Copies, IsIdle
<1> QED BY <1>1, <1>2, <1>3 DEF Next

\* However stale the copies are that requests, the board and the release
\* write back, the chain never stands at a step whose predecessors have not
\* signed and, for Accounting and Finance, clicked Approved; and Accounting
\* has not signed without a mode of payment.
THEOREM ChainSigned == Spec => [](ChainIsSigned /\ ModeOnRecord)
<1>1. SignedInv => ChainIsSigned /\ ModeOnRecord
  BY DEF SignedInv, PapersOK, PaperOK, ChainIsSigned, ModeOnRecord
<1> QED BY <1>1, SignedInit, SignedStep, PTL DEF Spec

-----------------------------------------------------------------------------
(***************************************************************************)
(* The chain as Ticket controls moves it.  A save that names its step      *)
(* finds the step it was made from, so that the chain moves by one step;   *)
(* and a copy is never ahead of the meta.                                  *)
(***************************************************************************)
Guarded == Ops \intersect {"board", "release"} = {}

Ranks(m) == {Rank(s) : s \in StepsFor(m)}

NotAhead(m) == Rank(m.step) <= Rank(file.step) /\ m.skips = file.skips

BehindInv ==
  /\ SignedInv
  /\ \A m \in Copies : NotAhead(m)
  /\ \A r \in Requests :
       ~IsIdle(r) => req[r].op \notin {"board", "release"}

LEMMA AfterIs ==
  ASSUME NEW ss \in SUBSET (1..4), NEW i \in 0..4, NEW s \in ss, s > i,
         \A t \in ss : t > i => s <= t
  PROVE  Chain!After(ss, i) = s
<1>1. \A t \in ss : (t > i /\ \A u \in ss : u > i => t <= u) => t = s
  OBVIOUS
<1> QED BY <1>1 DEF Chain!After

LEMMA AfterNone ==
  ASSUME NEW ss \in SUBSET (1..4), NEW i \in 0..4, \A t \in ss : t <= i
  PROVE  Chain!After(ss, i) = 5
BY DEF Chain!After

LEMMA RanksType ==
  ASSUME NEW m \in Meta
  PROVE  /\ Ranks(m) \in SUBSET (1..4) /\ Rank(m.step) \in 1..5
         /\ m.step # "DONE" => Rank(m.step) \in 1..4
         /\ 3 \in Ranks(m) /\ 4 \in Ranks(m)
         /\ 1 \in Ranks(m) <=> "NOTED_BY" \notin m.skips
         /\ 2 \in Ranks(m) <=> "APPROVED_BY" \notin m.skips
BY DEF Ranks, Rank, StepsFor, Meta, Steps

LEMMA NextIsAfter ==
  ASSUME NEW m \in Meta, m.step # "DONE"
  PROVE  Rank(NextStep(m)) = Chain!After(Ranks(m), Rank(m.step))
<1>0. /\ Ranks(m) \in SUBSET (1..4) /\ 3 \in Ranks(m) /\ 4 \in Ranks(m)
      /\ 2 \in Ranks(m) <=> "APPROVED_BY" \notin m.skips
  BY RanksType
<1>1. CASE m.step = "NOTED_BY" /\ "APPROVED_BY" \in m.skips
  <2>1. Chain!After(Ranks(m), 1) = 3
    BY <1>0, <1>1, AfterIs
  <2> QED BY <1>1, <2>1 DEF NextStep, Rank
<1>2. CASE m.step = "NOTED_BY" /\ "APPROVED_BY" \notin m.skips
  <2>1. Chain!After(Ranks(m), 1) = 2
    BY <1>0, <1>2, AfterIs
  <2>2. NextStep(m) = "APPROVED_BY"
    BY <1>2 DEF NextStep
  <2>3. Rank(m.step) = 1 /\ Rank(NextStep(m)) = 2
    BY <1>2, <2>2 DEF Rank
  <2> QED BY <2>1, <2>3
<1>3. CASE m.step = "APPROVED_BY"
  <2>1. Chain!After(Ranks(m), 2) = 3
    BY <1>0, AfterIs
  <2> QED BY <1>3, <2>1 DEF NextStep, Rank
<1>4. CASE m.step = "APPROVED_BY_ACCOUNTING"
  <2>1. Chain!After(Ranks(m), 3) = 4
    BY <1>0, AfterIs
  <2> QED BY <1>4, <2>1 DEF NextStep, Rank
<1>5. CASE m.step = "APPROVED_BY_FINANCE"
  <2>1. Chain!After(Ranks(m), 4) = 5
    BY <1>0, AfterNone
  <2> QED BY <1>5, <2>1 DEF NextStep, Rank
<1> QED BY <1>1, <1>2, <1>3, <1>4, <1>5 DEF Meta, Steps

LEMMA StartIsFirst ==
  ASSUME NEW d \in Drafts
  PROVE  Rank(Intake(d).step) = Chain!After(Ranks(Intake(d)), 0)
<1> DEFINE m == Intake(d)
<1>0. /\ m \in Meta /\ m.skips = d.skips /\ m.step = StartStep(d.skips)
      /\ d.skips \subseteq {"NOTED_BY", "APPROVED_BY"}
  BY IntakeType, PaymentAssumption DEF Intake, PaymentAssumption
<1> HIDE DEF m
<1> USE RanksType
<1>1. CASE "NOTED_BY" \notin m.skips
  <2>1. Chain!After(Ranks(m), 0) = 1
    BY <1>0, <1>1, AfterIs
  <2> QED BY <1>0, <1>1, <2>1 DEF StartStep, Rank, m
<1>2. CASE m.skips = {"NOTED_BY"}
  <2>1. Chain!After(Ranks(m), 0) = 2
    BY <1>0, <1>2, AfterIs
  <2> QED BY <1>0, <1>2, <2>1 DEF StartStep, Rank, m
<1>3. CASE m.skips = {"NOTED_BY", "APPROVED_BY"}
  <2>1. Chain!After(Ranks(m), 0) = 3
    BY <1>0, <1>3, AfterIs
  <2> QED BY <1>0, <1>3, <2>1 DEF StartStep, Rank, m
<1> QED BY <1>0, <1>1, <1>2, <1>3

LEMMA NextIsLater ==
  ASSUME NEW m \in Meta, m.step # "DONE"
  PROVE  Rank(m.step) <= Rank(NextStep(m))
BY DEF NextStep, Rank, Meta, Steps

LEMMA RanksAreInts ==
  ASSUME NEW m \in Meta PROVE Rank(m.step) \in 1..5
BY RanksType

\* A save by Ticket controls moves the chain by one step or not at all.
LEMMA SaveMovesChain ==
  ASSUME BehindInv, NEW r \in Requests, NEW op, NEW m,
         op \in SavesGuarded, m.skips = req[r].saw.skips,
         \/ m.step = req[r].saw.step
         \/ req[r].saw.step # "DONE" /\ m.step = NextStep(req[r].saw),
         Save(r, op, m) \/ SaveAndAnswer(r, op, m)
  PROVE  /\ [Chain!Next]_Chain!chain
         /\ file' = m /\ m.skips = file.skips
         /\ Rank(file.step) <= Rank(m.step)
<1> DEFINE w == req[r].saw
<1>1. req[r].pc = "act" /\ req[r].op = op /\ file' = m /\ SaveFinds(req[r])
  BY DEF Save, SaveAndAnswer, At
<1>2. w \in Meta /\ file \in Meta /\ w \in Copies
  BY <1>1, HeldType DEF BehindInv, SignedInv, PaymentTypeOK, Copies
<1>3. w.step = file.step /\ w.skips = file.skips
  BY <1>1, <1>2 DEF SaveFinds, BehindInv, NotAhead
<1>4. Ranks(m) = Ranks(file) /\ Ranks(w) = Ranks(file)
  BY <1>3 DEF Ranks, StepsFor
<1>5. CASE m.step = w.step
  <2>1. Rank(file.step) <= Rank(m.step)
    BY <1>2, <1>3, <1>5, RanksAreInts
  <2> QED BY <1>1, <1>3, <1>4, <1>5, <2>1 DEF Chain!chain, Ranks
<1>6. CASE w.step # "DONE" /\ m.step = NextStep(w)
  <2>1. /\ Rank(w.step) \in 1..4
        /\ Rank(m.step) = Chain!After(Ranks(file), Rank(file.step))
        /\ Rank(file.step) <= Rank(m.step)
    BY <1>2, <1>3, <1>4, <1>6, RanksType, NextIsAfter, NextIsLater
  <2>2. Chain!Sign
    BY <1>1, <1>3, <1>4, <2>1 DEF Chain!Sign, Ranks
  <2> QED BY <1>1, <1>3, <2>1, <2>2 DEF Chain!Next
<1> QED BY <1>5, <1>6

LEMMA SaveHandlersMoveChain ==
  ASSUME Guarded, BehindInv, NEW r \in Requests,
         \/ SetSeats(r) \/ RequestApproval(r) \/ ApproveStep(r)
         \/ CompleteStep(r) \/ SeatFromBoard(r) \/ ReleaseHeld(r)
  PROVE  \E op, m :
           /\ op \in SavesGuarded
           /\ Save(r, op, m) \/ SaveAndAnswer(r, op, m)
           /\ [Chain!Next]_Chain!chain
           /\ file' = m /\ m.skips = file.skips
           /\ Rank(file.step) <= Rank(m.step)
<1> DEFINE q == req[r]
<1>1. q.pc = "act" /\ ~IsIdle(r)
  BY DEF SetSeats, RequestApproval, ApproveStep, CompleteStep, SeatFromBoard,
         ReleaseHeld, Save, SaveAndAnswer, At, IsIdle
<1>2. q.saw \in Meta /\ q.op \notin {"board", "release"}
  BY <1>1, HeldType DEF BehindInv, SignedInv
<1>3. ~SeatFromBoard(r) /\ ~ReleaseHeld(r)
  BY <1>2 DEF SeatFromBoard, ReleaseHeld, SaveAndAnswer, At
<1>4. CASE SetSeats(r)
  <2> DEFINE m == Filled(q.saw, FormOf(q))
  <2>1. m.skips = q.saw.skips /\ m.step = q.saw.step
    BY <1>2 DEF Filled, Meta
  <2>2. Save(r, "seats", m) /\ "seats" \in SavesGuarded
    BY <1>4 DEF SetSeats, SavesGuarded
  <2> HIDE DEF m
  <2> QED BY <2>1, <2>2, SaveMovesChain
<1>5. CASE RequestApproval(r)
  <2> DEFINE m == Requested(q.saw, q.arg)
  <2>1. m.skips = q.saw.skips /\ m.step = q.saw.step
    BY <1>2 DEF Requested, Seated, Meta
  <2>2. Save(r, "request", m) /\ "request" \in SavesGuarded
    BY <1>5 DEF RequestApproval, SavesGuarded
  <2> HIDE DEF m
  <2> QED BY <2>1, <2>2, SaveMovesChain
<1>6. CASE ApproveStep(r)
  <2> DEFINE m == Acked(q.saw, q.actor)
  <2>1. m.skips = q.saw.skips /\ m.step = q.saw.step
    BY <1>2 DEF Acked, Seated, Meta
  <2>2. SaveAndAnswer(r, "approve", m) /\ "approve" \in SavesGuarded
    BY <1>6 DEF ApproveStep, SavesGuarded
  <2> HIDE DEF m
  <2> QED BY <2>1, <2>2, SaveMovesChain
<1>7. CASE CompleteStep(r)
  <2> DEFINE m == Completed(q.saw, q.actor)
  <2>1. m.skips = q.saw.skips /\ m.step = NextStep(q.saw)
    BY <1>2 DEF Completed, Seated, Meta
  <2>2. Save(r, "complete", m) /\ "complete" \in SavesGuarded
    BY <1>7 DEF CompleteStep, SavesGuarded
  <2>3. q.saw.step # "DONE"
    BY <1>7 DEF CompleteStep, Save, At, Accepted, MayComplete, CanComplete
  <2> HIDE DEF m
  <2> QED BY <2>1, <2>2, <2>3, SaveMovesChain
<1> QED BY <1>3, <1>4, <1>5, <1>6, <1>7

\* Where the copies come from, and that no request of the board or of the
\* release is let in.
LEMMA OtherStepsAreBehind ==
  ASSUME Guarded, BehindInv, NEW r \in Requests,
         \/ Send(r) \/ ReadFile(r) \/ Refuse(r) \/ QueryFails(r)
         \/ MoveOnBoard(r) \/ PlaceSeats(r) \/ PlaceRequested(r)
         \/ UpdateMode(r) \/ PlaceCompleted(r) \/ ChangeStatus(r)
  PROVE  /\ UNCHANGED file /\ Copies' \subseteq Copies \union {file}
         /\ \A s \in Requests :
              ~IsIdle(s)' => req'[s].op \notin {"board", "release"}
<1>1. UNCHANGED file
  BY DEF Send, Arrive, ReadFile, Refuse, QueryFails, MoveOnBoard, PlaceSeats,
         PlaceRequested, UpdateMode, PlaceCompleted, ChangeStatus
<1>2. DOMAIN req = Requests /\ RequestOK(req[r])
  BY DEF BehindInv, SignedInv, PaymentTypeOK
<1>3. CASE Send(r)
  BY <1>1, <1>2, <1>3
  DEF Send, Arrive, Guarded, BehindInv, IsIdle, Copies
<1>4. CASE ReadFile(r) \/ MoveOnBoard(r)
  <2>1. ~IsIdle(r) /\ req[r] \notin {Idle, Lost} /\ req[r].op \notin {"board", "release"}
    BY <1>4 DEF ReadFile, MoveOnBoard, At, IsIdle, Idle, Lost, BehindInv
  <2>2. ReadFile(r)
    BY <1>4, <2>1 DEF MoveOnBoard, At
  <2>3. /\ \A s \in Requests \ {r} : req'[s] = req[s]
        /\ req'[r].saw = file /\ req'[r].op = req[r].op
    BY <1>2, <2>1, <2>2 DEF ReadFile, Hold, RequestOK
  <2> QED BY <1>1, <2>1, <2>3 DEF Copies, BehindInv, IsIdle
<1>5. CASE \/ Refuse(r) \/ QueryFails(r) \/ PlaceSeats(r)
           \/ PlaceRequested(r) \/ UpdateMode(r) \/ PlaceCompleted(r)
           \/ ChangeStatus(r)
  <2>1. \/ req' = [req EXCEPT ![r] = Idle] \/ req' = [req EXCEPT ![r] = Lost]
    BY <1>5 DEF Refuse, QueryFails, PlaceSeats, PlaceRequested, UpdateMode,
                PlaceCompleted, ChangeStatus, Answer
  <2> QED BY <1>1, <1>2, <2>1 DEF Copies, Idle, Lost, BehindInv, IsIdle
<1> QED BY <1>3, <1>4, <1>5

LEMMA BehindStep ==
  ASSUME Guarded, BehindInv, [Next]_deskVars
  PROVE  BehindInv' /\ [Chain!Next]_Chain!chain
<1>0. SignedInv'
  BY SignedStep DEF BehindInv
<1>1. CASE Restart
  BY <1>0, <1>1, RestartClears
  DEF Restart, BehindInv, Copies, IsIdle, Chain!chain
<1>2. ASSUME NEW r \in Requests, Send(r) \/ Serve(r) \/ QueryFails(r)
      PROVE  BehindInv' /\ [Chain!Next]_Chain!chain
  <2>1. CASE \/ SetSeats(r) \/ RequestApproval(r) \/ ApproveStep(r)
             \/ CompleteStep(r) \/ SeatFromBoard(r) \/ ReleaseHeld(r)
    <3>1. PICK op, m :
            /\ op \in SavesGuarded
            /\ Save(r, op, m) \/ SaveAndAnswer(r, op, m)
            /\ [Chain!Next]_Chain!chain
            /\ file' = m /\ m.skips = file.skips
            /\ Rank(file.step) <= Rank(m.step)
      BY <2>1, SaveHandlersMoveChain
    <3>2. \A s \in Requests :
            /\ req'[s].pc \in {"act", "write"} =>
                 \/ req'[s].saw = m
                 \/ req[s].pc \in {"act", "write"} /\ req'[s].saw = req[s].saw
            /\ req'[s].pc # "idle" =>
                 req[s].pc # "idle" /\ req'[s].op = req[s].op
      <4>1. DOMAIN req = Requests /\ RequestOK(req[r])
        BY DEF BehindInv, SignedInv, PaymentTypeOK
      <4>2. CASE Save(r, op, m)
        <5>1. /\ req' = [req EXCEPT ![r].pc = "write", ![r].saw = m]
              /\ req[r].pc = "act" /\ req[r] \notin {Idle, Lost}
          BY <4>2 DEF Save, Hold, At, Idle, Lost
        <5>2. /\ req'[r].pc = "write" /\ req'[r].saw = m
              /\ req'[r].op = req[r].op
              /\ \A s \in Requests \ {r} : req'[s] = req[s]
          BY <4>1, <5>1 DEF RequestOK
        <5> QED BY <5>1, <5>2
      <4>3. CASE SaveAndAnswer(r, op, m)
        BY <4>1, <4>3 DEF SaveAndAnswer, Answer, Idle, Lost
      <4> QED BY <3>1, <4>2, <4>3
    <3>3. \A c \in Copies' : c = m \/ c \in Copies
      BY <3>2 DEF Copies
    <3>4. \A c \in Copies : Rank(c.step) <= Rank(m.step) /\ c.skips = m.skips
      <4>1. \A c \in Copies : Rank(c.step) \in 1..5
        BY RanksAreInts DEF BehindInv, SignedInv, PapersOK, PaperOK
      <4>2. Rank(file.step) \in 1..5 /\ Rank(m.step) \in 1..5
        BY <3>1, <1>0, RanksAreInts
        DEF BehindInv, SignedInv, PaymentTypeOK
      <4> QED BY <3>1, <4>1, <4>2 DEF BehindInv, NotAhead
    <3>5. Rank(m.step) \in 1..5
      BY <3>1, <1>0, RanksAreInts DEF SignedInv, PaymentTypeOK
    <3>6. \A c \in Copies' : Rank(c.step) <= Rank(file'.step)
                               /\ c.skips = file'.skips
      BY <3>1, <3>3, <3>4, <3>5
    <3>7. \A s \in Requests :
            ~IsIdle(s)' => req'[s].op \notin {"board", "release"}
      BY <3>2 DEF BehindInv, IsIdle
    <3> QED BY <1>0, <3>1, <3>6, <3>7 DEF BehindInv, NotAhead
  <2>2. CASE \/ Send(r) \/ ReadFile(r) \/ Refuse(r) \/ QueryFails(r)
             \/ MoveOnBoard(r) \/ PlaceSeats(r) \/ PlaceRequested(r)
             \/ UpdateMode(r) \/ PlaceCompleted(r) \/ ChangeStatus(r)
    <3>1. /\ UNCHANGED file /\ Copies' \subseteq Copies \union {file}
          /\ \A s \in Requests :
               ~IsIdle(s)' => req'[s].op \notin {"board", "release"}
      BY <2>2, OtherStepsAreBehind
    <3>2. Rank(file.step) \in 1..5
      BY RanksAreInts DEF BehindInv, SignedInv, PaymentTypeOK
    <3> QED BY <1>0, <3>1, <3>2 DEF BehindInv, NotAhead, Chain!chain
  <2> QED BY <1>2, <2>1, <2>2 DEF Serve
<1>3. CASE UNCHANGED deskVars
  BY <1>0, <1>3 DEF deskVars, BehindInv, Copies, NotAhead, IsIdle, Chain!chain
<1> QED BY <1>1, <1>2, <1>3 DEF Next

LEMMA BehindInit == Init => BehindInv /\ Chain!Init
<1> SUFFICES ASSUME Init PROVE BehindInv /\ Chain!Init
  OBVIOUS
<1>1. PICK d \in Drafts : file = Intake(d) /\ req = [r \in Requests |-> Idle]
  BY DEF Init
<1>2. Copies = {} /\ \A r \in Requests : IsIdle(r)
  BY <1>1 DEF Copies, IsIdle, Idle, Lost
<1>3. BehindInv
  BY <1>2, SignedInit DEF BehindInv
<1>4. Ranks(file) \subseteq 1..4
  BY <1>1, IntakeType, RanksType
<1>5. Rank(file.step) = Chain!After(Ranks(file), 0)
  BY <1>1, StartIsFirst
<1> QED BY <1>3, <1>4, <1>5 DEF Chain!Init, Ranks

\* What Ticket controls does to the chain of a payment request, however its
\* requests cross and whichever fail, is to sign its steps one by one.
THEOREM TicketControlsSignInOrder ==
  ASSUME Guarded PROVE Spec => ImplementsChain
<1>1. BehindInv /\ [Next]_deskVars => BehindInv'
  BY BehindStep
<1>2. BehindInv /\ [Next]_deskVars => [Chain!Next]_Chain!chain
  BY BehindStep
<1> QED BY <1>1, <1>2, BehindInit, PTL DEF Spec, ImplementsChain, Chain!Spec

LEMMA DoneIsLast ==
  ASSUME NEW m \in Meta PROVE Rank(m.step) = 5 <=> m.step = "DONE"
BY DEF Rank, Meta, Steps

\* A copy that shows the chain green-lit is right about it.
LEMMA DoneIsDone ==
  ASSUME BehindInv, NEW m \in Copies, m.step = "DONE" PROVE file.step = "DONE"
<1>1. m \in Meta /\ file \in Meta /\ NotAhead(m)
  BY DEF BehindInv, SignedInv, PapersOK, PaperOK
<1>2. Rank(m.step) = 5 /\ Rank(file.step) \in 1..5
  BY <1>1, DoneIsLast, RanksAreInts
<1> QED BY <1>1, <1>2, DoneIsLast DEF NotAhead

LEMMA DoneStays ==
  ASSUME Guarded, BehindInv, [Next]_deskVars, file.step = "DONE"
  PROVE  file'.step = "DONE"
<1>1. file \in Meta /\ file' \in Meta /\ [Chain!Next]_Chain!chain
  BY BehindStep DEF BehindInv, SignedInv, PaymentTypeOK
<1>2. Rank(file.step) = 5
  BY <1>1, DoneIsLast
<1>3. Rank(file'.step) = 5
  BY <1>1, <1>2 DEF Chain!Next, Chain!Sign, Chain!chain
<1> QED BY <1>1, <1>3, DoneIsLast

LEMMA ConfirmationStep ==
  ASSUME Guarded, BehindInv, ConfirmationIsGreenLit, [Next]_deskVars
  PROVE  ConfirmationIsGreenLit'
<1> SUFFICES ASSUME ticket'.status = "FOR_CONFIRMATION" PROVE file'.step = "DONE"
  BY DEF ConfirmationIsGreenLit
<1> SUFFICES ticket.status = "FOR_CONFIRMATION" \/ file.step = "DONE"
  BY DoneStays DEF ConfirmationIsGreenLit
<1>1. CASE UNCHANGED ticket
  BY <1>1
<1>2. ASSUME NEW r \in Requests, PlaceSeats(r) \/ UpdateMode(r)
                                   \/ MoveOnBoard(r) \/ PlaceRequested(r)
      PROVE  ticket.status = "FOR_CONFIRMATION"
  <2>1. ticket \in Row
    BY DEF BehindInv, SignedInv, PaymentTypeOK
  <2> QED BY <1>2, <2>1
          DEF PlaceSeats, UpdateMode, MoveOnBoard, PlaceRequested, Row
<1>3. ASSUME NEW r \in Requests, PlaceCompleted(r) \/ ChangeStatus(r)
      PROVE  file.step = "DONE"
  <2>1. req[r].saw \in Copies /\ ticket \in Row
    BY <1>3
    DEF PlaceCompleted, ChangeStatus, At, Copies, BehindInv, SignedInv,
        PaymentTypeOK
  <2>2. req[r].saw.step = "DONE"
    BY <1>3, <2>1
    DEF PlaceCompleted, ChangeStatus, At, Row, Accepted, MayChangeStatus
  <2> QED BY <2>1, <2>2, DoneIsDone
<1>4. \/ UNCHANGED ticket
      \/ \E r \in Requests :
           \/ PlaceSeats(r) \/ UpdateMode(r) \/ MoveOnBoard(r)
           \/ PlaceRequested(r) \/ PlaceCompleted(r) \/ ChangeStatus(r)
  BY DEF Next, deskVars, Restart, Send, Arrive, Serve, QueryFails, ReadFile,
         Refuse, SetSeats, RequestApproval, ApproveStep, CompleteStep,
         SeatFromBoard, ReleaseHeld, Save, SaveAndAnswer
<1> QED BY <1>1, <1>2, <1>3, <1>4

\* Of all that Ticket controls does, nothing sends a payment request for
\* confirmation, or leaves it there, before its chain is green-lit.
THEOREM ConfirmedIsGreenLit ==
  ASSUME Guarded PROVE Spec => []ConfirmationIsGreenLit
<1>1. Init => ConfirmationIsGreenLit
  BY DEF Init, ConfirmationIsGreenLit
<1>2. BehindInv /\ [Next]_deskVars => BehindInv'
  BY BehindStep
<1>3. BehindInv /\ ConfirmationIsGreenLit /\ [Next]_deskVars
        => ConfirmationIsGreenLit'
  BY ConfirmationStep
<1> QED BY <1>1, <1>2, <1>3, BehindInit, PTL DEF Spec

-----------------------------------------------------------------------------
(***************************************************************************)
(* One request of Ticket controls at a time: its copies are the row and    *)
(* the meta as they are now, and between its two queries it knows whom the *)
(* seat it just saved belongs to.                                          *)
(***************************************************************************)
Alone == \A q, r \in Requests : ~IsIdle(q) /\ ~IsIdle(r) => q = r

Current(q) ==
  /\ q.pc # "idle" => q.op \in GuardedOps /\ q.seen = ticket
  /\ q.pc \in {"act", "write"} => q.saw = file
  /\ q.pc = "write" /\ q.op = "request" => BoardSeat(file) = q.arg

\* The second query of nobody is missing.
Placed ==
  (\A r \in Requests : req[r].pc # "write") /\ BoardSeat(file) # None
    => ticket.assigned = BoardSeat(file)

PlacedInv ==
  Alone /\ (\A r \in Requests : Current(req[r])) /\ ~file.held /\ Placed

OthersIdle(r) == \A s \in Requests \ {r} : IsIdle(s)

LEMMA PutCurrent ==
  ASSUME NEW r \in Requests, OthersIdle(r),
         \A s \in Requests \ {r} : req'[s] = req[s], Current(req[r])'
  PROVE  Alone' /\ \A s \in Requests : Current(req[s])'
<1>1. \A s \in Requests \ {r} : req'[s].pc = "idle"
  BY DEF OthersIdle, IsIdle
<1>2. Alone'
  BY <1>1 DEF Alone, IsIdle
<1>3. ASSUME NEW s \in Requests PROVE Current(req[s])'
  <2>1. CASE s # r
    BY <1>1, <2>1 DEF Current
  <2> QED BY <2>1
<1> QED BY <1>2, <1>3

\* A request that is answered: all others are idle, and nobody writes.
LEMMA AnswerPlaced ==
  ASSUME PaymentTypeOK, NEW r \in Requests, OthersIdle(r), Answer(r), ~file'.held,
         BoardSeat(file)' # None => ticket'.assigned = BoardSeat(file)'
  PROVE  PlacedInv'
<1>1. (\A s \in Requests \ {r} : req'[s] = req[s]) /\ req'[r].pc = "idle"
  BY DEF Answer, PaymentTypeOK, Idle
<1>2. Current(req[r])'
  BY <1>1 DEF Current
<1>3. Placed'
  BY DEF Placed
<1> QED BY <1>1, <1>2, <1>3, PutCurrent DEF PlacedInv

LEMMA SendPlaced ==
  ASSUME PaymentTypeOK, PlacedInv, case = "serial", NEW r \in Requests,
         Send(r), Belongs(req'[r])
  PROVE  PlacedInv'
<1>1. Settled /\ req'[r].op \in GuardedOps
  BY DEF Belongs
<1>2. \A s \in Requests : req[s].pc = "idle"
  BY <1>1 DEF Settled, Busy, IsIdle
<1>3. PICK op, a, b : Arrive(r, op, a, b)
  BY DEF Send
<1>4. /\ \A s \in Requests \ {r} : req'[s] = req[s]
      /\ req'[r].op = op /\ req'[r].seen = ticket
      /\ req'[r].pc = IF op = "board" THEN "move" ELSE "read"
      /\ UNCHANGED <<ticket, file>>
  BY <1>3 DEF Arrive, PaymentTypeOK
<1>5. req'[r].pc = "read"
  BY <1>1, <1>4 DEF GuardedOps, SavesGuarded
<1>6. Current(req[r])'
  BY <1>1, <1>4, <1>5 DEF Current
<1>7. Placed'
  BY <1>2, <1>4 DEF PlacedInv, Placed
<1> QED BY <1>2, <1>4, <1>6, <1>7, PutCurrent DEF PlacedInv, OthersIdle, IsIdle

\* What a request at work knows.
LEMMA AtWork ==
  ASSUME PaymentTypeOK, PlacedInv, NEW r \in Requests, req[r].pc # "idle"
  PROVE  /\ OthersIdle(r)
         /\ req[r].op \in GuardedOps /\ req[r].seen = ticket
         /\ req[r].pc \in {"act", "write"} => req[r].saw = file /\ file \in Meta
         /\ ~file.held
         /\ req[r].pc # "write" /\ BoardSeat(file) # None
              => ticket.assigned = BoardSeat(file)
<1>1. OthersIdle(r)
  BY DEF PlacedInv, Alone, OthersIdle, IsIdle
<1>2. Current(req[r]) /\ ~file.held /\ Placed /\ file \in Meta
  BY DEF PlacedInv, PaymentTypeOK
<1>3. req[r].pc # "write" => \A s \in Requests : req[s].pc # "write"
  BY <1>1 DEF OthersIdle, IsIdle
<1> QED BY <1>1, <1>2, <1>3 DEF Current, Placed

\* A save whose second query follows.
LEMMA SavePlaced ==
  ASSUME PaymentTypeOK, PlacedInv, NEW r \in Requests, NEW op, NEW m,
         Save(r, op, m), ~m.held, op = "request" => BoardSeat(m) = req[r].arg
  PROVE  PlacedInv'
<1>1. req[r].pc = "act" /\ req[r].op = op /\ file' = m /\ UNCHANGED ticket
  BY DEF Save, At
<1>2. OthersIdle(r) /\ op \in GuardedOps /\ req[r].seen = ticket
  BY <1>1, AtWork
<1>3. /\ \A s \in Requests \ {r} : req'[s] = req[s]
      /\ req'[r].pc = "write" /\ req'[r].saw = m
      /\ req'[r].op = op /\ req'[r].seen = ticket /\ req'[r].arg = req[r].arg
  BY <1>1, <1>2 DEF Save, Hold, PaymentTypeOK, RequestOK
<1>4. BoardSeat(file)' = BoardSeat(m)
  BY <1>1
<1>5. Current(req[r])' /\ Placed'
  BY <1>1, <1>2, <1>3, <1>4 DEF Current, Placed
<1> QED BY <1>1, <1>2, <1>3, <1>5, PutCurrent DEF PlacedInv

LEMMA SavesPlaced ==
  ASSUME PaymentTypeOK, PlacedInv, NEW r \in Requests,
         SetSeats(r) \/ RequestApproval(r) \/ ApproveStep(r) \/ CompleteStep(r)
  PROVE  PlacedInv'
<1> DEFINE w == req[r].saw
<1>1. req[r].pc = "act"
  BY DEF SetSeats, RequestApproval, ApproveStep, CompleteStep, Save,
     SaveAndAnswer, At
<1>2. OthersIdle(r) /\ w = file /\ w \in Meta /\ ~w.held /\ req[r].seen = ticket
  BY <1>1, AtWork
<1>3. CASE SetSeats(r)
  <2>1. ~Filled(w, FormOf(req[r])).held
    BY <1>2 DEF Filled, Meta
  <2> QED BY <1>3, <2>1, SavePlaced DEF SetSeats
<1>4. CASE RequestApproval(r)
  <2> DEFINE m == Requested(w, req[r].arg)
  <2>1. w.step # "DONE"
    BY <1>4 DEF RequestApproval, Save, At, Accepted, MayRequest
  <2>2. /\ ~m.held /\ m.step = w.step /\ m.seat[w.step] = req[r].arg
    BY <1>2, <2>1 DEF Requested, Seated, Meta
  <2>3. BoardSeat(m) = req[r].arg
    BY <2>1, <2>2 DEF BoardSeat
  <2>4. Save(r, "request", m)
    BY <1>4 DEF RequestApproval
  <2> HIDE DEF m
  <2> QED BY <2>2, <2>3, <2>4, SavePlaced
<1>5. CASE CompleteStep(r)
  <2>1. ~Completed(w, req[r].actor).held
    BY <1>2 DEF Completed, Seated, Meta
  <2> QED BY <1>5, <2>1, SavePlaced DEF CompleteStep
<1>6. CASE ApproveStep(r)
  <2> DEFINE a == req[r].actor
             m == Acked(w, a)
  <2>1. /\ w.step # "DONE" /\ a = ticket.assigned
        /\ file' = m /\ Answer(r) /\ UNCHANGED ticket
    BY <1>2, <1>6
    DEF ApproveStep, SaveAndAnswer, At, Accepted, MayApprove, CanComplete
  <2>2. /\ ~m.held /\ m.step = w.step /\ m.seat[w.step] = a
    BY <1>2, <2>1 DEF Acked, Seated, Meta
  <2>3. BoardSeat(m) = a
    BY <2>1, <2>2 DEF BoardSeat
  <2> HIDE DEF a, m
  <2> QED BY <1>2, <2>1, <2>2, <2>3, AnswerPlaced
<1> QED BY <1>3, <1>4, <1>5, <1>6

LEMMA WritesPlaced ==
  ASSUME PaymentTypeOK, PlacedInv, NEW r \in Requests,
         \/ PlaceSeats(r) \/ PlaceRequested(r) \/ PlaceCompleted(r)
         \/ UpdateMode(r) \/ ChangeStatus(r) \/ Refuse(r)
  PROVE  PlacedInv'
<1>1. req[r].pc \in {"act", "write"} /\ Answer(r) /\ UNCHANGED file
  BY DEF PlaceSeats, PlaceRequested, PlaceCompleted, UpdateMode, ChangeStatus,
     Refuse, At
<1>2. /\ OthersIdle(r) /\ req[r].seen = ticket /\ ~file.held
      /\ req[r].saw = file /\ Current(req[r]) /\ ticket \in Row
      /\ req[r].pc = "act" /\ BoardSeat(file) # None
            => ticket.assigned = BoardSeat(file)
  BY <1>1, AtWork DEF PlacedInv, PaymentTypeOK
<1>3. ASSUME BoardSeat(file) # None PROVE ticket'.assigned = BoardSeat(file)
  <2>1. CASE PlaceSeats(r)
    BY <1>2, <2>1 DEF PlaceSeats, BoardWrite, Row
  <2>2. CASE PlaceRequested(r)
    BY <1>2, <2>2 DEF PlaceRequested, Current, At, Row
  <2>3. CASE PlaceCompleted(r)
    <3>1. file.step # "DONE"
      BY <1>3 DEF BoardSeat
    <3> QED BY <1>2, <2>3, <3>1 DEF PlaceCompleted, BoardWrite, Row
  <2>4. CASE UpdateMode(r) \/ ChangeStatus(r) \/ Refuse(r)
    BY <1>2, <1>3, <2>4 DEF UpdateMode, ChangeStatus, Refuse, At, Row
  <2> QED BY <2>1, <2>2, <2>3, <2>4
<1> QED BY <1>1, <1>2, <1>3, AnswerPlaced

LEMMA ReadPlaced ==
  ASSUME PaymentTypeOK, PlacedInv, NEW r \in Requests, ReadFile(r)
  PROVE  PlacedInv'
<1>1. req[r].pc = "read" /\ UNCHANGED <<ticket, file>>
  BY DEF ReadFile
<1>2. OthersIdle(r) /\ Current(req[r])
  BY <1>1, AtWork DEF PlacedInv
<1>3. /\ \A s \in Requests \ {r} : req'[s] = req[s]
      /\ req'[r].pc = "act" /\ req'[r].saw = file
      /\ req'[r].op = req[r].op /\ req'[r].seen = req[r].seen
  BY <1>1 DEF ReadFile, Hold, PaymentTypeOK, RequestOK, Idle, Lost
<1>4. Current(req[r])'
  BY <1>1, <1>2, <1>3 DEF Current
<1>5. Placed'
  <2>1. BoardSeat(file) # None => ticket.assigned = BoardSeat(file)
    BY <1>1, AtWork
  <2> QED BY <1>1, <2>1 DEF Placed
<1> QED BY <1>1, <1>2, <1>3, <1>4, <1>5, PutCurrent DEF PlacedInv

LEMMA ServePlaced ==
  ASSUME PaymentTypeOK, PlacedInv, NEW r \in Requests, Serve(r)
  PROVE  PlacedInv'
<1>1. ~MoveOnBoard(r) /\ ~SeatFromBoard(r) /\ ~ReleaseHeld(r)
  <2>1. req[r].pc # "idle" => req[r].op \notin {"board", "release"}
    BY AtWork DEF GuardedOps, SavesGuarded
  <2> QED BY <2>1 DEF MoveOnBoard, SeatFromBoard, ReleaseHeld, SaveAndAnswer, At
<1> QED BY <1>1, SavesPlaced, WritesPlaced, ReadPlaced DEF Serve

LEMMA CaseIsNext == CaseNext => Next
BY DEF CaseNext, Next

CaseInv == PaymentTypeOK /\ (case = "serial" => PlacedInv)

LEMMA CaseInvInit == CaseInit => CaseInv
<1> SUFFICES ASSUME CaseInit PROVE CaseInv
  OBVIOUS
<1>1. PaymentTypeOK
  BY TypeInit DEF CaseInit
<1>2. \A r \in Requests : req[r].pc = "idle"
  BY DEF CaseInit, Init, Idle
<1>3. BoardSeat(file) # None => ticket.assigned = BoardSeat(file)
  BY DEF CaseInit, Init
<1>4. ASSUME case = "serial" PROVE ~file.held
  <2>1. PICK d \in {FullDraft, DeferredDraft, OpenDraft} : file = Intake(d)
    BY <1>4 DEF CaseInit, DraftsOf, MCDrafts
  <2>2. ~d.held
    BY <2>1 DEF FullDraft, DeferredDraft, OpenDraft, Plain
  <2> QED BY <2>1, <2>2 DEF Intake
<1> QED BY <1>1, <1>2, <1>3, <1>4
        DEF CaseInv, PlacedInv, Alone, Current, Placed, IsIdle

LEMMA CaseInvStep == CaseInv /\ [CaseNext]_caseVars => CaseInv'
<1> SUFFICES ASSUME CaseInv, [CaseNext]_caseVars PROVE CaseInv'
  OBVIOUS
<1>1. PaymentTypeOK /\ PaymentTypeOK'
  BY CaseIsNext, TypeStep DEF CaseInv, caseVars
<1>2. case' = case
  BY DEF CaseNext, caseVars
<1>3. ASSUME case = "serial" PROVE PlacedInv'
  <2>1. PlacedInv
    BY <1>3 DEF CaseInv
  <2>2. CASE UNCHANGED caseVars
    BY <2>1, <2>2 DEF caseVars, deskVars, PlacedInv, Alone, IsIdle, Current, Placed
  <2>3. CASE CaseNext
    <3>1. PICK r \in Requests : (Send(r) /\ Belongs(req'[r])) \/ Serve(r)
      BY <1>3, <2>3 DEF CaseNext
    <3> QED BY <1>1, <1>3, <2>1, <3>1, SendPlaced, ServePlaced
  <2> QED BY <2>2, <2>3
<1> QED BY <1>1, <1>2, <1>3 DEF CaseInv

\* "Put the request on the current procedural role assignee's Request Board":
\* when requests come one after the other, whatever Ticket controls does, the
\* ticket is with the holder of the seat whose turn it is.
THEOREM SerialHolder == CaseSpec => []SerialHolderIsAssigned
<1>1. CaseInv => SerialHolderIsAssigned
  BY DEF CaseInv, PlacedInv, Placed, SerialHolderIsAssigned,
     SeatHolderIsAssigned, Settled, Busy, IsIdle
<1> QED BY <1>1, CaseInvInit, CaseInvStep, PTL DEF CaseSpec

=============================================================================
