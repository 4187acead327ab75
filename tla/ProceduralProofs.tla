-------------------------- MODULE ProceduralProofs --------------------------
(***************************************************************************)
(* Proofs about ProceduralRequest: its types, that no signature is passed  *)
(* over, and that no Job Order is approved before it is done.              *)
(*                                                                         *)
(* Saves overwrite one another, so that nothing can be said of what the    *)
(* meta was before.  But every copy is by itself a paper that could be on  *)
(* file, and every operation makes such a paper of such a paper: one       *)
(* invariant of papers, wherever they are, gives the three theorems.       *)
(***************************************************************************)
EXTENDS MCProcedural, TLAPS

PaperOK(m) ==
  /\ m \in Meta /\ m.step \in StepsFor(m) \union {"DONE"}
  /\ m.skips \in Skippable(m.type)
  /\ InOrder(m)
  /\ IsJobOrder(m) /\ m.step = "DONE" => m.jobDone

\* What a request brings, until the handler puts the next holder there.
ArgOK(q) ==
  /\ q.op = "seats" => q.arg \in SeatForms
  /\ q.op \in {"request", "board", "execute", "workers"} => q.arg \in Agents
  /\ q.op \in {"pricing", "assist", "view", "transfer"} => q.arg \in Person
  /\ q.op = "status" => q.arg \in StatusTargets
  /\ q.op \in {"complete", "status", "pricing"} \union TransferOps
       => q.actor \in Agents

Fields == {"pc", "op", "actor", "arg", "seen", "saw"}

SlotOK(q) ==
  /\ RequestOK(q) /\ DOMAIN q = Fields
  /\ q.pc \notin {"idle", "write"} => ArgOK(q)
  /\ q.pc \in {"act", "write", "mark"} => PaperOK(q.saw)

PapersInv ==
  /\ ticket \in Row /\ PaperOK(file)
  /\ DOMAIN req = Requests /\ \A r \in Requests : SlotOK(req[r])

(***************************************************************************)
(* The order of the steps.                                                 *)
(***************************************************************************)
LEMMA StepsAre ==
  /\ Steps = {"CANVASSED_BY", "APPROVED_BY", "PREPARED_BY",
              "RECOMMENDING_APPROVAL", "NOTED_BY", "APPROVED_BY_2",
              "RECOMMENDED_BY", "FINANCE_MANAGER", "APPROVER_1", "APPROVER_2",
              "APPROVER_3", "APPROVER_4", "APPROVER_5"}
  /\ \A s \in Steps : Rank(s) \in 1..7
<1>1. /\ StepsOf("ITEM_REQUISITION_SLIP") = {"CANVASSED_BY", "APPROVED_BY"}
      /\ StepsOf("FUND_TRANSFER_REQUEST") =
           {"PREPARED_BY", "RECOMMENDING_APPROVAL", "APPROVED_BY"}
      /\ StepsOf("JOB_ORDER") = {"NOTED_BY", "APPROVED_BY", "APPROVED_BY_2"}
      /\ StepsOf("AUTHORITY_TO_CONDUCT_ACTIVITY") =
           {"RECOMMENDED_BY", "FINANCE_MANAGER", "APPROVER_1", "APPROVER_2",
            "APPROVER_3", "APPROVER_4", "APPROVER_5"}
  BY DEF StepsOf
<1>2. Steps = ((StepsOf("ITEM_REQUISITION_SLIP")
                  \union StepsOf("FUND_TRANSFER_REQUEST"))
                \union StepsOf("JOB_ORDER"))
                \union StepsOf("AUTHORITY_TO_CONDUCT_ACTIVITY")
  BY DEF Steps, Types
<1>3. Steps = {"CANVASSED_BY", "APPROVED_BY", "PREPARED_BY",
               "RECOMMENDING_APPROVAL", "NOTED_BY", "APPROVED_BY_2",
               "RECOMMENDED_BY", "FINANCE_MANAGER", "APPROVER_1", "APPROVER_2",
               "APPROVER_3", "APPROVER_4", "APPROVER_5"}
  BY <1>1, <1>2
<1>4. \A s \in Steps : Rank(s) \in 1..7
  BY <1>3 DEF Rank
<1> QED BY <1>3, <1>4

LEMMA StepsForType ==
  ASSUME NEW m \in Meta PROVE StepsFor(m) \subseteq Steps
BY DEF StepsFor, Meta, Steps

\* First finds a step that comes before the others.
LEMMA FirstIsFirst ==
  ASSUME NEW ss \in SUBSET Steps, ss # {}
  PROVE  First(ss) \in ss /\ \A t \in ss : Rank(First(ss)) <= Rank(t)
<1>1. \E s \in ss : \A t \in ss : Rank(s) <= Rank(t)
  <2> DEFINE Has(n) == \E s \in ss : Rank(s) = n
  <2>1. \A s \in ss : Rank(s) \in 1..7
    BY StepsAre
  <2>2. PICK n \in 1..7 : Has(n) /\ \A k \in 1..7 : k < n => ~Has(k)
    <3>1. \E n \in 1..7 : Has(n)
      BY <2>1
    <3> HIDE DEF Has
    <3>2. CASE Has(1)
      BY <3>2
    <3>3. CASE ~Has(1) /\ Has(2)
      BY <3>3
    <3>4. CASE ~Has(1) /\ ~Has(2) /\ Has(3)
      BY <3>4
    <3>5. CASE ~Has(1) /\ ~Has(2) /\ ~Has(3)
      BY <3>1, <3>5
    <3> QED BY <3>2, <3>3, <3>4, <3>5
  <2> QED BY <2>1, <2>2
<1> QED BY <1>1 DEF First

LEMMA NextStepType ==
  ASSUME NEW m \in Meta
  PROVE  /\ NextStep(m) \in StepsFor(m) \union {"DONE"}
         /\ NextStep(m) = "DONE" <=> Later(m, m.step) = {}
<1>1. Later(m, m.step) \subseteq StepsFor(m) /\ StepsFor(m) \subseteq Steps
  BY StepsForType DEF Later
<1>2. "DONE" \notin Steps
  BY StepsAre
<1>3. CASE Later(m, m.step) = {}
  BY <1>3 DEF NextStep, First
<1>4. CASE Later(m, m.step) # {}
  BY <1>1, <1>2, <1>4, FirstIsFirst DEF NextStep
<1> QED BY <1>3, <1>4

\* The steps of one type have ranks of their own.
LEMMA RankTells ==
  ASSUME NEW m \in Meta, NEW s \in StepsFor(m), NEW t \in StepsFor(m),
         Rank(s) = Rank(t)
  PROVE  s = t
BY DEF StepsFor, StepsOf, Rank, Meta, Types

\* What is before the next step is before the current one, or is it.
LEMMA NothingBetween ==
  ASSUME NEW m \in Meta, m.step \in StepsFor(m), NEW s \in StepsFor(m),
         Rank(s) < Rank(NextStep(m))
  PROVE  Rank(s) < Rank(m.step) \/ s = m.step
<1>1. Rank(s) \in 1..7 /\ Rank(m.step) \in 1..7
  BY StepsForType, StepsAre
<1>2. CASE Rank(s) <= Rank(m.step)
  BY <1>1, <1>2, RankTells
<1>3. CASE Rank(m.step) < Rank(s)
  <2>1. s \in Later(m, m.step) /\ Later(m, m.step) \subseteq Steps
    BY <1>3, StepsForType DEF Later
  <2>2. Rank(NextStep(m)) <= Rank(s) /\ NextStep(m) \in Steps
    BY <2>1, FirstIsFirst DEF NextStep
  <2> QED BY <1>1, <2>2, StepsAre
<1> QED BY <1>1, <1>2, <1>3

(***************************************************************************)
(* Every operation makes a paper of a paper.                               *)
(***************************************************************************)

\* Who sits where, helps and executes is of no matter to the order.
LEMMA SameChain ==
  ASSUME NEW m, PaperOK(m), NEW n \in Meta,
         n.type = m.type, n.step = m.step, n.skips = m.skips,
         m.completed \subseteq n.completed, m.jobDone => n.jobDone
  PROVE  PaperOK(n)
<1>1. StepsFor(n) = StepsFor(m)
  BY DEF StepsFor
<1> QED BY <1>1 DEF PaperOK, InOrder, IsJobOrder

LEMMA SeatedPaper ==
  ASSUME NEW m, PaperOK(m), NEW s \in Steps, NEW a \in Person
  PROVE  PaperOK(Seated(m, s, a))
<1>1. /\ Seated(m, s, a) \in Meta
      /\ Seated(m, s, a).type = m.type /\ Seated(m, s, a).step = m.step
      /\ Seated(m, s, a).skips = m.skips
      /\ Seated(m, s, a).completed = m.completed
      /\ Seated(m, s, a).jobDone = m.jobDone
  BY DEF Seated, PaperOK, Meta
<1> QED BY <1>1, SameChain

LEMMA FilledPaper ==
  ASSUME NEW m, PaperOK(m), NEW f \in SeatForms
  PROVE  PaperOK(Filled(m, f))
<1> DEFINE seat == [s \in Steps |-> IF s \in DOMAIN f \cap StepsOf(m.type)
                                    THEN f[s] ELSE m.seat[s]]
<1>1. seat \in [Steps -> Person]
  BY ProceduralAssumption DEF ProceduralAssumption, PaperOK, Meta
<1>2. Filled(m, f) = [m EXCEPT !.seat = seat]
  BY DEF Filled
<1> HIDE DEF seat
<1>3. /\ Filled(m, f) \in Meta
      /\ Filled(m, f).type = m.type /\ Filled(m, f).step = m.step
      /\ Filled(m, f).skips = m.skips
      /\ Filled(m, f).completed = m.completed
      /\ Filled(m, f).jobDone = m.jobDone
  BY <1>1, <1>2 DEF PaperOK, Meta
<1> QED BY <1>3, SameChain

\* A signature may be given, and not the last one of a Job Order that is not
\* done.
MaySign(m) ==
  m.step # "DONE" /\ (AtLastApprover(m) => m.jobDone)

LEMMA SignedFacts ==
  ASSUME NEW m \in Meta, m.step \in Steps, NEW a \in Person
  PROVE  /\ Signed(m, a) \in Meta
         /\ Signed(m, a).type = m.type /\ Signed(m, a).step = NextStep(m)
         /\ Signed(m, a).skips = m.skips
         /\ Signed(m, a).completed = m.completed \union {m.step}
         /\ Signed(m, a).jobDone = m.jobDone
<1> DEFINE next == NextStep(m)
           new == [Seated(m, m.step, a) EXCEPT
                     !.step = next, !.completed = @ \union {m.step},
                     !.executing = FALSE]
<1>1. next \in Steps \union {"DONE"}
  BY NextStepType, StepsForType
<1>2. Signed(m, a) = IF new.step # "DONE" \/ m.pending = None THEN new
                     ELSE [new EXCEPT !.executing = TRUE, !.pending = None]
  BY DEF Signed
<1> HIDE DEF next
<1>3. Seated(m, m.step, a) \in Meta
  BY DEF Seated, Meta
<1>4. /\ new \in Meta
      /\ new.type = m.type /\ new.step = next /\ new.skips = m.skips
      /\ new.completed = m.completed \union {m.step}
      /\ new.jobDone = m.jobDone
  BY <1>1, <1>3 DEF Meta, Seated
<1> HIDE DEF new
<1>5. [new EXCEPT !.executing = TRUE, !.pending = None] \in Meta
  BY <1>4 DEF Meta, Person
<1>6. CASE new.step # "DONE" \/ m.pending = None
  BY <1>2, <1>4, <1>6 DEF next
<1>7. CASE ~(new.step # "DONE" \/ m.pending = None)
  BY <1>2, <1>4, <1>5, <1>7 DEF next, Meta
<1> QED BY <1>6, <1>7

LEMMA SignedPaper ==
  ASSUME NEW m, PaperOK(m), MaySign(m), NEW a \in Person
  PROVE  PaperOK(Signed(m, a))
<1> DEFINE n == Signed(m, a)
<1>1. m \in Meta /\ m.step \in StepsFor(m) /\ m.step \in Steps
  BY StepsForType DEF PaperOK, MaySign
<1>2. /\ n \in Meta /\ n.type = m.type /\ n.step = NextStep(m)
      /\ n.skips = m.skips /\ n.completed = m.completed \union {m.step}
      /\ n.jobDone = m.jobDone
  BY <1>1, SignedFacts
<1> HIDE DEF n
<1>3. StepsFor(n) = StepsFor(m) /\ IsJobOrder(n) = IsJobOrder(m)
  BY <1>2 DEF StepsFor, IsJobOrder
<1>4. n.step \in StepsFor(n) \union {"DONE"}
  BY <1>1, <1>2, <1>3, NextStepType
<1>5. InOrder(n)
  BY <1>1, <1>2, <1>3, NothingBetween DEF InOrder, PaperOK
<1>6. IsJobOrder(n) /\ n.step = "DONE" => n.jobDone
  BY <1>1, <1>2, <1>3, NextStepType DEF MaySign, AtLastApprover
<1> QED BY <1>2, <1>4, <1>5, <1>6 DEF PaperOK, n

LEMMA CanvassedPaper ==
  ASSUME NEW m, PaperOK(m), MaySign(m), NEW a \in Person, NEW b \in Person
  PROVE  PaperOK(Canvassed(m, a, b))
<1>1. PaperOK(Signed(m, a))
  BY SignedPaper
<1>2. PaperOK(Seated(Signed(m, a), "APPROVED_BY", b))
  BY <1>1, SeatedPaper, StepsAre
<1> QED BY <1>1, <1>2 DEF Canvassed

LEMMA UncanvassedPaper ==
  ASSUME NEW m, PaperOK(m), m.type = "ITEM_REQUISITION_SLIP"
  PROVE  PaperOK(Uncanvassed(m))
<1> DEFINE n == Uncanvassed(m)
<1>1. /\ n \in Meta /\ n.type = m.type /\ n.skips = m.skips
      /\ n.step = "CANVASSED_BY" /\ n.skips = {}
      /\ n.skips \in Skippable(n.type)
  BY StepsAre DEF Uncanvassed, PaperOK, Meta, Person, Skippable
<1> HIDE DEF n
<1>2. n.step \in StepsFor(n) /\ StepsFor(n) \subseteq Steps
  BY <1>1, StepsForType DEF StepsFor, StepsOf, Meta
<1>3. InOrder(n)
  BY <1>1, <1>2, StepsAre DEF InOrder, Rank
<1> QED BY <1>1, <1>2, <1>3 DEF PaperOK, IsJobOrder, n

LEMMA IntakePaper == ASSUME NEW d \in Drafts PROVE PaperOK(Intake(d))
<1> DEFINE signed == IF Prepares(d) THEN {"PREPARED_BY"} ELSE {}
           left == (StepsOf(d.type) \ d.skips) \ signed
           m == Intake(d)
<1>1. /\ d.type \in Types /\ d.seat \in [Steps -> Person]
      /\ d.skips \in Skippable(d.type) /\ d.skips \in SUBSET Steps
      /\ Prepares(d) => d.type = "FUND_TRANSFER_REQUEST"
  BY ProceduralAssumption, StepsAre DEF ProceduralAssumption, Prepares,
                                        Skippable
<1>2. left \in SUBSET Steps
  BY <1>1 DEF Steps
<1>3. left # {}
  BY <1>1 DEF StepsOf, Types, Skippable
<1>4. First(left) \in left /\ \A t \in left : Rank(First(left)) <= Rank(t)
  BY <1>2, <1>3, FirstIsFirst
<1>5. signed \in SUBSET Steps
  BY StepsAre
<1>6. m = [type |-> d.type, step |-> First(left), seat |-> d.seat,
           completed |-> signed, skips |-> d.skips,
           pending |-> None, executing |-> FALSE, workers |-> {},
           assistance |-> {}, jobDone |-> FALSE]
  BY DEF Intake
<1> HIDE DEF left, signed, m
<1>7. m \in Meta
  BY <1>1, <1>2, <1>4, <1>5, <1>6 DEF Meta, Person
<1>8. StepsFor(m) = left \union (StepsFor(m) \cap signed)
      /\ left \subseteq StepsFor(m)
  BY <1>6 DEF StepsFor, left
<1>9. InOrder(m)
  <2> SUFFICES ASSUME NEW s \in StepsFor(m), Rank(s) < Rank(m.step)
               PROVE  s \in m.completed
    BY DEF InOrder
  <2>1. Rank(m.step) \in 1..7 /\ (s \in left => Rank(s) \in 1..7)
    BY <1>2, <1>4, <1>6, StepsAre
  <2>2. s \notin left
    BY <1>4, <1>6, <2>1
  <2> QED BY <1>6, <1>8, <2>2
<1>10. /\ m.step \in StepsFor(m) /\ m.step # "DONE"
       /\ m.skips \in Skippable(m.type)
  BY <1>1, <1>2, <1>4, <1>6, <1>8, StepsAre
<1> QED BY <1>7, <1>9, <1>10 DEF PaperOK, m

(***************************************************************************)
(* Slots.  A step changes one, so that only its new value is looked at.    *)
(***************************************************************************)
SlotsOK == DOMAIN req = Requests /\ \A r \in Requests : SlotOK(req[r])

LEMMA SlotStep ==
  ASSUME SlotsOK, NEW r \in Requests, NEW q, SlotOK(q),
         req' = [req EXCEPT ![r] = q]
  PROVE  SlotsOK'
BY DEF SlotsOK

LEMMA IdleIsOK == SlotOK(Idle) /\ SlotOK(Lost)
BY DEF SlotOK, RequestOK, Idle, Lost, Fields

LEMMA AnswerOK ==
  ASSUME SlotsOK, NEW r \in Requests, Answer(r) \/ QueryFails(r)
  PROVE  SlotsOK'
BY SlotStep, IdleIsOK DEF Answer, QueryFails

LEMMA RestartOK == ASSUME SlotsOK, Restart PROVE SlotsOK'
<1>1. /\ DOMAIN req' = Requests
      /\ \A s \in Requests : req'[s] \in {req[s], Lost}
  BY DEF Restart
<1> QED BY <1>1, IdleIsOK DEF SlotsOK

\* A request that has begun, and what it holds.
LEMMA Begun ==
  ASSUME PapersInv, NEW r \in Requests, req[r].pc # "idle"
  PROVE  /\ SlotOK(req[r]) /\ req[r] \notin {Idle, Lost}
         /\ DOMAIN req[r] = Fields
         /\ req[r].op \in Ops /\ req[r].seen \in Row
         /\ req[r].pc = "write" => req[r].arg \in Person
         /\ req[r].pc # "write" => ArgOK(req[r])
         /\ req[r].pc \in {"act", "write", "mark"} => PaperOK(req[r].saw)
BY DEF PapersInv, SlotOK, RequestOK, Idle, Lost

LEMMA SaveOK ==
  ASSUME PapersInv, NEW r \in Requests, req[r].pc = "act",
         NEW m, PaperOK(m), NEW a \in Person,
         Save(r, m, a) \/ SaveAndAnswer(r, m)
  PROVE  PapersInv'
<1>0. SlotsOK
  BY DEF PapersInv, SlotsOK
<1>1. CASE Save(r, m, a)
  <2> DEFINE q == [req[r] EXCEPT !.pc = "write", !.saw = m, !.arg = a]
  <2>1. SlotOK(req[r]) /\ req[r] \notin {Idle, Lost}
    BY Begun
  <2>2. SlotOK(q)
    BY <2>1 DEF SlotOK, RequestOK, PaperOK
  <2>3. req' = [req EXCEPT ![r] = q]
    BY <1>1 DEF Save
  <2>4. SlotsOK'
    BY <1>0, <2>2, <2>3, SlotStep
  <2> QED BY <1>1, <2>4 DEF Save, PapersInv, SlotsOK
<1>2. CASE SaveAndAnswer(r, m)
  BY <1>0, <1>2, AnswerOK DEF SaveAndAnswer, PapersInv, SlotsOK
<1> QED BY <1>1, <1>2

LEMMA WriteOK ==
  ASSUME PapersInv, NEW r \in Requests, NEW row \in Row,
         WriteAndAnswer(r, row)
  PROVE  PapersInv'
BY AnswerOK DEF WriteAndAnswer, PapersInv, SlotsOK

LEMMA TurnOK ==
  ASSUME SlotsOK, NEW r \in Requests, NEW pc, Turn(r, pc),
         req[r] \notin {Idle, Lost},
         \/ req[r].pc \in {"move", "note"} /\ pc \in {"note", "read"}
         \/ req[r].pc = "act" /\ pc = "mark"
         \/ req[r].pc = "weigh" /\ pc = "park"
         \/ req[r].pc = "decide" /\ pc = "decided"
  PROVE  SlotsOK'
<1> DEFINE q == [req[r] EXCEPT !.pc = pc]
<1>1. SlotOK(req[r])
  BY DEF SlotsOK
<1>2. SlotOK(q)
  BY <1>1 DEF SlotOK, RequestOK, ArgOK
<1> QED BY <1>2, SlotStep DEF Turn

(***************************************************************************)
(* What arrives, what is read, and what is given up.                       *)
(***************************************************************************)
LEMMA ArriveOK ==
  ASSUME PapersInv, NEW r \in Requests, NEW op, NEW a, NEW b,
         Arrive(r, op, a, b),
         \A q : q.op = op /\ q.actor = a /\ q.arg = b => ArgOK(q)
  PROVE  PapersInv'
<1> DEFINE q == [pc |-> IF op = "board" THEN "move" ELSE "read", op |-> op,
                 actor |-> a, arg |-> b, seen |-> ticket, saw |-> None]
<1>1. ArgOK(q)
  OBVIOUS
<1>2. SlotOK(q)
  BY <1>1 DEF SlotOK, RequestOK, Arrive, PapersInv, Fields
<1>3. SlotsOK /\ req' = [req EXCEPT ![r] = q]
  BY DEF PapersInv, SlotsOK, Arrive
<1>4. SlotsOK'
  BY <1>2, <1>3, SlotStep
<1> QED BY <1>4 DEF PapersInv, SlotsOK, Arrive

LEMMA SendOK == ASSUME PapersInv, NEW r \in Requests, Send(r) PROVE PapersInv'
<1>0. Admins \subseteq Agents /\ Agents \subseteq Person
  BY DeskAssumption DEF DeskAssumption, Person
<1>1. CASE SendForApproval(r)
  BY <1>0, <1>1, ArriveOK DEF SendForApproval, ArgOK
<1>2. CASE SendForRequisition(r)
  BY <1>0, <1>2, ArriveOK DEF SendForRequisition, ArgOK
<1>3. CASE SendForExecution(r)
  BY <1>0, <1>3, ArriveOK DEF SendForExecution, ArgOK
<1>4. CASE SendView(r)
  BY <1>0, <1>4, ArriveOK DEF SendView, ArgOK, TransferOps
<1>5. CASE SendForTransfer(r)
  BY <1>0, <1>5, ArriveOK DEF SendForTransfer, ArgOK, TransferOps
<1> QED BY <1>1, <1>2, <1>3, <1>4, <1>5 DEF Send

LEMMA DeskStepsOK ==
  ASSUME PapersInv, NEW r \in Requests,
         ReadMeta(r) \/ Refuse(r) \/ QueryFails(r) \/ RefuseTransfer(r)
  PROVE  PapersInv'
<1>0. SlotsOK
  BY DEF PapersInv, SlotsOK
<1>1. CASE ReadMeta(r)
  <2> DEFINE q == [req[r] EXCEPT !.pc = "act", !.saw = file]
  <2>1. SlotOK(req[r]) /\ req[r] \notin {Idle, Lost} /\ ArgOK(req[r])
    BY <1>1, Begun DEF ReadMeta, ReadFile
  <2>2. SlotOK(q)
    BY <1>1, <2>1 DEF SlotOK, RequestOK, ArgOK, PapersInv, PaperOK, ReadMeta,
                      ReadFile
  <2>3. SlotsOK'
    BY <1>0, <1>1, <2>2, SlotStep DEF ReadMeta, ReadFile, Hold
  <2> QED BY <1>1, <2>3 DEF ReadMeta, ReadFile, PapersInv, SlotsOK
<1>2. CASE Refuse(r) \/ QueryFails(r) \/ RefuseTransfer(r)
  BY <1>0, <1>2, AnswerOK DEF Refuse, QueryFails, RefuseTransfer, PapersInv, SlotsOK
<1> QED BY <1>1, <1>2

(***************************************************************************)
(* The operations, those that save the meta first.                         *)
(***************************************************************************)
LEMMA BoardSeatType == ASSUME NEW m, PaperOK(m) PROVE BoardSeat(m) \in Person
BY DEF BoardSeat, PaperOK, Meta, Person

LEMMA HolderAfterType ==
  ASSUME NEW m, PaperOK(m), MaySign(m), NEW a \in Person
  PROVE  HolderAfter(m, a) \in Person
<1>1. BoardSeat(Signed(m, a)) \in Person
  BY SignedPaper, BoardSeatType
<1> QED BY <1>1 DEF HolderAfter, PaperOK, Meta

LEMMA MaySignIf ==
  ASSUME NEW m, NEW a, NEW row, CanComplete(m, a, row)
  PROVE  MaySign(m)
BY DEF CanComplete, MaySign

LEMMA StageOK ==
  ASSUME NEW m, PaperOK(m), NEW a \in Person, NEW w \in SUBSET Agents
  PROVE  /\ PaperOK([m EXCEPT !.pending = a])
         /\ PaperOK([m EXCEPT !.workers = w])
         /\ PaperOK([m EXCEPT !.assistance = w])
         /\ PaperOK([m EXCEPT !.jobDone = TRUE])
         /\ PaperOK(Executed(m))
<1>1. \A n \in {[m EXCEPT !.pending = a], [m EXCEPT !.workers = w],
                [m EXCEPT !.assistance = w], [m EXCEPT !.jobDone = TRUE],
                Executed(m)} :
        /\ n \in Meta /\ n.type = m.type /\ n.step = m.step
        /\ n.skips = m.skips /\ n.completed = m.completed
        /\ m.jobDone => n.jobDone
  BY DEF PaperOK, Meta, Executed, Person
<1> QED BY <1>1, SameChain

LEMMA ChainSavesOK ==
  ASSUME PapersInv, NEW r \in Requests,
         \/ SetSeats(r) \/ RequestApproval(r) \/ SignStep(r)
         \/ SeatFromBoard(r) \/ SavePricing(r) \/ UndoCanvass(r)
  PROVE  PapersInv'
<1> DEFINE q == req[r]
<1>0. /\ q.pc = "act" /\ Accepted(q) /\ PaperOK(q.saw) /\ ArgOK(q)
      /\ Agents \subseteq Person /\ None \in Person
  BY Begun DEF SetSeats, RequestApproval, SignStep, SeatFromBoard, SavePricing,
               UndoCanvass, Acts, At, Person
<1>1. CASE SetSeats(r)
  <2>1. q.arg \in SeatForms
    BY <1>0, <1>1 DEF SetSeats, Acts, At, ArgOK
  <2>2. PaperOK(Filled(q.saw, q.arg))
    BY <1>0, <2>1, FilledPaper
  <2>3. BoardSeat(Filled(q.saw, q.arg)) \in Person
    BY <2>2, BoardSeatType
  <2> QED BY <1>0, <1>1, <2>2, <2>3, SaveOK DEF SetSeats
<1>2. CASE RequestApproval(r)
  <2>1. q.op = "request" /\ q.arg \in Agents /\ MayRequest(q)
    BY <1>0, <1>2 DEF RequestApproval, Acts, At, ArgOK, Accepted
  <2>2. q.saw.step \in Steps
    BY <1>0, <2>1, StepsForType DEF MayRequest, PaperOK
  <2>3. PaperOK(Seated(q.saw, q.saw.step, q.arg))
    BY <1>0, <2>1, <2>2, SeatedPaper
  <2> QED BY <1>0, <1>2, <2>1, <2>3, SaveOK DEF RequestApproval
<1>3. CASE SignStep(r)
  <2>1. CanComplete(q.saw, q.actor, q.seen) /\ q.actor \in Agents
    BY <1>0, <1>3 DEF SignStep, Acts, At, ArgOK, Accepted, Signs, MayComplete,
                      MayChangeStatus
  <2>2. MaySign(q.saw) /\ q.actor \in Person
    BY <1>0, <2>1, MaySignIf
  <2>3. /\ PaperOK(Signed(q.saw, q.actor))
        /\ HolderAfter(q.saw, q.actor) \in Person
    BY <1>0, <2>2, SignedPaper, HolderAfterType
  <2> QED BY <1>0, <1>3, <2>3, SaveOK DEF SignStep
<1>4. CASE SeatFromBoard(r)
  <2>1. q.arg \in Person
    BY <1>0, <1>4 DEF SeatFromBoard, Acts, At, ArgOK
  <2>2. CASE q.saw.step # "DONE"
    <3>1. q.saw.step \in Steps
      BY <1>0, <2>2, StepsForType DEF PaperOK
    <3>2. PaperOK(Seated(q.saw, q.saw.step, q.arg))
      BY <1>0, <2>1, <3>1, SeatedPaper
    <3> QED BY <1>0, <1>4, <2>2, <3>2, SaveOK DEF SeatFromBoard
  <2>3. CASE q.saw.step = "DONE"
    <3>1. PaperOK(Executed(q.saw))
      BY <1>0, StageOK
    <3> QED BY <1>0, <1>4, <2>1, <2>3, <3>1, SaveOK DEF SeatFromBoard
  <2> QED BY <2>2, <2>3
<1>5. CASE SavePricing(r)
  <2>1. /\ CanComplete(q.saw, q.actor, q.seen)
        /\ q.actor \in Agents /\ q.arg \in Person
    BY <1>0, <1>5 DEF SavePricing, Acts, At, ArgOK, Accepted, MayPrice
  <2>2. MaySign(q.saw) /\ q.actor \in Person
    BY <1>0, <2>1, MaySignIf
  <2>3. PaperOK(Canvassed(q.saw, q.actor, q.arg))
    BY <1>0, <2>1, <2>2, CanvassedPaper
  <2>4. BoardSeat(Canvassed(q.saw, q.actor, q.arg)) \in Person
    BY <2>3, BoardSeatType
  <2> QED BY <1>0, <1>5, <2>3, <2>4, SaveOK DEF SavePricing
<1>6. CASE UndoCanvass(r)
  <2>1. q.saw.type = "ITEM_REQUISITION_SLIP"
    BY <1>0, <1>6 DEF UndoCanvass, Acts, At, Accepted, MayUndo
  <2>2. PaperOK(Uncanvassed(q.saw))
    BY <1>0, <2>1, UncanvassedPaper
  <2> QED BY <1>0, <1>6, <2>2, SaveOK DEF UndoCanvass
<1> QED BY <1>1, <1>2, <1>3, <1>4, <1>5, <1>6

LEMMA WorkSavesOK ==
  ASSUME PapersInv, NEW r \in Requests,
         \/ StageExecutor(r) \/ MarkExecutor(r) \/ SetWorkers(r)
         \/ SetAssistance(r) \/ MarkJobDone(r) \/ BackfillPreparedBy(r)
  PROVE  PapersInv'
<1> DEFINE q == req[r]
<1>0. /\ q.pc \in {"act", "mark"} /\ PaperOK(q.saw) /\ ArgOK(q)
      /\ Agents \subseteq Person /\ None \in Person
  BY Begun DEF StageExecutor, MarkExecutor, SetWorkers, SetAssistance,
               MarkJobDone, BackfillPreparedBy, Acts, At, Person
<1>1. CASE StageExecutor(r)
  <2>1. q.pc = "act" /\ q.arg \in Person
    BY <1>0, <1>1 DEF StageExecutor, Acts, At, ArgOK
  <2>2. PaperOK([q.saw EXCEPT !.pending = q.arg])
    BY <1>0, <2>1, StageOK
  <2> QED BY <1>0, <1>1, <2>1, <2>2, SaveOK DEF StageExecutor
<1>2. CASE MarkExecutor(r)
  <2>1. PaperOK(Executed(q.saw))
    BY <1>0, StageOK
  <2>2. SlotsOK' /\ file' = Executed(q.saw) /\ UNCHANGED ticket
    BY <1>2, AnswerOK DEF MarkExecutor, SaveAndAnswer, PapersInv, SlotsOK
  <2> QED BY <2>1, <2>2 DEF PapersInv, SlotsOK
<1>3. CASE SetWorkers(r)
  <2>1. q.pc = "act" /\ {q.arg} \ {Executor(q.saw, q.seen)} \in SUBSET Agents
    BY <1>0, <1>3 DEF SetWorkers, Acts, At, ArgOK
  <2>2. PaperOK([q.saw EXCEPT !.workers =
                   {q.arg} \ {Executor(q.saw, q.seen)}])
    BY <1>0, <2>1, StageOK
  <2> QED BY <1>0, <1>3, <2>1, <2>2, SaveOK DEF SetWorkers
<1>4. CASE SetAssistance(r)
  <2>1. q.pc = "act" /\ {q.arg} \ {None} \in SUBSET Agents
    BY <1>0, <1>4 DEF SetAssistance, Acts, At, ArgOK, Person
  <2>2. PaperOK([q.saw EXCEPT !.assistance = {q.arg} \ {None}])
    BY <1>0, <2>1, StageOK
  <2> QED BY <1>0, <1>4, <2>1, <2>2, SaveOK DEF SetAssistance
<1>5. CASE MarkJobDone(r)
  <2>1. PaperOK([q.saw EXCEPT !.jobDone = TRUE]) /\ q.pc = "act"
    BY <1>0, <1>5, StageOK DEF MarkJobDone, Acts, At
  <2>2. BoardSeat([q.saw EXCEPT !.jobDone = TRUE]) \in Person
    BY <2>1, BoardSeatType
  <2> QED BY <1>0, <1>5, <2>1, <2>2, SaveOK DEF MarkJobDone
<1>6. CASE BackfillPreparedBy(r)
  <2> DEFINE creator == IF q.saw.seat["PREPARED_BY"] # None
                        THEN q.saw.seat["PREPARED_BY"] ELSE q.arg
             seated  == Seated(q.saw, "PREPARED_BY", creator)
             stamped == [seated EXCEPT !.completed = @ \union {"PREPARED_BY"}]
             moved   == [stamped EXCEPT !.step = "RECOMMENDING_APPROVAL"]
  <2>1. /\ q.pc = "act" /\ q.saw.type = "FUND_TRANSFER_REQUEST"
        /\ q.arg \in Person
    BY <1>0, <1>6 DEF BackfillPreparedBy, Acts, At, ArgOK, Backfills
  <2>2. creator \in Person /\ "PREPARED_BY" \in Steps
    BY <1>0, <2>1, StepsAre DEF PaperOK, Meta
  <2>3. PaperOK(seated) /\ seated.type = q.saw.type
    <3> HIDE DEF creator
    <3>1. PaperOK(seated)
      BY <1>0, <2>2, SeatedPaper
    <3>2. seated.type = q.saw.type
      BY <1>0 DEF Seated, PaperOK, Meta
    <3> QED BY <3>1, <3>2
  <2> HIDE DEF seated
  <2>4. /\ stamped \in Meta /\ stamped.type = seated.type
        /\ stamped.step = seated.step /\ stamped.skips = seated.skips
        /\ stamped.completed = seated.completed \union {"PREPARED_BY"}
        /\ stamped.jobDone = seated.jobDone
    BY <2>2, <2>3 DEF PaperOK, Meta
  <2>5. PaperOK(stamped)
    BY <2>3, <2>4, SameChain
  <2> HIDE DEF stamped
  <2>6. PaperOK(moved)
    <3>1. /\ moved \in Meta /\ moved.type = "FUND_TRANSFER_REQUEST"
          /\ moved.step = "RECOMMENDING_APPROVAL"
          /\ moved.skips = {}
          /\ "PREPARED_BY" \in moved.completed
      BY <2>1, <2>3, <2>4, StepsAre DEF Meta, PaperOK, Skippable
    <3> HIDE DEF moved
    <3>2. /\ StepsFor(moved) \subseteq
               {"PREPARED_BY", "RECOMMENDING_APPROVAL", "APPROVED_BY"}
          /\ "RECOMMENDING_APPROVAL" \in StepsFor(moved)
      BY <3>1 DEF StepsFor, StepsOf
    <3>3. InOrder(moved)
      BY <3>1, <3>2 DEF InOrder, Rank
    <3> QED BY <3>1, <3>2, <3>3 DEF PaperOK, IsJobOrder, Skippable
  <2> HIDE DEF moved
  <2>7. SaveAndAnswer(r, stamped) \/ SaveAndAnswer(r, moved)
    BY <1>6 DEF BackfillPreparedBy, stamped, moved, seated
  <2> QED BY <1>0, <2>1, <2>5, <2>6, <2>7, SaveOK
<1> QED BY <1>1, <1>2, <1>3, <1>4, <1>5, <1>6

(***************************************************************************)
(* The operations that write the ticket.                                   *)
(***************************************************************************)
LEMMA HandedType ==
  ASSUME ticket \in Row, NEW q, q.arg \in Person,
         NEW s \in {"OPEN", "IN_PROGRESS", "ESCALATED", "RESOLVED",
                    "FOR_CONFIRMATION"}
  PROVE  Handed(q, s) \in Row
BY DEF Handed, BoardWrite, Row

LEMMA TicketWritesOK ==
  ASSUME PapersInv, NEW r \in Requests,
         \/ PlaceSeats(r) \/ PlaceRequested(r) \/ PlaceSigned(r)
         \/ ChangeStatus(r) \/ ResumeFromBoard(r) \/ PlaceCanvassed(r)
         \/ PlaceUncanvassed(r) \/ Upload(r) \/ PlaceJobDone(r)
         \/ ReconcileExecution(r)
  PROVE  PapersInv'
<1>1. /\ req[r].pc = "write" => req[r].arg \in Person
      /\ req[r].pc = "act" => ArgOK(req[r]) /\ req[r].seen \in Row
      /\ ticket \in Row
  BY Begun DEF PapersInv
<1>2. CASE PlaceSeats(r)
  BY <1>1, <1>2, HandedType, WriteOK DEF PlaceSeats, At, Row
<1>3. CASE PlaceRequested(r)
  BY <1>1, <1>3, WriteOK DEF PlaceRequested, At, Row
<1>4. CASE PlaceSigned(r)
  BY <1>1, <1>4, HandedType, WriteOK DEF PlaceSigned, At, Row
<1>5. CASE ChangeStatus(r)
  <2>1. req[r].arg \in StatusTargets
    BY <1>1, <1>5 DEF ChangeStatus, Acts, At, ArgOK
  <2>2. [ticket EXCEPT !.status = req[r].arg] \in Row
    BY <1>1, <2>1 DEF StatusTargets, Row
  <2> QED BY <1>5, <2>2, WriteOK DEF ChangeStatus
<1>6. CASE ResumeFromBoard(r)
  BY <1>1, <1>6, WriteOK DEF ResumeFromBoard, Row
<1>7. CASE PlaceCanvassed(r)
  BY <1>1, <1>7, HandedType, WriteOK DEF PlaceCanvassed, At
<1>8. CASE PlaceUncanvassed(r)
  BY <1>1, <1>8, WriteOK DEF PlaceUncanvassed, Row
<1>9. CASE Upload(r)
  BY <1>1, <1>9, WriteOK DEF Upload, Acts, At, Row
<1>10. CASE PlaceJobDone(r)
  BY <1>1, <1>10, HandedType, WriteOK DEF PlaceJobDone, At, Row
<1>11. CASE ReconcileExecution(r)
  BY <1>1, <1>11, WriteOK DEF ReconcileExecution, Row, Person
<1> QED BY <1>2, <1>3, <1>4, <1>5, <1>6, <1>7, <1>8, <1>9, <1>10, <1>11

LEMMA TicketFirstOK ==
  ASSUME PapersInv, NEW r \in Requests,
         MoveOnBoard(r) \/ LogReassigned(r) \/ AssignExecutor(r)
  PROVE  PapersInv'
<1>0. SlotsOK /\ ticket \in Row
  BY DEF PapersInv, SlotsOK
<1>1. /\ req[r] \notin {Idle, Lost} /\ req[r].arg \in Person
      /\ req[r].pc \in {"move", "note", "act"}
  BY Begun DEF MoveOnBoard, LogReassigned, AssignExecutor, Acts, At, ArgOK,
               Person
<1>2. \E pc : /\ Turn(r, pc)
              /\ \/ req[r].pc \in {"move", "note"} /\ pc \in {"note", "read"}
                 \/ req[r].pc = "act" /\ pc = "mark"
  BY DEF MoveOnBoard, LogReassigned, AssignExecutor, Acts, At
<1>3. SlotsOK'
  BY <1>0, <1>1, <1>2, TurnOK
<1>4. ticket' \in Row
  BY <1>0, <1>1 DEF MoveOnBoard, LogReassigned, AssignExecutor, Row
<1>5. UNCHANGED file
  BY DEF MoveOnBoard, LogReassigned, AssignExecutor
<1> QED BY <1>3, <1>4, <1>5 DEF PapersInv, SlotsOK

\* Transfers change the row and the log, and look at no paper.
LEMMA TransferOK ==
  ASSUME PapersInv, NEW r \in Requests,
         \/ ReadLog(r) \/ RequestTransfer(r) \/ Park(r)
         \/ AcceptTransfer(r) \/ DeclineTransfer(r) \/ LogDecision(r)
  PROVE  PapersInv'
<1> DEFINE q == req[r]
<1>0. SlotsOK /\ ticket \in Row
  BY DEF PapersInv, SlotsOK
<1>1. /\ q \notin {Idle, Lost} /\ SlotOK(q) /\ q.seen \in Row
      /\ q.pc # "idle" /\ (q.pc # "write" => ArgOK(q))
  BY Begun DEF ReadLog, RequestTransfer, Park, AcceptTransfer, DeclineTransfer,
               WriteDecided, LogDecision, At, Idle, Lost
<1>2. CASE ReadLog(r)
  <2> DEFINE new == [q EXCEPT !.pc = IF @ = "read" THEN "weigh" ELSE "decide",
                              !.seen = [@ EXCEPT !.transfer = ticket.transfer]]
  <2>1. [q.seen EXCEPT !.transfer = ticket.transfer] \in Row
    BY <1>0, <1>1 DEF Row
  <2>2. SlotOK(new)
    BY <1>1, <1>2, <2>1 DEF SlotOK, RequestOK, ArgOK, Fields, ReadLog
  <2>3. req' = [req EXCEPT ![r] = new]
    BY <1>2 DEF ReadLog
  <2>4. SlotsOK'
    BY <1>0, <2>2, <2>3, SlotStep
  <2> QED BY <1>2, <2>4 DEF ReadLog, PapersInv, SlotsOK
<1>3. CASE RequestTransfer(r)
  <2>1. [from |-> IF q.arg = None THEN None ELSE q.actor, to |-> q.arg]
          \in Handover
    BY <1>1, <1>3 DEF RequestTransfer, At, ArgOK, TransferOps, Handover, Person
  <2>2. ticket' \in Row /\ UNCHANGED file
    BY <1>0, <1>3, <2>1 DEF RequestTransfer, Row
  <2>3. SlotsOK'
    BY <1>0, <1>1, <1>3, TurnOK DEF RequestTransfer, At
  <2> QED BY <2>2, <2>3 DEF PapersInv, SlotsOK
<1>4. CASE Park(r)
  BY <1>0, <1>1, <1>4, WriteOK DEF Park, Row, Person
<1>5. CASE AcceptTransfer(r) \/ DeclineTransfer(r)
  <2>1. q.seen.transfer # None
          => q.seen.transfer.to \in Person /\ q.seen.transfer.from \in Person
    BY <1>1 DEF Row, Handover
  <2>2. Peer(q.seen.transfer)
          => /\ Resumed(q, q.seen.transfer.to) \in Row
             /\ Resumed(q, q.seen.transfer.from) \in Row
    BY <1>0, <1>1, <2>1 DEF Peer, Resumed, Row
  <2>3. [ticket EXCEPT !.assigned = None, !.status = "OPEN"] \in Row
    BY <1>0 DEF Row, Person
  <2>4. ticket' \in Row /\ UNCHANGED file
    BY <1>0, <1>5, <2>2, <2>3 DEF AcceptTransfer, DeclineTransfer, WriteDecided
  <2>5. SlotsOK'
    BY <1>0, <1>1, <1>5, TurnOK
       DEF AcceptTransfer, DeclineTransfer, WriteDecided, At
  <2> QED BY <2>4, <2>5 DEF PapersInv, SlotsOK
<1>6. CASE LogDecision(r)
  BY <1>0, <1>1, <1>6, WriteOK DEF LogDecision, Row
<1> QED BY <1>2, <1>3, <1>4, <1>5, <1>6

-----------------------------------------------------------------------------
LEMMA PapersInit == Init => PapersInv
<1> SUFFICES ASSUME Init PROVE PapersInv
  OBVIOUS
<1>1. PICK d \in Drafts :
        /\ file = Intake(d)
        /\ ticket = [status   |-> IF BoardSeat(Intake(d)) = None THEN "OPEN"
                                  ELSE "IN_PROGRESS",
                     assigned |-> BoardSeat(Intake(d)),
                     output   |-> FALSE,
                     transfer |-> None]
        /\ req = [r \in Requests |-> Idle]
  BY DEF Init
<1>2. PaperOK(Intake(d)) /\ BoardSeat(Intake(d)) \in Person
  BY IntakePaper, BoardSeatType
<1> QED BY <1>1, <1>2, IdleIsOK DEF PapersInv, Row

LEMMA PapersStep == PapersInv /\ [Next]_deskVars => PapersInv'
<1> SUFFICES ASSUME PapersInv, [Next]_deskVars PROVE PapersInv'
  OBVIOUS
<1>1. CASE Restart
  BY <1>1, RestartOK DEF Restart, PapersInv, SlotsOK
<1>2. ASSUME NEW r \in Requests, Send(r) \/ Serve(r) \/ QueryFails(r)
      PROVE  PapersInv'
  BY <1>2, SendOK, DeskStepsOK, ChainSavesOK, WorkSavesOK, TicketWritesOK,
     TicketFirstOK, TransferOK DEF Serve, Approve, Execute, HandOver
<1>3. CASE UNCHANGED deskVars
  BY <1>3 DEF deskVars, PapersInv
<1> QED BY <1>1, <1>2, <1>3 DEF Next

LEMMA PapersAlways == Spec => []PapersInv
BY PapersInit, PapersStep, PTL DEF Spec

\* The row, the meta and every request in flight have their types, for any
\* people, drafts, forms, numbers of requests, operations and faults.
THEOREM ProceduralTypes == Spec => []ProceduralTypeOK
<1>1. PapersInv => ProceduralTypeOK
  BY DEF PapersInv, SlotOK, PaperOK, ProceduralTypeOK
<1> QED BY <1>1, PapersAlways, PTL

\* No step of a slip, a transfer or a Job Order is passed over, by a
\* signature, the undo of a canvass, the backfill of Prepared By or a save
\* that overwrites another.
THEOREM ChainsAreSigned == Spec => []ChainIsSigned
<1>1. PapersInv => ChainIsSigned
  BY DEF PapersInv, SlotOK, PaperOK, ChainIsSigned, Copies
<1> QED BY <1>1, PapersAlways, PTL

\* A Job Order whose approval is complete was marked done, although a request
\* that read the meta before Job Done may be saved after it.
THEOREM ApprovedJobsAreDone == Spec => []JobDoneBeforeApproval
<1>1. PapersInv => JobDoneBeforeApproval
  BY DEF PapersInv, SlotOK, PaperOK, JobDoneBeforeApproval, Copies
<1> QED BY <1>1, PapersAlways, PTL

(***************************************************************************)
(* An Authority.  Its saves find the step they were made from, so that     *)
(* what they are made from is the meta itself: of its chain, a step says   *)
(* all there is to say, and of the rest nothing changes.                   *)
(***************************************************************************)
Ranks(m) == {Rank(s) : s \in StepsFor(m)}

\* Who has signed follows from whose turn it is.
Exact(m) ==
  IsAuthority(m) =>
    m.completed = {s \in StepsFor(m) : Rank(s) < Rank(m.step)}

\* m and n differ in the chain only.
Alike(m, n) ==
  /\ IsAuthority(m) <=> IsAuthority(n)
  /\ IsAuthority(n) =>
       m = [n EXCEPT !.step = m.step, !.completed = m.completed]

AuthorityInv ==
  /\ PapersInv
  /\ IsAuthority(file) => file.pending = None /\ file.executing = FALSE
  /\ Exact(file)
  /\ \A m \in Copies : Exact(m) /\ Alike(m, file)
  /\ \A r \in Requests : req[r].pc = "mark" => ~IsAuthority(req[r].saw)

LEMMA AfterIs ==
  ASSUME NEW ss \in SUBSET (1..7), NEW i \in 0..7, NEW s \in ss, s > i,
         \A t \in ss : t > i => s <= t
  PROVE  Chain!After(ss, i) = s
<1>1. \A t \in ss : (t > i /\ \A u \in ss : u > i => t <= u) => t = s
  OBVIOUS
<1> QED BY <1>1 DEF Chain!After

LEMMA AfterNone ==
  ASSUME NEW ss \in SUBSET (1..7), NEW i \in 0..7, \A t \in ss : t <= i
  PROVE  Chain!After(ss, i) = 8
BY DEF Chain!After

LEMMA NextIsAfter ==
  ASSUME NEW m \in Meta, m.step \in StepsFor(m)
  PROVE  /\ Rank(NextStep(m)) = Chain!After(Ranks(m), Rank(m.step))
         /\ Rank(m.step) < Rank(NextStep(m)) /\ Rank(m.step) \in 1..7
<1>1. StepsFor(m) \subseteq Steps /\ \A s \in StepsFor(m) : Rank(s) \in 1..7
  BY StepsForType, StepsAre
<1>2. Ranks(m) \in SUBSET (1..7) /\ Rank(m.step) \in 1..7
  BY <1>1 DEF Ranks
<1>3. CASE Later(m, m.step) = {}
  <2>1. NextStep(m) = "DONE" /\ Rank("DONE") = 8
    BY <1>3 DEF NextStep, First, Rank
  <2>2. \A t \in Ranks(m) : t <= Rank(m.step)
    BY <1>1, <1>2, <1>3 DEF Ranks, Later
  <2>3. Chain!After(Ranks(m), Rank(m.step)) = 8
    BY <1>2, <2>2, AfterNone
  <2> QED BY <1>2, <2>1, <2>3
<1>4. CASE Later(m, m.step) # {}
  <2> DEFINE n == NextStep(m)
  <2>1. Later(m, m.step) \in SUBSET Steps
    BY <1>1 DEF Later
  <2>2. n \in Later(m, m.step) /\ \A t \in Later(m, m.step) : Rank(n) <= Rank(t)
    BY <1>4, <2>1, FirstIsFirst DEF NextStep
  <2> HIDE DEF n
  <2>3. Rank(n) \in Ranks(m) /\ Rank(n) > Rank(m.step)
    BY <1>1, <1>2, <2>2 DEF Later, Ranks
  <2>4. \A t \in Ranks(m) : t > Rank(m.step) => Rank(n) <= t
    BY <1>1, <1>2, <2>2 DEF Later, Ranks
  <2>5. Chain!After(Ranks(m), Rank(m.step)) = Rank(n)
    BY <1>2, <2>3, <2>4, AfterIs
  <2> QED BY <1>2, <2>3, <2>5 DEF n
<1> QED BY <1>3, <1>4

\* The meta of an Authority and the next signature.
LEMMA AuthoritySigned ==
  ASSUME NEW m, PaperOK(m), IsAuthority(m), m.step # "DONE", Exact(m),
         m.pending = None, m.executing = FALSE
  PROVE  LET n == Signed(m, m.seat[m.step])
         IN  /\ n = [m EXCEPT !.step = NextStep(m),
                              !.completed = m.completed \union {m.step}]
             /\ n.completed = {s \in StepsFor(n) : Rank(s) < Rank(n.step)}
             /\ Ranks(n) = Ranks(m)
<1> DEFINE new == [m EXCEPT !.step = NextStep(m),
                            !.completed = m.completed \union {m.step}]
<1>1. m \in Meta /\ m.step \in StepsFor(m) /\ m.step \in Steps
  BY StepsForType DEF PaperOK
<1>2. Seated(m, m.step, m.seat[m.step]) = m
  BY <1>1 DEF Seated, Meta
<1>3. NextStep(m) \in Steps \union {"DONE"}
  BY <1>1, NextStepType, StepsForType
<1>4. Signed(m, m.seat[m.step]) =
        [m EXCEPT !.step = NextStep(m), !.completed = @ \union {m.step},
                  !.executing = FALSE]
  BY <1>2 DEF Signed
<1>5. Signed(m, m.seat[m.step]) = new
  <2> DEFINE next == NextStep(m)
  <2> HIDE DEF next
  <2>1. [m EXCEPT !.step = next, !.completed = @ \union {m.step},
                  !.executing = FALSE]
          = [m EXCEPT !.step = next, !.completed = m.completed \union {m.step}]
    BY <1>1 DEF Meta
  <2> QED BY <1>4, <2>1 DEF next
<1>6. /\ new.type = m.type /\ new.skips = m.skips
      /\ new.step = NextStep(m) /\ new.completed = m.completed \union {m.step}
  BY <1>1 DEF Meta
<1>7. StepsFor(new) = StepsFor(m) /\ Ranks(new) = Ranks(m)
  BY <1>6 DEF StepsFor, Ranks
<1>8. \A s \in StepsFor(m) :
        Rank(s) < Rank(NextStep(m)) <=> Rank(s) < Rank(m.step) \/ s = m.step
  <2>1. \A s \in StepsFor(m) : Rank(s) \in 1..7
    BY <1>1, StepsForType, StepsAre
  <2>2. Rank(m.step) < Rank(NextStep(m)) /\ Rank(NextStep(m)) \in 1..8
    BY <1>1, <1>3, NextIsAfter, StepsAre DEF Rank
  <2> QED BY <1>1, <2>1, <2>2, NothingBetween
<1>9. new.completed = {s \in StepsFor(new) : Rank(s) < Rank(new.step)}
  BY <1>1, <1>6, <1>7, <1>8 DEF Exact
<1> QED BY <1>5, <1>7, <1>9

\* A save of anything else keeps its type, and is not of an Authority.
LEMMA OtherSaves ==
  ASSUME PapersInv, NEW r \in Requests, req[r].pc = "mark" =>
                                          ~IsAuthority(req[r].saw),
         \/ SetSeats(r) \/ RequestApproval(r) \/ SeatFromBoard(r)
         \/ SavePricing(r) \/ UndoCanvass(r) \/ StageExecutor(r)
         \/ MarkExecutor(r) \/ SetWorkers(r) \/ SetAssistance(r)
         \/ MarkJobDone(r) \/ BackfillPreparedBy(r)
         \/ SignStep(r) /\ req[r].op = "status"
  PROVE  ~IsAuthority(req[r].saw) /\ ~IsAuthority(file')
<1> DEFINE q == req[r]
<1>0. q.pc \in {"act", "mark"} /\ PaperOK(q.saw) /\ q.saw \in Meta
  BY Begun DEF SetSeats, RequestApproval, SeatFromBoard, SavePricing,
               UndoCanvass, StageExecutor, MarkExecutor, SetWorkers,
               SetAssistance, MarkJobDone, BackfillPreparedBy, SignStep, Acts,
               At, PaperOK
<1>1. \A s, a : Seated(q.saw, s, a).type = q.saw.type
  BY <1>0 DEF Seated, Meta
<1>2. CASE SetSeats(r)
  <2>1. Filled(q.saw, q.arg).type = q.saw.type
    BY <1>0 DEF Filled, Meta
  <2> QED BY <1>2, <2>1 DEF SetSeats, Acts, At, Accepted, Save, SaveAndAnswer,
                            IsAuthority
<1>3. CASE RequestApproval(r)
  BY <1>1, <1>3 DEF RequestApproval, Acts, At, Accepted, MayRequest, Save,
                    IsAuthority
<1>4. CASE SeatFromBoard(r)
  <2>1. Executed(q.saw).type = q.saw.type
    BY <1>0 DEF Executed, Meta
  <2>2. ~IsAuthority(q.saw)
    BY <1>4 DEF SeatFromBoard, Acts, At, Accepted, MaySeatFromBoard,
                IsAuthority, IsJobOrder
  <2> QED BY <1>1, <1>4, <2>1, <2>2 DEF SeatFromBoard, Save, SaveAndAnswer,
                                        IsAuthority
<1>5. ASSUME SavePricing(r) \/ (SignStep(r) /\ q.op = "status")
      PROVE  ~IsAuthority(q.saw) /\ q.saw.step \in Steps /\ q.actor \in Agents
  <2>1. q.saw.step # "DONE" /\ q.saw.step \in Steps
    BY <1>0, <1>5, StepsForType DEF SavePricing, SignStep, Signs, Acts, At,
       Accepted, MayPrice, CanComplete, PaperOK
  <2>2. q.actor \in Agents
    BY <1>0, <1>5, Begun DEF SavePricing, SignStep, Acts, At, ArgOK
  <2>3. CASE SavePricing(r)
    <3>1. q.saw.step = "CANVASSED_BY"
      BY <2>3 DEF SavePricing, Acts, At, Accepted, MayPrice
    <3>2. q.saw.step \in StepsOf(q.saw.type)
      BY <1>0, <2>1 DEF PaperOK, StepsFor
    <3> QED BY <2>1, <2>2, <3>1, <3>2 DEF IsAuthority, StepsOf
  <2>4. CASE SignStep(r) /\ q.op = "status"
    BY <2>1, <2>2, <2>4 DEF SignStep, Signs, Acts, At, Accepted, MayChangeStatus
  <2> QED BY <1>5, <2>3, <2>4
<1>6. CASE SavePricing(r)
  <2>1. q.actor \in Person /\ q.arg \in Person
    BY <1>0, <1>5, <1>6, Begun DEF Person, SavePricing, Acts, At, ArgOK
  <2> DEFINE s == Signed(q.saw, q.actor)
  <2>2. s \in Meta /\ s.type = q.saw.type
    BY <1>0, <1>5, <1>6, <2>1, SignedFacts
  <2> HIDE DEF s
  <2>3. \A b : Seated(s, "APPROVED_BY", b).type = s.type
    BY <2>2 DEF Seated, Meta
  <2>4. Canvassed(q.saw, q.actor, q.arg).type = q.saw.type
    BY <2>2, <2>3 DEF Canvassed, s
  <2> QED BY <1>5, <1>6, <2>4 DEF SavePricing, Save, IsAuthority
<1>7. CASE SignStep(r) /\ q.op = "status"
  <2>1. Signed(q.saw, q.actor).type = q.saw.type
    BY <1>0, <1>5, <1>7, SignedFacts DEF Person
  <2> QED BY <1>5, <1>7, <2>1 DEF SignStep, Save, IsAuthority
<1>8. CASE UndoCanvass(r)
  <2>1. Uncanvassed(q.saw).type = q.saw.type
    BY <1>0 DEF Uncanvassed, Meta
  <2> QED BY <1>8, <2>1 DEF UndoCanvass, Acts, At, Accepted, MayUndo, Save,
                            IsAuthority
<1>9. ASSUME \/ StageExecutor(r) \/ SetWorkers(r) \/ SetAssistance(r)
             \/ MarkJobDone(r)
      PROVE  IsJobOrder(q.saw)
  BY <1>9 DEF StageExecutor, SetWorkers, SetAssistance, MarkJobDone, Acts, At,
     Accepted, MaySetWorkers, MaySetAssistance, canMarkJobOrderDone, MayExecute
<1>10. CASE StageExecutor(r)
  <2>1. [q.saw EXCEPT !.pending = q.arg].type = q.saw.type
    BY <1>0 DEF Meta
  <2> QED BY <1>9, <1>10, <2>1 DEF StageExecutor, SaveAndAnswer, IsAuthority,
                                   IsJobOrder
<1>11. CASE MarkExecutor(r)
  <2>1. Executed(q.saw).type = q.saw.type
    BY <1>0 DEF Executed, Meta
  <2> QED BY <1>11, <2>1 DEF MarkExecutor, At, SaveAndAnswer, IsAuthority
<1>12. CASE SetWorkers(r)
  <2>1. \A w : [q.saw EXCEPT !.workers = w].type = q.saw.type
    BY <1>0 DEF Meta
  <2> QED BY <1>9, <1>12, <2>1 DEF SetWorkers, SaveAndAnswer, IsAuthority,
                                   IsJobOrder
<1>13. CASE SetAssistance(r)
  <2>1. \A w : [q.saw EXCEPT !.assistance = w].type = q.saw.type
    BY <1>0 DEF Meta
  <2> QED BY <1>9, <1>13, <2>1 DEF SetAssistance, SaveAndAnswer, IsAuthority,
                                   IsJobOrder
<1>14. CASE MarkJobDone(r)
  <2>1. [q.saw EXCEPT !.jobDone = TRUE].type = q.saw.type
    BY <1>0 DEF Meta
  <2> QED BY <1>9, <1>14, <2>1 DEF MarkJobDone, Save, IsAuthority, IsJobOrder
<1>15. CASE BackfillPreparedBy(r)
  <2>1. q.saw.type = "FUND_TRANSFER_REQUEST"
    BY <1>15 DEF BackfillPreparedBy, Backfills
  <2>2. \A a, c, s :
          /\ [Seated(q.saw, "PREPARED_BY", a) EXCEPT
                !.completed = c].type = q.saw.type
          /\ [[Seated(q.saw, "PREPARED_BY", a) EXCEPT !.completed = c]
                EXCEPT !.step = s].type = q.saw.type
    BY <1>0 DEF Seated, Meta
  <2> QED BY <1>15, <2>1, <2>2 DEF BackfillPreparedBy, SaveAndAnswer,
                                   IsAuthority
<1> QED BY <1>2, <1>3, <1>4, <1>6, <1>7, <1>8, <1>10, <1>11, <1>12, <1>13,
           <1>14, <1>15

(***************************************************************************)
(* The steps: those that leave the meta alone, the saves of the others,    *)
(* and the signature.                                                      *)
(***************************************************************************)
Held == {"act", "write", "mark"}

LEMMA PutSlot ==
  ASSUME DOMAIN req = Requests, NEW r \in Requests, NEW q,
         req' = [req EXCEPT ![r] = q]
  PROVE  /\ \A m \in Copies' : m \in Copies \/ (q.pc \in Held /\ m = q.saw)
         /\ \A s \in Requests : req'[s] \in {req[s], q}
BY DEF Copies, Held

\* Parts of the slots that steps put.
LEMMA TurnedSlot ==
  ASSUME PapersInv, NEW r \in Requests, req[r].pc # "idle", NEW pc
  PROVE  /\ [req[r] EXCEPT !.pc = pc].pc = pc
         /\ [req[r] EXCEPT !.pc = pc].saw = req[r].saw
BY Begun DEF Fields

LEMMA SavedSlot ==
  ASSUME PapersInv, NEW r \in Requests, req[r].pc # "idle", NEW m, NEW a
  PROVE  /\ [req[r] EXCEPT !.pc = "write", !.saw = m, !.arg = a].pc = "write"
         /\ [req[r] EXCEPT !.pc = "write", !.saw = m, !.arg = a].saw = m
BY Begun DEF Fields

LEMMA ReadSlot ==
  ASSUME PapersInv, NEW r \in Requests, req[r].pc # "idle", NEW m
  PROVE  /\ [req[r] EXCEPT !.pc = "act", !.saw = m].pc = "act"
         /\ [req[r] EXCEPT !.pc = "act", !.saw = m].saw = m
BY Begun DEF Fields

LEMMA QuietSlot ==
  ASSUME AuthorityInv, PapersInv', UNCHANGED file, NEW r \in Requests, NEW q,
         req' = [req EXCEPT ![r] = q],
         q.pc \in Held => q.saw \in Copies \union {file},
         q.pc = "mark" => ~IsAuthority(q.saw)
  PROVE  AuthorityInv'
<1>1. file \in Meta /\ DOMAIN req = Requests
  BY DEF AuthorityInv, PapersInv, PaperOK
<1>2. Alike(file, file)
  BY <1>1 DEF Alike, Meta
<1>3. ASSUME NEW m \in Copies' PROVE Exact(m) /\ Alike(m, file)
  <2>1. m \in Copies \/ (q.pc \in Held /\ m = q.saw)
    BY <1>1, PutSlot
  <2>2. m \in Copies \union {file}
    BY <2>1
  <2> QED BY <1>2, <2>2 DEF AuthorityInv
<1>4. \A s \in Requests : req'[s].pc = "mark" => ~IsAuthority(req'[s].saw)
  BY <1>1, PutSlot DEF AuthorityInv
<1>5. \A m \in Copies' : Exact(m)' /\ Alike(m, file)'
  BY <1>3 DEF Exact, Alike, IsAuthority, StepsFor, Rank
<1>6. /\ (IsAuthority(file) => file.pending = None /\ file.executing = FALSE)'
      /\ Exact(file)'
  BY DEF AuthorityInv, Exact, IsAuthority, StepsFor, Rank
<1> QED BY <1>4, <1>5, <1>6 DEF AuthorityInv, IsAuthority

LEMMA QuietSteps ==
  ASSUME AuthorityInv, PapersInv', NEW r \in Requests,
         \/ Send(r) \/ ReadMeta(r) \/ Refuse(r) \/ QueryFails(r)
         \/ PlaceSeats(r) \/ PlaceRequested(r) \/ PlaceSigned(r)
         \/ ChangeStatus(r) \/ MoveOnBoard(r) \/ LogReassigned(r)
         \/ ResumeFromBoard(r) \/ PlaceCanvassed(r) \/ PlaceUncanvassed(r)
         \/ AssignExecutor(r) \/ Upload(r) \/ PlaceJobDone(r)
         \/ ReconcileExecution(r) \/ HandOver(r)
  PROVE  AuthorityInv' /\ UNCHANGED file
<1>1. CASE Send(r)
  <2>1. PICK op, a, b : Arrive(r, op, a, b)
    BY <1>1 DEF Send, SendForApproval, SendForRequisition, SendForExecution,
                SendView, SendForTransfer
  <2> DEFINE q == [pc |-> IF op = "board" THEN "move" ELSE "read", op |-> op,
                   actor |-> a, arg |-> b, seen |-> ticket, saw |-> None]
  <2>2. req' = [req EXCEPT ![r] = q] /\ UNCHANGED file /\ q.pc \notin Held
    BY <2>1 DEF Arrive, Held
  <2> QED BY <2>2, QuietSlot DEF Held
<1>2. CASE ReadMeta(r)
  <2> DEFINE q == [req[r] EXCEPT !.pc = "act", !.saw = file]
  <2>1. req' = [req EXCEPT ![r] = q] /\ UNCHANGED file
    BY <1>2 DEF ReadMeta, ReadFile, Hold
  <2>2. q.pc = "act" /\ q.saw = file
    BY <1>2, ReadSlot DEF ReadMeta, ReadFile, AuthorityInv
  <2> QED BY <2>1, <2>2, QuietSlot
<1>3. CASE \/ Refuse(r) \/ QueryFails(r) \/ PlaceSeats(r) \/ PlaceRequested(r)
           \/ PlaceSigned(r) \/ ChangeStatus(r) \/ ResumeFromBoard(r)
           \/ PlaceCanvassed(r) \/ PlaceUncanvassed(r) \/ Upload(r)
           \/ PlaceJobDone(r) \/ ReconcileExecution(r)
           \/ RefuseTransfer(r) \/ Park(r) \/ LogDecision(r)
  <2>1. UNCHANGED file /\ \E q \in {Idle, Lost} : req' = [req EXCEPT ![r] = q]
    BY <1>3 DEF Refuse, QueryFails, PlaceSeats, PlaceRequested, PlaceSigned,
       ChangeStatus, ResumeFromBoard, PlaceCanvassed, PlaceUncanvassed, Upload,
       PlaceJobDone, ReconcileExecution, RefuseTransfer, Park, LogDecision,
       WriteAndAnswer, Answer
  <2>2. \A q \in {Idle, Lost} : q.pc \notin Held /\ q.pc # "mark"
    BY DEF Idle, Lost, Held
  <2> QED BY <2>1, <2>2, QuietSlot
<1>4. CASE \/ MoveOnBoard(r) \/ LogReassigned(r) \/ RequestTransfer(r)
           \/ AcceptTransfer(r) \/ DeclineTransfer(r)
  <2>1. /\ UNCHANGED file /\ req[r].pc # "idle"
        /\ \E pc \in {"read", "note", "park", "decided"} : Turn(r, pc)
    BY <1>4 DEF MoveOnBoard, LogReassigned, RequestTransfer, AcceptTransfer,
                DeclineTransfer, WriteDecided, At
  <2>2. PICK pc \in {"read", "note", "park", "decided"} : Turn(r, pc)
    BY <2>1
  <2> DEFINE q == [req[r] EXCEPT !.pc = pc]
  <2>3. req' = [req EXCEPT ![r] = q] /\ q.pc \notin Held
    BY <2>1, <2>2, TurnedSlot DEF Turn, Held, AuthorityInv
  <2> QED BY <2>1, <2>3, QuietSlot DEF Held
<1>5. CASE AssignExecutor(r)
  <2> DEFINE q == [req[r] EXCEPT !.pc = "mark"]
  <2>1. req' = [req EXCEPT ![r] = q] /\ UNCHANGED file
    BY <1>5 DEF AssignExecutor, Turn
  <2>2. q.saw = req[r].saw /\ req[r].saw \in Copies
    BY <1>5, TurnedSlot DEF AssignExecutor, Acts, At, Copies, AuthorityInv,
                            PapersInv
  <2>3. ~IsAuthority(req[r].saw)
    BY <1>5 DEF AssignExecutor, Acts, At, Accepted, MayExecute, IsJobOrder,
                IsAuthority
  <2> QED BY <2>1, <2>2, <2>3, QuietSlot
<1>6. CASE ReadLog(r)
  <2> DEFINE q == [req[r] EXCEPT
                     !.pc = IF @ = "read" THEN "weigh" ELSE "decide",
                     !.seen = [@ EXCEPT !.transfer = ticket.transfer]]
  <2>1. req' = [req EXCEPT ![r] = q] /\ UNCHANGED file
    BY <1>6 DEF ReadLog
  <2>2. DOMAIN req[r] = Fields
    BY <1>6, Begun DEF ReadLog, AuthorityInv
  <2>3. q.pc \notin Held
    BY <2>2 DEF Held, Fields
  <2> QED BY <2>1, <2>3, QuietSlot DEF Held
<1> QED BY <1>1, <1>2, <1>3, <1>4, <1>5, <1>6 DEF HandOver

LEMMA OthersStep ==
  ASSUME AuthorityInv, PapersInv', NEW r \in Requests,
         req[r].pc \in {"act", "mark"}, NEW m, NEW a,
         Save(r, m, a) \/ SaveAndAnswer(r, m),
         ~IsAuthority(req[r].saw), ~IsAuthority(m)
  PROVE  AuthorityInv' /\ ~IsAuthority(file)
<1> DEFINE w == [req[r] EXCEPT !.pc = "write", !.saw = m, !.arg = a]
<1>1. req[r].saw \in Copies /\ DOMAIN req = Requests /\ file' = m
  BY DEF Copies, AuthorityInv, PapersInv, Save, SaveAndAnswer
<1>2. ~IsAuthority(file) /\ \A c \in Copies : ~IsAuthority(c)
  BY <1>1 DEF AuthorityInv, Alike
<1>3. PICK q : /\ req' = [req EXCEPT ![r] = q]
               /\ q.pc # "mark" /\ (q.pc \in Held => q.saw = m)
  <2>1. CASE Save(r, m, a)
    <3>1. req' = [req EXCEPT ![r] = w]
      BY <2>1 DEF Save
    <3>2. w.pc = "write" /\ w.saw = m
      BY SavedSlot DEF AuthorityInv
    <3> QED BY <3>1, <3>2
  <2>2. CASE SaveAndAnswer(r, m)
    <3>1. req' = [req EXCEPT ![r] = Idle]
      BY <2>2 DEF SaveAndAnswer, Answer
    <3>2. Idle.pc # "mark" /\ Idle.pc \notin Held
      BY DEF Idle, Held
    <3> QED BY <3>1, <3>2
  <2> HIDE DEF w
  <2> QED BY <2>1, <2>2
<1>4. ASSUME NEW c \in Copies' PROVE ~IsAuthority(c)
  <2>1. c \in Copies \/ (q.pc \in Held /\ c = q.saw)
    BY <1>1, <1>3, PutSlot
  <2> QED BY <1>2, <1>3, <2>1
<1>5. \A s \in Requests : req'[s].pc = "mark" => ~IsAuthority(req'[s].saw)
  BY <1>1, <1>3, PutSlot DEF AuthorityInv
<1>6. ~IsAuthority(file') /\ \A c \in Copies' : Exact(c)' /\ Alike(c, file)'
  BY <1>1, <1>4 DEF Exact, Alike, IsAuthority
<1> QED BY <1>2, <1>5, <1>6 DEF AuthorityInv, Exact, IsAuthority

LEMMA OtherStep ==
  ASSUME AuthorityInv, PapersInv', NEW r \in Requests,
         \/ SetSeats(r) \/ RequestApproval(r) \/ SeatFromBoard(r)
         \/ SavePricing(r) \/ UndoCanvass(r) \/ StageExecutor(r)
         \/ MarkExecutor(r) \/ SetWorkers(r) \/ SetAssistance(r)
         \/ MarkJobDone(r) \/ BackfillPreparedBy(r)
         \/ SignStep(r) /\ req[r].op = "status"
  PROVE  AuthorityInv' /\ ~IsAuthority(file)
<1>1. PICK m, a : Save(r, m, a) \/ SaveAndAnswer(r, m)
  BY DEF SetSeats, RequestApproval, SeatFromBoard, SavePricing, UndoCanvass,
         StageExecutor, MarkExecutor, SetWorkers, SetAssistance, MarkJobDone,
         BackfillPreparedBy, SignStep
<1>2. req[r].pc \in {"act", "mark"}
  BY DEF SetSeats, RequestApproval, SeatFromBoard, SavePricing, UndoCanvass,
         StageExecutor, MarkExecutor, SetWorkers, SetAssistance, MarkJobDone,
         BackfillPreparedBy, SignStep, Acts, At
<1>3. ~IsAuthority(req[r].saw) /\ ~IsAuthority(file')
  BY OtherSaves DEF AuthorityInv
<1>4. ~IsAuthority(m)
  BY <1>1, <1>3 DEF Save, SaveAndAnswer
<1> QED BY <1>1, <1>2, <1>3, <1>4, OthersStep

LEMMA SignatureStep ==
  ASSUME AuthorityInv, PapersInv', NEW r \in Requests, SignStep(r),
         req[r].op = "complete"
  PROVE  AuthorityInv' /\ (IsAuthority(file) => NextSignature)
<1> DEFINE q == req[r]
           n == Signed(q.saw, q.actor)
           a == HolderAfter(q.saw, q.actor)
<1>1. /\ At(r, "complete", "act") /\ SaveFinds(q) /\ Save(r, n, a)
      /\ MayComplete(q)
  BY DEF SignStep, Acts, At, Accepted
<1>2. /\ q.saw \in Copies /\ PaperOK(q.saw) /\ q.actor \in Agents
      /\ PaperOK(file) /\ DOMAIN req = Requests /\ file' = n
  BY <1>1, Begun DEF At, Copies, AuthorityInv, PapersInv, ArgOK, Save
<1>3. CanComplete(q.saw, q.actor, q.seen) /\ q.saw.step \in Steps
  BY <1>1, <1>2, StepsForType DEF MayComplete, CanComplete, PaperOK
<1>4. CASE ~IsAuthority(q.saw)
  <2>1. n.type = q.saw.type
    BY <1>2, <1>3, SignedFacts DEF PaperOK, Person
  <2>2. ~IsAuthority(n)
    BY <1>4, <2>1 DEF IsAuthority
  <2> HIDE DEF n, a
  <2> QED BY <1>1, <1>4, <2>2, OthersStep DEF At
<1>5. CASE IsAuthority(q.saw)
  <2>1. /\ IsAuthority(file) /\ file.step = q.saw.step
        /\ q.saw = [file EXCEPT !.step = q.saw.step,
                                !.completed = q.saw.completed]
        /\ file.pending = None /\ file.executing = FALSE
        /\ Exact(file) /\ Exact(q.saw)
    BY <1>1, <1>2, <1>5 DEF AuthorityInv, Alike, SaveFinds, At
  <2>2. q.saw = file
    <3>1. q.saw.type = file.type /\ q.saw.skips = file.skips
      BY <1>2, <2>1 DEF PaperOK, Meta
    <3>2. q.saw.completed = file.completed
      BY <1>5, <2>1, <3>1 DEF Exact, StepsFor
    <3> QED BY ZenonT(40), <1>2, <2>1, <3>2 DEF PaperOK, Meta
  <2>3. q.actor = file.seat[file.step] /\ file.step # "DONE"
    BY <1>3, <1>5, <2>2 DEF CanComplete
  <2>4. /\ n = [file EXCEPT !.step = NextStep(file),
                            !.completed = file.completed \union {file.step}]
        /\ n.completed = {s \in StepsFor(n) : Rank(s) < Rank(n.step)}
        /\ Ranks(n) = Ranks(file)
    <3>1. n = Signed(file, file.seat[file.step])
      BY <2>2, <2>3
    <3> HIDE DEF n
    <3> QED BY <1>2, <2>1, <2>3, <3>1, AuthoritySigned
  <2> HIDE DEF n, a
  <2>5. /\ n.step = NextStep(file) /\ IsAuthority(n)
        /\ n.completed = file.completed \union {file.step}
        /\ n.pending = None /\ n.executing = FALSE
    BY <1>2, <2>1, <2>4 DEF PaperOK, Meta, IsAuthority
  <2>6. NextSignature
    <3>1. file \in Meta /\ file.step \in StepsFor(file)
      BY <1>2, <2>3 DEF PaperOK
    <3>2. Chain!Sign
      <4>1. /\ Rank(n.step) = Chain!After(Ranks(file), Rank(file.step))
            /\ Rank(file.step) \in 1..7
        BY <2>5, <3>1, NextIsAfter
      <4>2. Ranks(file)' = Ranks(n) /\ Rank(file.step)' = Rank(n.step)
        BY <1>2 DEF Ranks, StepsFor, Rank
      <4>3. UNCHANGED Ranks(file)
        BY <2>4, <4>2
      <4> QED BY <4>1, <4>2, <4>3 DEF Chain!Sign, Ranks
    <3> QED BY <1>1, <1>2, <2>3, <2>5, <3>2 DEF NextSignature
  <2>7. ASSUME NEW c \in Copies' PROVE Exact(c) /\ Alike(c, n)
    <3> DEFINE w == [req[r] EXCEPT !.pc = "write", !.saw = n, !.arg = a]
    <3>1. req' = [req EXCEPT ![r] = w]
      BY <1>1 DEF Save
    <3>2. w.pc = "write" /\ w.saw = n
      BY <1>1, SavedSlot DEF At, AuthorityInv
    <3> HIDE DEF w
    <3>3. c \in Copies \/ c = n
      BY <1>2, <3>1, <3>2, PutSlot
    <3>4. CASE c \in Copies
      <4>1. Exact(c) /\ IsAuthority(c)
            /\ c = [file EXCEPT !.step = c.step, !.completed = c.completed]
        BY <2>1, <3>4 DEF AuthorityInv, Alike
      <4>2. \A s, d : [n EXCEPT !.step = s, !.completed = d]
                        = [file EXCEPT !.step = s, !.completed = d]
        BY <1>2, <2>4 DEF PaperOK, Meta
      <4> QED BY <2>5, <4>1, <4>2 DEF Alike
    <3>5. CASE c = n
      <4>1. n = [n EXCEPT !.step = n.step, !.completed = n.completed]
        BY <1>2, <2>4 DEF PaperOK, Meta
      <4> QED BY <2>4, <2>5, <3>5, <4>1 DEF Exact, Alike
    <3> QED BY <3>3, <3>4, <3>5
  <2>8. \A s \in Requests : req'[s].pc = "mark" => ~IsAuthority(req'[s].saw)
    <3> DEFINE w == [req[r] EXCEPT !.pc = "write", !.saw = n, !.arg = a]
    <3>1. req' = [req EXCEPT ![r] = w]
      BY <1>1 DEF Save
    <3>2. w.pc = "write"
      BY <1>1, SavedSlot DEF At, AuthorityInv
    <3> HIDE DEF w
    <3> QED BY <1>2, <3>1, <3>2 DEF AuthorityInv
  <2>9. Exact(n) /\ file' = n
    BY <1>2, <2>4 DEF Exact
  <2>10. \A c \in Copies' : Exact(c)' /\ Alike(c, file)'
    BY <2>7, <2>9 DEF Exact, Alike, IsAuthority, StepsFor, Rank
  <2>11. Exact(file)' /\ file'.pending = None /\ file'.executing = FALSE
    BY <2>5, <2>9 DEF Exact, IsAuthority, StepsFor, Rank
  <2> QED BY <2>6, <2>8, <2>10, <2>11 DEF AuthorityInv, IsAuthority
<1> QED BY <1>4, <1>5

LEMMA AuthorityInit == Init => AuthorityInv
<1> SUFFICES ASSUME Init PROVE AuthorityInv
  OBVIOUS
<1>1. PICK d \in Drafts : file = Intake(d) /\ req = [r \in Requests |-> Idle]
  BY DEF Init
<1>2. PapersInv /\ PaperOK(file)
  BY PapersInit DEF PapersInv
<1>3. Copies = {} /\ \A r \in Requests : req[r].pc # "mark"
  BY <1>1 DEF Copies, Idle
<1>4. /\ file.pending = None /\ file.executing = FALSE
      /\ file.type = d.type /\ file.skips = d.skips
  BY <1>1 DEF Intake
<1>5. ASSUME IsAuthority(file)
      PROVE  file.completed = {s \in StepsFor(file) : Rank(s) < Rank(file.step)}
  <2>1. file.completed = {} /\ file.step = First(StepsFor(file))
    BY <1>1, <1>4, <1>5 DEF Intake, Prepares, IsAuthority, StepsFor
  <2>2. StepsFor(file) \in SUBSET Steps /\ file.step \in StepsFor(file)
    BY <1>2, <1>5, <2>1, StepsForType, StepsAre, FirstIsFirst DEF PaperOK,
       StepsFor, StepsOf, IsAuthority, Skippable
  <2>3. \A s \in StepsFor(file) :
          /\ Rank(file.step) <= Rank(s)
          /\ Rank(s) \in 1..7 /\ Rank(file.step) \in 1..7
    BY <2>1, <2>2, FirstIsFirst, StepsAre
  <2> QED BY <2>1, <2>3
<1> QED BY <1>2, <1>3, <1>4, <1>5 DEF AuthorityInv, Exact

LEMMA AuthorityStep ==
  AuthorityInv /\ [Next]_deskVars =>
    AuthorityInv' /\ (IsAuthority(file) => NextSignature \/ UNCHANGED file)
<1> SUFFICES ASSUME AuthorityInv, [Next]_deskVars
             PROVE  /\ AuthorityInv'
                    /\ IsAuthority(file) => NextSignature \/ UNCHANGED file
  OBVIOUS
<1>0. PapersInv'
  BY PapersStep DEF AuthorityInv
<1>1. CASE Restart
  <2>1. /\ UNCHANGED file /\ Copies' \subseteq Copies
        /\ \A s \in Requests : req'[s] \in {req[s], Lost}
    BY <1>1 DEF Restart, Copies, Lost, IsIdle
  <2>2. \A s \in Requests : req'[s].pc = "mark" => ~IsAuthority(req'[s].saw)
    BY <2>1 DEF Lost, AuthorityInv
  <2> QED BY <1>0, <2>1, <2>2 DEF AuthorityInv, Exact, Alike, IsAuthority,
                                  StepsFor, Rank
<1>2. ASSUME NEW r \in Requests, Send(r) \/ Serve(r) \/ QueryFails(r)
      PROVE  /\ AuthorityInv'
             /\ IsAuthority(file) => NextSignature \/ UNCHANGED file
  <2>1. SignStep(r) => req[r].op \in {"complete", "status"}
    BY DEF SignStep, Signs
  <2> QED BY <1>0, <1>2, <2>1, QuietSteps, OtherStep, SignatureStep
          DEF Serve, Approve, Execute
<1>3. CASE UNCHANGED deskVars
  <2>1. UNCHANGED <<file, req>> /\ Copies' = Copies
    BY <1>3 DEF deskVars, Copies
  <2> QED BY <1>0, <2>1 DEF AuthorityInv, Exact, Alike, IsAuthority, StepsFor,
                            Rank
<1> QED BY <1>1, <1>2, <1>3 DEF Next

\* However many requests for an Authority cross, fail and are repeated, and
\* wherever the board moves its ticket: its meta changes only by the signature
\* of the current step, by the holder of its seat, and loses none.
THEOREM AuthoritiesAreSignedInTurn == Spec => AuthorityIsSignedInTurn
<1>1. AuthorityInv /\ [Next]_deskVars =>
        AuthorityInv' /\ [IsAuthority(file) => NextSignature]_file
  BY AuthorityStep
<1> QED BY <1>1, AuthorityInit, PTL DEF Spec, AuthorityIsSignedInTurn

(***************************************************************************)
(* One request at a time: its copies are the row and the meta as they are  *)
(* now, and between its two queries it knows whom the ticket will be with. *)
(* The board writes the ticket first, and what it may refuse then is as if *)
(* it had not been asked.  A transfer takes the ticket away, until it is   *)
(* placed again.                                                           *)
(***************************************************************************)
Alone == \A q, r \in Requests : ~IsIdle(q) /\ ~IsIdle(r) => q = r

\* A ticket with this meta belongs to a.
Fits(m, a) == /\ BoardSeat(m) # None => a = BoardSeat(m)
              /\ AwaitsExecution(m) => a = None

\* Nothing is for confirmation or approved too early, and a fund transfer was
\* prepared at intake, so that its page has nothing to repair.  Only what can be
\* transferred is.
Sound(m, row) ==
  /\ row.status = "FOR_CONFIRMATION" => m.step = "DONE"
  /\ IsJobOrder(m) /\ m.step = "DONE" => row.output
  /\ m.type = "FUND_TRANSFER_REQUEST" =>
       "PREPARED_BY" \in m.completed /\ m.step # "PREPARED_BY"
  /\ row.transfer # None => SupportsTransfer(m)

\* On the board, and the ticket is moved.
Seating(q) == q.op = "board" /\ q.pc \in {"note", "read", "act"}

\* A query of q has been answered and another is still to come.
Between(q) == q.pc \in {"write", "mark"} \/ Seating(q)

\* Whom the last query of q leaves the ticket with.
Gives(q) == IF q.op \in {"undo", "board"} THEN ticket.assigned ELSE q.arg

Current(q) ==
  /\ q.pc \in {"read", "weigh", "decide", "act", "write"} /\ q.op # "board"
       => q.seen = ticket
  /\ q.pc \in {"read", "weigh"} /\ q.op = "transfer" => SupportsTransfer(file)
  /\ q.pc = "decide" => q.seen.transfer # None
  /\ q.pc = "park" => q.seen.status = ticket.status /\ SupportsTransfer(file)
  /\ q.pc \in {"act", "write", "mark"} => q.saw = file
  /\ Seating(q) => ticket.assigned = q.arg
  /\ q.pc = "move" \/ Seating(q) => ~Refusable(q)
  /\ q.pc = "mark" => file.step = "DONE"
  /\ q.pc = "write" => Fits(file, Gives(q))
  /\ q.pc = "write" /\ q.op = "jobdone" => IsJobOrder(file) /\ file.step # "DONE"

\* A transfer has the ticket.
Loan == lent /\ SupportsTransfer(file)

LoanStep == lent' = (Lends \/ (lent /\ ~Places))

Placed ==
  (\A r \in Requests : ~Between(req[r])) => Fits(file, ticket.assigned) \/ Loan

PlacedInv ==
  /\ Alone /\ (\A r \in Requests : Current(req[r])) /\ Placed
  /\ Sound(file, ticket)

OthersIdle(r) == \A s \in Requests \ {r} : IsIdle(s)

LEMMA PutCurrent ==
  ASSUME NEW r \in Requests, OthersIdle(r),
         \A s \in Requests \ {r} : req'[s] = req[s], Current(req[r])'
  PROVE  Alone' /\ \A s \in Requests : Current(req[s])'
<1>1. \A s \in Requests \ {r} : req'[s].pc = "idle"
  BY DEF OthersIdle, IsIdle
<1>2. Alone'
  BY <1>1 DEF Alone, IsIdle
<1>3. ASSUME NEW s \in Requests PROVE Current(req[s])'
  <2>1. CASE s # r
    BY <1>1, <2>1 DEF Current, Seating
  <2> QED BY <2>1
<1> QED BY <1>2, <1>3

\* What does not place the ticket leaves it on loan.
LEMMA LoanStays ==
  ASSUME LoanStep, NEW r \in Requests, OthersIdle(r), req[r].pc # "write",
         ~At(r, "board", "act"), Loan, file'.type = file.type
  PROVE  Loan'
<1>1. ~Places
  BY DEF Places, OthersIdle, IsIdle, At
<1> QED BY <1>1 DEF LoanStep, Loan, SupportsTransfer, IsAuthority

LEMMA NoLoan ==
  ASSUME IsJobOrder(file) \/ file.type = "FUND_TRANSFER_REQUEST"
  PROVE  ~Loan
BY DEF Loan, SupportsTransfer, IsJobOrder, IsAuthority

\* A request that is answered: all others are idle, and nothing is to come.
LEMMA AnswerPlaced ==
  ASSUME PapersInv, NEW r \in Requests, OthersIdle(r), Answer(r),
         Fits(file', ticket'.assigned) \/ Loan', Sound(file', ticket')
  PROVE  PlacedInv'
<1>1. (\A s \in Requests \ {r} : req'[s] = req[s]) /\ req'[r].pc = "idle"
  BY DEF Answer, PapersInv, Idle
<1>2. Current(req[r])'
  BY <1>1 DEF Current, Seating
<1>3. Placed' /\ Sound(file, ticket)'
  BY DEF Placed, Fits, Sound, BoardSeat, AwaitsExecution, IsJobOrder,
         SupportsTransfer, IsAuthority
<1> QED BY <1>1, <1>2, <1>3, PutCurrent DEF PlacedInv

LEMMA SendPlaced ==
  ASSUME PapersInv, PlacedInv, LoanStep, case = "serial", NEW r \in Requests,
         Send(r), Belongs(req'[r])
  PROVE  PlacedInv'
<1>1. Settled /\ ~Refusable(req'[r])
  BY DEF Belongs
<1>2. \A s \in Requests : req[s].pc = "idle"
  BY <1>1 DEF Settled, Busy, IsIdle
<1>3. PICK op, a, b : /\ Arrive(r, op, a, b)
                      /\ op = "transfer" => SupportsTransfer(file)
  BY DEF Send, SendForApproval, SendForRequisition, SendForExecution, SendView,
         SendForTransfer
<1>4. /\ \A s \in Requests \ {r} : req'[s] = req[s]
      /\ req'[r].op = op /\ req'[r].seen = ticket
      /\ req'[r].pc = IF op = "board" THEN "move" ELSE "read"
      /\ UNCHANGED <<ticket, file>>
  BY <1>3 DEF Arrive, PapersInv
<1>5. ~Refusable(req[r])'
  BY <1>1, <1>4 DEF Refusable, BoardSeat, IsAuthority
<1>6. Current(req[r])'
  BY <1>3, <1>4, <1>5 DEF Current, Seating, SupportsTransfer, IsAuthority
<1>7. OthersIdle(r)
  BY <1>2 DEF OthersIdle, IsIdle
<1>8. Placed' /\ Sound(file, ticket)'
  <2>1. Fits(file, ticket.assigned) \/ Loan
    BY <1>2 DEF PlacedInv, Placed, Between, Seating
  <2>2. Loan => Loan'
    BY <1>2, <1>4, <1>7, LoanStays DEF At
  <2> QED BY <1>4, <2>1, <2>2 DEF PlacedInv, Placed, Fits, Sound, BoardSeat,
               AwaitsExecution, IsJobOrder, SupportsTransfer, IsAuthority
<1> QED BY <1>4, <1>6, <1>7, <1>8, PutCurrent DEF PlacedInv

\* What a request at work knows.
LEMMA AtWork ==
  ASSUME PlacedInv, NEW r \in Requests, req[r].pc # "idle"
  PROVE  /\ OthersIdle(r) /\ Current(req[r]) /\ Sound(file, ticket)
         /\ ~Between(req[r]) => Fits(file, ticket.assigned) \/ Loan
<1>1. OthersIdle(r)
  BY DEF PlacedInv, Alone, OthersIdle, IsIdle
<1>2. ~Between(req[r]) => \A s \in Requests : ~Between(req[s])
  BY <1>1 DEF OthersIdle, IsIdle, Between, Seating
<1> QED BY <1>1, <1>2 DEF PlacedInv, Placed

\* What is left of a slot by the steps that change some of it.
LEMMA SlotParts ==
  ASSUME PapersInv, NEW r \in Requests, req[r].pc # "idle",
         NEW pc, NEW m, NEW a
  PROVE  /\ LET q == [req[r] EXCEPT !.pc = pc]
            IN  /\ q.pc = pc /\ q.op = req[r].op /\ q.arg = req[r].arg
                /\ q.seen = req[r].seen /\ q.saw = req[r].saw
         /\ LET q == [req[r] EXCEPT !.pc = pc, !.saw = m]
            IN  /\ q.pc = pc /\ q.op = req[r].op /\ q.arg = req[r].arg
                /\ q.seen = req[r].seen /\ q.saw = m
         /\ LET q == [req[r] EXCEPT !.pc = pc, !.saw = m, !.arg = a]
            IN  /\ q.pc = pc /\ q.op = req[r].op /\ q.arg = a
                /\ q.seen = req[r].seen /\ q.saw = m
BY Begun DEF Fields

\* A save whose second query follows.
LEMMA SavePlaced ==
  ASSUME PapersInv, PlacedInv, NEW r \in Requests, NEW m, NEW a,
         req[r].pc = "act", Save(r, m, a), Sound(m, ticket),
         Fits(m, IF req[r].op \in {"undo", "board"} THEN ticket.assigned ELSE a),
         req[r].op = "jobdone" => IsJobOrder(m) /\ m.step # "DONE"
  PROVE  PlacedInv'
<1>1. OthersIdle(r) /\ Current(req[r])
  BY AtWork
<1>2. /\ \A s \in Requests \ {r} : req'[s] = req[s]
      /\ req'[r] = [req[r] EXCEPT !.pc = "write", !.saw = m, !.arg = a]
      /\ file' = m /\ ticket' = ticket
  BY DEF Save, PapersInv
<1>3. /\ req'[r].pc = "write" /\ req'[r].op = req[r].op /\ req'[r].arg = a
      /\ req'[r].seen = req[r].seen /\ req'[r].saw = m
  BY <1>2, SlotParts
<1>4. req[r].op # "board" => req'[r].seen = ticket'
  BY <1>1, <1>2, <1>3 DEF Current
<1>5. /\ Fits(file, Gives(req[r]))'
      /\ IsJobOrder(file)' <=> IsJobOrder(m)
      /\ Sound(file, ticket)'
  BY <1>2, <1>3 DEF Gives, Fits, Sound, BoardSeat, AwaitsExecution, IsJobOrder,
                    SupportsTransfer, IsAuthority
<1>6. Current(req[r])'
  BY <1>2, <1>3, <1>4, <1>5 DEF Current, Seating
<1>7. Placed'
  BY <1>3 DEF Placed, Between
<1> QED BY <1>1, <1>2, <1>5, <1>6, <1>7, PutCurrent DEF PlacedInv

\* Papers of one step with the same signatures are as sound as each other.
LEMMA SameSound ==
  ASSUME NEW m, NEW n, NEW row, Sound(m, row), n.type = m.type,
         n.step = m.step, m.completed \subseteq n.completed
  PROVE  Sound(n, row)
BY DEF Sound, IsJobOrder, SupportsTransfer, IsAuthority

LEMMA SignedSound ==
  ASSUME NEW m, PaperOK(m), NEW row, Sound(m, row), m.step # "DONE",
         AtLastApprover(m) => row.output, NEW a \in Person
  PROVE  /\ Sound(Signed(m, a), row)
         /\ Signed(m, a).type = m.type
         /\ Fits(Signed(m, a), HolderAfter(m, a))
<1> DEFINE n == Signed(m, a)
<1>1. m \in Meta /\ m.step \in StepsFor(m) /\ m.step \in Steps
  BY StepsForType DEF PaperOK
<1>2. /\ n \in Meta /\ n.type = m.type /\ n.step = NextStep(m)
      /\ n.completed = m.completed \union {m.step}
  BY <1>1, SignedFacts
<1>3. n.step = "DONE" => m.pending = None \/ n.executing
  <2> DEFINE new == [Seated(m, m.step, a) EXCEPT
                       !.step = NextStep(m), !.completed = @ \union {m.step},
                       !.executing = FALSE]
  <2>1. n = IF new.step # "DONE" \/ m.pending = None THEN new
            ELSE [new EXCEPT !.executing = TRUE, !.pending = None]
    BY DEF Signed
  <2>2. new \in Meta
    <3> DEFINE next == NextStep(m)
    <3>1. next \in Steps \union {"DONE"}
      BY <1>1, NextStepType, StepsForType
    <3> HIDE DEF next
    <3>2. Seated(m, m.step, a) \in Meta
      BY <1>1 DEF Seated, Meta
    <3>3. [Seated(m, m.step, a) EXCEPT
             !.step = next, !.completed = @ \union {m.step},
             !.executing = FALSE] \in Meta
      BY <1>1, <3>1, <3>2 DEF Meta
    <3> QED BY <3>3 DEF next
  <2> HIDE DEF new, n
  <2>3. new.step # "DONE" \/ m.pending = None \/ n.executing
    BY <2>1, <2>2 DEF Meta
  <2> QED BY <2>1, <2>3
<1> HIDE DEF n
<1>4. n.step # "PREPARED_BY"
  <2>1. \/ n.step = "DONE"
        \/ n.step \in Steps /\ Rank(m.step) < Rank(n.step)
    <3>1. Later(m, m.step) \in SUBSET Steps
      BY StepsForType, <1>1 DEF Later
    <3>2. NextStep(m) # "DONE" => NextStep(m) \in Later(m, m.step)
      BY <1>1, <3>1, NextStepType, FirstIsFirst DEF NextStep
    <3> QED BY <1>2, <3>1, <3>2 DEF Later
  <2>2. Rank(m.step) \in 1..7 /\ Rank("PREPARED_BY") = 1
    BY <1>1, StepsAre DEF Rank
  <2> QED BY <2>1, <2>2
<1>5. n.step = "DONE" /\ IsJobOrder(n) => row.output
  BY <1>1, <1>2, NextStepType DEF AtLastApprover, IsJobOrder
<1>6. Sound(n, row)
  BY <1>2, <1>4, <1>5 DEF Sound, SupportsTransfer, IsAuthority
<1>7. Fits(n, HolderAfter(m, a))
  <2>1. HolderAfter(m, a) = IF n.step = "DONE" THEN m.pending ELSE BoardSeat(n)
    BY DEF HolderAfter, n
  <2> QED BY <1>2, <1>3, <2>1 DEF Fits, BoardSeat, AwaitsExecution, Meta
<1> QED BY <1>2, <1>6, <1>7 DEF n

\* What a request that decides works from.
LEMMA AtAct ==
  ASSUME PapersInv, PlacedInv, NEW r \in Requests, req[r].pc = "act"
  PROVE  /\ OthersIdle(r) /\ req[r].saw = file /\ PaperOK(file) /\ file \in Meta
         /\ Sound(file, ticket) /\ ticket \in Row /\ ArgOK(req[r])
         /\ req[r].op = "board" =>
              ticket.assigned = req[r].arg /\ ~Refusable(req[r])
         /\ req[r].op # "board" =>
              req[r].seen = ticket /\ (Fits(file, ticket.assigned) \/ Loan)
<1>1. OthersIdle(r) /\ Current(req[r]) /\ Sound(file, ticket)
  BY AtWork
<1>2. req[r].op # "board" => Fits(file, ticket.assigned) \/ Loan
  BY AtWork DEF Between, Seating
<1>3. ArgOK(req[r])
  BY Begun
<1> QED BY <1>1, <1>2, <1>3 DEF Current, Seating, PapersInv, PaperOK

LEMMA SeatsPlaced ==
  ASSUME PapersInv, PlacedInv, NEW r \in Requests, SetSeats(r)
  PROVE  PlacedInv'
<1> DEFINE m == Filled(file, req[r].arg)
<1>1. req[r].pc = "act" /\ req[r].op = "seats" /\ req[r].saw = file
  BY AtAct DEF SetSeats, Acts, At
<1>2. /\ OthersIdle(r) /\ file \in Meta /\ Sound(file, ticket)
      /\ Fits(file, ticket.assigned) \/ Loan
  BY <1>1, AtAct
<1>3. /\ m.type = file.type /\ m.step = file.step
      /\ m.completed = file.completed /\ m.executing = file.executing
  BY <1>2 DEF Filled, Meta
<1>4. IF IsJobOrder(m) /\ m.step = "DONE" THEN SaveAndAnswer(r, m)
      ELSE Save(r, m, BoardSeat(m))
  BY <1>1 DEF SetSeats
<1> HIDE DEF m
<1>5. Sound(m, ticket)
  BY <1>2, <1>3, SameSound
<1>6. CASE IsJobOrder(m) /\ m.step = "DONE"
  <2>1. Fits(m, ticket.assigned)
    BY <1>2, <1>3, <1>6, NoLoan DEF Fits, BoardSeat, AwaitsExecution,
                                    IsJobOrder
  <2> QED BY <1>2, <1>4, <1>5, <1>6, <2>1, AnswerPlaced DEF SaveAndAnswer
<1>7. CASE ~(IsJobOrder(m) /\ m.step = "DONE")
  <2>1. Fits(m, BoardSeat(m))
    BY <1>7 DEF Fits, AwaitsExecution
  <2> QED BY <1>1, <1>4, <1>5, <1>7, <2>1, SavePlaced
<1> QED BY <1>6, <1>7

LEMMA RequestPlaced ==
  ASSUME PapersInv, PlacedInv, NEW r \in Requests, RequestApproval(r)
  PROVE  PlacedInv'
<1> DEFINE a == req[r].arg
           m == Seated(file, file.step, a)
<1>1. /\ req[r].pc = "act" /\ req[r].op = "request" /\ req[r].saw = file
      /\ file.step # "DONE"
  BY AtAct DEF RequestApproval, Acts, At, Accepted, MayRequest
<1>2. PaperOK(file) /\ file \in Meta /\ Sound(file, ticket)
  BY <1>1, AtAct
<1>3. file.step \in Steps
  BY <1>1, <1>2, StepsForType DEF PaperOK
<1>4. /\ m.type = file.type /\ m.step = file.step
      /\ m.completed = file.completed /\ m.seat[file.step] = a
  BY <1>2, <1>3 DEF Seated, Meta
<1>5. Save(r, m, a)
  BY <1>1 DEF RequestApproval
<1> HIDE DEF m, a
<1>6. Sound(m, ticket) /\ Fits(m, a)
  BY <1>1, <1>2, <1>4, SameSound DEF Fits, BoardSeat, AwaitsExecution
<1> QED BY <1>1, <1>5, <1>6, SavePlaced

LEMMA SignPlaced ==
  ASSUME PapersInv, PlacedInv, NEW r \in Requests, SignStep(r)
  PROVE  PlacedInv'
<1> DEFINE a == req[r].actor
<1>1. req[r].pc = "act" /\ req[r].op \in {"complete", "status"}
  BY DEF SignStep, Acts, At
<1>2. /\ PaperOK(file) /\ Sound(file, ticket) /\ ArgOK(req[r])
      /\ req[r].saw = file /\ req[r].seen = ticket
  BY <1>1, AtAct
<1>3. CanComplete(file, a, ticket) /\ Save(r, Signed(file, a), HolderAfter(file, a))
  BY <1>1, <1>2 DEF SignStep, Signs, Acts, At, Accepted, MayComplete,
                    MayChangeStatus
<1>4. a \in Person
  BY <1>1, <1>2 DEF ArgOK, Person
<1>5. /\ Sound(Signed(file, a), ticket)
      /\ Fits(Signed(file, a), HolderAfter(file, a))
  BY <1>2, <1>3, <1>4, SignedSound DEF CanComplete
<1> HIDE DEF a
<1> QED BY <1>1, <1>3, <1>5, SavePlaced

LEMMA BoardPlaced ==
  ASSUME PapersInv, PlacedInv, NEW r \in Requests, SeatFromBoard(r)
  PROVE  PlacedInv'
<1> DEFINE a == req[r].arg
           m == Seated(file, file.step, a)
           n == Executed(file)
<1>1. req[r].pc = "act" /\ req[r].op = "board"
  BY DEF SeatFromBoard, Acts, At
<1>2. /\ PaperOK(file) /\ file \in Meta /\ Sound(file, ticket)
      /\ req[r].saw = file /\ ticket.assigned = a /\ OthersIdle(r)
  BY <1>1, AtAct
<1>3. IF file.step # "DONE" THEN SaveAndAnswer(r, m) ELSE Save(r, n, a)
  BY <1>2 DEF SeatFromBoard
<1>4. CASE file.step # "DONE"
  <2>1. file.step \in Steps
    BY <1>2, <1>4, StepsForType DEF PaperOK
  <2>2. /\ m.type = file.type /\ m.step = file.step
        /\ m.completed = file.completed /\ m.seat[file.step] = a
    BY <1>2, <2>1 DEF Seated, Meta
  <2> HIDE DEF m
  <2>3. Sound(m, ticket) /\ Fits(m, a)
    BY <1>2, <1>4, <2>2, SameSound DEF Fits, BoardSeat, AwaitsExecution
  <2> QED BY <1>2, <1>3, <1>4, <2>3, AnswerPlaced DEF SaveAndAnswer
<1>5. CASE file.step = "DONE"
  <2>1. /\ n.type = file.type /\ n.step = file.step
        /\ n.completed = file.completed /\ n.executing = TRUE
    BY <1>2 DEF Executed, Meta
  <2> HIDE DEF n
  <2>2. Sound(n, ticket) /\ Fits(n, ticket.assigned)
    BY <1>2, <1>5, <2>1, SameSound DEF Fits, BoardSeat, AwaitsExecution
  <2> QED BY <1>1, <1>3, <1>5, <2>2, SavePlaced
<1> QED BY <1>4, <1>5

LEMMA PricingPlaced ==
  ASSUME PapersInv, PlacedInv, NEW r \in Requests, SavePricing(r)
  PROVE  PlacedInv'
<1> DEFINE a == req[r].actor
           s == Signed(file, a)
           n == Canvassed(file, a, req[r].arg)
<1>1. req[r].pc = "act" /\ req[r].op = "pricing"
  BY DEF SavePricing, Acts, At
<1>2. /\ PaperOK(file) /\ file \in Meta /\ Sound(file, ticket) /\ ArgOK(req[r])
      /\ req[r].saw = file /\ req[r].seen = ticket
  BY <1>1, AtAct
<1>3. /\ file.step = "CANVASSED_BY" /\ CanComplete(file, a, ticket)
      /\ Save(r, n, BoardSeat(n))
  BY <1>1, <1>2 DEF SavePricing, Acts, At, Accepted, MayPrice
<1>4. ~IsJobOrder(file)
  BY <1>2, <1>3 DEF PaperOK, StepsFor, StepsOf, IsJobOrder
<1>5. a \in Person /\ MaySign(file)
  BY <1>1, <1>2, <1>3, MaySignIf DEF ArgOK, Person
<1>6. Sound(s, ticket) /\ s.type = file.type /\ PaperOK(s)
  BY <1>2, <1>3, <1>5, SignedSound, SignedPaper DEF CanComplete
<1> HIDE DEF s
<1>7. n.type = s.type /\ n.step = s.step /\ n.completed = s.completed
  <2>1. n = s \/ n = Seated(s, "APPROVED_BY", req[r].arg)
    BY DEF Canvassed, s
  <2> HIDE DEF n
  <2> QED BY <1>6, <2>1 DEF Seated, PaperOK, Meta
<1> HIDE DEF n
<1>8. Sound(n, ticket) /\ Fits(n, BoardSeat(n))
  BY <1>4, <1>6, <1>7, SameSound DEF Fits, AwaitsExecution, IsJobOrder
<1> QED BY <1>1, <1>3, <1>8, SavePlaced

LEMMA UndoPlaced ==
  ASSUME PapersInv, PlacedInv, NEW r \in Requests, UndoCanvass(r)
  PROVE  PlacedInv'
<1> DEFINE n == Uncanvassed(file)
<1>1. req[r].pc = "act" /\ req[r].op = "undo"
  BY DEF UndoCanvass, Acts, At
<1>2. file \in Meta /\ Sound(file, ticket) /\ req[r].saw = file
  BY <1>1, AtAct
<1>3. /\ Save(r, n, None) /\ file.step # "DONE"
      /\ file.type = "ITEM_REQUISITION_SLIP"
  BY <1>1, <1>2 DEF UndoCanvass, Acts, At, Accepted, MayUndo
<1>4. /\ n.type = file.type /\ n.step = "CANVASSED_BY"
      /\ n.seat["CANVASSED_BY"] = None
  BY <1>2, StepsAre DEF Uncanvassed, Meta
<1> HIDE DEF n
<1>5. BoardSeat(n) = None /\ ~AwaitsExecution(n)
  BY <1>4 DEF BoardSeat, AwaitsExecution
<1>6. Fits(n, ticket.assigned)
  BY <1>5 DEF Fits
<1>7. Sound(n, ticket)
  BY <1>2, <1>3, <1>4 DEF Sound, IsJobOrder, SupportsTransfer, IsAuthority
<1> QED BY <1>1, <1>3, <1>6, <1>7, SavePlaced

\* A save that is the last query, and leaves the chain where it is.
LEMMA StayPlaced ==
  ASSUME PapersInv, PlacedInv, NEW r \in Requests, NEW m, SaveAndAnswer(r, m),
         OthersIdle(r), Sound(file, ticket), Fits(file, ticket.assigned),
         m.type = file.type, m.step = file.step, BoardSeat(m) = BoardSeat(file),
         file.completed \subseteq m.completed,
         m.executing = file.executing \/ ~IsJobOrder(file)
  PROVE  PlacedInv'
<1>1. Sound(m, ticket) /\ Fits(m, ticket.assigned)
  BY SameSound DEF Fits, AwaitsExecution, IsJobOrder
<1> QED BY <1>1, AnswerPlaced DEF SaveAndAnswer

LEMMA TeamPlaced ==
  ASSUME PapersInv, PlacedInv, NEW r \in Requests,
         StageExecutor(r) \/ SetWorkers(r) \/ SetAssistance(r)
  PROVE  PlacedInv'
<1> DEFINE q == req[r]
           w == {q.arg} \ {Executor(q.saw, q.seen)}
           s == {q.arg} \ {None}
<1>1. q.pc = "act" /\ q.op \in {"execute", "workers", "assist"}
  BY DEF StageExecutor, SetWorkers, SetAssistance, Acts, At
<1>2. /\ OthersIdle(r) /\ file \in Meta /\ Sound(file, ticket)
      /\ Fits(file, ticket.assigned) /\ q.saw = file
  <2>1. IsJobOrder(file)
    BY <1>1, AtAct DEF StageExecutor, SetWorkers, SetAssistance, Acts, At,
       Accepted, MaySetWorkers, MaySetAssistance, MayExecute
  <2> QED BY <1>1, <2>1, AtAct, NoLoan
<1>3. PICK m \in {[file EXCEPT !.pending = q.arg], [file EXCEPT !.workers = w],
                  [file EXCEPT !.assistance = s]} : SaveAndAnswer(r, m)
  BY <1>2 DEF StageExecutor, SetWorkers, SetAssistance
<1> HIDE DEF w, s
<1>4. /\ m.type = file.type /\ m.step = file.step /\ m.seat = file.seat
      /\ m.completed = file.completed /\ m.executing = file.executing
  BY <1>2 DEF Meta
<1> QED BY <1>2, <1>3, <1>4, StayPlaced DEF BoardSeat

LEMMA JobDonePlaced ==
  ASSUME PapersInv, PlacedInv, NEW r \in Requests, MarkJobDone(r)
  PROVE  PlacedInv'
<1> DEFINE m == [file EXCEPT !.jobDone = TRUE]
<1>1. req[r].pc = "act" /\ req[r].op = "jobdone"
  BY DEF MarkJobDone, Acts, At
<1>2. /\ PaperOK(file) /\ file \in Meta /\ Sound(file, ticket)
      /\ req[r].saw = file
  BY <1>1, AtAct
<1>3. IsJobOrder(file) /\ ~file.jobDone /\ Save(r, m, BoardSeat(m))
  BY <1>1, <1>2 DEF MarkJobDone, Acts, At, Accepted, canMarkJobOrderDone,
                    MayExecute
<1>4. file.step # "DONE"
  BY <1>2, <1>3 DEF PaperOK
<1>5. /\ m.type = file.type /\ m.step = file.step
      /\ m.completed = file.completed
  BY <1>2 DEF Meta
<1> HIDE DEF m
<1>6. /\ Sound(m, ticket) /\ Fits(m, BoardSeat(m))
      /\ IsJobOrder(m) /\ m.step # "DONE"
  BY <1>2, <1>3, <1>4, <1>5, SameSound DEF Fits, AwaitsExecution, IsJobOrder
<1> QED BY <1>1, <1>3, <1>6, SavePlaced

\* The page finds nothing to repair about Prepared By but its seat.
LEMMA BackfillPlaced ==
  ASSUME PapersInv, PlacedInv, NEW r \in Requests, BackfillPreparedBy(r)
  PROVE  PlacedInv'
<1> DEFINE creator == IF file.seat["PREPARED_BY"] # None
                      THEN file.seat["PREPARED_BY"] ELSE req[r].arg
           m == [Seated(file, "PREPARED_BY", creator) EXCEPT
                   !.completed = @ \union {"PREPARED_BY"}]
<1>1. req[r].pc = "act" /\ req[r].op = "view"
  BY DEF BackfillPreparedBy, Acts, At
<1>2. /\ OthersIdle(r) /\ file \in Meta /\ Sound(file, ticket)
      /\ Fits(file, ticket.assigned) /\ req[r].saw = file
  <2>1. file.type = "FUND_TRANSFER_REQUEST"
    BY <1>1, AtAct DEF BackfillPreparedBy, Backfills
  <2> QED BY <1>1, <2>1, AtAct, NoLoan
<1>3. /\ file.type = "FUND_TRANSFER_REQUEST"
      /\ "PREPARED_BY" \in file.completed /\ file.step # "PREPARED_BY"
  BY <1>2 DEF BackfillPreparedBy, Backfills, Sound
<1>4. SaveAndAnswer(r, m)
  BY <1>2, <1>3 DEF BackfillPreparedBy
<1> HIDE DEF creator
<1>5. /\ m.type = file.type /\ m.step = file.step
      /\ file.completed \subseteq m.completed
      /\ m.step # "DONE" => m.seat[m.step] = file.seat[file.step]
  BY <1>2, <1>3 DEF Seated, Meta
<1> HIDE DEF m
<1>6. BoardSeat(m) = BoardSeat(file) /\ ~IsJobOrder(file)
  BY <1>3, <1>5 DEF BoardSeat, IsJobOrder
<1> QED BY <1>2, <1>4, <1>5, <1>6, StayPlaced

LEMMA MarkPlaced ==
  ASSUME PapersInv, PlacedInv, NEW r \in Requests, MarkExecutor(r)
  PROVE  PlacedInv'
<1> DEFINE m == Executed(file)
<1>1. req[r].pc = "mark"
  BY DEF MarkExecutor, At
<1>2. /\ OthersIdle(r) /\ Sound(file, ticket) /\ req[r].saw = file
      /\ file.step = "DONE" /\ file \in Meta
  BY <1>1, AtWork DEF Current, PapersInv, PaperOK
<1>3. SaveAndAnswer(r, m)
  BY <1>2 DEF MarkExecutor
<1>4. /\ m.type = file.type /\ m.step = file.step
      /\ m.completed = file.completed /\ m.executing = TRUE
  BY <1>2 DEF Executed, Meta
<1> HIDE DEF m
<1>5. Sound(m, ticket) /\ Fits(m, ticket.assigned)
  BY <1>2, <1>4, SameSound DEF Fits, BoardSeat, AwaitsExecution
<1> QED BY <1>2, <1>3, <1>5, AnswerPlaced DEF SaveAndAnswer

(***************************************************************************)
(* What writes the ticket.                                                 *)
(***************************************************************************)
LEMMA WritePlaced ==
  ASSUME PapersInv, NEW r \in Requests, NEW row, WriteAndAnswer(r, row),
         OthersIdle(r), Sound(file, ticket), Fits(file, row.assigned) \/ Loan',
         row.status = "FOR_CONFIRMATION" => file.step = "DONE",
         ticket.output => row.output, row.transfer \in {ticket.transfer, None}
  PROVE  PlacedInv'
<1>1. Sound(file, row)
  BY DEF Sound
<1> QED BY <1>1, AnswerPlaced DEF WriteAndAnswer

LEMMA HandedRow ==
  ASSUME ticket \in Row, NEW q, NEW s, q.seen = ticket
  PROVE  /\ Handed(q, s).assigned = q.arg /\ Handed(q, s).status = s
         /\ Handed(q, s).output = ticket.output
         /\ Handed(q, s).transfer = ticket.transfer
BY DEF Handed, BoardWrite, Row

\* What a request knows that is to write the ticket yet.
LEMMA AtWrite ==
  ASSUME PapersInv, PlacedInv, NEW r \in Requests, req[r].pc = "write"
  PROVE  /\ OthersIdle(r) /\ req[r].saw = file /\ ticket \in Row
         /\ Sound(file, ticket) /\ Fits(file, Gives(req[r]))
         /\ req[r].op # "board" => req[r].seen = ticket
         /\ req[r].op = "jobdone" => IsJobOrder(file) /\ file.step # "DONE"
BY AtWork DEF Current, PapersInv

LEMMA PlacesPlaced ==
  ASSUME PapersInv, PlacedInv, NEW r \in Requests,
         \/ PlaceSeats(r) \/ PlaceRequested(r) \/ PlaceSigned(r)
         \/ ResumeFromBoard(r) \/ PlaceCanvassed(r) \/ PlaceUncanvassed(r)
         \/ PlaceJobDone(r)
  PROVE  PlacedInv'
<1> DEFINE q == req[r]
<1>1. q.pc = "write"
  BY DEF PlaceSeats, PlaceRequested, PlaceSigned, ResumeFromBoard,
         PlaceCanvassed, PlaceUncanvassed, PlaceJobDone, At
<1>2. /\ OthersIdle(r) /\ q.saw = file /\ ticket \in Row /\ Sound(file, ticket)
      /\ Fits(file, Gives(q))
      /\ q.op # "board" => q.seen = ticket
  BY <1>1, AtWrite
<1>3. ticket.status = "FOR_CONFIRMATION" => file.step = "DONE"
  BY <1>2 DEF Sound
<1>4. q.op # "board" =>
        \A s : /\ Handed(q, s).assigned = q.arg /\ Handed(q, s).status = s
               /\ Handed(q, s).output = ticket.output
               /\ Handed(q, s).transfer = ticket.transfer
  BY <1>2, HandedRow
<1>5. /\ \A s : [ticket EXCEPT !.status = s].assigned = ticket.assigned
      /\ \A s : [ticket EXCEPT !.status = s].status = s
      /\ \A s : [ticket EXCEPT !.status = s].output = ticket.output
      /\ \A s : [ticket EXCEPT !.status = s].transfer = ticket.transfer
  BY <1>2 DEF Row
<1>6. CASE PlaceSeats(r)
  <2> DEFINE s == IF q.arg \notin {None, q.seen.assigned}
                     /\ q.seen.status = "OPEN"
                  THEN "IN_PROGRESS" ELSE ticket.status
  <2>1. q.op = "seats" /\ WriteAndAnswer(r, Handed(q, s)) /\ Gives(q) = q.arg
    BY <1>6 DEF PlaceSeats, At, Gives
  <2>2. s = "FOR_CONFIRMATION" => file.step = "DONE"
    BY <1>3
  <2> HIDE DEF s, q
  <2> QED BY <1>2, <1>4, <2>1, <2>2, WritePlaced
<1>7. CASE PlaceRequested(r)
  <2> DEFINE row == [ticket EXCEPT !.status = "IN_PROGRESS",
                                   !.assigned = q.arg]
  <2>1. WriteAndAnswer(r, row) /\ Gives(q) = q.arg
    BY <1>7 DEF PlaceRequested, At, Gives
  <2>2. /\ row.assigned = q.arg /\ row.status = "IN_PROGRESS"
        /\ row.output = ticket.output /\ row.transfer = ticket.transfer
    BY <1>2 DEF Row
  <2> HIDE DEF row, q
  <2> QED BY <1>2, <2>1, <2>2, WritePlaced
<1>8. CASE PlaceSigned(r)
  <2>1. q.op \in {"complete", "status"} /\ Gives(q) = q.arg
    BY <1>8 DEF PlaceSigned, At, Gives
  <2>2. PICK s \in {"IN_PROGRESS", "FOR_CONFIRMATION"} :
          /\ s = "FOR_CONFIRMATION" => file.step = "DONE"
          /\ \/ WriteAndAnswer(r, Handed(q, s))
             \/ /\ WriteAndAnswer(r, [ticket EXCEPT !.status = s])
                /\ file.step = "DONE" /\ ~IsJobOrder(file)
    <3>1. CASE file.step # "DONE"
      BY <1>2, <1>8, <3>1 DEF PlaceSigned
    <3>2. CASE file.step = "DONE" /\ ~IsJobOrder(file)
      BY <1>2, <1>8, <3>2 DEF PlaceSigned
    <3>3. CASE file.step = "DONE" /\ IsJobOrder(file)
      BY <1>2, <1>8, <3>3 DEF PlaceSigned
    <3> QED BY <3>1, <3>2, <3>3
  <2>3. CASE WriteAndAnswer(r, Handed(q, s))
    <3> HIDE DEF q
    <3> QED BY <1>2, <1>4, <2>1, <2>2, <2>3, WritePlaced
  <2>4. CASE /\ WriteAndAnswer(r, [ticket EXCEPT !.status = s])
             /\ file.step = "DONE" /\ ~IsJobOrder(file)
    <3>1. Fits(file, ticket.assigned)
      BY <2>4 DEF Fits, BoardSeat, AwaitsExecution
    <3> HIDE DEF q
    <3> QED BY <1>2, <1>5, <2>2, <2>4, <3>1, WritePlaced
  <2> QED BY <2>2, <2>3, <2>4
<1>9. CASE ResumeFromBoard(r)
  <2>1. PICK row \in {ticket, [ticket EXCEPT !.status = "IN_PROGRESS"]} :
          WriteAndAnswer(r, row)
    BY <1>9 DEF ResumeFromBoard
  <2>2. Gives(q) = ticket.assigned
    BY <1>9 DEF ResumeFromBoard, At, Gives
  <2>3. /\ row.assigned = ticket.assigned /\ row.output = ticket.output
        /\ row.status \in {ticket.status, "IN_PROGRESS"}
        /\ row.transfer = ticket.transfer
    BY <1>5, <2>1
  <2> HIDE DEF q
  <2> QED BY <1>2, <1>3, <2>1, <2>2, <2>3, WritePlaced
<1>10. CASE PlaceCanvassed(r)
  <2>1. /\ q.op = "pricing" /\ Gives(q) = q.arg
        /\ WriteAndAnswer(r, Handed(q, "IN_PROGRESS"))
    BY <1>10 DEF PlaceCanvassed, At, Gives
  <2> HIDE DEF q
  <2> QED BY <1>2, <1>4, <2>1, WritePlaced
<1>11. CASE PlaceUncanvassed(r)
  <2>1. /\ Gives(q) = ticket.assigned
        /\ WriteAndAnswer(r, [ticket EXCEPT !.status = "IN_PROGRESS"])
    BY <1>11 DEF PlaceUncanvassed, At, Gives
  <2> HIDE DEF q
  <2> QED BY <1>2, <1>5, <2>1, WritePlaced
<1>12. CASE PlaceJobDone(r)
  <2>1. q.op = "jobdone" /\ Gives(q) = q.arg
    BY <1>12 DEF PlaceJobDone, At, Gives
  <2>2. ~ReadyForConfirmation(file)
    BY <1>1, <2>1, AtWrite DEF ReadyForConfirmation
  <2>3. WriteAndAnswer(r, Handed(q, "IN_PROGRESS"))
    BY <1>2, <1>12, <2>2 DEF PlaceJobDone
  <2> HIDE DEF q
  <2> QED BY <1>2, <1>4, <2>1, <2>3, WritePlaced
<1> QED BY <1>6, <1>7, <1>8, <1>9, <1>10, <1>11, <1>12

LEMMA MovesPlaced ==
  ASSUME PapersInv, PlacedInv, LoanStep, NEW r \in Requests,
         ChangeStatus(r) \/ Upload(r) \/ ReconcileExecution(r)
  PROVE  PlacedInv'
<1> DEFINE q == req[r]
<1>1. q.pc = "act" /\ Accepted(q) /\ q.op \in {"status", "upload", "view"}
  BY DEF ChangeStatus, Upload, ReconcileExecution, Acts, At
<1>2. /\ OthersIdle(r) /\ q.saw = file /\ q.seen = ticket /\ ticket \in Row
      /\ Sound(file, ticket)
  BY <1>1, AtAct
<1>3. ticket.status = "FOR_CONFIRMATION" => file.step = "DONE"
  BY <1>2 DEF Sound
<1>4. CASE ChangeStatus(r)
  <2> DEFINE row == [ticket EXCEPT !.status = q.arg]
  <2>1. WriteAndAnswer(r, row)
    BY <1>4 DEF ChangeStatus
  <2>2. row.status = "FOR_CONFIRMATION" => file.step = "DONE"
    BY <1>2, <1>4 DEF ChangeStatus, Signs, Acts, At, Row
  <2>3. /\ row.assigned = ticket.assigned /\ row.output = ticket.output
        /\ row.transfer = ticket.transfer
    BY <1>2 DEF Row
  <2>4. Fits(file, row.assigned) \/ Loan'
    <3>1. Loan => Loan'
      BY <1>1, <1>2, <2>1, LoanStays DEF WriteAndAnswer, At
    <3> QED BY <1>1, <2>3, <3>1, AtAct
  <2> HIDE DEF row, q
  <2> QED BY <1>2, <2>1, <2>2, <2>3, <2>4, WritePlaced
<1>5. CASE Upload(r)
  <2> DEFINE o == ticket.output \/ q.arg = "job_output"
             row == [ticket EXCEPT !.output = o]
  <2>1. WriteAndAnswer(r, row)
    BY <1>2, <1>5 DEF Upload
  <2>2. /\ row.assigned = ticket.assigned /\ row.status = ticket.status
        /\ ticket.output => row.output
        /\ row.transfer = ticket.transfer
    BY <1>2 DEF Row
  <2>3. IsJobOrder(file)
    BY <1>2, <1>5 DEF Upload, Acts, At, Accepted, MayUpload, MayExecute
  <2>4. Fits(file, ticket.assigned)
    BY <1>1, <2>3, AtAct, NoLoan
  <2> HIDE DEF row, q
  <2> QED BY <1>2, <1>3, <2>1, <2>2, <2>4, WritePlaced
<1>6. CASE ReconcileExecution(r)
  <2> DEFINE a == IF ticket.assigned # None THEN None ELSE ticket.assigned
             row == [ticket EXCEPT !.status = "IN_PROGRESS", !.assigned = a]
  <2>1. WriteAndAnswer(r, row) /\ AwaitsExecution(file)
    BY <1>2, <1>6 DEF ReconcileExecution, Reconciles, Row
  <2>2. /\ row.assigned = None /\ row.status = "IN_PROGRESS"
        /\ row.output = ticket.output /\ row.transfer = ticket.transfer
    BY <1>2 DEF Row
  <2>3. Fits(file, None)
    BY <2>1 DEF Fits, BoardSeat, AwaitsExecution
  <2> HIDE DEF row, q
  <2> QED BY <1>2, <2>1, <2>2, <2>3, WritePlaced
<1> QED BY <1>4, <1>5, <1>6

\* What the board refuses after it moved the ticket does no harm.
LEMMA RefusePlaced ==
  ASSUME PapersInv, PlacedInv, LoanStep, NEW r \in Requests, Refuse(r)
  PROVE  PlacedInv'
<1>1. req[r].pc = "act" /\ Answer(r) /\ UNCHANGED <<ticket, file>>
  BY DEF Refuse
<1>2. OthersIdle(r) /\ Sound(file, ticket) /\ req[r].saw = file
  BY <1>1, AtAct
<1>3. Fits(file, ticket.assigned) \/ Loan'
  <2>1. CASE req[r].op # "board"
    <3>1. Loan => Loan'
      BY <1>1, <1>2, <2>1, LoanStays DEF At
    <3> QED BY <1>1, <2>1, <3>1, AtAct
  <2>2. CASE req[r].op = "board"
    <3>1. ~MaySeatFromBoard(req[r])
      BY <2>2 DEF Refuse, Accepted, SaveFinds
    <3>2. ticket.assigned = req[r].arg /\ ~Refusable(req[r])
      BY <1>1, <2>2, AtAct
    <3>3. CASE file.step = "DONE"
      BY <1>2, <3>1, <3>3 DEF MaySeatFromBoard, Fits, BoardSeat, AwaitsExecution
    <3>4. CASE file.step # "DONE"
      BY <1>2, <2>2, <3>1, <3>2, <3>4
      DEF MaySeatFromBoard, Refusable, Fits, BoardSeat, AwaitsExecution
    <3> QED BY <3>3, <3>4
  <2> QED BY <2>1, <2>2
<1> QED BY <1>1, <1>2, <1>3, AnswerPlaced

\* The steps between the queries that leave the request in flight.
LEMMA TurnPlaced ==
  ASSUME PapersInv, PlacedInv, LoanStep, NEW r \in Requests,
         \/ ReadMeta(r) \/ MoveOnBoard(r) \/ LogReassigned(r)
         \/ AssignExecutor(r)
  PROVE  PlacedInv'
<1> DEFINE q == req[r]
<1>1. q.pc \in {"read", "move", "note", "act"} /\ UNCHANGED file
  BY DEF ReadMeta, ReadFile, MoveOnBoard, LogReassigned, AssignExecutor, Acts,
         At
<1>2. OthersIdle(r) /\ Current(q) /\ Sound(file, ticket) /\ ticket \in Row
  BY <1>1, AtWork DEF PapersInv
<1>3. CASE ReadMeta(r)
  <2>1. /\ \A s \in Requests \ {r} : req'[s] = req[s]
        /\ req'[r] = [q EXCEPT !.pc = "act", !.saw = file]
        /\ q.pc = "read" /\ ticket' = ticket
    BY <1>3 DEF ReadMeta, ReadFile, Hold, PapersInv
  <2>2. /\ req'[r].pc = "act" /\ req'[r].saw = file /\ req'[r].op = q.op
        /\ req'[r].arg = q.arg /\ req'[r].seen = q.seen
    BY <2>1, SlotParts
  <2>3. Refusable(q) <=> Refusable(req[r])'
    BY <1>1, <2>2 DEF Refusable, BoardSeat, IsAuthority
  <2>4. Current(req[r])'
    BY <1>1, <1>2, <2>1, <2>2, <2>3 DEF Current, Seating
  <2>5. Placed'
    <3>1. CASE q.op = "board"
      BY <2>2, <3>1 DEF Placed, Between, Seating
    <3>2. CASE q.op # "board"
      <4>1. Fits(file, ticket.assigned) \/ Loan
        BY <2>1, <3>2, AtWork DEF Between, Seating
      <4>2. Loan => Loan'
        BY <1>1, <1>2, <2>1, LoanStays DEF At
      <4> QED BY <1>1, <2>1, <4>1, <4>2 DEF Placed, Fits, BoardSeat, AwaitsExecution,
                                      IsJobOrder
    <3> QED BY <3>1, <3>2
  <2>6. Sound(file, ticket)'
    BY <1>1, <1>2, <2>1 DEF Sound, IsJobOrder, SupportsTransfer, IsAuthority
  <2> QED BY <1>2, <2>1, <2>4, <2>5, <2>6, PutCurrent DEF PlacedInv
<1>4. CASE MoveOnBoard(r) \/ LogReassigned(r)
  <2>1. PICK pc \in {"note", "read"} :
          /\ \A s \in Requests \ {r} : req'[s] = req[s]
          /\ req'[r] = [q EXCEPT !.pc = pc]
    BY <1>4 DEF MoveOnBoard, LogReassigned, Turn, PapersInv
  <2>2. q.pc \in {"move", "note"} /\ q.op = "board"
    BY <1>4 DEF MoveOnBoard, LogReassigned, At
  <2>3. /\ req'[r].pc = pc /\ req'[r].op = "board"
        /\ req'[r].arg = q.arg
    BY <2>1, <2>2, SlotParts
  <2>4. /\ ticket'.assigned = q.arg
        /\ ticket'.status \in {ticket.status, "IN_PROGRESS"}
        /\ ticket'.output = ticket.output
        /\ ticket'.transfer \in {ticket.transfer, None}
    BY <1>2, <1>4, <2>2 DEF MoveOnBoard, LogReassigned, At, Row, Current,
                            Seating
  <2>5. ~Refusable(q) /\ (Refusable(q) <=> Refusable(req[r])')
    BY <1>1, <1>2, <2>2, <2>3 DEF Current, Seating, Refusable, BoardSeat,
                                  IsAuthority
  <2>6. Current(req[r])'
    BY <2>3, <2>4, <2>5 DEF Current, Seating
  <2>7. Placed' /\ Sound(file, ticket)'
    BY <1>1, <1>2, <2>3, <2>4 DEF Placed, Between, Seating, Sound, IsJobOrder,
                                  SupportsTransfer, IsAuthority
  <2> QED BY <1>2, <2>1, <2>6, <2>7, PutCurrent DEF PlacedInv
<1>5. CASE AssignExecutor(r)
  <2> DEFINE s == IF q.seen.status \in {"OPEN", "FOR_CONFIRMATION"}
                  THEN "IN_PROGRESS" ELSE ticket.status
  <2>1. /\ \A t \in Requests \ {r} : req'[t] = req[t]
        /\ req'[r] = [q EXCEPT !.pc = "mark"]
        /\ q.pc = "act" /\ q.op = "execute"
    BY <1>5 DEF AssignExecutor, Acts, At, Turn, PapersInv
  <2>2. /\ q.saw = file /\ file.step = "DONE"
        /\ ticket' = [ticket EXCEPT !.assigned = q.arg, !.status = s]
    BY <1>5, <2>1, AtAct DEF AssignExecutor, Row
  <2>3. /\ req'[r].pc = "mark" /\ req'[r].op = q.op /\ req'[r].saw = q.saw
    BY <2>1, SlotParts
  <2>4. ticket'.output = ticket.output /\ ticket'.transfer = ticket.transfer
    BY <1>2, <2>2 DEF Row
  <2>5. Current(req[r])'
    BY <1>1, <2>1, <2>2, <2>3 DEF Current, Seating
  <2>6. Placed'
    BY <2>3 DEF Placed, Between
  <2>7. Sound(file, ticket)'
    BY <1>1, <1>2, <2>2, <2>4 DEF Sound, IsJobOrder, SupportsTransfer,
                                  IsAuthority
  <2> QED BY <1>2, <2>1, <2>5, <2>6, <2>7, PutCurrent DEF PlacedInv
<1> QED BY <1>3, <1>4, <1>5

\* Transfers look at no paper.  What they do to the ticket, a loan excuses.
LEMMA TransferPlaced ==
  ASSUME PapersInv, PlacedInv, LoanStep, NEW r \in Requests, HandOver(r)
  PROVE  PlacedInv'
<1> DEFINE q == req[r]
<1>1. /\ q.pc \in {"read", "weigh", "park", "decide", "decided"}
      /\ q.pc = "read" => q.op # "board"
      /\ UNCHANGED file
  BY DEF HandOver, ReadLog, RefuseTransfer, RequestTransfer, Park,
         AcceptTransfer, DeclineTransfer, WriteDecided, LogDecision,
         WriteAndAnswer, At, TransferOps
<1>2. /\ OthersIdle(r) /\ Current(q) /\ Sound(file, ticket)
      /\ Fits(file, ticket.assigned) \/ Loan
  BY <1>1, AtWork DEF Between, Seating
<1>3. ticket \in Row /\ DOMAIN req = Requests
  BY DEF PapersInv
<1>4. Loan => Loan'
  BY <1>1, <1>2, LoanStays DEF At
<1>5. ASSUME SupportsTransfer(file), ticket'.assigned # ticket.assigned,
             Park(r) \/ AcceptTransfer(r) \/ DeclineTransfer(r)
      PROVE  Loan'
  <2>1. Lends
    BY <1>5 DEF Lends
  <2> QED BY <1>1, <1>5, <2>1 DEF Loan, LoanStep, SupportsTransfer, IsAuthority
<1>6. ASSUME Fits(file, ticket'.assigned) \/ Loan'
      PROVE  Placed' /\ (Fits(file', ticket'.assigned) \/ Loan')
  BY <1>1, <1>6 DEF Placed, Fits, BoardSeat, AwaitsExecution, IsJobOrder
<1>7. ASSUME ticket'.status = "FOR_CONFIRMATION" => file.step = "DONE",
             ticket'.output = ticket.output,
             ticket'.transfer # None => SupportsTransfer(file)
      PROVE  Sound(file', ticket') /\ Sound(file, ticket)'
  BY <1>1, <1>2, <1>7 DEF Sound, IsJobOrder, SupportsTransfer, IsAuthority
<1>8. /\ ticket.status = "FOR_CONFIRMATION" => file.step = "DONE"
      /\ ticket.transfer # None => SupportsTransfer(file)
  BY <1>2 DEF Sound
<1>9. CASE RefuseTransfer(r)
  <2>1. Answer(r) /\ ticket' = ticket
    BY <1>9 DEF RefuseTransfer
  <2> QED BY <1>2, <1>4, <1>6, <1>7, <1>8, <2>1, AnswerPlaced
<1>10. CASE ReadLog(r)
  <2>1. /\ q.op \in TransferOps /\ q.op # "board" /\ ticket' = ticket
        /\ q.pc \in {"read", "weigh"}
        /\ q.pc = "weigh" => q.seen.transfer # None
    BY <1>10 DEF ReadLog, TransferOps
  <2>2. q.seen = ticket
    BY <1>2, <2>1 DEF Current
  <2>3. [q.seen EXCEPT !.transfer = ticket.transfer] = ticket
    BY <1>3, <2>2 DEF Row
  <2>4. req' = [req EXCEPT ![r] =
                  [q EXCEPT !.pc = IF q.pc = "read" THEN "weigh" ELSE "decide",
                            !.seen = [@ EXCEPT !.transfer = ticket.transfer]]]
    BY <1>10 DEF ReadLog
  <2>5. /\ req'[r].pc = IF q.pc = "read" THEN "weigh" ELSE "decide"
        /\ req'[r].op = q.op /\ req'[r].seen = ticket
    BY <1>1, <1>3, <2>3, <2>4, Begun DEF Fields
  <2>6. q.op = "transfer" /\ q.pc = "read" => SupportsTransfer(file)
    BY <1>2 DEF Current
  <2>7. Current(req[r])'
    BY <1>1, <2>1, <2>2, <2>5, <2>6 DEF Current, Seating, SupportsTransfer,
                                        IsAuthority
  <2>8. \A s \in Requests \ {r} : req'[s] = req[s]
    BY <1>3, <2>4
  <2> QED BY <1>2, <1>4, <1>6, <1>7, <1>8, <2>1, <2>7, <2>8, PutCurrent
          DEF PlacedInv
<1>11. CASE RequestTransfer(r)
  <2>1. /\ q.op = "transfer" /\ q.pc = "weigh" /\ Turn(r, "park")
        /\ \E t : ticket' = [ticket EXCEPT !.transfer = t]
    BY <1>11 DEF RequestTransfer, At
  <2>2. q.seen = ticket /\ SupportsTransfer(file)
    BY <1>2, <2>1 DEF Current
  <2>3. /\ ticket'.status = ticket.status /\ ticket'.output = ticket.output
        /\ ticket'.assigned = ticket.assigned
    BY <1>3, <2>1 DEF Row
  <2>4. /\ \A s \in Requests \ {r} : req'[s] = req[s]
        /\ req'[r] = [q EXCEPT !.pc = "park"]
    BY <1>3, <2>1 DEF Turn
  <2>5. /\ req'[r].pc = "park" /\ req'[r].seen = q.seen
    BY <1>1, <2>4, SlotParts
  <2>6. Current(req[r])'
    BY <1>1, <2>2, <2>3, <2>5 DEF Current, Seating, SupportsTransfer,
                                  IsAuthority
  <2> QED BY <1>2, <1>4, <1>6, <1>7, <1>8, <2>2, <2>3, <2>4, <2>6, PutCurrent
          DEF PlacedInv
<1>12. CASE Park(r)
  <2>1. q.pc = "park" /\ Answer(r)
    BY <1>12 DEF Park, At, WriteAndAnswer
  <2>2. q.seen.status = ticket.status /\ SupportsTransfer(file)
    BY <1>2, <2>1 DEF Current
  <2>3. /\ ticket'.status \in {ticket.status, "ESCALATED"}
        /\ ticket'.output = ticket.output
        /\ ticket'.transfer = ticket.transfer
    BY <1>3, <1>12, <2>2 DEF Park, WriteAndAnswer, Row
  <2>4. Fits(file, ticket'.assigned) \/ Loan'
    BY <1>2, <1>4, <1>5, <1>12, <2>2
  <2> QED BY <1>2, <1>6, <1>7, <1>8, <2>1, <2>3, <2>4, AnswerPlaced
<1>13. CASE AcceptTransfer(r) \/ DeclineTransfer(r)
  <2>1. /\ q.pc = "decide" /\ q.op # "board" /\ Turn(r, "decided")
    BY <1>13 DEF AcceptTransfer, DeclineTransfer, WriteDecided, At
  <2>2. q.seen = ticket /\ SupportsTransfer(file)
    BY <1>2, <1>8, <2>1 DEF Current
  <2>3. /\ ticket'.status \in {ticket.status, "IN_PROGRESS", "OPEN"}
        /\ ticket'.output = ticket.output
        /\ ticket'.transfer = ticket.transfer
    BY <1>3, <1>13, <2>2 DEF AcceptTransfer, DeclineTransfer, WriteDecided,
                             Resumed, Row
  <2>4. Fits(file, ticket'.assigned) \/ Loan'
    BY <1>2, <1>4, <1>5, <1>13, <2>2
  <2>5. /\ \A s \in Requests \ {r} : req'[s] = req[s]
        /\ req'[r] = [q EXCEPT !.pc = "decided"]
    BY <1>3, <2>1 DEF Turn
  <2>6. req'[r].pc = "decided"
    BY <1>1, <2>5, SlotParts
  <2>7. Current(req[r])'
    BY <2>6 DEF Current, Seating
  <2> QED BY <1>2, <1>6, <1>7, <1>8, <2>3, <2>4, <2>5, <2>7, PutCurrent
          DEF PlacedInv
<1>14. CASE LogDecision(r)
  <2>1. Answer(r) /\ ticket' = [ticket EXCEPT !.transfer = None]
    BY <1>14 DEF LogDecision, WriteAndAnswer
  <2>2. /\ ticket'.status = ticket.status /\ ticket'.output = ticket.output
        /\ ticket'.assigned = ticket.assigned /\ ticket'.transfer = None
    BY <1>3, <2>1 DEF Row
  <2> QED BY <1>2, <1>4, <1>6, <1>7, <1>8, <2>1, <2>2, AnswerPlaced
<1> QED BY <1>9, <1>10, <1>11, <1>12, <1>13, <1>14 DEF HandOver

LEMMA ServePlaced ==
  ASSUME PapersInv, PlacedInv, LoanStep, NEW r \in Requests, Serve(r)
  PROVE  PlacedInv'
BY SeatsPlaced, RequestPlaced, SignPlaced, BoardPlaced, PricingPlaced,
   UndoPlaced, TeamPlaced, JobDonePlaced, BackfillPlaced, MarkPlaced,
   PlacesPlaced, MovesPlaced, RefusePlaced, TurnPlaced, TransferPlaced
DEF Serve, Approve, Execute

CaseInv == PapersInv /\ (case = "serial" => PlacedInv)

LEMMA IntakeUnsigned ==
  ASSUME NEW d \in Drafts PROVE Intake(d).step # "DONE"
<1> DEFINE left == (StepsOf(d.type) \ d.skips)
                     \ (IF Prepares(d) THEN {"PREPARED_BY"} ELSE {})
<1>1. left \in SUBSET Steps /\ left # {}
  <2>1. /\ d.type \in Types /\ d.skips \in Skippable(d.type)
        /\ Prepares(d) => d.type = "FUND_TRANSFER_REQUEST"
    BY ProceduralAssumption DEF ProceduralAssumption, Prepares
  <2>2. left \in SUBSET Steps
    BY <2>1 DEF Steps
  <2>3. left # {}
    BY <2>1 DEF StepsOf, Types, Skippable
  <2> QED BY <2>2, <2>3
<1>2. Intake(d).step = First(left)
  BY DEF Intake
<1> HIDE DEF left
<1>3. First(left) \in Steps
  BY <1>1, FirstIsFirst
<1> QED BY <1>2, <1>3, StepsAre

\* Who submits the fund transfer of the serial case is known.
LEMMA SerialIntake ==
  ASSUME NEW d \in DraftsOf("serial"), Intake(d).type = "FUND_TRANSFER_REQUEST"
  PROVE  /\ "PREPARED_BY" \in Intake(d).completed
         /\ Intake(d).step # "PREPARED_BY"
<1>1. d.type = "FUND_TRANSFER_REQUEST"
  BY DEF Intake
<1>2. d = Transfer
  BY <1>1 DEF DraftsOf, MCDrafts, Slip, OpenSlip, UnpreparedTransfer, JobOrder,
              LastSeatJobOrder, Authority, Draft
<1>3. d.seat["PREPARED_BY"] = ben
  BY <1>2, StepsAre DEF Transfer, Draft
<1>4. ben # None
  BY DeskAssumption, PeopleAssumption DEF DeskAssumption, PeopleAssumption
<1>5. Prepares(d)
  BY <1>1, <1>3, <1>4 DEF Prepares
<1> DEFINE left == (StepsOf(d.type) \ d.skips) \ {"PREPARED_BY"}
<1>6. Intake(d).completed = {"PREPARED_BY"} /\ Intake(d).step = First(left)
  BY <1>5 DEF Intake
<1>7. left \in SUBSET Steps
  BY <1>1 DEF Steps, Types
<1>8. First(left) # "PREPARED_BY"
  <2>1. CASE left = {}
    BY <2>1 DEF First
  <2>2. CASE left # {}
    <3>1. First(left) \in left
      BY <1>7, <2>2, FirstIsFirst
    <3> QED BY <3>1
  <2> QED BY <2>1, <2>2
<1> QED BY <1>6, <1>8

LEMMA CaseInvInit == CaseInit => CaseInv
<1> SUFFICES ASSUME CaseInit PROVE CaseInv
  OBVIOUS
<1>1. PapersInv
  BY PapersInit DEF CaseInit
<1>2. PICK e \in Drafts :
        /\ file = Intake(e)
        /\ ticket = [status   |-> IF BoardSeat(Intake(e)) = None THEN "OPEN"
                                  ELSE "IN_PROGRESS",
                     assigned |-> BoardSeat(Intake(e)),
                     output   |-> FALSE,
                     transfer |-> None]
        /\ req = [r \in Requests |-> Idle]
  BY DEF CaseInit, Init
<1>3. \A r \in Requests : req[r].pc = "idle"
  BY <1>2 DEF Idle
<1>4. file.step # "DONE"
  BY <1>2, IntakeUnsigned
<1>5. ASSUME case = "serial" PROVE Sound(file, ticket)
  <2>1. PICK d \in DraftsOf("serial") : file = Intake(d)
    BY <1>5 DEF CaseInit
  <2> QED BY <1>2, <1>4, <2>1, SerialIntake DEF Sound
<1>6. Fits(file, ticket.assigned)
  BY <1>2, <1>4 DEF Fits, AwaitsExecution
<1> QED BY <1>1, <1>3, <1>5, <1>6
        DEF CaseInv, PlacedInv, Alone, IsIdle, Current, Seating, Placed

LEMMA CaseIsNext == CaseNext => Next
BY DEF CaseNext, Next

LEMMA CaseInvStep == CaseInv /\ [CaseNext]_caseVars => CaseInv'
<1> SUFFICES ASSUME CaseInv, [CaseNext]_caseVars PROVE CaseInv'
  OBVIOUS
<1>1. PapersInv /\ PapersInv'
  BY CaseIsNext, PapersStep DEF CaseInv, caseVars
<1>2. case' = case
  BY DEF CaseNext, caseVars
<1>3. ASSUME case = "serial" PROVE PlacedInv'
  <2>1. PlacedInv
    BY <1>3 DEF CaseInv
  <2>2. CASE UNCHANGED caseVars
    BY <2>1, <2>2 DEF caseVars, deskVars, PlacedInv, Alone, IsIdle, Current,
       Placed, Loan, Between, Seating, Gives, Fits, Sound, Refusable, BoardSeat,
       AwaitsExecution, IsJobOrder, IsAuthority, SupportsTransfer
  <2>3. CASE CaseNext
    <3>1. PICK r \in Requests : (Send(r) /\ Belongs(req'[r])) \/ Serve(r)
      BY <1>3, <2>3 DEF CaseNext
    <3>2. LoanStep
      BY <2>3 DEF CaseNext, LoanStep
    <3> QED BY <1>1, <1>3, <2>1, <3>1, <3>2, SendPlaced, ServePlaced
  <2> QED BY <2>2, <2>3
<1> QED BY <1>1, <1>2, <1>3 DEF CaseInv

\* "Request placed on the current procedural assignee's Request Board": when
\* requests come one after the other, transfers among them, a fund transfer
\* and a Job Order are with the holder of the seat whose turn it is, and an
\* approved Job Order with nobody until someone is to execute it.  A
\* requisition and an Authority are with the holder of the seat unless a
\* transfer has taken them away and neither the chain nor the board has placed
\* them since.
THEOREM SerialHolder == CaseSpec => []SerialHolderIsAssigned
<1>1. CaseInv => SerialHolderIsAssigned
  <2> SUFFICES ASSUME CaseInv, case = "serial", Settled
               PROVE  Fits(file, ticket.assigned) \/ Loan
    BY DEF SerialHolderIsAssigned, SeatHolderIsAssigned, Fits, Loan
  <2>1. \A r \in Requests : ~Between(req[r])
    BY DEF Settled, Busy, IsIdle, Between, Seating
  <2> QED BY <2>1 DEF CaseInv, PlacedInv, Placed
<1> QED BY <1>1, CaseInvInit, CaseInvStep, PTL DEF CaseSpec

\* Then, too, what is for confirmation has its whole chain signed, and a Job
\* Order was carried out and its output is on record, whichever of the ways to
\* confirmation it took.
THEOREM SerialGreenLit == CaseSpec => []SerialConfirmationIsGreenLit
<1>1. CaseInv => SerialConfirmationIsGreenLit
  BY DEF CaseInv, PlacedInv, Sound, PapersInv, PaperOK,
         SerialConfirmationIsGreenLit, ConfirmationIsGreenLit
<1> QED BY <1>1, CaseInvInit, CaseInvStep, PTL DEF CaseSpec

=============================================================================
