---------------------------- MODULE MCProcedural ----------------------------
(***************************************************************************)
(* Drafts and forms for the runs of ProceduralRequest, and their cases.    *)
(*                                                                         *)
(*   serial   one request after the other, everything there is, transfers  *)
(*            too, but for assignments that the board refuses, or that     *)
(*            take an Authority from the holder of its seat                *)
(*   faults   one after the other, what moves the chain on, no transfers;  *)
(*            queries fail and the process restarts                        *)
(*   races    two at a time, those that save the meta                      *)
(***************************************************************************)
EXTENDS ProceduralProperties, TLC

CONSTANTS ana, ben, cid, Cases

ASSUME PeopleAssumption == {ana, ben, cid} \subseteq Agents

VARIABLES
  case,
  lent  \* a transfer took the ticket away, and it was not placed again since

Draft(type, skips, seat) ==
  [type |-> type, skips |-> skips, seat |-> [s \in Steps |->
     IF s \in DOMAIN seat THEN seat[s] ELSE None]]

Slip == Draft("ITEM_REQUISITION_SLIP", {}, "APPROVED_BY" :> ana)
OpenSlip == Draft("ITEM_REQUISITION_SLIP", {}, <<>>)
Transfer == Draft("FUND_TRANSFER_REQUEST", {},
                  [s \in {"PREPARED_BY", "RECOMMENDING_APPROVAL"} |->
                     IF s = "PREPARED_BY" THEN ben ELSE ana])
UnpreparedTransfer == Draft("FUND_TRANSFER_REQUEST", {}, <<>>)
JobOrder == Draft("JOB_ORDER", {}, "NOTED_BY" :> ana @@ "APPROVED_BY" :> ben)
LastSeatJobOrder == Draft("JOB_ORDER", {"NOTED_BY", "APPROVED_BY"},
                          "APPROVED_BY_2" :> ana)

Authority == Draft("AUTHORITY_TO_CONDUCT_ACTIVITY",
                   {"APPROVER_2", "APPROVER_3", "APPROVER_4", "APPROVER_5"},
                   "RECOMMENDED_BY" :> ana @@ "FINANCE_MANAGER" :> ben
                                           @@ "APPROVER_1" :> cid)

MCDrafts == {Slip, OpenSlip, Transfer, UnpreparedTransfer, JobOrder,
             LastSeatJobOrder, Authority}

\* Of a form each type takes the fields it has.
SerialForms == {"APPROVED_BY" :> ben @@ "APPROVED_BY_2" :> None,
                "PREPARED_BY" :> None @@ "CANVASSED_BY" :> ana}
RaceForms == {"PREPARED_BY" :> None @@ "APPROVED_BY" :> ben
                                    @@ "APPROVED_BY_2" :> ben}

MCForms == SerialForms \union RaceForms

ChainOps == {"seats", "request", "complete", "status", "board", "pricing",
             "undo", "view"}
WorkOps == {"execute", "workers", "assist", "upload", "jobdone"}
MCOps == ChainOps \union WorkOps \union TransferOps

-----------------------------------------------------------------------------
(* The cases *)

DraftsOf(c) == CASE c = "serial" -> MCDrafts \ {UnpreparedTransfer}
                 [] c = "faults" ->
                      {Slip, OpenSlip, Transfer, JobOrder, Authority}
                 [] OTHER        ->
                      {Slip, UnpreparedTransfer, LastSeatJobOrder, Authority}

\* The board refuses, having moved the ticket, to seat anybody else as
\* Approved By of a requisition, and does not look at the seat of an Authority.
Refusable(q) ==
  /\ q.op = "board" /\ BoardSeat(file) \notin {None, q.arg}
  /\ \/ IsAuthority(file)
     \/ file.type = "ITEM_REQUISITION_SLIP" /\ file.step = "APPROVED_BY"

\* Ticket controls has fields for the steps of the type only, and actions.
\* Only an Authority has a third person.
Offered(q) ==
  /\ cid \in {q.actor, q.arg} => IsAuthority(file)
  /\ IsAuthority(file) =>
       q.op \in {"complete", "status", "board"} \union TransferOps
  /\ q.op \in {"pricing", "undo"} => file.type = "ITEM_REQUISITION_SLIP"
  /\ q.op \in TransferOps => SupportsTransfer(file)
  /\ q.op \in WorkOps => file.type = "JOB_ORDER"
  /\ q.op = "view" => file.type # "ITEM_REQUISITION_SLIP"
  /\ q.op = "seats" => DOMAIN q.arg \cap StepsOf(file.type) # {}

Belongs(q) ==
  /\ Offered(q)
  /\ CASE case = "serial" ->
            /\ Settled /\ ~Refusable(q)
            /\ q.op = "seats" => q.actor = ana /\ q.arg \in SerialForms
            /\ q.op \in {"workers", "assist"} => q.actor = ben
            /\ q.op = "view" => q.arg = ana
       [] case = "faults" ->
            /\ Settled
            /\ q.op \in {"request", "complete", "board", "pricing", "upload",
                         "jobdone", "execute", "status"}
            /\ q.op = "status" => q.arg = "FOR_CONFIRMATION"
            /\ q.op = "board" => \/ file.step = "CANVASSED_BY"
                                 \/ IsAuthority(file)
            /\ q.op = "execute" => file.step = "DONE"
            /\ q.op = "upload" => q.arg = "job_output"
       [] OTHER ->
            /\ \/ q.op \in {"seats", "complete", "pricing", "undo", "view",
                            "jobdone", "upload"}
               \/ IsAuthority(file) /\ q.op \in {"board", "status"}
            /\ q.op \in {"pricing", "view"} => q.arg = ana
            /\ q.op \in {"seats", "upload", "jobdone"} => q.actor = ana
            /\ q.op = "seats" => q.arg \in RaceForms
            /\ q.op = "upload" => q.arg = "job_output"

CaseInit ==
  /\ Init /\ case \in Cases /\ \E d \in DraftsOf(case) : file = Intake(d)
  /\ lent = FALSE

\* A transfer is parked, accepted or declined, and the ticket changes hands.
Lends ==
  /\ \E r \in Requests : Park(r) \/ AcceptTransfer(r) \/ DeclineTransfer(r)
  /\ ticket'.assigned # ticket.assigned

\* A request that places the ticket is answered.
Places ==
  \E r \in Requests :
    (req[r].pc = "write" \/ At(r, "board", "act")) /\ req'[r] = Idle

CaseNext ==
  /\ \/ case = "faults" /\ (Restart \/ \E r \in Requests : QueryFails(r))
     \/ \E r \in Requests : (Send(r) /\ Belongs(req'[r])) \/ Serve(r)
  /\ lent' = (Lends \/ (lent /\ ~Places))
  /\ UNCHANGED case

caseVars == <<deskVars, case, lent>>

CaseSpec == CaseInit /\ [][CaseNext]_caseVars

FairCaseSpec == CaseSpec /\ Fairness

\* What ProceduralProperties asks of requests that come one after the other,
\* and of a system whose queries may fail.  A request that can be transferred
\* is away from the holder of its seat only while it is on loan: once the
\* chain or the board has placed it anew, it is with him again.
SerialHolderIsAssigned ==
  case = "serial" =>
    SeatHolderIsAssigned \/ (lent /\ SupportsTransfer(file))
SerialConfirmationIsGreenLit == case = "serial" => ConfirmationIsGreenLit
FaultyReachesConfirmation == case = "faults" => ReachesConfirmation
=============================================================================
