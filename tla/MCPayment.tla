----------------------------- MODULE MCPayment -----------------------------
(***************************************************************************)
(* Drafts and forms for the runs of PaymentApproval, and their cases.      *)
(*                                                                         *)
(*   serial      one request after the other, all of Ticket controls       *)
(*   faults      the same without the form for the seats; queries fail and *)
(*               the process restarts                                      *)
(*   overwrites  two at a time, those that save without looking as well    *)
(*   races       two at a time, all of Ticket controls, and restarts       *)
(***************************************************************************)
EXTENDS PaymentProperties, TLC

CONSTANTS ana, ben, cyd, Cases

VARIABLE case

Seats(n, a, b) == [s \in Steps |-> CASE s = "NOTED_BY" -> n
                                    [] s = "APPROVED_BY" -> a
                                    [] s = "APPROVED_BY_ACCOUNTING" -> b
                                    [] OTHER -> None]

Plain(skips, seat) ==
  [skips |-> skips, seat |-> seat, deferred |-> FALSE, held |-> FALSE]

\* All four steps; Approved By skipped and the mode left to Accounting;
\* one that waits for its Work Plan; one with no seat filled.
FullDraft == Plain({}, Seats(ana, ben, None))
DeferredDraft ==
  [Plain({"APPROVED_BY"}, Seats(ana, None, None)) EXCEPT !.deferred = TRUE]
HeldDraft ==
  [Plain({"NOTED_BY", "APPROVED_BY"}, Seats(None, None, ben)) EXCEPT
     !.held = TRUE]
OpenDraft == Plain({"NOTED_BY"}, Seats(None, None, None))

MCDrafts == {FullDraft, DeferredDraft, HeldDraft, OpenDraft}

SerialForms == {"APPROVED_BY_ACCOUNTING" :> ben @@ "APPROVED_BY_FINANCE" :> cyd,
                "NOTED_BY" :> cyd @@ "APPROVED_BY_FINANCE" :> None}
RaceForms == {"APPROVED_BY_ACCOUNTING" :> ana @@ "APPROVED_BY_FINANCE" :> ben}

MCOps == SavesGuarded \union {"mode", "status", "board", "release"}
GuardedOps == SavesGuarded \union {"mode", "status"}

Slots == Permutations(Requests)

-----------------------------------------------------------------------------
(* The cases *)

DraftsOf(c) == CASE c = "overwrites" -> {HeldDraft}
                 [] c = "races"      -> {DeferredDraft}
                 [] OTHER            -> MCDrafts \ {HeldDraft}

\* What arrives.
Belongs(q) ==
  CASE case = "overwrites" ->
         /\ q.op \in {"approve", "complete", "board", "release"}
         /\ q.op = "board" => q.arg = ana
         /\ q.op = "release" => q.arg = None
    [] case = "races" -> q.op = "seats" => q.arg \in RaceForms
    [] OTHER ->
         /\ Settled
         /\ q.op \in GuardedOps \ (IF case = "faults" THEN {"seats"} ELSE {})
         /\ q.op = "seats" => q.arg \in SerialForms

CaseInit == Init /\ case \in Cases /\ \E d \in DraftsOf(case) : file = Intake(d)

CaseNext ==
  /\ \/ case \in {"faults", "races"} /\ Restart
     \/ case = "faults" /\ \E r \in Requests : QueryFails(r)
     \/ \E r \in Requests : (Send(r) /\ Belongs(req'[r])) \/ Serve(r)
  /\ UNCHANGED case

caseVars == <<deskVars, case>>

CaseSpec == CaseInit /\ [][CaseNext]_caseVars

FairCaseSpec == CaseSpec /\ Fairness

\* What PaymentProperties asks of requests that come one after the other, and
\* of a system whose queries may fail.
SerialHolderIsAssigned == case = "serial" => SeatHolderIsAssigned
FaultyReachesConfirmation == case = "faults" => ReachesConfirmation
=============================================================================
