------------------------------ MODULE MCTicket ------------------------------
(***************************************************************************)
(* The cases of the runs of TicketLifecycle.  Queries fail and the process *)
(* restarts in all of them.                                                *)
(*                                                                         *)
(*   handing  one request after the other: everything there is, but        *)
(*            transfers to colleagues only                                 *)
(*   work     one request after the other: everything there is             *)
(*   races    two at a time: the board, status changes, reviews and        *)
(*            rejections on the portal and by the links                    *)
(*   reviews  one after the other: the board, status changes, reviews      *)
(***************************************************************************)
EXTENDS TicketProperties, TLC

CONSTANTS ana, ben, cyd, Cases

VARIABLE case

WorkOps == {"status", "priority", "board"}
ReviewOps == WorkOps \union {"verify", "feedback", "rate_link"}
RatedOps == ReviewOps \union {"reject", "reject_link"}
EveryOp == RatedOps \union {"transfer", "accept", "decline", "cancel"}

OpsOf(c) == CASE c = "races"   -> RatedOps
              [] c = "reviews" -> ReviewOps
              [] OTHER         -> EveryOp

\* What arrives.
Belongs(q) ==
  /\ q.op \in OpsOf(case)
  /\ case # "races" => Settled
  /\ case = "handing" /\ q.op = "transfer" => q.arg # None

CaseInit == Init /\ case \in Cases

CaseNext ==
  /\ \/ Restart
     \/ case # "races" /\ \E r \in Requests : QueryFails(r)
     \/ \E r \in Requests : (Send(r) /\ Belongs(req'[r])) \/ Serve(r)
  /\ UNCHANGED case

caseVars == <<deskVars, case>>

CaseSpec == CaseInit /\ [][CaseNext]_caseVars

ReviewSpec == CaseSpec /\ Fairness /\ SF_deskVars(Reviews("rate_link"))

Handing == case = "handing"

\* What TicketProperties asks where everything is sent.
OneAtATime == case \in {"handing", "work"}

\* Nobody's ticket gets into work by a rejection through the email only.
StaffWorkIsAssigned == [][OneAtATime => StartsAssigned]_deskVars

\* A closed ticket is taken up again by a new transfer, or one that was left
\* to the Admins, only.
StaffClosedStaysClosed == [][OneAtATime => StaysClosed]_deskVars

\* What is parked for a colleague can be decided.
HandedEscalatedIsPending == Handing => EscalatedIsPending

Hands == INSTANCE Custody
           WITH holder <- IF Handing THEN ticket.assigned ELSE None,
                offer <- IF Handing /\ ticket.status = "ESCALATED"
                         THEN file.transfer ELSE None

\* A ticket is handed over: it leaves a board for a named colleague or for
\* another board, and the log names who let go of it.
ImplementsCustody == Hands!Spec

\* A requestor who has verified and uses the links of the email gets the
\* ticket closed, although a crash came between a rating and its closing.
LinkReviewCloses == case = "reviews" /\ FaultsEnd => ReviewCloses
=============================================================================
