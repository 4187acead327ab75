--------------------------- MODULE MCTravelOrder ---------------------------
(***************************************************************************)
(* Drafts for the runs of TravelOrder, and the cases of travel_races: a    *)
(* behaviour whose order is VisitPlan has visits and no failures, the      *)
(* others have failures and no visits.                                     *)
(***************************************************************************)
EXTENDS TravelOrderProperties, TLC

CONSTANTS ana, ben, cara, dan, guard, L1, L2, L3, L4

MCSeat(holder, alternates, optional) ==
  [holder |-> holder, alternates |-> alternates, optional |-> optional]

\* A Work Plan created by dan, who is to confirm it as well.
WorkPlan(seats, gatePass) ==
  [seats |-> seats, flat |-> {}, creator |-> dan, confirmer |-> dan,
   travelers |-> {dan}, owner |-> dan, workPlan |-> TRUE,
   gatePass |-> gatePass, stops |-> {L1}]

\* Rows of the time when Travel Orders had their own form.
Legacy(seats, flat, gatePass) ==
  [seats |-> seats, flat |-> flat, creator |-> ana, confirmer |-> ben,
   travelers |-> {ana}, owner |-> ben, workPlan |-> FALSE,
   gatePass |-> gatePass, stops |-> {L1}]

Two == <<MCSeat(ana, {}, FALSE), MCSeat(ben, {ana}, TRUE)>>
Middle == <<MCSeat(ana, {dan}, FALSE), MCSeat(ben, {}, TRUE),
            MCSeat(cara, {}, FALSE)>>
AllOptional == <<MCSeat(ana, {}, TRUE), MCSeat(ben, {}, TRUE),
                 MCSeat(cara, {}, TRUE)>>

SerialDrafts == {WorkPlan(Middle, FALSE), WorkPlan(Two, TRUE),
                 WorkPlan(AllOptional, FALSE),
                 Legacy(<< >>, {ana, ben}, TRUE),
                 Legacy(<<MCSeat(cara, {}, FALSE)>>, {}, FALSE)}
RaceDrafts == {WorkPlan(Middle, FALSE), WorkPlan(AllOptional, FALSE),
               Legacy(<< >>, {ben}, TRUE)}
MiddleDrafts == {WorkPlan(Middle, FALSE)}
GateDrafts == {Legacy(<< >>, {ben}, TRUE)}
VisitPlan == Legacy(<< >>, {ben}, FALSE)
CaseDrafts == RaceDrafts \cup {VisitPlan}

SerialOps == AllOps \ {"gateDrop"}
ChainOps == {"approve", "reject", "cancel", "confirm"}
GateOps == {"approve", "gateStart", "gateEnd", "gateEdit"}
RaceOps == ChainOps \cup {"addLocation", "gateDrop"}
CaseOps == RaceOps \cup {"visitStart", "visitEnd", "submitDone"}

-----------------------------------------------------------------------------
(* The cases of travel_races *)

Visiting == plan = VisitPlan

\* What a request may be that arrives: while visiting, one of ana's or ben's
\* that neither ends the order nor drops the gate pass, and one location is
\* added.
Belongs(q) ==
  IF Visiting
  THEN /\ q.who \in {ana, ben, None}
       /\ q.goal \notin {"REJECTED", "CANCELLED", "drop"}
       /\ q.pc = "location.write" =>
            order.locs = {L1} /\ \A r \in Requests : ~At(r, "location.write")
  ELSE q.pc # "visit.write" /\ (q.pc = "kpi.record" => q.confirm)

\* The steps of travel_races: of those of Next, the failures and the requests
\* of the case.  What is accepted is always carried on, but for the identifier
\* of the location that is added.
CaseStep ==
  \/ ~Visiting /\ (Crash \/ \E r \in Requests : Fail(r))
  \/ \E r \in Requests : req[r] = Idle /\ req'[r] # Idle /\ Belongs(req'[r])
  \/ \E r \in Requests :
       Continue(r) /\ (Visiting => order'.locs \subseteq {L1, L2})

\* Without failures a recorded KPI reaches its task and a confirmation
\* reaches the mirror, although nothing waits for either.
VisitKpiReachesTask == Visiting => KpiReachesTask
VisitConfirmationReachesMirror == Visiting => ConfirmationReachesMirror
=============================================================================
