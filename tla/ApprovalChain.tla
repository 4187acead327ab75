--------------------------- MODULE ApprovalChain ---------------------------
(***************************************************************************)
(* The "Approved By" chain of a travel order, translated from              *)
(* src/src/lib/travel-order.ts.  A chain is the sequence of its seats, the *)
(* level number of a seat being its index; a seat is                       *)
(*   [holder, alternates, optional]                                        *)
(* The mutable part of the JSON column approval_levels is the set of the   *)
(* levels whose approvedAt is set: approvedByAgentId is always the holder, *)
(* and the time of the signature is never read back.                       *)
(*                                                                         *)
(* Every operator is a pure function of (seats, signed), so that it can be *)
(* applied to the row and to the stale copies requests hold of it.         *)
(***************************************************************************)
EXTENDS Naturals, Sequences

\* Optional seats are kept only in a chain of three levels or more.
approvalLevelsAllowOptional(n) == n >= 3

(***************************************************************************)
(* What creation stores of the seats a client drafted: a holder is no      *)
(* alternate of the own seat, a short chain has no optional seat.          *)
(***************************************************************************)
normalizeApprovalLevelsForStore(seats) ==
  [l \in DOMAIN seats |->
     [holder     |-> seats[l].holder,
      alternates |-> seats[l].alternates \ {seats[l].holder},
      optional   |-> /\ approvalLevelsAllowOptional(Len(seats))
                     /\ seats[l].optional]]

hasHierarchicalApprovals(seats) == seats # << >>

RequiredLevels(seats) == {l \in DOMAIN seats : ~seats[l].optional}

\* Every required seat signed; one signature at least when all are optional.
isApprovalHierarchySatisfied(seats, signed) ==
  IF RequiredLevels(seats) = {}
  THEN signed # {}
  ELSE RequiredLevels(seats) \subseteq signed

\* Mutant: a seat waits for the seat before it only.
PreviousLevelSigned(seats, signed, l) ==
  seats[l].optional \/ l = 1 \/ seats[l - 1].optional \/ l - 1 \in signed

\* A required seat waits for the required seats before it, an optional one
\* for nobody.
isApprovalLevelUnlocked(seats, signed, l) ==
  \/ seats[l].optional
  \/ \A k \in RequiredLevels(seats) : k < l => k \in signed

getUnlockedIncompleteLevels(seats, signed) ==
  {l \in DOMAIN seats : /\ ~isApprovalHierarchySatisfied(seats, signed)
                        /\ l \notin signed
                        /\ isApprovalLevelUnlocked(seats, signed, l)}

isApprovalLevelAssignee(seat, agent) ==
  agent = seat.holder \/ agent \in seat.alternates

ActionableLevels(seats, signed, agent) ==
  {l \in getUnlockedIncompleteLevels(seats, signed) :
     isApprovalLevelAssignee(seats[l], agent)}

\* getOperatorActionableApprovalLevel returns l: the first of the levels the
\* agent may act on (none when there is none).
IsOperatorActionableLevel(seats, signed, agent, l) ==
  /\ l \in ActionableLevels(seats, signed, agent)
  /\ \A k \in ActionableLevels(seats, signed, agent) : l <= k

=============================================================================
