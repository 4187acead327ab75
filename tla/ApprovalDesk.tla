---------------------------- MODULE ApprovalDesk ----------------------------
(***************************************************************************)
(* What the request types with an approval chain have in common: who may   *)
(* work on the ticket, how its status moves, and how the board follows the *)
(* chain.                                                                  *)
(***************************************************************************)
EXTENDS RequestDesk

Person == Agents \union {None}

StatusTargets == {"IN_PROGRESS", "RESOLVED", "FOR_CONFIRMATION"}

canTransition(from, to) ==
  \/ from \in {"OPEN", "IN_PROGRESS", "ESCALATED"} /\ to \in StatusTargets \ {from}
  \/ from \in {"RESOLVED", "FOR_CONFIRMATION"} /\ to = "IN_PROGRESS"

MayMutate(a) == a = ticket.assigned \/ a \in Admins

\* Work does not go on, and is not confirmed, while nobody is assigned.
MayMoveTo(a, s) ==
  /\ MayMutate(a) /\ canTransition(ticket.status, s)
  /\ s \in {"IN_PROGRESS", "FOR_CONFIRMATION"} => ticket.assigned # None

\* proceduralBoardAssigneeWrite compares with the copy of the row and leaves
\* the field out of the UPDATE if nothing is to change.
BoardWrite(next, seen) == IF next = seen THEN ticket.assigned ELSE next

=============================================================================
