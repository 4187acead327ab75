--------------------------- MODULE OrderLifecycle ---------------------------
(***************************************************************************)
(* What a travel order promises to the people who sign it: each operation  *)
(* is one indivisible step that looks at the state it changes.  There are  *)
(* no requests, copies or awaits here; TravelOrder implements this machine *)
(* when its requests do not interleave.                                    *)
(***************************************************************************)
EXTENDS ApprovalChain

VARIABLES
  seats,   \* the chain, << >> for an order with a flat list of approvers
  status,
  signed   \* the levels that have signed

lifecycle == <<seats, status, signed>>

Complete == ~hasHierarchicalApprovals(seats)
              \/ isApprovalHierarchySatisfied(seats, signed)

Init == status = "SUBMITTED" /\ signed = {}

\* One of the seats open now signs; the last one approves the order.
Sign ==
  /\ status = "SUBMITTED"
  /\ \E l \in getUnlockedIncompleteLevels(seats, signed) :
       /\ signed' = signed \cup {l}
       /\ status' = IF isApprovalHierarchySatisfied(seats, signed')
                    THEN "APPROVED" ELSE "SUBMITTED"
  /\ UNCHANGED seats

\* The order needs no seat (any more): approve it as it is.
Endorse ==
  /\ status = "SUBMITTED" /\ Complete
  /\ status' = "APPROVED"
  /\ UNCHANGED <<seats, signed>>

\* By an approver who could sign now, or by the confirmer.
Decline ==
  /\ \/ status = "APPROVED"
     \/ /\ status = "SUBMITTED"
        /\ hasHierarchicalApprovals(seats) =>
             getUnlockedIncompleteLevels(seats, signed) # {}
  /\ status' = "REJECTED"
  /\ UNCHANGED <<seats, signed>>

Withdraw ==
  /\ status \in {"SUBMITTED", "APPROVED"}
  /\ status' = "CANCELLED"
  /\ UNCHANGED <<seats, signed>>

Confirm ==
  /\ status = "APPROVED" /\ Complete
  /\ status' = "CONFIRMED"
  /\ UNCHANGED <<seats, signed>>

\* Signatures survive: the chain goes on where it stopped.
Reopen ==
  /\ status' = "SUBMITTED"
  /\ UNCHANGED <<seats, signed>>

Next == Sign \/ Endorse \/ Decline \/ Withdraw \/ Confirm \/ Reopen

Spec == Init /\ [][Next]_lifecycle

=============================================================================
