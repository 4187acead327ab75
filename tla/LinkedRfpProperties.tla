------------------------ MODULE LinkedRfpProperties ------------------------
(***************************************************************************)
(* What is asked of LinkedRfp, in the same three groups as for the order.  *)
(***************************************************************************)
EXTENDS LinkedRfp

\* The tickets and the desks hold what their handlers put there, and past
\* the look-up and the creation a request has a linked ticket in hand.
LinkedTypeOK ==
  /\ tickets \in Seq(Ticket) /\ Len(tickets) <= MaxTickets
  /\ desk \in [Requests -> Desk]
  /\ \A r \in Requests :
       /\ DeskAt(r, "create.link") => desk[r].ticket \in DOMAIN tickets
       /\ desk[r].pc \notin {"idle", "create.ticket", "create.link"} =>
            desk[r].ticket \in Linked
  /\ lost \in 0..MaxLost

Settled == \A r \in Requests : req[r] = Idle

-----------------------------------------------------------------------------
(* One at a time: the second is asked of every step. *)

\* "Held until the Work Plan is fully approved": once it is, and the request
\* that approved it is answered, no linked payment request is held.
ApprovedIsReleased ==
  Settled /\ order.status \in {"APPROVED", "CONFIRMED"} =>
    \A t \in Linked : ~tickets[t].held

\* "released for approval and can only be edited from the ticket workspace":
\* the fields of the editor are not changed from the Work Plan any more, and
\* the payment request is not held again.  It is about these two only: a retry
\* by POST still writes the accounting agent and the section.
ReleasedIsFinal ==
  \A t \in Linked : ~tickets[t].held => tickets'[t] = tickets[t]

-----------------------------------------------------------------------------
(* Always *)

\* "Idempotent on linked_travel_order_id": look-up and link are separate
\* statements, so that n retries at once can link n payment requests to an
\* order that has none; every look-up that failed may add one more.  Nothing
\* else does, neither a crash nor a retry that is repeated.
LinkedOvershoot == Cardinality(Linked) <= Cardinality(Requests) + lost


=============================================================================
