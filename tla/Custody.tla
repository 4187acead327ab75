------------------------------ MODULE Custody ------------------------------
(***************************************************************************)
(* Who has a request, as its staff see it: somebody, or nobody.  It is put *)
(* down only by its holder offering it to a colleague, who is on record    *)
(* until somebody has it again or the offer lapses.                        *)
(***************************************************************************)
CONSTANTS Agents, None

VARIABLES
  holder,  \* who has the request
  offer    \* the offer that stands: from whom, to whom

custody == <<holder, offer>>

Init == holder = None /\ offer = None

Assign == holder' \in Agents /\ offer' = None

Offer ==
  /\ holder # None
  /\ \E to \in Agents \ {holder} : offer' = [from |-> holder, to |-> to]
  /\ holder' = None

Lapse == offer' = None /\ UNCHANGED holder

Next == Assign \/ Offer \/ Lapse

Spec == Init /\ [][Next]_custody

=============================================================================
