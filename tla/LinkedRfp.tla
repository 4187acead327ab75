----------------------------- MODULE LinkedRfp -----------------------------
(***************************************************************************)
(* The Request for Payment (RFP) that is created with a Work Plan, held    *)
(* until the Work Plan is approved, and released to the bookkeeper then:   *)
(* lib/travel-order-rfp.ts and the route .../linked-rfp.                   *)
(*                                                                         *)
(* A request of TravelOrder at "approve.release" or "rfp" is a chain of    *)
(* queries on the tickets, followed here one by one; the row of the travel *)
(* order is not looked at again.  Of payment_approval_meta, which is read, *)
(* changed in memory and written back whole, the flag                      *)
(* awaitingTravelOrderApproval is kept.                                    *)
(*                                                                         *)
(* Creation calls createRfpFromSubmittedTravelOrder like a retry does; here *)
(* it has succeeded or failed ("softFail") before other requests arrive.   *)
(* The steps of the payment approval itself are not covered.               *)
(***************************************************************************)
EXTENDS TravelOrder, Sequences

CONSTANTS
  MaxTickets,  \* bound of a run: how many tickets can be made
  MaxLost,     \* bound of a run: how many look-ups can fail
  RfpFaults    \* what may go wrong with the payment request

AllRfpFaults == {"softFail", "find", "query"}

ASSUME LinkedRfpAssumption ==
  MaxTickets \in Nat \ {0} /\ MaxLost \in Nat /\ RfpFaults \subseteq AllRfpFaults

VARIABLES
  tickets,  \* the RFP tickets made for this order, oldest first
  desk,     \* what a request holds between its queries on the tickets
  lost      \* how many look-ups for the ticket have failed

linkedVars == <<vars, tickets, desk, lost>>

\* linked: linked_travel_order_id is set.  editor: the slot that last wrote
\* the title, description and company from the Work Plan's editor.
Ticket == [linked : BOOLEAN, held : BOOLEAN, editor : Stamp]

NewTicket == [linked |-> FALSE, held |-> FALSE, editor |-> None]

HeldTicket == [NewTicket EXCEPT !.linked = TRUE, !.held = TRUE]

DeskPCs == {"idle", "release.load", "release.save", "create.ticket",
            "create.link", "retry.load", "retry.save",
            "edit.load", "edit.fields", "edit.save"}

Desk == [pc : DeskPCs, ticket : 0..MaxTickets, held : BOOLEAN]

Away == [pc |-> "idle", ticket |-> 0, held |-> FALSE]

LinkedInit ==
  /\ Init
  /\ \/ tickets = <<HeldTicket>>
     \/ "softFail" \in RfpFaults /\ tickets = << >>
  /\ desk = [r \in Requests |-> Away]
  /\ lost = 0

Linked == {t \in DOMAIN tickets : tickets[t].linked}

-----------------------------------------------------------------------------

DeskAt(r, pc) == desk[r].pc = pc

Turn(r, pc) == desk' = [desk EXCEPT ![r].pc = pc]

Take(r, pc, t, held) ==
  desk' = [desk EXCEPT ![r] = [pc |-> pc, ticket |-> t, held |-> held]]

\* The request of TravelOrder ends with the visit to the tickets.
Leave(r) == Pay(r) /\ desk' = [desk EXCEPT ![r] = Away]

Mine(r) == tickets[desk[r].ticket]

\* The oldest linked ticket: ORDER BY created_at ASC LIMIT 1.
IsFound(t) == t \in Linked /\ \A u \in Linked : t <= u

AfterFind(r) ==
  IF At(r, "approve.release") THEN "release.load"
  ELSE IF req[r].goal = "edit" THEN "edit.load" ELSE "retry.load"

\* findLinkedRfpByTravelOrderId.  The editor's route looks once itself and,
\* finding nothing, once more in the creation: the second look decides.
FindLinked(r) ==
  /\ req[r].pc \in {"approve.release", "rfp"} /\ DeskAt(r, "idle")
  /\ \E t \in Linked : IsFound(t) /\ Take(r, AfterFind(r), t, FALSE)
  /\ UNCHANGED <<vars, tickets, lost>>

\* Mutant: a released ticket is not looked for.
FindNoneHeld(r) ==
  /\ req[r].pc \in {"approve.release", "rfp"} /\ DeskAt(r, "idle")
  /\ \A t \in Linked : ~tickets[t].held
  /\ IF At(r, "rfp") THEN Turn(r, "create.ticket") /\ UNCHANGED vars
                     ELSE Leave(r)
  /\ UNCHANGED <<tickets, lost>>

\* Nothing to release, or a ticket to create.
FindNone(r) ==
  /\ req[r].pc \in {"approve.release", "rfp"} /\ DeskAt(r, "idle")
  /\ Linked = {}
  /\ IF At(r, "rfp") THEN Turn(r, "create.ticket") /\ UNCHANGED vars
                     ELSE Leave(r)
  /\ UNCHANGED <<tickets, lost>>

-----------------------------------------------------------------------------
(* createRfpFromSubmittedTravelOrder: the ticket, then its link and meta    *)

CreateTicket(r) ==
  /\ DeskAt(r, "create.ticket")
  /\ Len(tickets) < MaxTickets
  /\ tickets' = Append(tickets, NewTicket)
  /\ Take(r, "create.link", Len(tickets) + 1, FALSE)
  /\ UNCHANGED <<vars, lost>>

LinkTicket(r) ==
  /\ DeskAt(r, "create.link")
  /\ tickets' = [tickets EXCEPT ![desk[r].ticket] = HeldTicket]
  /\ Turn(r, AfterFind(r))
  /\ UNCHANGED <<vars, lost>>

-----------------------------------------------------------------------------
(* releaseRfpAfterTravelOrderApproved                                       *)

ReleaseLoad(r) ==
  /\ DeskAt(r, "release.load")
  /\ IF Mine(r).held THEN Turn(r, "release.save") /\ UNCHANGED vars
                     ELSE Leave(r)
  /\ UNCHANGED <<tickets, lost>>

\* Mutant: the meta that was read wins over the flag.
ReleaseSaveMeta(r) ==
  DeskAt(r, "release.save") /\ Leave(r) /\ UNCHANGED <<tickets, lost>>

ReleaseSave(r) ==
  /\ DeskAt(r, "release.save")
  /\ tickets' = [tickets EXCEPT ![desk[r].ticket].held = FALSE]
  /\ Leave(r)
  /\ UNCHANGED lost

-----------------------------------------------------------------------------
(* POST .../linked-rfp, after the ticket is found or created: the company's *)
(* bookkeeper, if one is resolved, goes into the meta.                      *)

RetryLoad(r) ==
  /\ DeskAt(r, "retry.load")
  /\ \/ Take(r, "retry.save", desk[r].ticket, Mine(r).held) /\ UNCHANGED vars
     \/ Leave(r)
  /\ UNCHANGED <<tickets, lost>>

RetrySave(r) ==
  /\ DeskAt(r, "retry.save")
  /\ tickets' = [tickets EXCEPT ![desk[r].ticket].held = desk[r].held]
  /\ Leave(r)
  /\ UNCHANGED lost

-----------------------------------------------------------------------------
(* PATCH .../linked-rfp: only a held request is edited, but what is read    *)
(* first is written last.                                                   *)

\* Mutant: whatever is linked may be edited.
EditLoadAny(r) ==
  /\ DeskAt(r, "edit.load")
  /\ Take(r, "edit.fields", desk[r].ticket, Mine(r).held)
  /\ UNCHANGED <<vars, tickets, lost>>

EditLoad(r) ==
  /\ DeskAt(r, "edit.load")
  /\ IF Mine(r).held
     THEN Take(r, "edit.fields", desk[r].ticket, TRUE) /\ UNCHANGED vars
     ELSE Leave(r)
  /\ UNCHANGED <<tickets, lost>>

EditFields(r) ==
  /\ DeskAt(r, "edit.fields")
  /\ tickets' = [tickets EXCEPT ![desk[r].ticket].editor = r]
  /\ Turn(r, "edit.save")
  /\ UNCHANGED <<vars, lost>>

EditSave(r) ==
  /\ DeskAt(r, "edit.save")
  /\ tickets' = [tickets EXCEPT ![desk[r].ticket].held = desk[r].held]
  /\ Leave(r)
  /\ UNCHANGED lost

-----------------------------------------------------------------------------
(* Failures *)

\* The query of the find throws: it is caught, and answers "no ticket".
FindFails(r) ==
  /\ "find" \in RfpFaults /\ lost < MaxLost
  /\ lost' = lost + 1
  /\ req[r].pc \in {"approve.release", "rfp"} /\ DeskAt(r, "idle")
  /\ IF At(r, "rfp") THEN Turn(r, "create.ticket") /\ UNCHANGED vars
                     ELSE Leave(r)
  /\ UNCHANGED tickets

\* Any other query throws: the rest is not done, and nothing is undone.
QueryFails(r) ==
  /\ "query" \in RfpFaults
  /\ desk[r].pc # "idle"
  /\ Leave(r)
  /\ UNCHANGED <<tickets, lost>>

Restart ==
  /\ Crash
  /\ desk' = [r \in Requests |-> Away]
  /\ UNCHANGED <<tickets, lost>>

-----------------------------------------------------------------------------

\* The rest of the travel order: it never looks at the tickets.
TravelStep(r) == Accept(r) \/ Advance(r) \/ Fail(r)

LinkedNext ==
  \/ Restart
  \/ \E r \in Requests :
       \/ TravelStep(r) /\ UNCHANGED <<tickets, desk, lost>>
       \/ FindLinked(r) \/ FindNone(r) \/ FindFails(r) \/ QueryFails(r)
       \/ CreateTicket(r) \/ LinkTicket(r)
       \/ ReleaseLoad(r) \/ ReleaseSave(r)
       \/ RetryLoad(r) \/ RetrySave(r)
       \/ EditLoad(r) \/ EditFields(r) \/ EditSave(r)

LinkedSpec == LinkedInit /\ [][LinkedNext]_linkedVars

=============================================================================
