-------------------------- MODULE LinkedRfpProofs --------------------------
(***************************************************************************)
(* Proofs about LinkedRfp: it is a travel order, so that what is proved of *)
(* TravelOrder holds of it; the number of payment requests an order can    *)
(* get is bounded; and, when requests come one after the other, a payment  *)
(* request is released with its Work Plan and is final from then on.       *)
(***************************************************************************)
EXTENDS MCLinkedRfp, TravelOrderProofs

\* The names of the actions that look at the tickets.
TicketStep(r) ==
  \/ FindLinked(r) \/ FindNone(r) \/ FindFails(r) \/ QueryFails(r)
  \/ CreateTicket(r) \/ LinkTicket(r) \/ ReleaseLoad(r) \/ ReleaseSave(r)
  \/ RetryLoad(r) \/ RetrySave(r)
  \/ EditLoad(r) \/ EditFields(r) \/ EditSave(r)

LEMMA LinkedSteps ==
  LinkedNext <=>
    \/ Restart
    \/ \E r \in Requests :
         \/ TravelStep(r) /\ UNCHANGED <<tickets, desk, lost>>
         \/ TicketStep(r)
BY DEF LinkedNext, TicketStep

(***************************************************************************)
(* The refinement: a step among the tickets leaves the travel order alone, *)
(* or ends its request.                                                    *)
(***************************************************************************)
LEMMA LinkedStepIsStep == [LinkedNext]_linkedVars => [Next]_vars
<1> SUFFICES ASSUME [LinkedNext]_linkedVars PROVE [Next]_vars
  OBVIOUS
<1>1. CASE Restart
  BY <1>1 DEF Restart, Next
<1>2. ASSUME NEW r \in Requests, TravelStep(r) PROVE Next
  BY <1>2 DEF TravelStep, Next, Continue
<1>3. ASSUME NEW r \in Requests, TicketStep(r) PROVE [Next]_vars
  <2>1. UNCHANGED vars \/ Pay(r)
    BY <1>3
    DEF TicketStep, FindLinked, FindNone, FindFails, QueryFails, CreateTicket,
        LinkTicket, ReleaseLoad, ReleaseSave, RetryLoad, RetrySave, EditLoad,
        EditFields, EditSave, Leave
  <2> QED BY <2>1 DEF Next, Continue
<1>4. CASE UNCHANGED linkedVars
  BY <1>4 DEF linkedVars
<1> QED BY <1>1, <1>2, <1>3, <1>4, LinkedSteps

\* With its payment request, a travel order is still a travel order: every
\* behaviour of LinkedRfp is one of TravelOrder.
THEOREM LinkedIsTravelOrder == LinkedSpec => Spec
<1>1. LinkedInit => Init
  BY DEF LinkedInit
<1> QED BY <1>1, LinkedStepIsStep, PTL DEF LinkedSpec, Spec

-----------------------------------------------------------------------------
(* Type correctness *)

TicketsOK == tickets \in Seq(Ticket) /\ Len(tickets) <= MaxTickets

\* A desk and the tickets it is about.
DeskOK(d, ts) ==
  /\ d \in Desk
  /\ d.pc = "create.link" => d.ticket \in DOMAIN ts
  /\ d.pc \notin {"idle", "create.ticket", "create.link"} =>
       d.ticket \in DOMAIN ts /\ ts[d.ticket].linked

DesksOK == desk \in [Requests -> Desk]
             /\ \A r \in Requests : DeskOK(desk[r], tickets)

LEMMA LinkedHalves ==
  LinkedTypeOK <=> TicketsOK /\ DesksOK /\ lost \in 0..MaxLost
BY DEF LinkedTypeOK, TicketsOK, DesksOK, DeskOK, DeskAt, Linked

\* The tickets only get more, and a link stays.
Grown == /\ DOMAIN tickets \subseteq DOMAIN tickets'
         /\ \A t \in Linked : tickets'[t].linked

LEMMA DeskStep ==
  ASSUME TicketsOK, DesksOK, Grown, NEW r \in Requests, NEW d,
         DeskOK(d, tickets'), desk' = [desk EXCEPT ![r] = d]
  PROVE  DesksOK'
<1>1. \A s \in Requests : DeskOK(desk[s], tickets')
  BY DEF DesksOK, DeskOK, Grown, Linked
<1>2. desk' \in [Requests -> Desk]
  BY DEF DesksOK, DeskOK
<1>3. \A s \in Requests : DeskOK(desk'[s], tickets')
  BY <1>1 DEF DesksOK
<1> QED BY <1>2, <1>3 DEF DesksOK

LEMMA AwayOK == ASSUME NEW ts PROVE DeskOK(Away, ts)
BY LinkedRfpAssumption DEF Away, DeskOK, Desk, DeskPCs, LinkedRfpAssumption

LEMMA LeaveStep ==
  ASSUME TicketsOK, DesksOK, Grown, NEW r \in Requests, Leave(r)
  PROVE  DesksOK'
BY AwayOK, DeskStep DEF Leave

\* An update of one ticket that exists.
LEMMA TicketUpdate ==
  ASSUME TicketsOK, NEW t \in DOMAIN tickets, NEW k \in Ticket,
         tickets[t].linked => k.linked, tickets' = [tickets EXCEPT ![t] = k]
  PROVE  TicketsOK' /\ Grown /\ DOMAIN tickets' = DOMAIN tickets
<1>1. tickets' \in Seq(Ticket) /\ Len(tickets') = Len(tickets)
  BY DEF TicketsOK
<1>2. DOMAIN tickets' = DOMAIN tickets
  BY <1>1 DEF TicketsOK
<1> QED BY <1>1, <1>2 DEF TicketsOK, Grown, Linked

LEMMA Unchanged == UNCHANGED tickets => Grown /\ (TicketsOK => TicketsOK')
BY DEF Grown, Linked, TicketsOK

LEMMA TurnStep ==
  ASSUME TicketsOK, DesksOK, Grown, NEW r \in Requests, NEW pc \in DeskPCs,
         Turn(r, pc), DeskOK([desk[r] EXCEPT !.pc = pc], tickets')
  PROVE  DesksOK'
<1>1. desk' = [desk EXCEPT ![r] = [desk[r] EXCEPT !.pc = pc]]
  BY DEF Turn, DesksOK
<1> QED BY <1>1, DeskStep

LEMMA TakeStep ==
  ASSUME TicketsOK, DesksOK, Grown, NEW r \in Requests, NEW pc, NEW t, NEW held,
         Take(r, pc, t, held), DeskOK([pc |-> pc, ticket |-> t, held |-> held], tickets')
  PROVE  DesksOK'
BY DeskStep DEF Take

LEMMA TicketInHand ==
  ASSUME TicketsOK, DesksOK, NEW r \in Requests,
         desk[r].pc \notin {"idle", "create.ticket"}
  PROVE  /\ desk[r] \in Desk
         /\ desk[r].ticket \in DOMAIN tickets
         /\ Mine(r) = tickets[desk[r].ticket] /\ Mine(r) \in Ticket
         /\ desk[r].pc # "create.link" => Mine(r).linked
BY DEF TicketsOK, DesksOK, DeskOK, Mine

LEMMA FindStep ==
  ASSUME TicketsOK, DesksOK, NEW r \in Requests,
         FindLinked(r) \/ FindNone(r) \/ FindFails(r) \/ QueryFails(r)
  PROVE  TicketsOK' /\ DesksOK' /\ Grown
<1>1. UNCHANGED tickets
  BY DEF FindLinked, FindNone, FindFails, QueryFails
<1>2. TicketsOK' /\ Grown
  BY <1>1, Unchanged
<1>3. CASE FindLinked(r)
  <2>1. PICK t \in Linked : Take(r, AfterFind(r), t, FALSE)
    BY <1>3 DEF FindLinked
  <2>2. t \in DOMAIN tickets /\ tickets[t].linked
    BY DEF Linked
  <2>a. t \in 0..MaxTickets
    <3>1. DOMAIN tickets = 1..Len(tickets) /\ Len(tickets) \in Nat
      BY DEF TicketsOK
    <3> QED BY <2>2, <3>1, LinkedRfpAssumption DEF TicketsOK, LinkedRfpAssumption
  <2>3. AfterFind(r) \in DeskPCs \ {"idle", "create.ticket", "create.link"}
    BY DEF AfterFind, DeskPCs
  <2>4. DeskOK([pc |-> AfterFind(r), ticket |-> t, held |-> FALSE], tickets')
    BY <1>1, <2>2, <2>a, <2>3 DEF DeskOK, Desk
  <2> QED BY <1>2, <2>1, <2>4, TakeStep
<1>4. CASE FindNone(r) \/ FindFails(r)
  <2>1. Turn(r, "create.ticket") \/ Leave(r)
    BY <1>4 DEF FindNone, FindFails
  <2>2. DeskOK([desk[r] EXCEPT !.pc = "create.ticket"], tickets')
    BY DEF DesksOK, DeskOK, Desk, DeskPCs
  <2> QED BY <1>2, <2>1, <2>2, LeaveStep, TurnStep DEF DeskPCs
<1>5. CASE QueryFails(r)
  BY <1>2, <1>5, LeaveStep DEF QueryFails
<1> QED BY <1>2, <1>3, <1>4, <1>5

LEMMA CreateStep ==
  ASSUME TicketsOK, DesksOK, NEW r \in Requests, CreateTicket(r) \/ LinkTicket(r)
  PROVE  TicketsOK' /\ DesksOK' /\ Grown
<1>1. CASE CreateTicket(r)
  <2> DEFINE n == Len(tickets) + 1
  <2>1. tickets' = Append(tickets, NewTicket) /\ NewTicket \in Ticket
    BY <1>1 DEF CreateTicket, NewTicket, Ticket, Stamp
  <2>2. n \in 0..MaxTickets
    BY <1>1, LinkedRfpAssumption DEF CreateTicket, TicketsOK, LinkedRfpAssumption
  <2>3. /\ tickets' \in Seq(Ticket) /\ Len(tickets') = n
        /\ \A t \in DOMAIN tickets : tickets'[t] = tickets[t]
    BY <2>1 DEF TicketsOK
  <2>4. TicketsOK' /\ Grown
    BY <2>2, <2>3 DEF TicketsOK, Grown, Linked
  <2>5. DeskOK([pc |-> "create.link", ticket |-> n, held |-> FALSE], tickets')
    BY <2>2, <2>3 DEF DeskOK, Desk, DeskPCs, TicketsOK
  <2>6. Take(r, "create.link", n, FALSE)
    BY <1>1 DEF CreateTicket
  <2> HIDE DEF n
  <2> QED BY <2>4, <2>5, <2>6, TakeStep
<1>2. CASE LinkTicket(r)
  <2>1. desk[r].pc = "create.link"
    BY <1>2 DEF LinkTicket, DeskAt
  <2>2. HeldTicket \in Ticket /\ HeldTicket.linked
    BY DEF HeldTicket, NewTicket, Ticket, Stamp
  <2>3. tickets' = [tickets EXCEPT ![desk[r].ticket] = HeldTicket]
    BY <1>2 DEF LinkTicket
  <2>4. TicketsOK' /\ Grown /\ DOMAIN tickets' = DOMAIN tickets
    BY <2>1, <2>2, <2>3, TicketInHand, TicketUpdate
  <2>5. AfterFind(r) \in DeskPCs \ {"idle", "create.ticket", "create.link"}
    BY DEF AfterFind, DeskPCs
  <2>6. DeskOK([desk[r] EXCEPT !.pc = AfterFind(r)], tickets')
    BY <2>1, <2>2, <2>3, <2>4, <2>5, TicketInHand DEF DeskOK, Desk
  <2>7. Turn(r, AfterFind(r))
    BY <1>2 DEF LinkTicket
  <2> QED BY <2>4, <2>5, <2>6, <2>7, TurnStep
<1> QED BY <1>1, <1>2

\* The steps that find the ticket as it is, and write at most its flag or
\* its editor.
LEMMA HandleStep ==
  ASSUME TicketsOK, DesksOK, NEW r \in Requests,
         \/ ReleaseLoad(r) \/ ReleaseSave(r) \/ RetryLoad(r) \/ RetrySave(r)
         \/ EditLoad(r) \/ EditFields(r) \/ EditSave(r)
  PROVE  /\ TicketsOK' /\ DesksOK' /\ Grown
         /\ DOMAIN tickets' = DOMAIN tickets
         /\ \A t \in DOMAIN tickets : tickets'[t].linked = tickets[t].linked
<1>1. desk[r].pc \notin {"idle", "create.ticket", "create.link"}
  BY DEF ReleaseLoad, ReleaseSave, RetryLoad, RetrySave, EditLoad, EditFields,
         EditSave, DeskAt
<1>2. /\ desk[r] \in Desk /\ desk[r].ticket \in DOMAIN tickets
      /\ Mine(r) = tickets[desk[r].ticket] /\ Mine(r) \in Ticket
      /\ Mine(r).linked
  BY <1>1, TicketInHand
<1> DEFINE Goal == /\ TicketsOK' /\ DesksOK' /\ Grown
                   /\ DOMAIN tickets' = DOMAIN tickets
                   /\ \A t \in DOMAIN tickets :
                        tickets'[t].linked = tickets[t].linked
<1>3. CASE ReleaseLoad(r) \/ RetryLoad(r) \/ EditLoad(r)
  <2>1. UNCHANGED tickets
    BY <1>3 DEF ReleaseLoad, RetryLoad, EditLoad
  <2>2. TicketsOK' /\ Grown
    BY <2>1, Unchanged
  <2>3. DOMAIN tickets' = DOMAIN tickets
        /\ \A t \in DOMAIN tickets : tickets'[t].linked = tickets[t].linked
    BY <2>1
  <2>4. DesksOK'
    <3>1. CASE Leave(r)
      BY <2>2, <3>1, LeaveStep
    <3>2. CASE Turn(r, "release.save")
      <4>1. DeskOK([desk[r] EXCEPT !.pc = "release.save"], tickets')
        BY <1>2, <2>1 DEF DeskOK, Desk, DeskPCs
      <4> QED BY <2>2, <3>2, <4>1, TurnStep DEF DeskPCs
    <3>3. ASSUME NEW pc \in {"retry.save", "edit.fields"}, NEW h \in BOOLEAN,
                 Take(r, pc, desk[r].ticket, h)
          PROVE  DesksOK'
      <4>1. DeskOK([pc |-> pc, ticket |-> desk[r].ticket, held |-> h], tickets')
        BY <1>2, <2>1 DEF DeskOK, Desk, DeskPCs
      <4> QED BY <2>2, <3>3, <4>1, TakeStep
    <3>4. Mine(r).held \in BOOLEAN
      BY <1>2 DEF Ticket
    <3> QED BY <1>3, <3>1, <3>2, <3>3, <3>4 DEF ReleaseLoad, RetryLoad, EditLoad
  <2> QED BY <2>2, <2>3, <2>4
<1>4. ASSUME NEW k \in Ticket, k.linked,
             tickets' = [tickets EXCEPT ![desk[r].ticket] = k],
             Leave(r) \/ Turn(r, "edit.save")
      PROVE  Goal
  <2>1. TicketsOK' /\ Grown /\ DOMAIN tickets' = DOMAIN tickets
    BY <1>2, <1>4, TicketUpdate
  <2>2. \A t \in DOMAIN tickets : tickets'[t].linked = tickets[t].linked
    BY <1>2, <1>4 DEF Ticket, TicketsOK
  <2>3. CASE Leave(r)
    BY <2>1, <2>2, <2>3, LeaveStep
  <2>4. CASE Turn(r, "edit.save")
    <3>1. tickets'[desk[r].ticket].linked
      BY <1>2, <2>2
    <3>2. DeskOK([desk[r] EXCEPT !.pc = "edit.save"], tickets')
      BY <1>2, <2>1, <3>1 DEF DeskOK, Desk, DeskPCs
    <3> QED BY <2>1, <2>2, <2>4, <3>2, TurnStep DEF DeskPCs
  <2> QED BY <1>4, <2>3, <2>4
<1>5. CASE ReleaseSave(r) \/ RetrySave(r) \/ EditFields(r) \/ EditSave(r)
  <2>1. desk[r].held \in BOOLEAN /\ r \in Stamp
    BY <1>2 DEF Desk, Stamp
  <2>2. CASE ReleaseSave(r)
    <3> DEFINE k == [Mine(r) EXCEPT !.held = FALSE]
    <3>1. k \in Ticket /\ k.linked
      BY <1>2 DEF Ticket
    <3>2. tickets' = [tickets EXCEPT ![desk[r].ticket] = k] /\ Leave(r)
      BY <1>2, <2>2 DEF ReleaseSave, TicketsOK
    <3> HIDE DEF k
    <3> QED BY <1>4, <3>1, <3>2
  <2>3. CASE RetrySave(r) \/ EditSave(r)
    <3> DEFINE k == [Mine(r) EXCEPT !.held = desk[r].held]
    <3>1. k \in Ticket /\ k.linked
      BY <1>2, <2>1 DEF Ticket
    <3>2. tickets' = [tickets EXCEPT ![desk[r].ticket] = k] /\ Leave(r)
      BY <1>2, <2>3 DEF RetrySave, EditSave, TicketsOK
    <3> HIDE DEF k
    <3> QED BY <1>4, <3>1, <3>2
  <2>4. CASE EditFields(r)
    <3> DEFINE k == [Mine(r) EXCEPT !.editor = r]
    <3>1. k \in Ticket /\ k.linked
      BY <1>2, <2>1 DEF Ticket
    <3>2. tickets' = [tickets EXCEPT ![desk[r].ticket] = k] /\ Turn(r, "edit.save")
      BY <1>2, <2>4 DEF EditFields, TicketsOK
    <3> HIDE DEF k
    <3> QED BY <1>4, <3>1, <3>2
  <2> QED BY <1>5, <2>2, <2>3, <2>4
<1> QED BY <1>3, <1>5

LEMMA LostStep ==
  lost \in 0..MaxLost /\ [LinkedNext]_linkedVars => lost' \in 0..MaxLost
<1>1. ASSUME NEW r \in Requests, lost \in 0..MaxLost, FindFails(r)
      PROVE  lost' \in 0..MaxLost
  BY <1>1, LinkedRfpAssumption DEF FindFails, LinkedRfpAssumption
<1>2. ASSUME NEW r \in Requests, TicketStep(r), ~FindFails(r)
      PROVE  UNCHANGED lost
  BY <1>2
  DEF TicketStep, FindLinked, FindNone, QueryFails, CreateTicket, LinkTicket,
      ReleaseLoad, ReleaseSave, RetryLoad, RetrySave, EditLoad, EditFields,
      EditSave
<1> QED BY <1>1, <1>2, LinkedSteps DEF linkedVars, Restart

LEMMA LinkedTypeStep ==
  TicketsOK /\ DesksOK /\ [LinkedNext]_linkedVars => TicketsOK' /\ DesksOK'
<1> SUFFICES ASSUME TicketsOK, DesksOK, [LinkedNext]_linkedVars
             PROVE  TicketsOK' /\ DesksOK'
  OBVIOUS
<1>1. CASE Restart
  <2>1. UNCHANGED tickets /\ desk' = [r \in Requests |-> Away]
    BY <1>1 DEF Restart
  <2>2. Away \in Desk
    BY AwayOK DEF DeskOK
  <2>3. \A r \in Requests : DeskOK(desk'[r], tickets')
    BY <2>1, AwayOK
  <2> QED BY <2>1, <2>2, <2>3, Unchanged DEF DesksOK
<1>2. CASE UNCHANGED <<tickets, desk>>
  BY <1>2 DEF TicketsOK, DesksOK
<1>3. ASSUME NEW r \in Requests, TicketStep(r) PROVE TicketsOK' /\ DesksOK'
  BY <1>3, FindStep, CreateStep, HandleStep DEF TicketStep
<1> QED BY <1>1, <1>2, <1>3, LinkedSteps DEF linkedVars

LEMMA LinkedTypeInit ==
  LinkedInit => TicketsOK /\ DesksOK /\ lost \in 0..MaxLost
<1> SUFFICES ASSUME LinkedInit
             PROVE  TicketsOK /\ DesksOK /\ lost \in 0..MaxLost
  OBVIOUS
<1>1. HeldTicket \in Ticket
  BY DEF HeldTicket, NewTicket, Ticket, Stamp
<1>2. tickets \in Seq(Ticket) /\ Len(tickets) <= 1
  <2>1. CASE tickets = << >>
    BY <2>1
  <2>2. CASE tickets = <<HeldTicket>>
    BY <1>1, <2>2
  <2> QED BY <2>1, <2>2 DEF LinkedInit
<1>3. TicketsOK
  BY <1>2, LinkedRfpAssumption DEF TicketsOK, LinkedRfpAssumption
<1>4. desk = [r \in Requests |-> Away] /\ Away \in Desk
  BY AwayOK DEF LinkedInit, DeskOK
<1>5. DesksOK
  BY <1>4, AwayOK DEF DesksOK
<1>6. lost \in 0..MaxLost
  BY LinkedRfpAssumption DEF LinkedInit, LinkedRfpAssumption
<1> QED BY <1>3, <1>5, <1>6

\* Past the look-up and the creation, a request has a linked ticket in hand:
\* no ticket is unlinked again, and none is removed.
THEOREM LinkedTypeInvariant == LinkedSpec => []LinkedTypeOK
<1> DEFINE Inv == TicketsOK /\ DesksOK /\ lost \in 0..MaxLost
<1>1. LinkedInit => Inv
  BY LinkedTypeInit
<1>2. Inv /\ [LinkedNext]_linkedVars => Inv'
  BY LinkedTypeStep, LostStep
<1>3. Inv => LinkedTypeOK
  BY LinkedHalves
<1> HIDE DEF Inv
<1> QED BY <1>1, <1>2, <1>3, PTL DEF LinkedSpec

-----------------------------------------------------------------------------
(* The bound on the payment requests *)

\* The requests that found no ticket and have not linked theirs yet.
Creating == {r \in Requests : desk[r].pc \in {"create.ticket", "create.link"}}

\* Every request about to link one counts as if it had.
TicketBudget ==
  Cardinality(Linked) + Cardinality(Creating) <= Cardinality(Requests) + lost

\* What a step can do to the linked tickets and to those being created.
LEMMA CreateFrame ==
  ASSUME TicketsOK, DesksOK, [LinkedNext]_linkedVars
  PROVE  \/ Linked' = Linked /\ Creating' \subseteq Creating /\ lost' = lost
         \/ Linked' = Linked /\ Linked = {} /\ lost' = lost
         \/ \E r \in Requests :
              /\ Linked' = Linked /\ lost' = lost + 1
              /\ Creating' \subseteq Creating \cup {r}
         \/ \E r \in Creating :
              /\ lost' = lost /\ Creating' = Creating \ {r}
              /\ \E t \in Nat : Linked' \subseteq Linked \cup {t}
<1> DEFINE Rest == Linked' = Linked /\ Creating' \subseteq Creating /\ lost' = lost
<1>1. ASSUME UNCHANGED tickets PROVE Linked' = Linked
  BY <1>1 DEF Linked
<1>2. CASE UNCHANGED <<tickets, desk, lost>>
  BY <1>2 DEF Linked, Creating
<1>3. CASE Restart
  <2>1. Creating' = {}
    BY <1>3 DEF Restart, Creating, Away
  <2> QED BY <1>1, <1>3, <2>1 DEF Restart
<1>4. ASSUME NEW r \in Requests, Leave(r)
      PROVE  Creating' \subseteq Creating
  BY <1>4 DEF Leave, Away, DesksOK, Creating
<1>5. ASSUME NEW r \in Requests, FindLinked(r) PROVE Rest
  <2>1. PICK t \in Linked : Take(r, AfterFind(r), t, FALSE)
    BY <1>5 DEF FindLinked
  <2>2. Creating' \subseteq Creating
    BY <2>1 DEF Take, AfterFind, DesksOK, Creating
  <2> QED BY <1>1, <1>5, <2>2 DEF FindLinked
<1>6. ASSUME NEW r \in Requests, FindFails(r)
      PROVE  /\ Linked' = Linked /\ lost' = lost + 1
             /\ Creating' \subseteq Creating \cup {r}
  <2>1. UNCHANGED tickets /\ lost' = lost + 1
    BY <1>6 DEF FindFails
  <2>2. CASE Leave(r)
    BY <1>1, <1>4, <2>1, <2>2
  <2>3. CASE Turn(r, "create.ticket")
    <3>1. Creating' \subseteq Creating \cup {r}
      BY <2>3 DEF Turn, DesksOK, Creating
    <3> QED BY <1>1, <2>1, <3>1
  <2> QED BY <1>6, <2>2, <2>3 DEF FindFails
<1>7. ASSUME NEW r \in Requests, CreateTicket(r) PROVE Rest
  <2>1. desk[r].pc = "create.ticket" /\ tickets' = Append(tickets, NewTicket)
        /\ UNCHANGED lost
    BY <1>7 DEF CreateTicket, DeskAt
  <2>2. Creating' \subseteq Creating \cup {r}
    BY <1>7 DEF CreateTicket, Take, DesksOK, Creating
  <2>3. r \in Creating
    BY <2>1 DEF Creating
  <2>4. /\ DOMAIN tickets' = DOMAIN tickets \cup {Len(tickets) + 1}
        /\ \A t \in DOMAIN tickets : tickets'[t] = tickets[t]
        /\ tickets'[Len(tickets) + 1] = NewTicket
    BY <2>1 DEF TicketsOK
  <2>5. Linked' = Linked
    BY <2>4 DEF Linked, NewTicket
  <2> QED BY <2>1, <2>2, <2>3, <2>5
<1>8. ASSUME NEW r \in Requests, LinkTicket(r)
      PROVE  /\ lost' = lost /\ r \in Creating /\ Creating' = Creating \ {r}
             /\ \E t \in Nat : Linked' \subseteq Linked \cup {t}
  <2>1. /\ desk[r].pc = "create.link" /\ UNCHANGED lost
        /\ tickets' = [tickets EXCEPT ![desk[r].ticket] = HeldTicket]
    BY <1>8 DEF LinkTicket, DeskAt
  <2>2. desk[r].ticket \in Nat
    BY LinkedRfpAssumption DEF LinkedRfpAssumption, DesksOK, DeskOK, Desk
  <2>3. Linked' \subseteq Linked \cup {desk[r].ticket}
    BY <2>1 DEF Linked, TicketsOK
  <2>4. r \in Creating
    BY <2>1 DEF Creating
  <2>5. desk' = [desk EXCEPT ![r].pc = AfterFind(r)]
    BY <1>8 DEF LinkTicket, Turn
  <2>6. desk[r] \in Desk /\ AfterFind(r) \notin {"create.ticket", "create.link"}
    BY DEF AfterFind, DesksOK, DeskOK
  <2>7. Creating' = Creating \ {r}
    BY <2>5, <2>6 DEF DesksOK, Creating, Desk
  <2> QED BY <2>1, <2>2, <2>3, <2>4, <2>7
<1>9. ASSUME NEW r \in Requests,
              \/ ReleaseLoad(r) \/ ReleaseSave(r) \/ RetryLoad(r) \/ RetrySave(r)
              \/ EditLoad(r) \/ EditFields(r) \/ EditSave(r)
       PROVE  Rest
  <2>1. Linked' = Linked
    BY <1>9, HandleStep DEF Linked
  <2>2. lost' = lost
    BY <1>9 DEF ReleaseLoad, ReleaseSave, RetryLoad, RetrySave, EditLoad,
                 EditFields, EditSave
  <2>3. PICK t, h :
          \E pc \in {"release.save", "retry.save", "edit.fields", "edit.save"} :
            Leave(r) \/ Turn(r, pc) \/ Take(r, pc, t, h)
    BY <1>9 DEF ReleaseLoad, ReleaseSave, RetryLoad, RetrySave, EditLoad,
                 EditFields, EditSave
  <2>4. PICK pc \in {"release.save", "retry.save", "edit.fields", "edit.save"} :
          Leave(r) \/ Turn(r, pc) \/ Take(r, pc, t, h)
    BY <2>3
  <2>5. CASE Turn(r, pc)
    <3>1. desk' = [desk EXCEPT ![r].pc = pc] /\ pc \notin {"create.ticket", "create.link"}
      BY <2>5 DEF Turn
    <3>2. Creating' \subseteq Creating
      BY <3>1 DEF DesksOK, Creating
    <3> QED BY <2>1, <2>2, <3>2
  <2>6. CASE Take(r, pc, t, h)
    <3>1. Creating' \subseteq Creating
      BY <2>6 DEF Take, DesksOK, Creating
    <3> QED BY <2>1, <2>2, <3>1
  <2> QED BY <1>4, <2>1, <2>2, <2>4, <2>5, <2>6
<1>10. ASSUME NEW r \in Requests, FindNone(r) \/ QueryFails(r)
       PROVE  Rest \/ (Linked' = Linked /\ Linked = {} /\ lost' = lost)
  BY <1>1, <1>4, <1>10 DEF FindNone, QueryFails
<1>11. ASSUME NEW r \in Requests, TicketStep(r)
       PROVE  \/ Rest
              \/ Linked' = Linked /\ Linked = {} /\ lost' = lost
              \/ /\ Linked' = Linked /\ lost' = lost + 1
                 /\ Creating' \subseteq Creating \cup {r}
              \/ /\ lost' = lost /\ r \in Creating /\ Creating' = Creating \ {r}
                 /\ \E t \in Nat : Linked' \subseteq Linked \cup {t}
  <2> HIDE DEF Rest
  <2> QED BY <1>5, <1>6, <1>7, <1>8, <1>9, <1>10, <1>11 DEF TicketStep
<1> QED BY <1>2, <1>3, <1>11, LinkedSteps DEF linkedVars

LEMMA TicketSums ==
  ASSUME NEW m \in Nat, NEW n \in Nat, NEW m2 \in Nat, NEW n2 \in Nat,
         NEW all \in Nat, NEW k \in Nat, NEW k2 \in Nat, m + n <= all + k,
         \/ m2 = m /\ n2 <= n /\ k2 = k
         \/ m2 = 0 /\ n2 <= all /\ k2 = k
         \/ m2 = m /\ n2 <= n + 1 /\ k2 = k + 1
         \/ m2 <= m + 1 /\ n2 = n - 1 /\ k2 = k
  PROVE  m2 + n2 <= all + k2
OBVIOUS

LEMMA LinkedIsFinite ==
  ASSUME NEW ts \in Seq(Ticket)
  PROVE  /\ IsFiniteSet({t \in DOMAIN ts : ts[t].linked})
         /\ Cardinality({t \in DOMAIN ts : ts[t].linked}) \in Nat
<1>1. {t \in DOMAIN ts : ts[t].linked} \subseteq 1..Len(ts) /\ Len(ts) \in Nat
  OBVIOUS
<1>2. IsFiniteSet(1..Len(ts))
  BY <1>1, FS_Interval
<1> QED BY <1>1, <1>2, FS_Subset, FS_CardinalityType

LEMMA TicketBudgetStep ==
  ASSUME IsFiniteSet(Requests), TicketsOK, DesksOK, lost \in Nat, TicketBudget,
         [LinkedNext]_linkedVars
  PROVE  TicketBudget'
<1> DEFINE m == Cardinality(Linked)
           n == Cardinality(Creating)
           all == Cardinality(Requests)
<1>1. IsFiniteSet(Creating) /\ IsFiniteSet(Creating')
  BY FS_Subset DEF Creating
<1>2. n \in Nat /\ n' \in Nat /\ all \in Nat /\ n' <= all
  <2>1. Creating \subseteq Requests /\ Creating' \subseteq Requests
    BY DEF Creating
  <2> QED BY <1>1, <2>1, FS_Subset, FS_CardinalityType
<1>3. m \in Nat /\ m' \in Nat /\ IsFiniteSet(Linked) /\ IsFiniteSet(Linked')
  <2>1. tickets \in Seq(Ticket) /\ tickets' \in Seq(Ticket)
    BY LinkedTypeStep DEF TicketsOK
  <2> QED BY <2>1, LinkedIsFinite DEF Linked
<1>4. m + n <= all + lost
  BY DEF TicketBudget
<1>5. CASE Linked' = Linked /\ Creating' \subseteq Creating /\ lost' = lost
  <2>1. m' = m /\ n' <= n
    BY <1>1, <1>5, FS_Subset
  <2> QED BY <1>2, <1>3, <1>4, <1>5, <2>1, TicketSums DEF TicketBudget
<1>6. CASE Linked' = Linked /\ Linked = {} /\ lost' = lost
  <2>1. m' = 0
    BY <1>6, FS_EmptySet
  <2> QED BY <1>2, <1>3, <1>4, <1>6, <2>1, TicketSums DEF TicketBudget
<1>7. ASSUME NEW r \in Requests, Linked' = Linked, lost' = lost + 1,
             Creating' \subseteq Creating \cup {r}
      PROVE  TicketBudget'
  <2>1. /\ IsFiniteSet(Creating \cup {r})
        /\ Cardinality(Creating \cup {r}) \in {n, n + 1}
    BY <1>1, FS_AddElement
  <2>2. n' <= Cardinality(Creating \cup {r})
    BY <1>7, <2>1, FS_Subset
  <2>3. m' = m /\ n' <= n + 1
    BY <1>2, <1>7, <2>1, <2>2
  <2> QED BY <1>2, <1>3, <1>4, <1>7, <2>3, TicketSums DEF TicketBudget
<1>8. ASSUME lost' = lost, NEW r \in Creating, Creating' = Creating \ {r},
             NEW t \in Nat, Linked' \subseteq Linked \cup {t}
      PROVE  TicketBudget'
  <2>1. /\ IsFiniteSet(Linked \cup {t})
        /\ Cardinality(Linked \cup {t}) \in {m, m + 1}
    BY <1>3, FS_AddElement
  <2>2. m' <= Cardinality(Linked \cup {t})
    BY <1>8, <2>1, FS_Subset
  <2>3. m' <= m + 1
    BY <1>3, <2>1, <2>2
  <2>4. n' = n - 1
    BY <1>1, <1>8, FS_RemoveElement
  <2> QED BY <1>2, <1>3, <1>4, <1>8, <2>3, <2>4, TicketSums DEF TicketBudget
<1> QED BY <1>5, <1>6, <1>7, <1>8, CreateFrame

\* An order gets no more linked payment requests than there are requests at
\* once and look-ups that failed, however often retries are repeated.
THEOREM PaymentRequestsAreBounded ==
  ASSUME IsFiniteSet(Requests), Requests # {}
  PROVE  LinkedSpec => []LinkedOvershoot
<1> DEFINE Inv == TicketsOK /\ DesksOK /\ lost \in 0..MaxLost /\ TicketBudget
<1>1. LinkedInit => Inv
  <2> SUFFICES ASSUME LinkedInit PROVE TicketBudget
    BY LinkedTypeInit
  <2>1. Linked \subseteq {1} /\ lost = 0
    BY DEF LinkedInit, Linked
  <2>2. Creating = {}
    BY DEF LinkedInit, Away, Creating
  <2>3. Cardinality(Linked) <= 1 /\ Cardinality(Creating) = 0
    <3>1. IsFiniteSet({1}) /\ Cardinality({1}) = 1
      BY FS_Singleton
    <3>2. Cardinality(Linked) <= Cardinality({1})
      BY <2>1, <3>1, FS_Subset
    <3> QED BY <2>2, <3>1, <3>2, FS_EmptySet
  <2>4. Cardinality(Requests) \in Nat /\ Cardinality(Requests) # 0
    BY FS_CardinalityType, FS_EmptySet
  <2>5. Cardinality(Linked) \in Nat
    BY LinkedTypeInit, LinkedIsFinite DEF TicketsOK, Linked
  <2> QED BY <2>1, <2>3, <2>4, <2>5 DEF TicketBudget
<1>2. Inv /\ [LinkedNext]_linkedVars => Inv'
  BY LinkedTypeStep, LostStep, TicketBudgetStep
<1>3. Inv => LinkedOvershoot
  <2> SUFFICES ASSUME TicketsOK, lost \in Nat, TicketBudget
               PROVE  LinkedOvershoot
    OBVIOUS
  <2>1. IsFiniteSet(Creating)
    BY FS_Subset DEF Creating
  <2>2. /\ Cardinality(Creating) \in Nat /\ Cardinality(Requests) \in Nat
        /\ Cardinality(Linked) \in Nat
    BY <2>1, LinkedIsFinite, FS_CardinalityType DEF TicketsOK, Linked
  <2> QED BY <2>2 DEF TicketBudget, LinkedOvershoot
<1> HIDE DEF Inv
<1> QED BY <1>1, <1>2, <1>3, PTL DEF LinkedSpec

-----------------------------------------------------------------------------
(***************************************************************************)
(* One request at a time, the payment request made at creation: what a     *)
(* route decided stays true until it writes, so that whoever turns the     *)
(* order APPROVED also goes on to the release, and what a retry or an edit *)
(* writes back is what the ticket holds.                                   *)
(***************************************************************************)
Alone == \A q, r \in Requests : req[q] # Idle /\ req[r] # Idle => q = r

\* The ticket of the creation, linked and for ever the only one.
OneTicket == Len(tickets) = 1 /\ tickets[1].linked

\* An approval that was allowed began at SUBMITTED; a confirmation, at
\* APPROVED.
Decided(q) ==
  /\ q.pc = "approve.read" => q.first = order.status
  /\ q.pc \in {"approve.sign", "approve.endorse"} => q.first = "SUBMITTED"
  /\ q.pc = "approve.reread" => /\ q.first = "SUBMITTED"
                                /\ order.status \in {"SUBMITTED", "APPROVED"}
  /\ q.pc = "status.write" => /\ q.goal # "APPROVED"
                              /\ q.goal = "CONFIRMED" => order.status = "APPROVED"

\* Request q and its desk: the flag it will write back is the ticket's.
InHand(q, d) ==
  d.pc # "idle" =>
    /\ d.ticket = 1
    /\ \/ q.pc = "approve.release" /\ d.pc \in {"release.load", "release.save"}
       \/ q.pc = "rfp" /\ d.pc \in {"retry.load", "edit.load"}
       \/ q.pc = "rfp" /\ d.pc = "retry.save" /\ d.held = tickets[1].held
       \/ /\ q.pc = "rfp" /\ d.pc \in {"edit.fields", "edit.save"}
          /\ d.held /\ tickets[1].held

\* Held on an approved order only while its approval is still at work.
ReleasedInTime ==
  \/ order.status \notin {"APPROVED", "CONFIRMED"}
  \/ ~tickets[1].held
  \/ \E r \in Requests : req[r].pc \in {"approve.reread", "approve.release"}

Slots == \A r \in Requests : Decided(req[r]) /\ InHand(req[r], desk[r])

SoloInv == Alone /\ OneTicket /\ Slots /\ ReleasedInTime

\* What the proofs below start from.
Known == RowsOK /\ SlotsOK /\ TicketsOK /\ DesksOK /\ SoloInv

OthersIdle(r) == \A s \in Requests \ {r} : req[s] = Idle

LEMMA BusyIsAlone ==
  ASSUME Alone, NEW r \in Requests, req[r].pc # "idle"
  PROVE  OthersIdle(r)
<1>1. req[r] # Idle
  BY DEF Idle
<1> QED BY <1>1 DEF Alone, OthersIdle

\* It is enough to know the slot and the desk of the request that stepped.
LEMMA PutSolo ==
  ASSUME NEW r \in Requests, OthersIdle(r), Slots,
         \A s \in Requests \ {r} : req'[s] = req[s] /\ desk'[s] = desk[s],
         Decided(req[r])', InHand(req[r], desk[r])'
  PROVE  Alone' /\ Slots'
<1>1. \A s \in Requests \ {r} : req'[s] = Idle
  BY DEF OthersIdle
<1>2. Alone'
  BY <1>1 DEF Alone
<1>3. ASSUME NEW s \in Requests PROVE (Decided(req[s]) /\ InHand(req[s], desk[s]))'
  <2>1. CASE s # r
    <3>1. req'[s] = Idle /\ req[s] = Idle /\ Idle.pc = "idle"
      BY <1>1, <2>1 DEF OthersIdle, Idle
    <3>2. desk'[s].pc = "idle"
      BY <2>1, <3>1 DEF Slots, InHand
    <3> QED BY <3>1, <3>2 DEF Decided, InHand
  <2> QED BY <2>1
<1> QED BY <1>2, <1>3 DEF Slots

\* A request that is not about the payment has nothing in hand.
LEMMA NothingInHand ==
  ASSUME Slots, NEW r \in Requests, req[r].pc \notin {"approve.release", "rfp"}
  PROVE  desk[r].pc = "idle"
BY DEF Slots, InHand

\* The approval at work is the only request there is.
LEMMA ReleasedAlready ==
  ASSUME SoloInv, NEW r \in Requests, OthersIdle(r),
         req[r].pc \notin {"approve.reread", "approve.release"}
  PROVE  order.status \in {"APPROVED", "CONFIRMED"} => ~tickets[1].held
<1>1. \A s \in Requests \ {r} : req[s].pc = "idle"
  BY DEF OthersIdle, Idle
<1> QED BY <1>1 DEF SoloInv, ReleasedInTime

-----------------------------------------------------------------------------
(* The steps of the travel order *)

\* What arrives: the row of the order stays, and decides.
LEMMA AcceptDecided ==
  ASSUME SlotsOK, NEW r \in Requests, Accept(r)
  PROVE  /\ UNCHANGED order
         /\ \A s \in Requests \ {r} : req'[s] = req[s]
         /\ Decided(req[r])'
<1>0. UNCHANGED order
  BY AcceptReads
<1>1. PICK a \in Agents :
        \/ Approve(r, a) \/ Reject(r, a) \/ Cancel(r, a) \/ Confirm(r, a)
        \/ Resubmit(r, a) \/ SubmitDone(r, a) \/ AddLocation(r, a)
        \/ GateStart(r, a) \/ GateEnd(r, a) \/ GateEdit(r, a) \/ GateDrop(r, a)
        \/ RetryRfp(r, a) \/ EditRfp(r, a)
        \/ \E l \in Locations : VisitStart(r, a, l) \/ VisitEnd(r, a, l)
  BY DEF Accept
<1> DEFINE Goal == /\ \A s \in Requests \ {r} : req'[s] = req[s]
                   /\ Decided(req[r])'
           Quiet == {"gate.read", "location.write", "visit.write",
                     "kpi.record", "rfp"}
<1>2. CASE Approve(r, a)
  <2>1. /\ \A s \in Requests \ {r} : req'[s] = req[s]
        /\ req'[r].pc = "approve.read" /\ req'[r].first = order.status
    BY <1>2 DEF Approve, SlotsOK, Idle
  <2> QED BY <1>0, <2>1 DEF Decided
<1>3. ASSUME NEW goal \in {"REJECTED", "CANCELLED", "CONFIRMED", "SUBMITTED"},
             Arrive(r, "status.write", goal),
             goal = "CONFIRMED" => order.status = "APPROVED"
      PROVE  Goal
  <2>1. /\ \A s \in Requests \ {r} : req'[s] = req[s]
        /\ req'[r].pc = "status.write" /\ req'[r].goal = goal
    BY <1>3 DEF Arrive, SlotsOK, Idle
  <2> QED BY <1>0, <1>3, <2>1 DEF Decided
<1>4. ASSUME NEW pc \in Quiet, NEW goal, Arrive(r, pc, goal) PROVE Goal
  <2>1. (\A s \in Requests \ {r} : req'[s] = req[s]) /\ req'[r].pc = pc
    BY <1>4 DEF Arrive, SlotsOK, Idle
  <2> QED BY <2>1 DEF Decided
<1>5. CASE SubmitDone(r, a)
  <2>1. (\A s \in Requests \ {r} : req'[s] = req[s]) /\ req'[r].pc = "kpi.record"
    BY <1>5 DEF SubmitDone, FinalizeFrom, FinalizeAt, SlotsOK, Idle
  <2> QED BY <1>0, <2>1 DEF Decided
<1>6. CASE \E l \in Locations : VisitStart(r, a, l) \/ VisitEnd(r, a, l)
  <2>1. (\A s \in Requests \ {r} : req'[s] = req[s]) /\ req'[r].pc = "visit.write"
    BY <1>6 DEF VisitStart, VisitEnd, SlotsOK, Idle
  <2> QED BY <1>0, <2>1 DEF Decided
<1>7. CASE Reject(r, a) \/ Cancel(r, a) \/ Confirm(r, a) \/ Resubmit(r, a)
  BY <1>3, <1>7 DEF Reject, Cancel, Confirm, Resubmit, canConfirmTravelOrderNow
<1>8. CASE \/ AddLocation(r, a) \/ RetryRfp(r, a) \/ EditRfp(r, a)
           \/ GateStart(r, a) \/ GateEnd(r, a) \/ GateEdit(r, a) \/ GateDrop(r, a)
  BY <1>4, <1>8 DEF AddLocation, RetryRfp, EditRfp, OpenRfp, GateStart, GateEnd,
     GateEdit, GateDrop, GateVisit, GateRevise
<1> QED BY <1>0, <1>1, <1>2, <1>5, <1>6, <1>7, <1>8
\* Lemmas on a slot that goes on, is answered, or copies the row.
LEMMA SlotMoves ==
  ASSUME SlotsOK, NEW r \in Requests, NEW pc,
         Goto(r, pc) \/ Reread(r, pc) \/ (pc = "idle" /\ Done(r))
  PROVE  /\ \A s \in Requests \ {r} : req'[s] = req[s]
         /\ req'[r].pc = pc
         /\ pc # "idle" => req'[r].first = req[r].first
BY DEF SlotsOK, SlotOK, Request, Goto, Reread, Done, Idle

\* The steps that have nothing to do with the approval.
LEMMA OtherDecided ==
  ASSUME RowsOK, SlotsOK, NEW r \in Requests,
         \/ ReadGate(r) \/ WriteGate(r) \/ WriteVisit(r) \/ WriteLocation(r)
         \/ ConfirmReread(r) \/ RecordKpi(r) \/ RereadKpi(r)
         \/ CompleteTask(r) \/ RereadToSync(r) \/ SyncMerged(r)
  PROVE  /\ order'.status = order.status
         /\ req[r].pc \notin {"idle", "approve.reread", "approve.release", "rfp"}
         /\ \A s \in Requests \ {r} : req'[s] = req[s]
         /\ Decided(req[r])'
<1>1. order'.status = order.status
  BY DEF RowsOK, Order, ReadGate, WriteGate, WriteVisit, WriteLocation,
     ConfirmReread, RecordKpi, RereadKpi, CompleteTask, RereadToSync, SyncMerged
<1>2. req[r].pc \notin {"idle", "approve.reread", "approve.release", "rfp"}
  BY DEF ReadGate, WriteGate, WriteVisit, WriteLocation, ConfirmReread,
     RecordKpi, RereadKpi, CompleteTask, RereadToSync, SyncMerged, At
<1> DEFINE Quiet == {"idle", "gate.write", "kpi.record", "kpi.reread",
                     "kpi.task", "sync.write"}
<1>3. ASSUME NEW pc \in Quiet, (\A s \in Requests \ {r} : req'[s] = req[s])
                                 /\ req'[r].pc = pc
      PROVE  (\A s \in Requests \ {r} : req'[s] = req[s]) /\ Decided(req[r])'
  BY <1>3 DEF Decided
<1>4. \E pc \in Quiet : (\A s \in Requests \ {r} : req'[s] = req[s])
                          /\ req'[r].pc = pc
  <2>1. CASE ConfirmReread(r)
    BY <2>1 DEF ConfirmReread, FinalizeFrom, FinalizeAt, SlotsOK, Idle
  <2>2. CASE ~ConfirmReread(r)
    <3>1. \E pc \in Quiet : Goto(r, pc) \/ Reread(r, pc)
                              \/ (pc = "idle" /\ Done(r))
      BY <2>2 DEF ReadGate, WriteGate, WriteVisit, WriteLocation, RecordKpi,
         RereadKpi, CompleteTask, RereadToSync, SyncMerged
    <3> HIDE DEF Quiet
    <3> QED BY <3>1, SlotMoves
  <2> QED BY <2>1, <2>2
<1> QED BY <1>1, <1>2, <1>3, <1>4

\* The reads of an approval: whatever comes next, it began at SUBMITTED.
LEMMA ReadDecided ==
  ASSUME RowsOK, SlotsOK, NEW r \in Requests, Decided(req[r]),
         ReadToSign(r) \/ ReadToEndorse(r) \/ RefuseApproval(r)
  PROVE  /\ UNCHANGED order
         /\ req[r].pc = "approve.read"
         /\ \A s \in Requests \ {r} : req'[s] = req[s]
         /\ Decided(req[r])'
<1>1. UNCHANGED order /\ req[r].pc = "approve.read" /\ req[r].first = order.status
  BY DEF ReadToSign, ReadToEndorse, RefuseApproval, At, Decided
<1>2. CASE ReadToSign(r) \/ ReadToEndorse(r)
  <2>1. order.status = "SUBMITTED"
    BY <1>2 DEF ReadToSign, ReadToEndorse, MaySign, MaySignSeat, MayEndorse
  <2>2. PICK pc \in {"approve.sign", "approve.endorse"} :
          Goto(r, pc) \/ Reread(r, pc)
    BY <1>2 DEF ReadToSign, ReadToEndorse
  <2>3. /\ \A s \in Requests \ {r} : req'[s] = req[s]
        /\ req'[r].pc = pc /\ req'[r].first = "SUBMITTED"
    BY <1>1, <2>1, <2>2, SlotMoves
  <2> QED BY <1>1, <2>3 DEF Decided
<1>3. CASE RefuseApproval(r)
  <2>1. (\A s \in Requests \ {r} : req'[s] = req[s]) /\ req'[r].pc = "idle"
    BY <1>3, SlotMoves DEF RefuseApproval
  <2> QED BY <1>1, <2>1 DEF Decided
<1> QED BY <1>2, <1>3

\* The writes of an approval, and what it goes on to.
LEMMA SignDecided ==
  ASSUME RowsOK, SlotsOK, NEW r \in Requests, Decided(req[r]),
         WriteSignature(r) \/ WriteEndorsement(r)
  PROVE  /\ req[r].pc \in {"approve.sign", "approve.endorse"}
         /\ \A s \in Requests \ {r} : req'[s] = req[s]
         /\ Decided(req[r])'
         /\ req'[r].pc = "approve.reread"
<1>1. /\ req[r].pc \in {"approve.sign", "approve.endorse"}
      /\ req[r].first = "SUBMITTED" /\ Goto(r, "approve.reread")
  BY DEF WriteSignature, WriteEndorsement, At, Decided
<1>2. order'.status \in {"SUBMITTED", "APPROVED"}
  BY DEF WriteSignature, WriteEndorsement, SetStatus, StatusAfter, RowsOK, Order
<1>3. /\ \A s \in Requests \ {r} : req'[s] = req[s]
      /\ req'[r].pc = "approve.reread" /\ req'[r].first = "SUBMITTED"
  BY <1>1, SlotMoves
<1> QED BY <1>1, <1>2, <1>3 DEF Decided

LEMMA RereadDecided ==
  ASSUME RowsOK, SlotsOK, NEW r \in Requests, Decided(req[r]), RereadApproved(r)
  PROVE  /\ UNCHANGED order
         /\ req[r].pc = "approve.reread"
         /\ \A s \in Requests \ {r} : req'[s] = req[s]
         /\ Decided(req[r])'
         /\ \/ req'[r].pc = "approve.release"
            \/ order.status = "SUBMITTED"
<1>1. /\ UNCHANGED order /\ req[r].pc = "approve.reread"
      /\ req[r].first = "SUBMITTED" /\ order.status \in {"SUBMITTED", "APPROVED"}
  BY DEF RereadApproved, At, Decided
<1>2. PICK pc \in {"approve.release", "idle"} :
        /\ Goto(r, pc) \/ (pc = "idle" /\ Done(r))
        /\ pc = "idle" => order.status = "SUBMITTED"
  BY <1>1 DEF RereadApproved
<1>3. (\A s \in Requests \ {r} : req'[s] = req[s]) /\ req'[r].pc = pc
  BY <1>2, SlotMoves
<1> QED BY <1>1, <1>2, <1>3 DEF Decided

LEMMA StatusDecided ==
  ASSUME RowsOK, SlotsOK, NEW r \in Requests, Decided(req[r]), WriteStatus(r)
  PROVE  /\ req[r].pc = "status.write"
         /\ \A s \in Requests \ {r} : req'[s] = req[s]
         /\ Decided(req[r])'
         /\ \/ order'.status \notin {"APPROVED", "CONFIRMED"}
            \/ order'.status = "CONFIRMED" /\ order.status = "APPROVED"
<1>1. /\ req[r].pc = "status.write" /\ req[r].goal # "APPROVED"
      /\ req[r].goal = "CONFIRMED" => order.status = "APPROVED"
  BY DEF WriteStatus, At, Decided
<1>2. order'.status = req[r].goal
  BY DEF WriteStatus, SetStatus, RowsOK, Order
<1>3. PICK pc \in {"confirm.reread", "idle"} :
        Goto(r, pc) \/ (pc = "idle" /\ Done(r))
  BY DEF WriteStatus
<1>4. (\A s \in Requests \ {r} : req'[s] = req[s]) /\ req'[r].pc = pc
  BY <1>3, SlotMoves
<1> QED BY <1>1, <1>2, <1>4 DEF Decided

\* A step of the travel order, its tickets and desks as they were.
LEMMA TravelSolo ==
  ASSUME Known, UNCHANGED <<tickets, desk>>, NEW r \in Requests,
         \/ Accept(r) /\ \A s \in Requests : req[s] = Idle
         \/ Advance(r)
  PROVE  SoloInv'
<1>1. OneTicket'
  BY DEF Known, SoloInv, OneTicket
<1>2. ASSUME OthersIdle(r), req[r].pc \notin {"approve.release", "rfp"},
             \A s \in Requests \ {r} : req'[s] = req[s], Decided(req[r])'
      PROVE  Alone' /\ Slots'
  <2>1. desk[r].pc = "idle"
    BY <1>2, NothingInHand DEF Known, SoloInv
  <2>2. InHand(req[r], desk[r])'
    BY <2>1 DEF InHand
  <2> QED BY <1>2, <2>2, PutSolo DEF Known, SoloInv
<1>3. CASE Accept(r) /\ \A s \in Requests : req[s] = Idle
  <2>1. OthersIdle(r) /\ req[r].pc = "idle"
    BY <1>3, IdleType DEF OthersIdle
  <2>2. Alone' /\ Slots'
    BY <1>2, <1>3, <2>1, AcceptDecided DEF Known
  <2>3. ReleasedInTime'
    BY <1>3, <2>1, AcceptDecided, ReleasedAlready DEF Known, ReleasedInTime
  <2> QED BY <1>1, <2>2, <2>3 DEF SoloInv
<1>4. Decided(req[r]) /\ Alone
  BY DEF Known, SoloInv, Slots
<1>5. CASE \/ ReadGate(r) \/ WriteGate(r) \/ WriteVisit(r) \/ WriteLocation(r)
           \/ ConfirmReread(r) \/ RecordKpi(r) \/ RereadKpi(r)
           \/ CompleteTask(r) \/ RereadToSync(r) \/ SyncMerged(r)
  <2>1. /\ order'.status = order.status
        /\ req[r].pc \notin {"idle", "approve.reread", "approve.release", "rfp"}
        /\ \A s \in Requests \ {r} : req'[s] = req[s]
        /\ Decided(req[r])'
    BY <1>5, OtherDecided DEF Known
  <2>2. OthersIdle(r)
    BY <1>4, <2>1, BusyIsAlone
  <2>3. ReleasedInTime'
    BY <2>1, <2>2, ReleasedAlready DEF Known, ReleasedInTime
  <2> QED BY <1>1, <1>2, <2>1, <2>2, <2>3 DEF SoloInv
<1>6. CASE ReadToSign(r) \/ ReadToEndorse(r) \/ RefuseApproval(r)
  <2>1. /\ UNCHANGED order /\ req[r].pc = "approve.read"
        /\ \A s \in Requests \ {r} : req'[s] = req[s]
        /\ Decided(req[r])'
    BY <1>4, <1>6, ReadDecided DEF Known
  <2>2. OthersIdle(r)
    BY <1>4, <2>1, BusyIsAlone
  <2>3. ReleasedInTime'
    BY <2>1, <2>2, ReleasedAlready DEF Known, ReleasedInTime
  <2> QED BY <1>1, <1>2, <2>1, <2>2, <2>3 DEF SoloInv
<1>7. CASE WriteSignature(r) \/ WriteEndorsement(r)
  <2>1. /\ req[r].pc \in {"approve.sign", "approve.endorse"}
        /\ \A s \in Requests \ {r} : req'[s] = req[s]
        /\ Decided(req[r])' /\ req'[r].pc = "approve.reread"
    BY <1>4, <1>7, SignDecided DEF Known
  <2>2. OthersIdle(r)
    BY <1>4, <2>1, BusyIsAlone
  <2>3. ReleasedInTime'
    BY <2>1 DEF ReleasedInTime
  <2> QED BY <1>1, <1>2, <2>1, <2>2, <2>3 DEF SoloInv
<1>8. CASE RereadApproved(r)
  <2>1. /\ UNCHANGED order /\ req[r].pc = "approve.reread"
        /\ \A s \in Requests \ {r} : req'[s] = req[s]
        /\ Decided(req[r])'
        /\ req'[r].pc = "approve.release" \/ order.status = "SUBMITTED"
    BY <1>4, <1>8, RereadDecided DEF Known
  <2>2. OthersIdle(r)
    BY <1>4, <2>1, BusyIsAlone
  <2>3. ReleasedInTime'
    BY <2>1 DEF ReleasedInTime
  <2> QED BY <1>1, <1>2, <2>1, <2>2, <2>3 DEF SoloInv
<1>9. CASE WriteStatus(r)
  <2>1. /\ req[r].pc = "status.write"
        /\ \A s \in Requests \ {r} : req'[s] = req[s]
        /\ Decided(req[r])'
        /\ \/ order'.status \notin {"APPROVED", "CONFIRMED"}
           \/ order'.status = "CONFIRMED" /\ order.status = "APPROVED"
    BY <1>4, <1>9, StatusDecided DEF Known
  <2>2. OthersIdle(r)
    BY <1>4, <2>1, BusyIsAlone
  <2>3. ReleasedInTime'
    BY <2>1, <2>2, ReleasedAlready DEF Known, ReleasedInTime
  <2> QED BY <1>1, <1>2, <2>1, <2>2, <2>3 DEF SoloInv
<1> QED BY <1>3, <1>5, <1>6, <1>7, <1>8, <1>9 DEF Advance

-----------------------------------------------------------------------------
(* The steps among the tickets *)

\* The ticket there is, is found.
LEMMA NeverNone ==
  ASSUME TicketsOK, OneTicket
  PROVE  Linked = {1} /\ DOMAIN tickets = {1} /\ tickets[1] \in Ticket
BY DEF TicketsOK, OneTicket, Linked

\* A request leaves the desk: it is answered.
LEMMA LeaveSolo ==
  ASSUME SlotsOK, DesksOK, Slots, NEW r \in Requests, OthersIdle(r), Leave(r)
  PROVE  Alone' /\ Slots'
<1>1. (\A s \in Requests \ {r} : req'[s] = req[s]) /\ req'[r].pc = "idle"
  BY SlotMoves DEF Leave, Pay, Release, CloseRfp
<1>2. (\A s \in Requests \ {r} : desk'[s] = desk[s]) /\ desk'[r].pc = "idle"
  BY DEF Leave, DesksOK, Away
<1>3. Decided(req[r])' /\ InHand(req[r], desk[r])'
  BY <1>1, <1>2 DEF Decided, InHand
<1> QED BY <1>1, <1>2, <1>3, PutSolo

\* A request stays at the desk: its slot and the order are as they were.
LEMMA StaySolo ==
  ASSUME DesksOK, Slots, NEW r \in Requests, OthersIdle(r), UNCHANGED vars,
         NEW d, desk' = [desk EXCEPT ![r] = d], InHand(req[r], d)'
  PROVE  Alone' /\ Slots'
<1>1. (\A s \in Requests \ {r} : desk'[s] = desk[s]) /\ desk'[r] = d
  BY DEF DesksOK
<1>2. InHand(req[r], desk[r])'
  BY <1>1 DEF InHand
<1>3. (\A s \in Requests \ {r} : req'[s] = req[s]) /\ Decided(req[r])'
  BY DEF vars, Slots, Decided
<1> QED BY <1>1, <1>2, <1>3, PutSolo
\* A step that leaves the ticket as it is, or as held as it is.
LEMMA SameHeld ==
  ASSUME SoloInv, TicketsOK', OneTicket', Alone' /\ Slots',
         UNCHANGED order, tickets'[1].held = tickets[1].held,
         NEW r \in Requests, OthersIdle(r),
         req' = req \/ req[r].pc = "rfp" \/ ~tickets[1].held
  PROVE  SoloInv'
<1>1. CASE req' = req
  BY <1>1 DEF SoloInv, ReleasedInTime
<1>2. CASE req[r].pc = "rfp" \/ ~tickets[1].held
  <2>1. order.status \in {"APPROVED", "CONFIRMED"} => ~tickets[1].held
    BY <1>2, ReleasedAlready
  <2> QED BY <2>1 DEF SoloInv, ReleasedInTime
<1> QED BY <1>1, <1>2

\* Some request is at the desk, with the one ticket.
LEMMA AtDesk ==
  ASSUME Known, NEW r \in Requests,
         desk[r].pc # "idle" \/ req[r].pc \in {"approve.release", "rfp"}
  PROVE  /\ OthersIdle(r)
         /\ InHand(req[r], desk[r])
         /\ desk[r].pc # "idle" => desk[r].ticket = 1 /\ Mine(r) = tickets[1]
         /\ desk[r] \in Desk
<1>1. InHand(req[r], desk[r]) /\ desk[r] \in Desk
  BY DEF Known, SoloInv, Slots, DesksOK
<1>2. req[r].pc # "idle"
  BY <1>1 DEF InHand
<1> QED BY <1>1, <1>2, BusyIsAlone DEF Known, SoloInv, InHand, Mine

LEMMA FindSolo ==
  ASSUME Known, NEW r \in Requests,
         FindLinked(r) \/ FindNone(r) \/ CreateTicket(r) \/ LinkTicket(r)
  PROVE  SoloInv' /\ ReleasedIsFinal
<1>1. Linked = {1} /\ TicketsOK /\ OneTicket
  BY NeverNone DEF Known, SoloInv
<1>2. ~FindNone(r)
  BY <1>1 DEF FindNone
<1>3. ~CreateTicket(r) /\ ~LinkTicket(r)
  BY DEF CreateTicket, LinkTicket, DeskAt, Known, SoloInv, Slots, InHand
<1>4. FindLinked(r)
  BY <1>2, <1>3
<1>5. /\ UNCHANGED <<vars, tickets>>
      /\ req[r].pc \in {"approve.release", "rfp"}
      /\ Take(r, AfterFind(r), 1, FALSE)
  BY <1>1, <1>4 DEF FindLinked
<1> DEFINE d == [pc |-> AfterFind(r), ticket |-> 1, held |-> FALSE]
<1>6. InHand(req[r], d)'
  <2>1. req'[r] = req[r] /\ AfterFind(r)' = AfterFind(r)
    BY <1>5 DEF vars, AfterFind, At
  <2> QED BY <1>5, <2>1 DEF AfterFind, At, InHand
<1>7. Alone' /\ Slots'
  <2>1. desk' = [desk EXCEPT ![r] = d]
    BY <1>5 DEF Take
  <2>2. \E c : c = d /\ InHand(req[r], c)'
    <3>1. d' = d
      BY <1>5 DEF vars, AfterFind, At
    <3> HIDE DEF d
    <3> QED BY <1>6, <3>1
  <2> HIDE DEF d
  <2> QED BY <1>5, <2>1, <2>2, AtDesk, StaySolo DEF Known, SoloInv
<1>8. TicketsOK' /\ OneTicket'
  BY <1>1, <1>5 DEF TicketsOK, OneTicket
<1>9. SoloInv'
  BY <1>5, <1>7, <1>8, AtDesk, SameHeld DEF Known, vars
<1> QED BY <1>5, <1>9 DEF ReleasedIsFinal

LEMMA LoadSolo ==
  ASSUME Known, NEW r \in Requests, ReleaseLoad(r) \/ RetryLoad(r) \/ EditLoad(r)
  PROVE  SoloInv' /\ ReleasedIsFinal
<1>1. desk[r].pc \in {"release.load", "retry.load", "edit.load"} /\ UNCHANGED tickets
  BY DEF ReleaseLoad, RetryLoad, EditLoad, DeskAt
<1>2. /\ OthersIdle(r) /\ InHand(req[r], desk[r]) /\ desk[r] \in Desk
      /\ desk[r].ticket = 1 /\ Mine(r) = tickets[1]
  BY <1>1, AtDesk
<1>3. TicketsOK' /\ OneTicket' /\ tickets[1] \in Ticket
  BY <1>1, NeverNone DEF Known, SoloInv, TicketsOK, OneTicket
<1>4. CASE Leave(r)
  <2>1. Alone' /\ Slots' /\ UNCHANGED order
    BY <1>2, <1>4, LeaveSolo DEF Known, SoloInv, Leave, Pay, Release, CloseRfp
  <2>2. req[r].pc = "rfp" \/ ~tickets[1].held
    <3>1. CASE desk[r].pc = "release.load"
      <4>1. ReleaseLoad(r)
        BY <3>1 DEF RetryLoad, EditLoad, DeskAt
      <4>2. ~Leave(r) \/ ~tickets[1].held
        <5>1. ASSUME tickets[1].held PROVE ~Leave(r)
          <6>1. Turn(r, "release.save")
            BY <1>2, <4>1, <5>1 DEF ReleaseLoad
          <6>2. desk'[r].pc = "release.save"
            BY <6>1 DEF Turn, Known, DesksOK, Desk
          <6> QED BY <6>2 DEF Leave, Away, Known, DesksOK
        <5> QED BY <5>1
      <4> QED BY <1>4, <4>2
    <3>2. CASE desk[r].pc # "release.load"
      BY <1>1, <1>2, <3>2 DEF InHand
    <3> QED BY <3>1, <3>2
  <2>3. SoloInv'
    BY <1>1, <1>2, <1>3, <2>1, <2>2, SameHeld DEF Known
  <2> QED BY <1>1, <2>3 DEF ReleasedIsFinal
<1>5. ASSUME NEW d, desk' = [desk EXCEPT ![r] = d], UNCHANGED vars, d.ticket = 1,
             \/ desk[r].pc = "release.load" /\ d.pc = "release.save"
             \/ /\ desk[r].pc = "retry.load" /\ d.pc = "retry.save"
                /\ d.held = tickets[1].held
             \/ /\ desk[r].pc = "edit.load" /\ d.pc = "edit.fields"
                /\ d.held /\ tickets[1].held
      PROVE  SoloInv' /\ ReleasedIsFinal
  <2>1. InHand(req[r], d)'
    BY <1>1, <1>2, <1>5 DEF InHand, vars
  <2>2. Alone' /\ Slots'
    BY <1>2, <1>5, <2>1, StaySolo DEF Known, SoloInv
  <2>3. SoloInv'
    BY <1>1, <1>2, <1>3, <1>5, <2>2, SameHeld DEF Known, vars
  <2> QED BY <1>1, <2>3 DEF ReleasedIsFinal
<1>6. CASE ReleaseLoad(r) /\ ~Leave(r)
  <2>1. Turn(r, "release.save") /\ UNCHANGED vars /\ desk[r].pc = "release.load"
    BY <1>6 DEF ReleaseLoad, DeskAt
  <2> DEFINE d == [desk[r] EXCEPT !.pc = "release.save"]
  <2>2. d.ticket = 1 /\ d.pc = "release.save"
    BY <1>2 DEF Desk
  <2>3. desk' = [desk EXCEPT ![r] = d]
    BY <2>1 DEF Turn, Known, DesksOK
  <2> HIDE DEF d
  <2> QED BY <1>5, <2>1, <2>2, <2>3
<1>7. CASE RetryLoad(r) /\ ~Leave(r)
  <2>1. Take(r, "retry.save", 1, tickets[1].held) /\ UNCHANGED vars
        /\ desk[r].pc = "retry.load"
    BY <1>2, <1>7 DEF RetryLoad, DeskAt
  <2> QED BY <1>5, <2>1 DEF Take
<1>8. CASE EditLoad(r) /\ ~Leave(r)
  <2>1. Take(r, "edit.fields", 1, TRUE) /\ UNCHANGED vars
        /\ desk[r].pc = "edit.load" /\ tickets[1].held
    BY <1>2, <1>8 DEF EditLoad, DeskAt
  <2> QED BY <1>5, <2>1 DEF Take
<1> QED BY <1>4, <1>6, <1>7, <1>8

LEMMA SaveSolo ==
  ASSUME Known, NEW r \in Requests,
         ReleaseSave(r) \/ RetrySave(r) \/ EditFields(r) \/ EditSave(r)
  PROVE  SoloInv' /\ ReleasedIsFinal
<1>1. desk[r].pc \in {"release.save", "retry.save", "edit.fields", "edit.save"}
  BY DEF ReleaseSave, RetrySave, EditFields, EditSave, DeskAt
<1>2. /\ OthersIdle(r) /\ InHand(req[r], desk[r]) /\ desk[r] \in Desk
      /\ desk[r].ticket = 1
  BY <1>1, AtDesk
<1>3. Linked = {1} /\ DOMAIN tickets = {1} /\ tickets[1] \in Ticket /\ tickets[1].linked
  BY NeverNone DEF Known, SoloInv, OneTicket
<1>4. TicketsOK' /\ DOMAIN tickets' = DOMAIN tickets
      /\ tickets'[1].linked = tickets[1].linked
  BY <1>3, HandleStep DEF Known
<1>5. OneTicket'
  <2>1. Len(tickets') = 1
    BY <1>3, <1>4 DEF TicketsOK
  <2> QED BY <1>3, <1>4, <2>1 DEF OneTicket
<1>6. ASSUME Leave(r)
      PROVE  Alone' /\ Slots' /\ UNCHANGED order
  BY <1>2, <1>6, LeaveSolo DEF Known, SoloInv, Leave, Pay, Release, CloseRfp
<1>7. CASE ReleaseSave(r)
  <2>1. tickets' = [tickets EXCEPT ![1].held = FALSE] /\ Leave(r)
    BY <1>2, <1>7 DEF ReleaseSave
  <2>2. ~tickets'[1].held
    BY <1>3, <2>1 DEF Ticket
  <2>3. ASSUME ~tickets[1].held PROVE tickets'[1] = tickets[1]
    BY <1>3, <2>1, <2>3 DEF Ticket
  <2>4. SoloInv'
    BY <1>5, <1>6, <2>1, <2>2 DEF SoloInv, ReleasedInTime
  <2> QED BY <1>3, <2>3, <2>4 DEF ReleasedIsFinal
<1>8. CASE RetrySave(r) \/ EditSave(r)
  <2>1. /\ tickets' = [tickets EXCEPT ![1].held = desk[r].held] /\ Leave(r)
        /\ desk[r].pc \in {"retry.save", "edit.save"}
    BY <1>2, <1>8 DEF RetrySave, EditSave, DeskAt
  <2>2. desk[r].held = tickets[1].held /\ req[r].pc = "rfp"
    BY <1>2, <1>3, <2>1 DEF InHand, Desk, Ticket
  <2>3. tickets'[1] = tickets[1]
    BY <1>3, <2>1, <2>2 DEF Ticket
  <2>4. SoloInv'
    BY <1>2, <1>4, <1>5, <1>6, <2>1, <2>2, <2>3, SameHeld DEF Known
  <2> QED BY <1>3, <2>3, <2>4 DEF ReleasedIsFinal
<1>9. CASE EditFields(r)
  <2>1. /\ tickets' = [tickets EXCEPT ![1].editor = r] /\ UNCHANGED vars
        /\ Turn(r, "edit.save") /\ desk[r].pc = "edit.fields"
    BY <1>2, <1>9 DEF EditFields, DeskAt
  <2>2. req[r].pc = "rfp" /\ desk[r].held /\ tickets[1].held
    BY <1>2, <2>1 DEF InHand
  <2>3. tickets'[1].held = tickets[1].held
    BY <1>3, <2>1 DEF Ticket
  <2> DEFINE d == [desk[r] EXCEPT !.pc = "edit.save"]
  <2>4. d.ticket = 1 /\ d.pc = "edit.save" /\ d.held
    BY <1>2, <2>2 DEF Desk
  <2>5. desk' = [desk EXCEPT ![r] = d]
    BY <2>1 DEF Turn, Known, DesksOK
  <2>6. PICK c : c = d
    OBVIOUS
  <2>7. InHand(req[r], c)'
    <3> HIDE DEF d
    <3> QED BY <2>1, <2>2, <2>3, <2>4, <2>6 DEF InHand, vars
  <2>8. Alone' /\ Slots'
    <3> HIDE DEF d
    <3> QED BY <1>2, <2>1, <2>5, <2>6, <2>7, StaySolo DEF Known, SoloInv
  <2>9. SoloInv'
    BY <1>2, <1>4, <1>5, <2>1, <2>3, <2>8, SameHeld DEF Known, vars
  <2> QED BY <1>3, <2>2, <2>9 DEF ReleasedIsFinal
<1> QED BY <1>7, <1>8, <1>9

-----------------------------------------------------------------------------
(* The run's cases *)

CaseInv == RowsOK /\ SlotsOK /\ TicketsOK /\ DesksOK /\ (Serial => SoloInv)

LEMMA CaseIsLinked == CaseNext => LinkedNext
BY DEF CaseNext, Travels, LinkedNext, TravelStep

LEMMA CaseInvInit == CaseInit => CaseInv
<1> SUFFICES ASSUME CaseInit PROVE CaseInv
  OBVIOUS
<1>1. RowsOK /\ SlotsOK /\ TicketsOK /\ DesksOK
  BY TypeInit, TypeHalves, LinkedTypeInit DEF CaseInit, LinkedInit
<1>2. ASSUME Serial PROVE SoloInv
  <2>1. tickets = <<HeldTicket>> /\ HeldTicket.linked
    BY <1>2 DEF CaseInit, LinkedInit, HeldTicket, NewTicket
  <2>2. OneTicket
    BY <2>1 DEF OneTicket
  <2>3. \A r \in Requests : req[r] = Idle /\ req[r].pc = "idle" /\ desk[r].pc = "idle"
    BY IdleType DEF CaseInit, LinkedInit, Init, Away
  <2>4. order.status = "SUBMITTED"
    BY DEF CaseInit, LinkedInit, Init, NewOrder
  <2>5. Slots
    BY <2>3 DEF Slots, Decided, InHand
  <2> QED BY <2>2, <2>3, <2>4, <2>5 DEF SoloInv, Alone, ReleasedInTime
<1> QED BY <1>1, <1>2 DEF CaseInv

LEMMA SerialStep ==
  ASSUME Known, Serial, CaseNext
  PROVE  SoloInv' /\ ReleasedIsFinal
<1>1. ASSUME NEW r \in Requests, Travels(r), UNCHANGED <<tickets, desk, lost>>
      PROVE  SoloInv' /\ ReleasedIsFinal
  <2>1. \/ Accept(r) /\ \A s \in Requests : req[s] = Idle
        \/ Advance(r)
    BY <1>1 DEF Travels, Belongs
  <2>2. SoloInv'
    BY <1>1, <2>1, TravelSolo
  <2> QED BY <1>1, <2>2 DEF ReleasedIsFinal
<1>2. ASSUME NEW r \in Requests,
             \/ FindLinked(r) \/ FindNone(r) \/ CreateTicket(r) \/ LinkTicket(r)
             \/ ReleaseLoad(r) \/ ReleaseSave(r) \/ RetryLoad(r) \/ RetrySave(r)
             \/ EditLoad(r) \/ EditFields(r) \/ EditSave(r)
      PROVE  SoloInv' /\ ReleasedIsFinal
  BY <1>2, FindSolo, LoadSolo, SaveSolo
<1> QED BY <1>1, <1>2 DEF CaseNext

LEMMA CaseInvStep ==
  CaseInv /\ [CaseNext]_caseVars => CaseInv' /\ (Serial => ReleasedIsFinal)
<1> SUFFICES ASSUME CaseInv, [CaseNext]_caseVars
             PROVE  CaseInv' /\ (Serial => ReleasedIsFinal)
  OBVIOUS
<1>1. CASE CaseNext
  <2>1. RowsOK' /\ SlotsOK' /\ TicketsOK' /\ DesksOK'
    BY <1>1, CaseIsLinked, LinkedStepIsStep, TypeStep, LinkedTypeStep DEF CaseInv
  <2>2. case' = case
    BY <1>1 DEF CaseNext
  <2>3. Serial => SoloInv' /\ ReleasedIsFinal
    BY <1>1, SerialStep DEF CaseInv, Known
  <2> QED BY <2>1, <2>2, <2>3 DEF CaseInv, Serial
<1>2. CASE UNCHANGED caseVars
  <2>1. UNCHANGED <<plan, order, task, merged, req, tickets, desk, case>>
    BY <1>2 DEF caseVars, linkedVars, vars
  <2>2. RowsOK' /\ SlotsOK'
    BY <2>1 DEF CaseInv, RowsOK, SlotsOK, SlotOK
  <2>3. TicketsOK' /\ DesksOK'
    BY <2>1 DEF CaseInv, TicketsOK, DesksOK, DeskOK
  <2>4. Serial => SoloInv'
    BY <2>1 DEF CaseInv, Serial, SoloInv, Alone, OneTicket, Slots, Decided,
       InHand, ReleasedInTime
  <2>5. ReleasedIsFinal
    BY <2>1 DEF ReleasedIsFinal
  <2> QED BY <2>1, <2>2, <2>3, <2>4, <2>5 DEF CaseInv, Serial
<1> QED BY <1>1, <1>2

\* "Held until the Work Plan is fully approved": when requests come one after
\* the other, no answered request leaves an approved order with its payment
\* request held.
THEOREM SerialIsReleased == CaseSpec => []SerialApprovedIsReleased
<1>1. CaseInv => SerialApprovedIsReleased
  <2> SUFFICES ASSUME CaseInv, Serial, Settled,
                      order.status \in {"APPROVED", "CONFIRMED"},
                      NEW t \in Linked
               PROVE  ~tickets[t].held
    BY DEF SerialApprovedIsReleased, ApprovedIsReleased
  <2>1. t = 1
    BY NeverNone DEF CaseInv, SoloInv
  <2>2. \A r \in Requests : req[r].pc = "idle"
    BY IdleType DEF Settled
  <2> QED BY <2>1, <2>2 DEF CaseInv, SoloInv, ReleasedInTime
<1> QED BY <1>1, CaseInvInit, CaseInvStep, PTL DEF CaseSpec

\* "Can only be edited from the ticket workspace": once released, no step of
\* the Work Plan's routes, one request after the other, changes what their
\* editor edits of the payment request, or holds it again.
THEOREM SerialIsFinal == CaseSpec => SerialReleasedIsFinal
<1>1. CaseInv /\ [CaseNext]_caseVars => [Serial => ReleasedIsFinal]_caseVars
  BY CaseInvStep
<1> QED BY <1>1, CaseInvInit, CaseInvStep, PTL DEF CaseSpec, SerialReleasedIsFinal

=============================================================================
