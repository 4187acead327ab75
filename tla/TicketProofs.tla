---------------------------- MODULE TicketProofs ----------------------------
(***************************************************************************)
(* TicketLifecycle for any staff, requests in flight and faults: the types *)
(* of its state, and that a ticket is not closed without a rating; and,    *)
(* for requests that come one after the other as in the runs, that work    *)
(* and a closed ticket are entered and left as they should, what a parked  *)
(* one has in its log, and Custody.                                        *)
(***************************************************************************)
EXTENDS MCTicket, TLAPS

LEMMA RecordTypes ==
  /\ \A t \in Row : /\ t.status \in Statuses /\ t.assigned \in Person
                    /\ t.priority \in BOOLEAN
  /\ \A t \in Row, s \in Statuses, a \in Person :
       /\ [t EXCEPT !.status = s] \in Row /\ [t EXCEPT !.assigned = a] \in Row
       /\ [t EXCEPT !.priority = TRUE] \in Row
       /\ [t EXCEPT !.status = s, !.assigned = a] \in Row
  /\ \A g \in Log, t \in Transfer \union {None}, b \in BOOLEAN :
       /\ [g EXCEPT !.transfer = t] \in Log /\ [g EXCEPT !.verified = b] \in Log
       /\ [g EXCEPT !.rated = b] \in Log /\ [g EXCEPT !.cancelled = b] \in Log
BY DEF Row, Log

\* A request that is not idle has its fields.
LEMMA BusyType ==
  ASSUME TicketTypeOK, NEW r \in Requests, ~IsIdle(r)
  PROVE  LET q == req[r]
         IN  /\ q.op \in Ops /\ q.seen \in Row /\ q.actor \in Person
             /\ q.pc \in {"move", "read", "act", "decide", "write", "log"}
             /\ q.pc \in {"act", "decide", "write"} => q.saw \in Log
             /\ q.op \in {"transfer", "board"} => q.arg \in Person
             /\ q.op = "status" => q.arg \in Statuses \ {"ESCALATED", "CLOSED"}
             /\ q \notin {Idle, Lost} /\ RequestOK(q)
BY DEF TicketTypeOK, RequestOK, IsIdle, Idle, Lost

LEMMA SlotType ==
  ASSUME TicketTypeOK, NEW r \in Requests, NEW q, RequestOK(q),
         req' = [req EXCEPT ![r] = q]
  PROVE  DOMAIN req' = Requests /\ \A s \in Requests : RequestOK(req'[s])
BY DEF TicketTypeOK

LEMMA AnswerType ==
  ASSUME TicketTypeOK, NEW r \in Requests, Answer(r) \/ QueryFails(r)
  PROVE  DOMAIN req' = Requests /\ \A s \in Requests : RequestOK(req'[s])
BY SlotType DEF Answer, QueryFails, RequestOK

LEMMA TurnType ==
  ASSUME TicketTypeOK, NEW r \in Requests, ~IsIdle(r),
         NEW pc \in {"write", "log"}, Turn(r, pc), pc = "write" => req[r].saw \in Log
  PROVE  DOMAIN req' = Requests /\ \A s \in Requests : RequestOK(req'[s])
<1> DEFINE q == [req[r] EXCEPT !.pc = pc]
<1>1. RequestOK(q)
  BY BusyType DEF RequestOK
<1>2. req' = [req EXCEPT ![r] = q]
  BY DEF Turn
<1> QED BY <1>1, <1>2, SlotType

LEMMA HoldType ==
  ASSUME TicketTypeOK, NEW r \in Requests, ~IsIdle(r),
         NEW pc \in {"act", "decide"}, Hold(r, pc, file)
  PROVE  DOMAIN req' = Requests /\ \A s \in Requests : RequestOK(req'[s])
<1> DEFINE q == [req[r] EXCEPT !.pc = pc, !.saw = file]
<1>1. RequestOK(q)
  BY BusyType DEF RequestOK, TicketTypeOK
<1>2. req' = [req EXCEPT ![r] = q]
  BY DEF Hold
<1> QED BY <1>1, <1>2, SlotType

LEMMA ArriveType ==
  ASSUME TicketTypeOK, NEW r \in Requests, NEW op, NEW a \in Person, NEW b,
         Arrive(r, op, a, b), op \in {"transfer", "board"} => b \in Person,
         op = "status" => b \in Statuses \ {"ESCALATED", "CLOSED"}
  PROVE  TicketTypeOK'
<1> DEFINE q == [pc |-> IF op = "board" THEN "move" ELSE "read",
                 op |-> op, actor |-> a, arg |-> b, seen |-> ticket, saw |-> None]
<1>1. RequestOK(q) /\ req' = [req EXCEPT ![r] = q]
  BY DEF Arrive, RequestOK, TicketTypeOK
<1>2. DOMAIN req' = Requests /\ \A s \in Requests : RequestOK(req'[s])
  BY <1>1, SlotType
<1> QED BY <1>2 DEF Arrive, TicketTypeOK

LEMMA SendType ==
  ASSUME TicketTypeOK, NEW r \in Requests, Send(r) PROVE TicketTypeOK'
<1>1. /\ Agents \subseteq Person /\ Admins \subseteq Person /\ None \in Person
      /\ \A a, s : MayMove(a, s) => s \in Statuses \ {"ESCALATED", "CLOSED"}
  BY DeskAssumption
  DEF DeskAssumption, Person, MayMove, canTransition, Statuses
<1>2. CASE SendByStaff(r)
  BY <1>1, <1>2, ArriveType DEF SendByStaff
<1>3. CASE SendByRequestor(r)
  BY <1>1, <1>3, ArriveType DEF SendByRequestor
<1> QED BY <1>2, <1>3 DEF Send

LEMMA WriteRowType ==
  ASSUME TicketTypeOK, NEW r \in Requests, ~IsIdle(r), NEW row \in Row,
         WriteRow(r, row) \/ WriteRowThenLog(r, row)
  PROVE  TicketTypeOK'
<1>1. DOMAIN req' = Requests /\ \A s \in Requests : RequestOK(req'[s])
  BY AnswerType, TurnType DEF WriteRow, WriteRowThenLog
<1> QED BY <1>1 DEF WriteRow, WriteRowThenLog, TicketTypeOK

LEMMA WriteLogType ==
  ASSUME TicketTypeOK, NEW r \in Requests, ~IsIdle(r), NEW log \in Log,
         \/ WriteLog(r, log)
         \/ WriteLogThenRow(r, log) /\ req[r].saw \in Log
  PROVE  TicketTypeOK'
<1>1. DOMAIN req' = Requests /\ \A s \in Requests : RequestOK(req'[s])
  BY AnswerType, TurnType DEF WriteLog, WriteLogThenRow
<1> QED BY <1>1 DEF WriteLog, WriteLogThenRow, TicketTypeOK

LEMMA RowHandlersType ==
  ASSUME TicketTypeOK, NEW r \in Requests,
         \/ ChangeStatus(r) \/ SetPriority(r) \/ Park(r) \/ MoveOnBoard(r)
         \/ RejectOnPortal(r) \/ RejectByLink(r) \/ CloseRated(r)
         \/ CloseByLink(r) \/ Cancel(r)
  PROVE  TicketTypeOK'
<1>1. ~IsIdle(r)
  BY DEF ChangeStatus, SetPriority, Park, MoveOnBoard, RejectOnPortal,
         RejectByLink, CloseRated, CloseByLink, Cancel, At, IsIdle
<1>2. /\ ticket \in Row /\ req[r].seen.status \in Statuses
      /\ req[r].op \in {"transfer", "board"} => req[r].arg \in Person
      /\ req[r].op = "status" => req[r].arg \in Statuses
  BY <1>1, BusyType, RecordTypes DEF TicketTypeOK
<1>3. {"OPEN", "IN_PROGRESS", "ESCALATED", "CLOSED"} \subseteq Statuses
      /\ None \in Person
  BY DEF Statuses, Person
<1>4. PICK row \in Row : WriteRow(r, row) \/ WriteRowThenLog(r, row)
  <2>1. CASE ChangeStatus(r) \/ SetPriority(r)
    BY <2>1, <1>2, RecordTypes DEF ChangeStatus, SetPriority, At
  <2>2. CASE Park(r)
    BY <2>2, <1>2, <1>3, RecordTypes DEF Park, At
  <2>3. CASE MoveOnBoard(r)
    BY <2>3, <1>2, <1>3 DEF MoveOnBoard, At, Row
  <2>4. CASE RejectOnPortal(r) \/ RejectByLink(r)
    BY <2>4, <1>2, <1>3, RecordTypes DEF RejectOnPortal, RejectByLink
  <2>5. CASE CloseRated(r) \/ CloseByLink(r) \/ Cancel(r)
    BY <2>5, <1>2, <1>3, RecordTypes DEF CloseRated, CloseByLink, Cancel
  <2> QED BY <2>1, <2>2, <2>3, <2>4, <2>5
<1> QED BY <1>1, <1>4, WriteRowType

LEMMA LogHandlersType ==
  ASSUME TicketTypeOK, NEW r \in Requests,
         \/ RequestTransfer(r) \/ LogDecision(r) \/ Verify(r) \/ LogRejection(r)
         \/ SaveFeedback(r) \/ RateByLink(r) \/ LogCancellation(r)
  PROVE  TicketTypeOK'
<1>1. ~IsIdle(r)
  BY DEF RequestTransfer, LogDecision, Verify, LogRejection, SaveFeedback,
         RateByLink, LogCancellation, At, IsIdle
<1>2. /\ file \in Log /\ req[r].actor \in Person
      /\ req[r].op \in {"transfer", "board"} => req[r].arg \in Person
      /\ req[r].pc \in {"act", "decide", "write"} => req[r].saw \in Log
  BY <1>1, BusyType DEF TicketTypeOK
<1>3. PICK log \in Log :
        \/ WriteLog(r, log)
        \/ WriteLogThenRow(r, log) /\ req[r].pc \in {"act", "decide"}
  <2>1. CASE RequestTransfer(r)
    <3>1. req[r].arg \in Person /\ None \in Person
      BY <2>1, <1>2 DEF RequestTransfer, At, Person
    <3>2. [from |-> None, to |-> None] \in Transfer
          /\ [from |-> req[r].actor, to |-> req[r].arg] \in Transfer
      BY <1>2, <3>1 DEF Transfer
    <3> QED BY <2>1, <1>2, <3>2, RecordTypes DEF RequestTransfer, At
  <2>2. CASE LogDecision(r)
    BY <2>2, <1>2, RecordTypes DEF LogDecision
  <2>3. CASE Verify(r) \/ LogRejection(r)
    BY <2>3, <1>2, RecordTypes DEF Verify, LogRejection
  <2>4. CASE SaveFeedback(r) \/ RateByLink(r)
    BY <2>4, <1>2, RecordTypes DEF SaveFeedback, RateByLink, At
  <2>5. CASE LogCancellation(r)
    BY <2>5, <1>2, RecordTypes DEF LogCancellation
  <2> QED BY <2>1, <2>2, <2>3, <2>4, <2>5
<1> QED BY <1>1, <1>2, <1>3, WriteLogType

LEMMA DecisionsType ==
  ASSUME TicketTypeOK, NEW r \in Requests,
         AcceptTransfer(r) \/ DeclineTransfer(r)
  PROVE  TicketTypeOK'
<1>1. ~IsIdle(r) /\ req[r].saw \in Log /\ req[r].seen.status \in Statuses
      /\ ticket \in Row /\ file \in Log
  BY BusyType, RecordTypes
  DEF AcceptTransfer, DeclineTransfer, At, IsIdle, TicketTypeOK
<1>2. req[r].saw.transfer \in Transfer \union {None}
  BY <1>1 DEF Log
<1>3. \A a \in Person : Resumed(req[r], a) \in Row
  BY <1>1 DEF Resumed, Row, Statuses
<1>4. Peer(req[r].saw.transfer)
        => /\ req[r].saw.transfer.to \in Person
           /\ req[r].saw.transfer.from \in Person
  BY <1>2 DEF Peer, Transfer
<1>5. \/ \E row \in Row : WriteRowThenLog(r, row)
      \/ \E log \in Log : WriteLog(r, log)
  <2>1. CASE AcceptTransfer(r)
    <3>1. [ticket EXCEPT !.assigned = None, !.status = "OPEN"] \in Row
      BY <1>1 DEF Row, Person, Statuses
    <3> QED BY <2>1, <3>1, <1>3, <1>4 DEF AcceptTransfer
  <2>2. CASE DeclineTransfer(r)
    <3>1. [file EXCEPT !.transfer = None] \in Log
      BY <1>1, RecordTypes
    <3> QED BY <2>2, <3>1, <1>3, <1>4 DEF DeclineTransfer
  <2> QED BY <2>1, <2>2
<1> QED BY <1>1, <1>5, WriteRowType, WriteLogType

LEMMA ReadersType ==
  ASSUME TicketTypeOK, NEW r \in Requests,
         ReadLog(r) \/ ReadAgain(r) \/ Refuse(r) \/ QueryFails(r)
  PROVE  TicketTypeOK'
<1>1. CASE ReadLog(r) \/ ReadAgain(r)
  <2>1. ~IsIdle(r)
    BY <1>1 DEF ReadLog, ReadFile, ReadAgain, IsIdle
  <2>2. PICK pc \in {"act", "decide"} : Hold(r, pc, file)
    BY <1>1 DEF ReadLog, ReadFile, ReadAgain
  <2> QED BY <1>1, <2>1, <2>2, HoldType
          DEF ReadLog, ReadFile, ReadAgain, TicketTypeOK
<1>2. CASE Refuse(r) \/ QueryFails(r)
  BY <1>2, AnswerType DEF Refuse, QueryFails, TicketTypeOK
<1> QED BY <1>1, <1>2

LEMMA RestartType == ASSUME TicketTypeOK, Restart PROVE TicketTypeOK'
<1>1. DOMAIN req' = Requests /\ \A s \in Requests : req'[s] \in {req[s], Lost}
  BY DEF Restart
<1> QED BY <1>1 DEF Restart, TicketTypeOK, RequestOK

LEMMA TypeInit == Init => TicketTypeOK
BY DEF Init, TicketTypeOK, Row, Log, Person, Statuses, RequestOK

LEMMA TypeStep == TicketTypeOK /\ [Next]_deskVars => TicketTypeOK'
<1> SUFFICES ASSUME TicketTypeOK, [Next]_deskVars PROVE TicketTypeOK'
  OBVIOUS
<1>1. ASSUME NEW r \in Requests, Send(r) \/ Serve(r) \/ QueryFails(r)
      PROVE  TicketTypeOK'
  BY <1>1, SendType, ReadersType, RowHandlersType, LogHandlersType, DecisionsType
  DEF Serve
<1>2. CASE UNCHANGED deskVars
  BY <1>2 DEF deskVars, TicketTypeOK
<1> QED BY <1>1, <1>2, RestartType DEF Next

\* The row, the log and every request in flight have their types, for any
\* staff, numbers of requests, operations and faults.
THEOREM TicketTypes == Spec => []TicketTypeOK
BY TypeInit, TypeStep, PTL DEF Spec

-----------------------------------------------------------------------------
(* A closed ticket is rated.  A rating is never taken back, so a request   *)
(* that read the status CLOSED, or wrote a rating, can count on it.        *)

RatedWhenClosed == ticket.status = "CLOSED" => file.rated

NoCancelling == "cancel" \notin Ops

CountsOnRating(q) ==
  /\ q.seen.status = "CLOSED" => file.rated
  /\ q.pc = "write" /\ q.op \in {"feedback", "rate_link"} => file.rated

RatedInv ==
  /\ TicketTypeOK /\ RatedWhenClosed
  /\ \A r \in Requests : ~IsIdle(r) => CountsOnRating(req[r])

\* What a step does that keeps ratings and changes one request.
LEMMA RatingKept ==
  ASSUME RatedInv, TicketTypeOK', NEW r \in Requests, file.rated => file'.rated,
         \A s \in Requests \ {r} : req'[s] = req[s],
         ticket'.status = "CLOSED" => file'.rated,
         ~IsIdle(r)' => CountsOnRating(req[r])'
  PROVE  RatedInv'
BY DEF RatedInv, RatedWhenClosed, CountsOnRating, IsIdle

LEMMA SendRated ==
  ASSUME RatedInv, TicketTypeOK', NEW r \in Requests, Send(r) PROVE RatedInv'
<1>1. PICK op, a, b : Arrive(r, op, a, b)
  BY DEF Send, SendByStaff, SendByRequestor
<1>2. /\ DOMAIN req = Requests /\ UNCHANGED <<ticket, file>>
      /\ req'[r].seen = ticket /\ req'[r].pc # "write"
      /\ \A s \in Requests \ {r} : req'[s] = req[s]
  BY <1>1 DEF Arrive, RatedInv, TicketTypeOK
<1> QED BY <1>2, RatingKept DEF RatedInv, RatedWhenClosed, CountsOnRating

\* How a handler ends a step.
LEMMA EndsRated ==
  ASSUME RatedInv, TicketTypeOK', NEW r \in Requests, ~IsIdle(r),
         file.rated => file'.rated, ticket'.status = "CLOSED" => file'.rated,
         \/ Answer(r) \/ Turn(r, "log")
         \/ Turn(r, "write")
              /\ (req[r].op \in {"feedback", "rate_link"} => file'.rated)
  PROVE  RatedInv'
<1>1. /\ DOMAIN req = Requests /\ RequestOK(req[r]) /\ req[r] \notin {Idle, Lost}
      /\ CountsOnRating(req[r])
  BY BusyType DEF RatedInv, TicketTypeOK
<1>2. CASE Answer(r)
  BY <1>1, <1>2, RatingKept DEF Answer, IsIdle, Idle
<1>3. ASSUME NEW pc \in {"log", "write"}, Turn(r, pc)
      PROVE  /\ \A s \in Requests \ {r} : req'[s] = req[s]
             /\ req'[r].pc = pc /\ req'[r].op = req[r].op
             /\ req'[r].seen = req[r].seen
  BY <1>1, <1>3 DEF Turn, RequestOK
<1>4. CASE \/ Turn(r, "log")
           \/ Turn(r, "write")
                /\ (req[r].op \in {"feedback", "rate_link"} => file'.rated)
  BY <1>1, <1>3, <1>4, RatingKept DEF CountsOnRating
<1> QED BY <1>2, <1>4

LEMMA RowHandlersRated ==
  ASSUME RatedInv, TicketTypeOK', NoCancelling, NEW r \in Requests,
         \/ ChangeStatus(r) \/ SetPriority(r) \/ Park(r) \/ MoveOnBoard(r)
         \/ RejectOnPortal(r) \/ RejectByLink(r) \/ CloseRated(r)
         \/ CloseByLink(r) \/ Cancel(r)
  PROVE  RatedInv'
<1>1. ~IsIdle(r)
  BY DEF ChangeStatus, SetPriority, Park, MoveOnBoard, RejectOnPortal,
         RejectByLink, CloseRated, CloseByLink, Cancel, At, IsIdle
<1>2. /\ ticket \in Row /\ req[r].op # "cancel"
      /\ req[r].op = "status" => req[r].arg # "CLOSED"
      /\ CountsOnRating(req[r]) /\ (ticket.status = "CLOSED" => file.rated)
  BY <1>1, BusyType DEF RatedInv, TicketTypeOK, RatedWhenClosed, NoCancelling
<1>3. UNCHANGED file /\ (Answer(r) \/ Turn(r, "log"))
  BY DEF ChangeStatus, SetPriority, Park, MoveOnBoard, RejectOnPortal,
         RejectByLink, CloseRated, CloseByLink, Cancel, WriteRow, WriteRowThenLog
<1>4. ticket'.status = "CLOSED" => file.rated
  <2>1. CASE ChangeStatus(r) \/ SetPriority(r)
    BY <2>1, <1>2 DEF ChangeStatus, SetPriority, WriteRow, At, Row
  <2>2. CASE Park(r)
    BY <2>2, <1>2 DEF Park, WriteRow, CountsOnRating, Row
  <2>3. CASE MoveOnBoard(r)
    BY <2>3, <1>2 DEF MoveOnBoard, WriteRow, WriteRowThenLog, Row
  <2>4. CASE RejectOnPortal(r) \/ RejectByLink(r)
    BY <2>4, <1>2 DEF RejectOnPortal, RejectByLink, WriteRowThenLog, Row
  <2>5. CASE CloseRated(r) \/ CloseByLink(r)
    BY <2>5, <1>2 DEF CloseRated, CloseByLink, CountsOnRating, At
  <2>6. CASE Cancel(r)
    BY <2>6, <1>2 DEF Cancel, At
  <2> QED BY <2>1, <2>2, <2>3, <2>4, <2>5, <2>6
<1> QED BY <1>1, <1>3, <1>4, EndsRated

LEMMA LogHandlersRated ==
  ASSUME RatedInv, TicketTypeOK', NEW r \in Requests,
         \/ RequestTransfer(r) \/ LogDecision(r) \/ Verify(r) \/ LogRejection(r)
         \/ SaveFeedback(r) \/ RateByLink(r) \/ LogCancellation(r)
  PROVE  RatedInv'
<1>1. ~IsIdle(r)
  BY DEF RequestTransfer, LogDecision, Verify, LogRejection, SaveFeedback,
         RateByLink, LogCancellation, At, IsIdle
<1>2. file \in Log /\ (ticket.status = "CLOSED" => file.rated)
  BY DEF RatedInv, TicketTypeOK, RatedWhenClosed
<1>3. UNCHANGED ticket /\ (file.rated => file'.rated)
  BY <1>2 DEF RequestTransfer, LogDecision, Verify, LogRejection, SaveFeedback,
              RateByLink, LogCancellation, WriteLog, WriteLogThenRow, Log
<1>4. \/ Answer(r)
      \/ Turn(r, "write")
           /\ (req[r].op \in {"feedback", "rate_link"} => file'.rated)
  BY <1>2 DEF RequestTransfer, LogDecision, Verify, LogRejection, SaveFeedback,
              RateByLink, LogCancellation, WriteLog, WriteLogThenRow, At, Log
<1> QED BY <1>1, <1>2, <1>3, <1>4, EndsRated

LEMMA DecisionsRated ==
  ASSUME RatedInv, TicketTypeOK', NEW r \in Requests,
         AcceptTransfer(r) \/ DeclineTransfer(r)
  PROVE  RatedInv'
<1>1. ~IsIdle(r) /\ ticket \in Row /\ file \in Log
  BY DEF AcceptTransfer, DeclineTransfer, At, IsIdle, RatedInv, TicketTypeOK
<1>2. CountsOnRating(req[r]) /\ (ticket.status = "CLOSED" => file.rated)
  BY <1>1 DEF RatedInv, RatedWhenClosed
<1>3. \A a : Resumed(req[r], a).status = "CLOSED" => file.rated
  BY <1>1, <1>2 DEF Resumed, Row, CountsOnRating
<1>4. (Answer(r) \/ Turn(r, "log")) /\ (file.rated => file'.rated)
  BY <1>1 DEF AcceptTransfer, DeclineTransfer, WriteRowThenLog, WriteLog, Log
<1>5. ticket'.status = "CLOSED" => file.rated
  <2>1. CASE AcceptTransfer(r)
    BY <2>1, <1>1, <1>3 DEF AcceptTransfer, WriteRowThenLog, Row
  <2>2. CASE DeclineTransfer(r)
    BY <2>2, <1>2, <1>3 DEF DeclineTransfer, WriteRowThenLog, WriteLog
  <2> QED BY <2>1, <2>2
<1> QED BY <1>1, <1>4, <1>5, EndsRated

LEMMA ReadersRated ==
  ASSUME RatedInv, TicketTypeOK', NEW r \in Requests,
         ReadLog(r) \/ ReadAgain(r) \/ Refuse(r) \/ QueryFails(r)
  PROVE  RatedInv'
<1>1. /\ DOMAIN req = Requests /\ UNCHANGED <<ticket, file>>
      /\ ticket.status = "CLOSED" => file.rated
  BY DEF ReadLog, ReadFile, ReadAgain, Refuse, QueryFails, RatedInv,
         TicketTypeOK, RatedWhenClosed
<1>2. CASE ReadLog(r) \/ ReadAgain(r)
  <2>1. ~IsIdle(r)
    BY <1>2 DEF ReadLog, ReadFile, ReadAgain, IsIdle
  <2>2. RequestOK(req[r]) /\ req[r] \notin {Idle, Lost} /\ CountsOnRating(req[r])
    BY <2>1, BusyType DEF RatedInv
  <2>3. PICK pc \in {"act", "decide"} : Hold(r, pc, file)
    BY <1>2 DEF ReadLog, ReadFile, ReadAgain
  <2>4. /\ \A s \in Requests \ {r} : req'[s] = req[s]
        /\ req'[r].pc = pc /\ req'[r].seen = req[r].seen
    BY <1>1, <2>2, <2>3 DEF Hold, RequestOK
  <2> QED BY <1>1, <2>2, <2>4, RatingKept DEF CountsOnRating
<1>3. CASE Refuse(r) \/ QueryFails(r)
  BY <1>1, <1>3, RatingKept DEF Refuse, QueryFails, Answer, IsIdle, Idle, Lost
<1> QED BY <1>2, <1>3

LEMMA RatedInit == Init => RatedInv
BY TypeInit DEF Init, RatedInv, RatedWhenClosed, IsIdle, Idle

LEMMA RatedStep ==
  ASSUME NoCancelling PROVE RatedInv /\ [Next]_deskVars => RatedInv'
<1> SUFFICES ASSUME RatedInv, [Next]_deskVars PROVE RatedInv'
  OBVIOUS
<1>0. TicketTypeOK'
  BY TypeStep DEF RatedInv
<1>1. ASSUME NEW r \in Requests, Send(r) \/ Serve(r) \/ QueryFails(r)
      PROVE  RatedInv'
  BY <1>0, <1>1, SendRated, ReadersRated, RowHandlersRated, LogHandlersRated,
     DecisionsRated
  DEF Serve
<1>2. CASE Restart
  <2>1. \A s \in Requests : req'[s] = IF IsIdle(s) THEN req[s] ELSE Lost
    BY <1>2 DEF Restart
  <2>2. \A s \in Requests : req'[s].pc = "idle"
    BY <2>1 DEF IsIdle, Lost
  <2> QED BY <1>0, <1>2, <2>2 DEF Restart, RatedInv, RatedWhenClosed, IsIdle
<1>3. CASE UNCHANGED deskVars
  BY <1>0, <1>3 DEF deskVars, RatedInv, RatedWhenClosed, CountsOnRating, IsIdle
<1> QED BY <1>1, <1>2, <1>3 DEF Next

\* Unless the requestor cancels it, a ticket is closed only with a rating,
\* however portal, links, transfers and crashes cross.
THEOREM ClosedTicketsAreRated ==
  ASSUME NoCancelling PROVE Spec => ClosedIsRated
<1> DEFINE Closes == ticket.status # "CLOSED" /\ ticket'.status = "CLOSED"
                       => file'.rated \/ \E r \in Requests : Cancel(r)
<1>1. RatedInv /\ [Next]_deskVars => RatedInv'
  BY RatedStep
<1>2. RatedInv' => Closes
  BY DEF RatedInv, RatedWhenClosed
<1> QED BY <1>1, <1>2, RatedInit, PTL DEF Spec, ClosedIsRated

-----------------------------------------------------------------------------
(* One request after the other, whatever fails in between: while the one   *)
(* that is served has written nothing, what it holds is what is stored,    *)
(* and what it was admitted for is still so.                               *)

\* At most one request is in flight.
Alone == \A r, s \in Requests : ~IsIdle(r) /\ ~IsIdle(s) => r = s

\* The row is written last or before the log, so until then it is as read.
Current(q) ==
  /\ q.pc # "log" => q.seen = ticket
  /\ q.pc \in {"act", "decide"} => q.saw = file

Admitted(q) ==
  q.pc # "log"
    => /\ q.op = "status" => MayMove(q.actor, q.arg)
       /\ q.op = "transfer" => /\ q.actor \in Agents /\ q.actor = ticket.assigned
                               /\ q.arg \in Recipients(q.actor)
       /\ q.op = "board" => q.arg \in Agents
       /\ q.op \in {"reject", "reject_link"}
            => isAwaitingCustomerConfirmation(ticket.status)

\* Whoever is asked to take a ticket is asked by an agent.
NamesBoth(t) == Peer(t) => {t.from, t.to} \subseteq Agents

DeskInv ==
  /\ TicketTypeOK /\ Alone /\ NamesBoth(file.transfer)
  /\ \A r \in Requests : ~IsIdle(r) => Current(req[r]) /\ Admitted(req[r])

\* What a request has written into the log until the row follows, and the
\* other way round.
InHand(q) ==
  /\ q.op = "transfer" => q.arg # None
  /\ q.pc = "write" /\ q.op = "transfer"
       => file.transfer = [from |-> q.actor, to |-> q.arg]
  /\ q.pc = "decide" /\ q.op \in {"accept", "decline"} => file.transfer # None
  /\ q.pc = "log" /\ q.op \in {"accept", "decline", "board"}
       => ticket.status # "ESCALATED"

HandInv ==
  /\ EscalatedIsPending
  /\ file.transfer # None => Peer(file.transfer)
  /\ \A r \in Requests : ~IsIdle(r) => InHand(req[r])

TicketInv == OneAtATime => DeskInv /\ (Handing => HandInv)

\* What every step is, requests being served one after the other.
StaffStep == StartsAssigned /\ StaysClosed

LEMMA SameRow == UNCHANGED ticket => StaffStep
BY DEF StaffStep, StartsAssigned, StaysClosed, NobodysWork

LEMMA OneServed ==
  ASSUME TicketTypeOK, Alone, NEW r \in Requests, ~IsIdle(r),
         \A s \in Requests \ {r} : req'[s] = req[s]
  PROVE  Alone' /\ \A s \in Requests : ~IsIdle(s)' => s = r
BY DEF Alone, IsIdle

\* How a step that serves r changes its slot.
LEMMA ServedSlot ==
  ASSUME TicketTypeOK, NEW r \in Requests, ~IsIdle(r)
  PROVE  /\ Answer(r) \/ QueryFails(r)
              => IsIdle(r)' /\ \A s \in Requests \ {r} : req'[s] = req[s]
         /\ \A pc \in {"write", "log"} : Turn(r, pc)
              => /\ req'[r].pc = pc
                 /\ req'[r].op = req[r].op /\ req'[r].actor = req[r].actor
                 /\ req'[r].arg = req[r].arg /\ req'[r].seen = req[r].seen
                 /\ \A s \in Requests \ {r} : req'[s] = req[s]
         /\ \A pc \in {"act", "decide"} : Hold(r, pc, file)
              => /\ req'[r].pc = pc /\ req'[r].saw = file
                 /\ req'[r].op = req[r].op /\ req'[r].actor = req[r].actor
                 /\ req'[r].arg = req[r].arg /\ req'[r].seen = req[r].seen
                 /\ \A s \in Requests \ {r} : req'[s] = req[s]
<1>1. RequestOK(req[r]) /\ req[r] \notin {Idle, Lost} /\ DOMAIN req = Requests
  BY BusyType DEF TicketTypeOK
<1>2. Answer(r) \/ QueryFails(r)
        => IsIdle(r)' /\ \A s \in Requests \ {r} : req'[s] = req[s]
  BY <1>1 DEF Answer, QueryFails, IsIdle, Idle, Lost
<1>3. ASSUME NEW pc \in {"write", "log"}, Turn(r, pc)
      PROVE  /\ req'[r].pc = pc
             /\ req'[r].op = req[r].op /\ req'[r].actor = req[r].actor
             /\ req'[r].arg = req[r].arg /\ req'[r].seen = req[r].seen
             /\ \A s \in Requests \ {r} : req'[s] = req[s]
  <2>1. /\ req'[r] = [req[r] EXCEPT !.pc = pc]
        /\ \A s \in Requests \ {r} : req'[s] = req[s]
    BY <1>1, <1>3 DEF Turn
  <2> QED BY <2>1
<1>4. ASSUME NEW pc \in {"act", "decide"}, Hold(r, pc, file)
      PROVE  /\ req'[r].pc = pc /\ req'[r].saw = file
             /\ req'[r].op = req[r].op /\ req'[r].actor = req[r].actor
             /\ req'[r].arg = req[r].arg /\ req'[r].seen = req[r].seen
             /\ \A s \in Requests \ {r} : req'[s] = req[s]
  <2>1. /\ req'[r] = [req[r] EXCEPT !.pc = pc, !.saw = file]
        /\ \A s \in Requests \ {r} : req'[s] = req[s]
    BY <1>1, <1>4 DEF Hold
  <2> QED BY <2>1
<1> QED BY <1>2, <1>3, <1>4

LEMMA AdmittedKept ==
  ASSUME UNCHANGED ticket, NEW r, Admitted(req[r]), req[r].pc # "log",
         req'[r].op = req[r].op, req'[r].actor = req[r].actor,
         req'[r].arg = req[r].arg
  PROVE  Admitted(req[r])'
BY DEF Admitted, MayMove, MayMutate, Recipients, isAwaitingCustomerConfirmation

LEMMA DeskServed ==
  ASSUME DeskInv, TicketTypeOK', NEW r \in Requests, ~IsIdle(r),
         \A s \in Requests \ {r} : req'[s] = req[s],
         NamesBoth(file.transfer)',
         ~IsIdle(r)' => Current(req[r])' /\ Admitted(req[r])'
  PROVE  DeskInv'
BY OneServed DEF DeskInv

\* The row is written so that a ticket nobody has gets into work, and one
\* that was closed goes on, where that may happen.
LEMMA DeskRow ==
  ASSUME DeskInv, TicketTypeOK', NEW r \in Requests, ~IsIdle(r), NEW row,
         WriteRow(r, row) \/ WriteRowThenLog(r, row),
         \/ row.status \in {"IN_PROGRESS", "FOR_CONFIRMATION"}
              => row.assigned # None \/ NobodysWork
         \/ RejectByLink(r),
         \/ ticket.status = "CLOSED" => row.status = "CLOSED"
         \/ Park(r) \/ (AcceptTransfer(r) /\ ~Peer(req[r].saw.transfer))
  PROVE  DeskInv' /\ StaffStep
<1>1. TicketTypeOK /\ ticket' = row /\ UNCHANGED file /\ NamesBoth(file.transfer)
  BY DEF DeskInv, WriteRow, WriteRowThenLog
<1>2. \A s \in Requests \ {r} : req'[s] = req[s]
  BY <1>1, ServedSlot DEF WriteRow, WriteRowThenLog
<1>3. IsIdle(r)' \/ req'[r].pc = "log"
  BY <1>1, ServedSlot DEF WriteRow, WriteRowThenLog
<1>4. DeskInv'
  BY <1>1, <1>2, <1>3, DeskServed DEF NamesBoth, Peer, Current, Admitted
<1>5. StartsAssigned
  BY <1>1 DEF StartsAssigned, NobodysWork
<1>6. StaysClosed
  BY <1>1 DEF StaysClosed
<1> QED BY <1>4, <1>5, <1>6 DEF StaffStep

\* The log is written; the row is as it was admitted.
LEMMA DeskLog ==
  ASSUME DeskInv, TicketTypeOK', NEW r \in Requests, ~IsIdle(r), NEW log,
         WriteLog(r, log) \/ (WriteLogThenRow(r, log) /\ req[r].pc # "log"),
         NamesBoth(log.transfer)
  PROVE  DeskInv' /\ StaffStep
<1>1. /\ TicketTypeOK /\ file' = log /\ UNCHANGED ticket /\ StaffStep
      /\ Current(req[r]) /\ Admitted(req[r])
  BY SameRow DEF DeskInv, WriteLog, WriteLogThenRow
<1>2. NamesBoth(file.transfer)'
  BY <1>1 DEF NamesBoth, Peer
<1>3. CASE WriteLog(r, log)
  BY <1>1, <1>2, <1>3, ServedSlot, DeskServed DEF WriteLog
<1>4. CASE WriteLogThenRow(r, log) /\ req[r].pc # "log"
  <2>1. /\ req'[r].pc = "write" /\ req'[r].op = req[r].op
        /\ req'[r].actor = req[r].actor /\ req'[r].arg = req[r].arg
        /\ req'[r].seen = req[r].seen
        /\ \A s \in Requests \ {r} : req'[s] = req[s]
    BY <1>1, <1>4, ServedSlot DEF WriteLogThenRow
  <2>2. Admitted(req[r])'
    BY <1>1, <1>4, <2>1, AdmittedKept
  <2>3. Current(req[r])'
    BY <1>1, <1>4, <2>1 DEF Current
  <2> QED BY <1>1, <1>2, <2>1, <2>2, <2>3, DeskServed
<1> QED BY <1>3, <1>4

LEMMA SendSlot ==
  ASSUME TicketTypeOK, NEW r \in Requests, Send(r)
  PROVE  /\ UNCHANGED <<ticket, file>> /\ IsIdle(r)
         /\ \A s \in Requests \ {r} : req'[s] = req[s]
         /\ req'[r].seen = ticket /\ req'[r].pc \in {"move", "read"}
<1>1. PICK op, a, b : Arrive(r, op, a, b)
  BY DEF Send, SendByStaff, SendByRequestor
<1> QED BY <1>1 DEF Arrive, TicketTypeOK

\* Whatever is sent is admitted.
LEMMA SendAdmits ==
  ASSUME TicketTypeOK, NEW r \in Requests, Send(r)
  PROVE  Admitted(req[r])'
<1>1. DOMAIN req = Requests /\ Admins \subseteq Agents
  BY DeskAssumption DEF TicketTypeOK, DeskAssumption
<1>2. ASSUME NEW op, NEW a, NEW b, Arrive(r, op, a, b),
             op = "status" => MayMove(a, b),
             op = "transfer" => a \in Agents /\ a = ticket.assigned
                                  /\ b \in Recipients(a),
             op = "board" => b \in Agents,
             op \in {"reject", "reject_link"}
               => isAwaitingCustomerConfirmation(ticket.status)
      PROVE  Admitted(req[r])'
  <2>1. /\ req'[r].op = op /\ req'[r].actor = a /\ req'[r].arg = b
        /\ UNCHANGED ticket
    BY <1>1, <1>2 DEF Arrive
  <2> QED BY <1>2, <2>1 DEF Admitted, MayMove, MayMutate, Recipients,
                            isAwaitingCustomerConfirmation
<1>3. CASE SendByStaff(r)
  BY <1>1, <1>2, <1>3 DEF SendByStaff
<1>4. CASE SendByRequestor(r)
  BY <1>2, <1>4 DEF SendByRequestor
<1> QED BY <1>3, <1>4 DEF Send

LEMMA DeskSend ==
  ASSUME DeskInv, TicketTypeOK', NEW r \in Requests, Send(r), Settled
  PROVE  DeskInv' /\ StaffStep
<1>1. /\ UNCHANGED <<ticket, file>> /\ TicketTypeOK
      /\ \A s \in Requests \ {r} : req'[s] = req[s]
      /\ req'[r].seen = ticket /\ req'[r].pc \in {"move", "read"}
  BY SendSlot DEF DeskInv
<1>2. \A s \in Requests : ~IsIdle(s)' => s = r
  BY <1>1 DEF Settled, Busy, IsIdle
<1>3. Admitted(req[r])' /\ Current(req[r])'
  BY <1>1, SendAdmits DEF Current
<1> QED BY <1>1, <1>2, <1>3, SameRow DEF DeskInv, Alone, NamesBoth, Peer

LEMMA DeskReaders ==
  ASSUME DeskInv, TicketTypeOK', NEW r \in Requests,
         ReadLog(r) \/ ReadAgain(r) \/ Refuse(r) \/ QueryFails(r)
  PROVE  DeskInv' /\ StaffStep
<1>1. ~IsIdle(r)
  BY DEF ReadLog, ReadFile, ReadAgain, Refuse, QueryFails, IsIdle
<1>2. /\ UNCHANGED <<ticket, file>> /\ TicketTypeOK
      /\ Current(req[r]) /\ Admitted(req[r])
  BY <1>1 DEF DeskInv, ReadLog, ReadFile, ReadAgain, Refuse, QueryFails
<1>3. NamesBoth(file.transfer)' /\ StaffStep
  BY <1>2, SameRow DEF DeskInv, NamesBoth, Peer
<1>4. CASE Refuse(r) \/ QueryFails(r)
  BY <1>1, <1>2, <1>3, <1>4, ServedSlot, DeskServed DEF Refuse
<1>5. ASSUME NEW pc \in {"act", "decide"}, Hold(r, pc, file), req[r].pc # "log"
      PROVE  DeskInv'
  <2>1. /\ req'[r].pc = pc /\ req'[r].saw = file /\ req'[r].op = req[r].op
        /\ req'[r].actor = req[r].actor /\ req'[r].arg = req[r].arg
        /\ req'[r].seen = req[r].seen
        /\ \A s \in Requests \ {r} : req'[s] = req[s]
    BY <1>1, <1>2, <1>5, ServedSlot
  <2>2. Admitted(req[r])' /\ Current(req[r])'
    BY <1>2, <1>5, <2>1, AdmittedKept DEF Current
  <2> QED BY <1>1, <1>3, <2>1, <2>2, DeskServed
<1>6. CASE ReadLog(r) \/ ReadAgain(r)
  BY <1>3, <1>5, <1>6 DEF ReadLog, ReadFile, ReadAgain
<1> QED BY <1>3, <1>4, <1>6

LEMMA DeskRows ==
  ASSUME DeskInv, TicketTypeOK', NEW r \in Requests,
         \/ ChangeStatus(r) \/ SetPriority(r) \/ Park(r) \/ MoveOnBoard(r)
         \/ RejectOnPortal(r) \/ RejectByLink(r) \/ CloseRated(r)
         \/ CloseByLink(r) \/ Cancel(r)
  PROVE  DeskInv' /\ StaffStep
<1>1. ~IsIdle(r)
  BY DEF ChangeStatus, SetPriority, Park, MoveOnBoard, RejectOnPortal,
         RejectByLink, CloseRated, CloseByLink, Cancel, At, IsIdle
<1>2. /\ ticket \in Row /\ Admitted(req[r]) /\ None \notin Agents
      /\ req[r].pc # "log" => req[r].seen = ticket
  BY <1>1, DeskAssumption DEF DeskInv, TicketTypeOK, Current, DeskAssumption
<1> DEFINE Writes(row) == WriteRow(r, row) \/ WriteRowThenLog(r, row)
           Assigned(row) == row.status \in {"IN_PROGRESS", "FOR_CONFIRMATION"}
                              => row.assigned # None \/ NobodysWork
           Closed(row) == ticket.status = "CLOSED" => row.status = "CLOSED"
<1>3. PICK row : /\ Writes(row) /\ (Assigned(row) \/ RejectByLink(r))
                 /\ Closed(row) \/ Park(r)
  <2>1. CASE ChangeStatus(r)
    <3> DEFINE row == [ticket EXCEPT !.status = req[r].arg]
    <3>1. row.status = req[r].arg /\ row.assigned = ticket.assigned
      BY <1>2 DEF Row
    <3>2. MayMove(req[r].actor, req[r].arg) /\ Writes(row)
      BY <2>1, <1>2 DEF ChangeStatus, At, Admitted
    <3>3. Assigned(row) /\ Closed(row)
      BY <3>1, <3>2 DEF MayMove, canTransition
    <3> QED BY <3>2, <3>3
  <2>2. CASE SetPriority(r)
    <3> DEFINE row == [ticket EXCEPT !.priority = TRUE]
    <3>1. row.status = ticket.status /\ row.assigned = ticket.assigned
      BY <1>2 DEF Row
    <3> QED BY <2>2, <3>1 DEF SetPriority, NobodysWork
  <2>3. CASE Park(r)
    <3> DEFINE s == IF req[r].seen.status = "OPEN" THEN "ESCALATED"
                    ELSE req[r].seen.status
    <3>1. /\ Assigned([ticket EXCEPT !.status = "ESCALATED", !.assigned = None])
          /\ req[r].seen = ticket => Assigned([ticket EXCEPT !.status = s])
      BY <1>2 DEF Row, NobodysWork
    <3> QED BY <2>3, <3>1, <1>2 DEF Park, At
  <2>4. CASE MoveOnBoard(r)
    <3>1. req[r].arg # None /\ req[r].seen = ticket
      BY <2>4, <1>2 DEF MoveOnBoard, At, Admitted
    <3> DEFINE taken == [ticket EXCEPT !.assigned = req[r].arg,
                                       !.status = "IN_PROGRESS"]
               moved == [ticket EXCEPT !.assigned = req[r].arg]
    <3>2. taken.assigned # None /\ moved.assigned # None /\ Closed(moved)
      BY <3>1, <1>2 DEF Row
    <3>3. \/ ticket.status = "ESCALATED" /\ Writes(taken)
          \/ Writes(moved)
      BY <2>4, <3>1 DEF MoveOnBoard
    <3> HIDE DEF taken, moved
    <3> QED BY <3>2, <3>3
  <2>5. CASE RejectOnPortal(r) \/ RejectByLink(r)
    <3>1. ticket.status # "CLOSED"
      BY <2>5, <1>2 DEF RejectOnPortal, RejectByLink, At, Admitted,
                        isAwaitingCustomerConfirmation
    <3>2. CASE RejectByLink(r)
      BY <3>1, <3>2 DEF RejectByLink
    <3>3. CASE RejectOnPortal(r)
      <4> DEFINE row == [ticket EXCEPT !.status = "OPEN"]
      <4>1. row.status = "OPEN"
        BY <1>2 DEF Row
      <4> QED BY <3>1, <3>3, <4>1 DEF RejectOnPortal
    <3> QED BY <2>5, <3>2, <3>3
  <2>6. CASE CloseRated(r) \/ CloseByLink(r) \/ Cancel(r)
    <3> DEFINE row == [ticket EXCEPT !.status = "CLOSED"]
    <3>1. row.status = "CLOSED"
      BY <1>2 DEF Row
    <3>2. Writes(row) \/ Writes(ticket)
      BY <2>6 DEF CloseRated, CloseByLink, Cancel
    <3>3. Assigned(row) /\ Closed(row) /\ Assigned(ticket) /\ Closed(ticket)
      BY <3>1 DEF NobodysWork
    <3> HIDE DEF row, Assigned, Closed, Writes
    <3> QED BY <3>2, <3>3
  <2> QED BY <2>1, <2>2, <2>3, <2>4, <2>5, <2>6
<1> QED BY <1>1, <1>3, DeskRow

LEMMA DeskLogs ==
  ASSUME DeskInv, TicketTypeOK', NEW r \in Requests,
         \/ RequestTransfer(r) \/ LogDecision(r) \/ Verify(r) \/ LogRejection(r)
         \/ SaveFeedback(r) \/ RateByLink(r) \/ LogCancellation(r)
  PROVE  DeskInv' /\ StaffStep
<1>1. ~IsIdle(r)
  BY DEF RequestTransfer, LogDecision, Verify, LogRejection, SaveFeedback,
         RateByLink, LogCancellation, At, IsIdle
<1>2. file \in Log /\ NamesBoth(file.transfer) /\ Admitted(req[r])
  BY <1>1 DEF DeskInv, TicketTypeOK
<1>3. PICK log : /\ WriteLog(r, log)
                      \/ (WriteLogThenRow(r, log) /\ req[r].pc # "log")
                 /\ NamesBoth(log.transfer)
  <2>1. CASE RequestTransfer(r)
    <3>1. req[r].actor \in Agents /\ (req[r].arg = None \/ req[r].arg \in Agents)
      BY <2>1, <1>2 DEF RequestTransfer, At, Admitted, Recipients
    <3> DEFINE t == IF req[r].arg = None THEN [from |-> None, to |-> None]
                    ELSE [from |-> req[r].actor, to |-> req[r].arg]
    <3>2. NamesBoth(t)
      BY <3>1 DEF NamesBoth, Peer
    <3>3. [file EXCEPT !.transfer = t].transfer = t
      BY <1>2 DEF Log
    <3> QED BY <2>1, <3>2, <3>3 DEF RequestTransfer, At
  <2>2. CASE LogDecision(r)
    BY <2>2, <1>2 DEF LogDecision, NamesBoth, Peer, Log
  <2>3. CASE Verify(r) \/ LogRejection(r)
    BY <2>3, <1>2 DEF Verify, LogRejection, NamesBoth, Log
  <2>4. CASE SaveFeedback(r) \/ RateByLink(r)
    BY <2>4, <1>2 DEF SaveFeedback, RateByLink, At, NamesBoth, Log
  <2>5. CASE LogCancellation(r)
    BY <2>5, <1>2 DEF LogCancellation, NamesBoth, Log
  <2> QED BY <2>1, <2>2, <2>3, <2>4, <2>5
<1> QED BY <1>1, <1>3, DeskLog

LEMMA DeskDecisions ==
  ASSUME DeskInv, TicketTypeOK', NEW r \in Requests,
         AcceptTransfer(r) \/ DeclineTransfer(r)
  PROVE  DeskInv' /\ StaffStep
<1>1. ~IsIdle(r) /\ req[r].pc = "decide" /\ ticket \in Row /\ file \in Log
  BY DEF AcceptTransfer, DeclineTransfer, At, IsIdle, DeskInv, TicketTypeOK
<1>2. /\ NamesBoth(req[r].saw.transfer) /\ req[r].seen = ticket
      /\ None \notin Agents
  BY <1>1, DeskAssumption DEF DeskInv, Current, DeskAssumption
<1>3. \A a : /\ Resumed(req[r], a).assigned = a
             /\ ticket.status = "CLOSED" => Resumed(req[r], a).status = "CLOSED"
  BY <1>1, <1>2 DEF Resumed, Row
<1> DEFINE back == [ticket EXCEPT !.assigned = None, !.status = "OPEN"]
<1>4. \/ /\ Peer(req[r].saw.transfer)
         /\ \E a \in Agents : WriteRowThenLog(r, Resumed(req[r], a))
      \/ /\ AcceptTransfer(r) /\ ~Peer(req[r].saw.transfer)
         /\ WriteRowThenLog(r, back)
      \/ WriteLog(r, [file EXCEPT !.transfer = None])
  BY <1>2 DEF AcceptTransfer, DeclineTransfer, NamesBoth
<1>5. back.status = "OPEN" /\ NamesBoth([file EXCEPT !.transfer = None].transfer)
  BY <1>1 DEF Row, Log, NamesBoth, Peer
<1>6. CASE \E a \in Agents : WriteRowThenLog(r, Resumed(req[r], a))
  <2>1. PICK a \in Agents : WriteRowThenLog(r, Resumed(req[r], a))
    BY <1>6
  <2> DEFINE row == Resumed(req[r], a)
  <2>2. row.assigned # None /\ (ticket.status = "CLOSED" => row.status = "CLOSED")
    BY <1>2, <1>3
  <2> HIDE DEF row
  <2> QED BY <1>1, <2>1, <2>2, DeskRow DEF row
<1>7. CASE /\ AcceptTransfer(r) /\ ~Peer(req[r].saw.transfer)
           /\ WriteRowThenLog(r, back)
  BY <1>1, <1>5, <1>7, DeskRow
<1>8. CASE WriteLog(r, [file EXCEPT !.transfer = None])
  BY <1>1, <1>5, <1>8, DeskLog
<1> QED BY <1>4, <1>6, <1>7, <1>8

LEMMA DeskRestart ==
  ASSUME DeskInv, TicketTypeOK', Restart PROVE DeskInv' /\ StaffStep
<1>1. \A s \in Requests : IsIdle(s)'
  BY DEF Restart, IsIdle, Lost
<1> QED BY <1>1, SameRow DEF Restart, DeskInv, Alone, NamesBoth, Peer

-----------------------------------------------------------------------------
(* Transfers to colleagues only.  A step that keeps HandInv is also a step *)
(* of Custody: what a colleague is offered is what the log says while the  *)
(* row is parked.                                                          *)

CustodyStep == [Hands!Next]_(Hands!custody)

\* Nobody is offered the ticket after the step, and it is as it was, or
\* somebody's.
LEMMA CustodyUnoffered ==
  ASSUME Handing, UNCHANGED case, ticket'.status # "ESCALATED",
         ticket'.assigned \in Agents \union {ticket.assigned}
  PROVE  CustodyStep
BY DEF CustodyStep, Handing, Hands!Next, Hands!Assign, Hands!Lapse

\* The step is not seen.
LEMMA CustodyUnseen ==
  ASSUME UNCHANGED case,
         \/ ~Handing
         \/ /\ ticket'.status = ticket.status /\ ticket'.assigned = ticket.assigned
            /\ ticket.status = "ESCALATED" => file'.transfer = file.transfer
  PROVE  CustodyStep
BY DEF CustodyStep, Handing, Hands!custody

LEMMA HandServed ==
  ASSUME DeskInv, HandInv, NEW r \in Requests, ~IsIdle(r),
         \A s \in Requests \ {r} : req'[s] = req[s],
         EscalatedIsPending',
         (file.transfer # None => Peer(file.transfer))',
         ~IsIdle(r)' => InHand(req[r])'
  PROVE  HandInv'
BY OneServed DEF DeskInv, HandInv

LEMMA HandRow ==
  ASSUME DeskInv, HandInv, NEW r \in Requests, ~IsIdle(r), NEW row,
         \/ WriteRow(r, row)
         \/ /\ WriteRowThenLog(r, row)
            /\ row.status = "ESCALATED"
                 => req[r].op \notin {"accept", "decline", "board"},
         row.status = "ESCALATED" => Peer(file.transfer) /\ row.assigned = None
  PROVE  HandInv'
<1>1. /\ TicketTypeOK /\ ticket' = row /\ UNCHANGED file /\ InHand(req[r])
      /\ file.transfer # None => Peer(file.transfer)
  BY DEF DeskInv, HandInv, WriteRow, WriteRowThenLog
<1>2. EscalatedIsPending' /\ (file.transfer # None => Peer(file.transfer))'
  BY <1>1 DEF EscalatedIsPending, Peer
<1>3. CASE WriteRow(r, row)
  BY <1>1, <1>2, <1>3, ServedSlot, HandServed DEF WriteRow
<1>4. CASE WriteRowThenLog(r, row)
  <2>1. /\ req'[r].pc = "log" /\ req'[r].op = req[r].op
        /\ req'[r].arg = req[r].arg
        /\ \A s \in Requests \ {r} : req'[s] = req[s]
    BY <1>1, <1>4, ServedSlot DEF WriteRowThenLog
  <2>2. CASE IsIdle(r)'
    BY <1>2, <2>1, <2>2 DEF IsIdle
  <2>3. InHand(req[r])' \/ Answer(r)
    BY <1>1, <1>3, <2>1 DEF InHand, WriteRow
  <2> QED BY <1>1, <1>2, <1>3, <2>1, <2>3, ServedSlot, HandServed
<1> QED BY <1>3, <1>4

LEMMA HandLog ==
  ASSUME DeskInv, HandInv, NEW r \in Requests, ~IsIdle(r), NEW log,
         \/ WriteLog(r, log)
         \/ /\ WriteLogThenRow(r, log)
            /\ req[r].op = "transfer"
                 => log.transfer = [from |-> req[r].actor, to |-> req[r].arg],
         ticket.status = "ESCALATED" => Peer(log.transfer),
         log.transfer # None => Peer(log.transfer)
  PROVE  HandInv'
<1>1. TicketTypeOK /\ file' = log /\ UNCHANGED ticket /\ InHand(req[r])
  BY DEF DeskInv, HandInv, WriteLog, WriteLogThenRow
<1>2. EscalatedIsPending' /\ (file.transfer # None => Peer(file.transfer))'
  BY <1>1 DEF HandInv, EscalatedIsPending, Peer
<1>3. CASE WriteLog(r, log)
  BY <1>1, <1>2, <1>3, ServedSlot, HandServed DEF WriteLog
<1>4. CASE WriteLogThenRow(r, log) /\ ~WriteLog(r, log)
  <2>1. /\ req'[r].pc = "write" /\ req'[r].op = req[r].op
        /\ req'[r].actor = req[r].actor /\ req'[r].arg = req[r].arg
        /\ \A s \in Requests \ {r} : req'[s] = req[s]
    BY <1>1, <1>4, ServedSlot DEF WriteLogThenRow
  <2>2. InHand(req[r])'
    BY <1>1, <1>4, <2>1 DEF InHand
  <2> QED BY <1>1, <1>2, <2>1, <2>2, HandServed
<1> QED BY <1>3, <1>4

LEMMA HandSend ==
  ASSUME DeskInv, HandInv, NEW r \in Requests, Send(r), Settled, Handing,
         Belongs(req'[r]), UNCHANGED case
  PROVE  HandInv' /\ CustodyStep
<1>1. /\ UNCHANGED <<ticket, file>> /\ TicketTypeOK
      /\ \A s \in Requests \ {r} : req'[s] = req[s]
      /\ req'[r].pc \in {"move", "read"}
  BY SendSlot DEF DeskInv
<1>2. \A s \in Requests : ~IsIdle(s)' => s = r
  BY <1>1 DEF Settled, Busy, IsIdle
<1>3. InHand(req[r])'
  BY <1>1 DEF InHand, Belongs, OpsOf, Handing
<1> QED BY <1>1, <1>2, <1>3, CustodyUnseen
        DEF HandInv, EscalatedIsPending, Peer

LEMMA HandReaders ==
  ASSUME DeskInv, HandInv, NEW r \in Requests, UNCHANGED case,
         ReadLog(r) \/ ReadAgain(r) \/ Refuse(r) \/ QueryFails(r)
  PROVE  HandInv' /\ CustodyStep
<1>1. ~IsIdle(r)
  BY DEF ReadLog, ReadFile, ReadAgain, Refuse, QueryFails, IsIdle
<1>2. /\ UNCHANGED <<ticket, file>> /\ TicketTypeOK
      /\ Current(req[r]) /\ InHand(req[r])
  BY <1>1 DEF DeskInv, HandInv, ReadLog, ReadFile, ReadAgain, Refuse, QueryFails
<1>3. /\ EscalatedIsPending' /\ CustodyStep
      /\ (file.transfer # None => Peer(file.transfer))'
  BY <1>2, CustodyUnseen DEF HandInv, EscalatedIsPending, Peer
<1>4. CASE Refuse(r) \/ QueryFails(r)
  BY <1>1, <1>2, <1>3, <1>4, ServedSlot, HandServed DEF Refuse
<1>5. ASSUME NEW pc \in {"act", "decide"}, Hold(r, pc, file),
             pc = "decide" => req[r].pc = "act" /\ Passes(req[r])
      PROVE  HandInv'
  <2>1. /\ req'[r].pc = pc /\ req'[r].op = req[r].op
        /\ req'[r].actor = req[r].actor /\ req'[r].arg = req[r].arg
        /\ \A s \in Requests \ {r} : req'[s] = req[s]
    BY <1>1, <1>2, <1>5, ServedSlot
  <2>2. pc = "decide" /\ req[r].op \in {"accept", "decline"}
          => file.transfer # None
    BY <1>2, <1>5 DEF Current, Passes
  <2>3. InHand(req[r])'
    BY <1>2, <1>5, <2>1, <2>2 DEF InHand
  <2> QED BY <1>1, <1>3, <2>1, <2>3, HandServed
<1>6. CASE ReadLog(r) \/ ReadAgain(r)
  BY <1>3, <1>5, <1>6 DEF ReadLog, ReadFile, ReadAgain
<1> QED BY <1>3, <1>4, <1>6

LEMMA HandRows ==
  ASSUME DeskInv, HandInv, NEW r \in Requests, Handing, UNCHANGED case,
         \/ ChangeStatus(r) \/ SetPriority(r) \/ MoveOnBoard(r)
         \/ RejectOnPortal(r) \/ RejectByLink(r) \/ CloseRated(r)
         \/ CloseByLink(r) \/ Cancel(r)
  PROVE  HandInv' /\ CustodyStep
<1>1. ~IsIdle(r)
  BY DEF ChangeStatus, SetPriority, MoveOnBoard, RejectOnPortal, RejectByLink,
         CloseRated, CloseByLink, Cancel, At, IsIdle
<1>2. /\ ticket \in Row /\ Admitted(req[r]) /\ InHand(req[r])
      /\ ticket.status = "ESCALATED" => Peer(file.transfer) /\ ticket.assigned = None
      /\ req[r].pc # "log" => req[r].seen = ticket
  BY <1>1 DEF DeskInv, HandInv, TicketTypeOK, EscalatedIsPending, Current
<1>3. CASE ChangeStatus(r)
  <2> DEFINE row == [ticket EXCEPT !.status = req[r].arg]
  <2>1. WriteRow(r, row) /\ req[r].arg \notin {"ESCALATED", "CLOSED"}
    BY <1>2, <1>3 DEF ChangeStatus, At, Admitted, MayMove, canTransition
  <2>2. row.status = req[r].arg /\ row.assigned = ticket.assigned
    BY <1>2 DEF Row
  <2>3. HandInv'
    BY <1>1, <2>1, <2>2, HandRow
  <2> QED BY <2>1, <2>2, <2>3, CustodyUnoffered DEF WriteRow
<1>4. CASE SetPriority(r)
  <2> DEFINE row == [ticket EXCEPT !.priority = TRUE]
  <2>1. row.status = ticket.status /\ row.assigned = ticket.assigned
    BY <1>2 DEF Row
  <2>2. WriteRow(r, row)
    BY <1>4 DEF SetPriority
  <2>3. HandInv'
    BY <1>1, <1>2, <2>1, <2>2, HandRow
  <2> QED BY <2>1, <2>2, <2>3, CustodyUnseen DEF WriteRow
<1>5. CASE MoveOnBoard(r)
  <2>1. /\ req[r].arg \in Agents /\ req[r].seen = ticket /\ req[r].op = "board"
        /\ None \notin Agents
    BY <1>2, <1>5, DeskAssumption DEF MoveOnBoard, At, Admitted, DeskAssumption
  <2>2. PICK row : /\ row.assigned = req[r].arg /\ row.status # "ESCALATED"
                   /\ WriteRow(r, row) \/ WriteRowThenLog(r, row)
    BY <1>2, <1>5, <2>1 DEF MoveOnBoard, Row
  <2>3. HandInv'
    BY <1>1, <1>2, <2>1, <2>2, HandRow
  <2> QED BY <2>1, <2>2, <2>3, CustodyUnoffered DEF WriteRow, WriteRowThenLog
<1>6. CASE RejectOnPortal(r) \/ RejectByLink(r)
  <2>1. PICK s \in {"OPEN", "IN_PROGRESS"} :
          WriteRowThenLog(r, [ticket EXCEPT !.status = s])
    BY <1>6 DEF RejectOnPortal, RejectByLink
  <2> DEFINE row == [ticket EXCEPT !.status = s]
  <2>2. row.status = s /\ row.assigned = ticket.assigned
    BY <1>2 DEF Row
  <2>3. HandInv'
    BY <1>1, <2>1, <2>2, HandRow
  <2> QED BY <2>1, <2>2, <2>3, CustodyUnoffered DEF WriteRowThenLog
<1>7. CASE CloseRated(r) \/ CloseByLink(r) \/ Cancel(r)
  <2> DEFINE row == [ticket EXCEPT !.status = "CLOSED"]
  <2>1. row.status = "CLOSED" /\ row.assigned = ticket.assigned
    BY <1>2 DEF Row
  <2>2. WriteRow(r, row) \/ WriteRow(r, ticket) \/ WriteRowThenLog(r, row)
    BY <1>7 DEF CloseRated, CloseByLink, Cancel
  <2>3. HandInv'
    BY <1>1, <1>2, <2>1, <2>2, HandRow
  <2> QED BY <2>1, <2>2, <2>3, CustodyUnoffered, CustodyUnseen
          DEF WriteRow, WriteRowThenLog
<1> QED BY <1>3, <1>4, <1>5, <1>6, <1>7

\* A transfer is requested while none is in the log, and the row is parked
\* for whom the log names.
LEMMA HandTransfer ==
  ASSUME DeskInv, HandInv, NEW r \in Requests, Handing, UNCHANGED case,
         RequestTransfer(r) \/ Park(r)
  PROVE  HandInv' /\ CustodyStep
<1>1. ~IsIdle(r) /\ req[r].op = "transfer" /\ req[r].pc \in {"act", "write"}
  BY DEF RequestTransfer, Park, At, IsIdle
<1>2. /\ ticket \in Row /\ file \in Log /\ InHand(req[r]) /\ Current(req[r])
      /\ req[r].actor \in Agents /\ req[r].actor = ticket.assigned
      /\ req[r].arg \in Agents \ {req[r].actor} /\ None \notin Agents
      /\ ticket.status = "ESCALATED" => file.transfer # None
  BY <1>1, DeskAssumption
  DEF DeskInv, HandInv, TicketTypeOK, Admitted, Recipients, InHand, DeskAssumption,
      EscalatedIsPending, Peer
<1> DEFINE t == [from |-> req[r].actor, to |-> req[r].arg]
<1>3. Peer(t)
  BY <1>2, LifecycleAssumption DEF Peer, LifecycleAssumption, Transfer, Person
<1>4. CASE RequestTransfer(r)
  <2> DEFINE log == [file EXCEPT !.transfer = t]
  <2>1. log.transfer = t
    BY <1>2 DEF Log
  <2>2. WriteLogThenRow(r, log) /\ ticket.status # "ESCALATED"
    BY <1>1, <1>2, <1>4 DEF RequestTransfer, Passes, At, Current
  <2>3. HandInv'
    BY <1>1, <1>2, <1>3, <2>1, <2>2, HandLog
  <2> QED BY <2>2, <2>3, CustodyUnseen DEF WriteLogThenRow
<1>5. CASE Park(r)
  <2> DEFINE row == [ticket EXCEPT !.status = "ESCALATED", !.assigned = None]
  <2>1. row.status = "ESCALATED" /\ row.assigned = None
    BY <1>2 DEF Row
  <2>2. WriteRow(r, row) /\ file.transfer = t
    BY <1>1, <1>2, <1>5 DEF Park, At, InHand
  <2>3. HandInv'
    BY <1>1, <1>3, <2>1, <2>2, HandRow
  <2>4. Hands!Offer
    BY <1>2, <2>1, <2>2 DEF Hands!Offer, WriteRow, Handing
  <2> QED BY <2>3, <2>4 DEF CustodyStep, Hands!Next
<1> QED BY <1>4, <1>5

LEMMA HandLogs ==
  ASSUME DeskInv, HandInv, NEW r \in Requests, Handing, UNCHANGED case,
         \/ LogDecision(r) \/ Verify(r) \/ LogRejection(r)
         \/ SaveFeedback(r) \/ RateByLink(r) \/ LogCancellation(r)
  PROVE  HandInv' /\ CustodyStep
<1>1. ~IsIdle(r)
  BY DEF LogDecision, Verify, LogRejection, SaveFeedback, RateByLink,
         LogCancellation, At, IsIdle
<1>2. /\ file \in Log /\ InHand(req[r])
      /\ ticket.status = "ESCALATED" => Peer(file.transfer)
      /\ file.transfer # None => Peer(file.transfer)
  BY <1>1 DEF DeskInv, HandInv, TicketTypeOK, EscalatedIsPending
<1>3. CASE LogDecision(r)
  <2> DEFINE log == [file EXCEPT !.transfer = None]
  <2>1. log.transfer = None
    BY <1>2 DEF Log
  <2>2. WriteLog(r, log) /\ ticket.status # "ESCALATED"
    BY <1>2, <1>3 DEF LogDecision, InHand
  <2>3. HandInv'
    BY <1>1, <1>2, <2>1, <2>2, HandLog
  <2> QED BY <2>2, <2>3, CustodyUnseen DEF WriteLog
<1>4. ASSUME NEW log, log.transfer = file.transfer,
             \/ WriteLog(r, log)
             \/ WriteLogThenRow(r, log) /\ req[r].op # "transfer"
      PROVE  HandInv' /\ CustodyStep
  <2>1. HandInv'
    BY <1>1, <1>2, <1>4, HandLog
  <2> QED BY <1>4, <2>1, CustodyUnseen DEF WriteLog, WriteLogThenRow
<1>5. /\ \A v : [file EXCEPT !.verified = v].transfer = file.transfer
      /\ [file EXCEPT !.rated = TRUE].transfer = file.transfer
      /\ [file EXCEPT !.cancelled = TRUE].transfer = file.transfer
  BY <1>2 DEF Log
<1>6. CASE Verify(r) \/ LogRejection(r)
  BY <1>4, <1>5, <1>6 DEF Verify, LogRejection
<1>7. CASE SaveFeedback(r) \/ RateByLink(r)
  BY <1>4, <1>5, <1>7 DEF SaveFeedback, RateByLink, At
<1>8. CASE LogCancellation(r)
  BY <1>4, <1>5, <1>8 DEF LogCancellation
<1> QED BY <1>3, <1>6, <1>7, <1>8

\* A decision gives the ticket to the colleague who was asked, or back.
LEMMA HandDecisions ==
  ASSUME DeskInv, HandInv, NEW r \in Requests, Handing, UNCHANGED case,
         AcceptTransfer(r) \/ DeclineTransfer(r)
  PROVE  HandInv' /\ CustodyStep
<1>1. /\ ~IsIdle(r) /\ req[r].op \in {"accept", "decline"}
      /\ req[r].pc = "decide"
  BY DEF AcceptTransfer, DeclineTransfer, At, IsIdle
<1>2. /\ ticket \in Row /\ req[r].seen = ticket /\ req[r].saw = file
      /\ Peer(file.transfer) /\ {file.transfer.from, file.transfer.to} \subseteq Agents
  BY <1>1 DEF DeskInv, HandInv, InHand, NamesBoth, TicketTypeOK, Current
<1>3. \A a : /\ Resumed(req[r], a).assigned = a
             /\ Resumed(req[r], a).status # "ESCALATED"
  BY <1>2 DEF Resumed, Row
<1>4. PICK a \in Agents : WriteRowThenLog(r, Resumed(req[r], a))
  BY <1>2 DEF AcceptTransfer, DeclineTransfer
<1>5. HandInv'
  BY <1>1, <1>2, <1>3, <1>4, HandRow
<1> QED BY <1>3, <1>4, <1>5, CustodyUnoffered DEF WriteRowThenLog

LEMMA HandRestart ==
  ASSUME DeskInv, HandInv, Restart, UNCHANGED case
  PROVE  HandInv' /\ CustodyStep
<1>1. \A s \in Requests : IsIdle(s)'
  BY DEF Restart, IsIdle, Lost
<1> QED BY <1>1, CustodyUnseen
        DEF Restart, HandInv, EscalatedIsPending, Peer

-----------------------------------------------------------------------------
LEMMA TicketInvInit == CaseInit => TicketInv
BY TypeInit
DEF CaseInit, Init, TicketInv, DeskInv, HandInv, Alone, IsIdle, Idle, NamesBoth,
    Peer, EscalatedIsPending

\* The steps of a run are steps of TicketLifecycle.
LEMMA CaseStepIsStep == [CaseNext]_caseVars => [Next]_deskVars /\ UNCHANGED case
BY DEF CaseNext, caseVars, Next, deskVars

LEMMA DeskStep ==
  ASSUME OneAtATime, DeskInv, CaseNext PROVE DeskInv' /\ StaffStep
<1>1. TicketTypeOK'
  BY TypeStep, CaseStepIsStep DEF DeskInv
<1>2. ASSUME NEW r \in Requests, Send(r), Belongs(req'[r])
      PROVE  DeskInv' /\ StaffStep
  <2>1. Settled
    BY <1>2 DEF OneAtATime, Belongs
  <2> QED BY <1>1, <1>2, <2>1, DeskSend
<1>3. ASSUME NEW r \in Requests, Serve(r) \/ QueryFails(r)
      PROVE  DeskInv' /\ StaffStep
  BY <1>1, <1>3, DeskReaders, DeskRows, DeskLogs, DeskDecisions DEF Serve
<1> QED BY <1>1, <1>2, <1>3, DeskRestart DEF CaseNext

LEMMA HandStep ==
  ASSUME Handing, DeskInv, HandInv, CaseNext PROVE HandInv' /\ CustodyStep
<1>1. UNCHANGED case
  BY DEF CaseNext
<1>2. ASSUME NEW r \in Requests, Send(r), Belongs(req'[r])
      PROVE  HandInv' /\ CustodyStep
  <2>1. Settled
    BY <1>2 DEF Handing, Belongs
  <2> QED BY <1>1, <1>2, <2>1, HandSend
<1>3. ASSUME NEW r \in Requests, Serve(r) \/ QueryFails(r)
      PROVE  HandInv' /\ CustodyStep
  BY <1>1, <1>3, HandReaders, HandRows, HandTransfer, HandLogs, HandDecisions
  DEF Serve
<1> QED BY <1>1, <1>2, <1>3, HandRestart DEF CaseNext

LEMMA TicketInvStep ==
  TicketInv /\ [CaseNext]_caseVars
    => TicketInv' /\ CustodyStep /\ (OneAtATime => StaffStep)
<1> SUFFICES ASSUME TicketInv, [CaseNext]_caseVars
             PROVE  TicketInv' /\ CustodyStep /\ (OneAtATime => StaffStep)
  OBVIOUS
<1>1. UNCHANGED case
  BY CaseStepIsStep
<1>2. CASE CaseNext
  <2>1. OneAtATime => DeskInv' /\ StaffStep
    BY <1>2, DeskStep DEF TicketInv
  <2>2. Handing => OneAtATime /\ HandInv' /\ CustodyStep
    BY <1>2, HandStep DEF TicketInv, Handing, OneAtATime
  <2>3. ~Handing => CustodyStep
    BY <1>1, CustodyUnseen
  <2> QED BY <1>1, <2>1, <2>2, <2>3 DEF TicketInv, OneAtATime, Handing
<1>3. CASE UNCHANGED caseVars
  <2>1. UNCHANGED <<ticket, file, req, case>>
    BY <1>3 DEF caseVars, deskVars
  <2>2. DeskInv => DeskInv'
    BY <2>1 DEF DeskInv, TicketTypeOK, Alone, NamesBoth, Peer, Current, Admitted,
                MayMove, MayMutate, Recipients, isAwaitingCustomerConfirmation,
                IsIdle
  <2>3. HandInv => HandInv'
    BY <2>1 DEF HandInv, EscalatedIsPending, Peer, InHand, IsIdle
  <2> QED BY <2>1, <2>2, <2>3, CustodyUnseen, SameRow
          DEF TicketInv, OneAtATime, Handing
<1> QED BY <1>2, <1>3

LEMMA TicketRuns == CaseSpec => []TicketInv
<1>1. TicketInv /\ [CaseNext]_caseVars => TicketInv'
  BY TicketInvStep
<1> QED BY <1>1, TicketInvInit, PTL DEF CaseSpec

\* Where requests do not overlap, nothing but a rejection by the page of the
\* email puts a ticket that is nobody's in work, or leaves a ticket in work to
\* nobody: not transfers, decisions, rejections on the portal or crashes.
THEOREM TicketStartsAssigned == CaseSpec => StaffWorkIsAssigned
<1>1. TicketInv /\ [CaseNext]_caseVars => (OneAtATime => StartsAssigned)
  BY TicketInvStep DEF StaffStep
<1> QED BY <1>1, TicketRuns, PTL DEF CaseSpec, StaffWorkIsAssigned

\* Where requests do not overlap, a closed ticket is reopened only by a new
\* transfer or an Admin who accepts one without a recipient: not by deciding
\* a transfer that was pending when it was closed, a rejection or a crash.
THEOREM TicketStaysClosed == CaseSpec => StaffClosedStaysClosed
<1>1. TicketInv /\ [CaseNext]_caseVars => (OneAtATime => StaysClosed)
  BY TicketInvStep DEF StaffStep
<1> QED BY <1>1, TicketRuns, PTL DEF CaseSpec, StaffClosedStaysClosed

\* A parked ticket can always be taken out of the pool again: its transfer is
\* in the log, whichever query failed.
THEOREM TicketEscalatedIsPending == CaseSpec => []HandedEscalatedIsPending
<1>1. TicketInv => HandedEscalatedIsPending
  BY DEF TicketInv, HandedEscalatedIsPending, Handing, OneAtATime, HandInv
<1> QED BY <1>1, TicketRuns, PTL

\* Every step of a ticket is one of Custody, or is not seen by its staff.
THEOREM TicketImplementsCustody == CaseSpec => ImplementsCustody
<1>1. CaseInit => Hands!Init
  BY DEF CaseInit, Init, Hands!Init
<1>2. TicketInv /\ [CaseNext]_caseVars => [Hands!Next]_(Hands!custody)
  BY TicketInvStep DEF CustodyStep
<1> QED BY <1>1, <1>2, TicketRuns, PTL DEF CaseSpec, ImplementsCustody, Hands!Spec
=============================================================================
