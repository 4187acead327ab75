-------------------------- MODULE TaskBoardProofs --------------------------
(***************************************************************************)
(* Proofs about TaskBoard, for every checklist and every number of         *)
(* requests, instants and periods.                                         *)
(***************************************************************************)
EXTENDS MCTaskBoard, FiniteSetTheorems, TLAPS

(***************************************************************************)
(* Types.                                                                  *)
(***************************************************************************)
LEMMA BusyIsTyped ==
  ASSUME TaskTypeOK, NEW r \in Requests, ~IsIdle(r)
  PROVE  /\ req[r] \in Request /\ req[r].seen \in Row
         /\ req[r].seen.items \in [Items -> Item]
         /\ req[r].seen.lastFull \in Times \union {None}
         /\ req[r].seen.cycle \in Periods /\ req[r].seen.key \in Periods
BY DEF TaskTypeOK, Request, Row, IsIdle, Idle

\* An instant is different from those of all copies.
LEMMA InstantIsNew ==
  ASSUME TaskTypeOK
  PROVE  /\ ThisInstant \in Times /\ ThisInstant # None
         /\ \A r \in Requests : ~IsIdle(r) => req[r].seen.lastFull # ThisInstant
<1> DEFINE held == [r \in Requests |->
                     IF IsIdle(r) THEN None ELSE req[r].seen.lastFull]
<1>1. held \in [Requests -> Times \union {None}]
  BY BusyIsTyped
<1>2. PICK t \in Times : \A r \in Requests : held[r] # t
  BY <1>1, TimesAssumption
<1>3. \A r \in Requests : ~IsIdle(r) => req[r].seen.lastFull # t
  BY <1>2
<1>4. /\ ThisInstant \in Times
      /\ \A r \in Requests : ~IsIdle(r) => req[r].seen.lastFull # ThisInstant
  BY <1>3 DEF ThisInstant
<1> QED
  BY <1>4, BoardAssumption

LEMMA ItemsAfterIsTyped ==
  ASSUME TaskTypeOK, NEW r \in Requests, ~IsIdle(r), NEW c \in Periods
  PROVE  ItemsAfter(req[r], c) \in [Items -> Item]
<1> DEFINE q == req[r]
<1>1. q.op \in Edits \union {"close", "early", "rekey"} /\ q.seen.items \in [Items -> Item]
  BY BusyIsTyped, BoardAssumption DEF Request
<1>2. plan.verifies \in BOOLEAN
  BY DEF TaskTypeOK
<1>3. /\ Submitted(plan.verifies, c) \in Item /\ Submitted(TRUE, c) \in Item
      /\ Cleared \in Item
  BY <1>2 DEF Submitted, Cleared, Item, Marks
<1>4. \A it \in Item : /\ [it EXCEPT !.mark = "VERIFIED", !.verifiedAt = c] \in Item
                       /\ [it EXCEPT !.mark = "REJECTED", !.verifiedAt = None] \in Item
                       /\ [it EXCEPT !.done = TRUE] \in Item
                       /\ [it EXCEPT !.done = FALSE] \in Item
  BY DEF Item, Marks
<1>5. ASSUME NEW i \in Items
      PROVE  ItemsAfter(q, c)[i] \in Item
  <2>1. CASE i \notin Chosen(q)
    BY <2>1, <1>1 DEF ItemsAfter
  <2>2. CASE i \in Chosen(q)
    <3>1. q.op \in Edits
      BY <2>2, <1>1, BusyIsTyped, BoardAssumption DEF Chosen, Request
    <3> QED
      BY <3>1, <2>2, <1>1, <1>3, <1>4 DEF ItemsAfter, Edits
  <2> QED
    BY <2>1, <2>2
<1> QED
  BY <1>5 DEF ItemsAfter

LEMMA CardAfterIsTyped ==
  ASSUME NEW items, NEW v
  PROVE  CardAfter(items, v) \in Marks
BY DEF CardAfter, Marks

LEMMA LastFullAfterIsTyped ==
  ASSUME TaskTypeOK, NEW items, NEW v
  PROVE  LastFullAfter(items, v) \in Times \union {None}
BY InstantIsNew DEF LastFullAfter

\* A load, an edit that has been written and one that is answered.
LEMMA TurnIsTyped ==
  ASSUME TaskTypeOK, NEW r \in Requests
  PROVE  /\ req[r].pc = "write" /\ Turn(r, "record") =>
              req' \in [Requests -> Request \union {Idle}]
         /\ req[r].pc = "record" /\ req[r].to # None /\ Turn(r, "roll") =>
              req' \in [Requests -> Request \union {Idle}]
         /\ Answer(r) => req' \in [Requests -> Request \union {Idle}]
<1>1. req \in [Requests -> Request \union {Idle}]
  BY DEF TaskTypeOK
<1>2. req[r].pc = "write" => [req[r] EXCEPT !.pc = "record"] \in Request
  BY BusyIsTyped DEF IsIdle, Request
<1>3. req[r].pc = "record" /\ req[r].to # None => [req[r] EXCEPT !.pc = "roll"] \in Request
  BY BusyIsTyped DEF IsIdle, Request
<1> QED
  BY <1>1, <1>2, <1>3 DEF Turn, Answer

LEMMA LoadIsTyped ==
  ASSUME TaskTypeOK, NEW r \in Requests, NEW op \in {"close", "early", "rekey"},
         NEW pc \in {"record", "roll"}, NEW to \in Periods, Load(r, op, pc, to)
  PROVE  TaskTypeOK'
<1>1. req' \in [Requests -> Request \union {Idle}]
  BY DEF TaskTypeOK, Load, Request
<1> QED
  BY <1>1 DEF TaskTypeOK, Load

LEMMA TaskTypesInit == Init => TaskTypeOK
<1> SUFFICES ASSUME Init PROVE TaskTypeOK
  OBVIOUS
<1>1. Cleared \in Item /\ 0 \in Periods
  BY BoardAssumption DEF Cleared, Item, Marks, Periods
<1>2. row \in Row
  BY <1>1 DEF Init, Row, Marks
<1> QED
  BY <1>2, BoardAssumption DEF Init, TaskTypeOK

LEMMA TaskTypesStep == TaskTypeOK /\ [Next]_vars => TaskTypeOK'
<1> SUFFICES ASSUME TaskTypeOK, [Next]_vars PROVE TaskTypeOK'
  OBVIOUS
<1> USE DEF TaskTypeOK
<1>a. /\ MaxPeriod \in Nat /\ MaxCycle \in Nat /\ MaxPeriod <= MaxCycle
      /\ now.period \in 0..MaxPeriod /\ now.period \in Periods
      /\ row \in Row /\ row.cycle \in Periods
  BY BoardAssumption DEF Periods, Row
<1>1. CASE UNCHANGED vars
  BY <1>1 DEF vars
<1>2. CASE NextPeriod
  BY <1>2, <1>a DEF NextPeriod
<1>3. CASE LaterInPeriod
  BY <1>3, <1>a DEF LaterInPeriod
<1>4. CASE Restart
  BY <1>4 DEF Restart
<1>5. ASSUME NEW r \in Requests, Arrive(r) PROVE TaskTypeOK'
  <2>1. PICK op \in Ops, item \in Items \union {None} :
          req' = [req EXCEPT ![r] = Edit(op, item)]
    BY <1>5 DEF Arrive
  <2>2. Edit(op, item) \in Request
    BY <1>a DEF Edit, Request
  <2> QED
    BY <1>5, <2>1, <2>2 DEF Arrive
<1>6. ASSUME NEW r \in Requests, CloseStale(r) PROVE TaskTypeOK'
  BY <1>6, <1>a, LoadIsTyped DEF CloseStale
<1>7. ASSUME NEW r \in Requests, CloseEarly(r) PROVE TaskTypeOK'
  <2>1. row.cycle + 1 \in Periods
    BY <1>7, <1>a DEF CloseEarly, Periods
  <2> QED
    BY <1>7, <2>1, LoadIsTyped DEF CloseEarly
<1>8. ASSUME NEW r \in Requests, Rekey(r) PROVE TaskTypeOK'
  BY <1>8, <1>a, LoadIsTyped DEF Rekey
<1>9. ASSUME NEW r \in Requests, req[r].pc = "write"
      PROVE  ItemsAfter(req[r], row.cycle) \in [Items -> Item]
  BY <1>9, <1>a, ItemsAfterIsTyped DEF IsIdle
<1>10. ASSUME NEW r \in Requests, WriteProgress(r) PROVE TaskTypeOK'
  <2> DEFINE items == ItemsAfter(req[r], row.cycle)
  <2>1. row' \in Row
    <3>1. items \in [Items -> Item]
      BY <1>10, <1>9 DEF WriteProgress, AtWrite
    <3>2. /\ CardAfter(items, plan.verifies) \in Marks
          /\ LastFullAfter(items, plan.verifies) \in Times \union {None}
      BY CardAfterIsTyped, LastFullAfterIsTyped
    <3> HIDE DEF items
    <3> QED
      BY <1>10, <3>1, <3>2, <1>a DEF WriteProgress, Row, items
  <2> QED
    BY <1>10, <2>1, TurnIsTyped DEF WriteProgress, AtWrite
<1>11. ASSUME NEW r \in Requests, WriteItemVerdict(r) PROVE TaskTypeOK'
  <2> DEFINE items == ItemsAfter(req[r], row.cycle)
  <2>1. row' \in Row
    <3>1. items \in [Items -> Item]
      BY <1>11, <1>9 DEF WriteItemVerdict, AtWrite
    <3>2. /\ CardAfter(items, TRUE) \in Marks
          /\ LastFullAfter(items, TRUE) \in Times \union {None}
      BY CardAfterIsTyped, LastFullAfterIsTyped
    <3> HIDE DEF items
    <3> QED
      BY <1>11, <3>1, <3>2, <1>a DEF WriteItemVerdict, Row, items
  <2> QED
    BY <1>11, <2>1, TurnIsTyped DEF WriteItemVerdict, AtWrite
<1>12. ASSUME NEW r \in Requests, WriteItemRejection(r) PROVE TaskTypeOK'
  <2>1. row' \in Row
    BY <1>12, <1>9, <1>a DEF WriteItemRejection, AtWrite, Row, Marks
  <2> QED
    BY <1>12, <2>1, TurnIsTyped DEF WriteItemRejection, AtWrite
<1>13. ASSUME NEW r \in Requests, WriteCardVerdict(r) PROVE TaskTypeOK'
  <2>1. row' \in Row
    BY ZenonT(40), <1>13, <1>a, InstantIsNew DEF WriteCardVerdict, AtWrite, Row, Marks
  <2> QED
    BY <1>13, <2>1, TurnIsTyped DEF WriteCardVerdict, AtWrite
<1>14. ASSUME NEW r \in Requests, WriteColumn(r) PROVE TaskTypeOK'
  <2>1. row' \in Row
    BY <1>14, <1>9, <1>a, InstantIsNew DEF WriteColumn, AtWrite, Row
  <2> QED
    BY <1>14, <2>1, TurnIsTyped DEF WriteColumn, AtWrite
<1>15. ASSUME NEW r \in Requests, Record(r) PROVE TaskTypeOK'
  <2>1. records' \in [Periods -> BOOLEAN \union {None}]
    BY <1>15 DEF Record, FullyComplete
  <2> QED
    BY <1>15, <2>1, TurnIsTyped DEF Record
<1>16. ASSUME NEW r \in Requests, Roll(r) PROVE TaskTypeOK'
  <2>1. /\ req[r].seen \in Row /\ req[r].to \in Periods
        /\ req[r].seen.items \in [Items -> Item]
    BY <1>16, BusyIsTyped DEF Roll, IsIdle, Request
  <2>2. Reset(req[r].seen.items) \in [Items -> Item]
    BY <2>1 DEF Reset, Item
  <2>3. Complete(req[r].seen) \in BOOLEAN
    BY DEF Complete, FullyComplete, CardVerified
  <2>4. Rolled(req[r]) \in Row
    BY <2>1, <2>2, <2>3, <1>a DEF Rolled, Row, Marks
  <2> QED
    BY <1>16, <2>4, TurnIsTyped DEF Roll
<1> QED
  BY <1>1, <1>2, <1>3, <1>4, <1>5, <1>6, <1>7, <1>8, <1>10, <1>11, <1>12,
     <1>13, <1>14, <1>15, <1>16
  DEF Next, Calendar, Send, Serve

(***************************************************************************)
(* The row, the records and the requests are what the routes put there.    *)
(***************************************************************************)
THEOREM TaskTypes == Spec => []TaskTypeOK
<1> QED
  BY TaskTypesInit, TaskTypesStep, PTL DEF Spec

(***************************************************************************)
(* What a request that closes a cycle holds.  The calendar does not go     *)
(* back, nor does a record disappear; a copy does not change, so that all  *)
(* of it is settled when the row is read but for the record, which is      *)
(* stored before the update.                                               *)
(***************************************************************************)
Closing(r) == req[r].pc \in {"record", "roll"} /\ req[r].op \in {"close", "early"}

HeldPast(q) ==
  now.period > q.seen.cycle + (IF plan.freq = "MONTHLY" /\ ~now.late THEN 1 ELSE 0)

CloseOK(r) ==
  Closing(r) =>
    /\ req[r].to > req[r].seen.cycle
    /\ Complete(req[r].seen) \/ HeldPast(req[r])
    /\ req[r].pc = "roll" => records[req[r].seen.key] # None

ClosesOK == \A r \in Requests : CloseOK(r)

\* What the service of a slot does to the slots.
LEMMA SlotSteps ==
  ASSUME TaskTypeOK, NEW r \in Requests, Serve(r)
  PROVE  /\ \/ Turn(r, "record") /\ req[r].pc = "write"
            \/ Turn(r, "roll") /\ Record(r) /\ req[r].to # None
            \/ Answer(r)
         /\ UNCHANGED <<plan, now>>
         /\ Record(r) \/ UNCHANGED records
BY DEF Serve, WriteProgress, WriteItemVerdict, WriteItemRejection,
       WriteCardVerdict, WriteColumn, Record, Roll, AtWrite

\* A record may be replaced but does not disappear.
LEMMA RecordsStay ==
  ASSUME TaskTypeOK, NEW r \in Requests, Record(r)
  PROVE  /\ \A p \in Periods : records[p] # None => records'[p] # None
         /\ req[r].to # None => records'[req[r].seen.key] # None
<1>1. req[r].seen.key \in Periods
  BY BusyIsTyped DEF Record, IsIdle
<1> QED
  BY <1>1, BoardAssumption DEF Record, FullyComplete, TaskTypeOK

LEMMA ClosesStep == TaskTypeOK /\ ClosesOK /\ [Next]_vars => ClosesOK'
<1> SUFFICES ASSUME TaskTypeOK, ClosesOK, [Next]_vars, NEW s \in Requests
             PROVE  CloseOK(s)'
  BY DEF ClosesOK
<1>a. /\ MaxPeriod \in Nat /\ MaxCycle \in Nat
      /\ now \in [period : 0..MaxPeriod, late : BOOLEAN]
      /\ row \in Row /\ row.cycle \in Nat
      /\ req \in [Requests -> Request \union {Idle}]
  BY BoardAssumption DEF TaskTypeOK, Row, Periods
<1>b. Closing(s) => req[s].seen.cycle \in Nat /\ req[s].seen.key \in Periods
  BY BusyIsTyped DEF Closing, IsIdle, Periods
<1>1. ASSUME UNCHANGED <<plan, now>>, req'[s] = req[s],
             \A p \in Periods : records[p] # None => records'[p] # None
      PROVE  CloseOK(s)'
  BY <1>1, <1>b DEF ClosesOK, CloseOK, Closing, HeldPast, Complete, FullyComplete,
                   CardVerified
<1>2. CASE UNCHANGED vars
  BY <1>1, <1>2 DEF vars
<1>3. CASE Calendar
  <2>1. req' = req /\ records' = records /\ plan' = plan
    BY <1>3 DEF Calendar, NextPeriod, LaterInPeriod
  <2>2. Closing(s) /\ HeldPast(req[s]) => HeldPast(req[s])'
    BY <1>3, <1>a, <1>b, <2>1 DEF Calendar, NextPeriod, LaterInPeriod, HeldPast
  <2> QED
    BY <2>1, <2>2 DEF ClosesOK, CloseOK, Closing, Complete, FullyComplete, CardVerified
<1>4. CASE Restart
  BY <1>4 DEF Restart, CloseOK, Closing, Idle
<1>5. ASSUME NEW r \in Requests, Send(r), r # s PROVE CloseOK(s)'
  <2>1. /\ UNCHANGED <<plan, now, records>>
        /\ \E new : req' = [req EXCEPT ![r] = new]
    BY <1>5 DEF Send, Arrive, CloseStale, CloseEarly, Rekey, Load
  <2>2. req'[s] = req[s]
    BY <1>5, <1>a, <2>1
  <2> QED
    BY <1>1, <2>1, <2>2
<1>6. ASSUME Arrive(s) \/ Rekey(s) PROVE CloseOK(s)'
  <2>1. CASE Arrive(s)
    <3>1. req'[s].pc = "write"
      BY <2>1, <1>a DEF Arrive, Edit
    <3> QED
      BY <3>1 DEF CloseOK, Closing
  <2>2. CASE Rekey(s)
    <3>1. req'[s].op = "rekey"
      BY <2>2, <1>a DEF Rekey, Load
    <3> QED
      BY <3>1 DEF CloseOK, Closing
  <2> QED
    BY <1>6, <2>1, <2>2
<1>7. ASSUME CloseStale(s) PROVE CloseOK(s)'
  <2>1. /\ req'[s].seen = row /\ req'[s].to = now.period /\ req'[s].pc = "record"
        /\ UNCHANGED <<plan, now>>
    BY <1>7, <1>a DEF CloseStale, Load
  <2> QED
    BY <1>7, <2>1 DEF CloseStale, Stale, HoldPassed, HeldPast, CloseOK, Complete,
                      FullyComplete, CardVerified
<1>8. ASSUME CloseEarly(s) PROVE CloseOK(s)'
  <2>1. /\ req'[s].seen = row /\ req'[s].to = row.cycle + 1
        /\ req'[s].pc = "record" /\ UNCHANGED <<plan, now>>
    BY <1>8, <1>a DEF CloseEarly, Load
  <2> QED
    BY <1>8, <1>a, <2>1 DEF CloseEarly, Early, CloseOK, Complete, FullyComplete,
                            CardVerified
<1>9. ASSUME NEW r \in Requests, Serve(r), r # s PROVE CloseOK(s)'
  BY <1>1, <1>9, <1>a, SlotSteps, RecordsStay DEF Turn, Answer
<1>10. ASSUME Serve(s) PROVE CloseOK(s)'
  <2>1. CASE Turn(s, "record") /\ req[s].pc = "write"
    BY <2>1, <1>a, BusyIsTyped, BoardAssumption
    DEF Turn, CloseOK, Closing, IsIdle, Request, Edits
  <2>2. CASE Turn(s, "roll") /\ Record(s) /\ req[s].to # None
    <3>1. /\ req'[s] = [req[s] EXCEPT !.pc = "roll"] /\ req[s].pc = "record"
          /\ UNCHANGED <<plan, now>> /\ records'[req[s].seen.key] # None
      BY <2>2, <1>a, RecordsStay DEF Turn, Record
    <3>2. req'[s].op = req[s].op /\ req'[s].seen = req[s].seen /\ req'[s].to = req[s].to
      BY <3>1, BusyIsTyped DEF IsIdle, Request
    <3> QED
      BY <3>1, <3>2 DEF ClosesOK, CloseOK, Closing, HeldPast, Complete, FullyComplete,
                        CardVerified
  <2>3. CASE Answer(s)
    BY <2>3, <1>a DEF Answer, CloseOK, Closing, Idle
  <2> QED
    BY <1>10, <2>1, <2>2, <2>3, SlotSteps
<1> QED
  BY <1>2, <1>3, <1>4, <1>5, <1>6, <1>7, <1>8, <1>9, <1>10 DEF Next, Send

LEMMA ClosesInit == Init => ClosesOK
BY DEF Init, ClosesOK, CloseOK, Closing, Idle

LEMMA Closes == Spec => [](TaskTypeOK /\ ClosesOK)
<1>1. Init => TaskTypeOK /\ ClosesOK
  BY TaskTypesInit, ClosesInit
<1>2. TaskTypeOK /\ ClosesOK /\ [Next]_vars => (TaskTypeOK /\ ClosesOK)'
  BY TaskTypesStep, ClosesStep
<1> QED
  BY <1>1, <1>2, PTL DEF Spec

\* An update that finds the row as it was read, and one that does not.
LEMMA RollSteps ==
  ASSUME TaskTypeOK, NEW r \in Requests, Roll(r), row' # row
  PROVE  /\ row.cycle = req[r].seen.cycle /\ row.key = req[r].seen.key
         /\ row.lastFull = req[r].seen.lastFull
         /\ row' = Rolled(req[r])
         /\ Closing(r) \/ row' = [row EXCEPT !.key = req[r].to, !.incomplete = FALSE]
<1>1. req[r].op \in {"close", "early", "rekey"}
  BY BusyIsTyped DEF Roll, IsIdle, Request
<1> QED
  BY <1>1 DEF Roll, Unmoved, Rolled, Closing

LEMMA ClosingResets ==
  ASSUME NEW r \in Requests, Closing(r)
  PROVE  /\ Rolled(req[r]).items = Reset(req[r].seen.items)
         /\ Rolled(req[r]).cycle = req[r].to
         /\ Rolled(req[r]).lastFull = None /\ Rolled(req[r]).card = None
<1>1. req[r].op # "rekey"
  BY DEF Closing
<1> QED
  BY <1>1 DEF Rolled

(***************************************************************************)
(* However many requests read the board at once, one of them closes a      *)
(* cycle: the update of another finds the cycle moved.                     *)
(***************************************************************************)
THEOREM ResetsOpenCycles == Spec => ResetOpensCycle
<1> DEFINE A == (\E r \in Requests : Roll(r)) /\ row'.items # row.items =>
                  row'.cycle > row.cycle /\ records[row.key] # None
<1>1. TaskTypeOK /\ ClosesOK => [A]_vars
  <2> SUFFICES ASSUME TaskTypeOK, ClosesOK, NEW r \in Requests, Roll(r),
                      row'.items # row.items
               PROVE  row'.cycle > row.cycle /\ records[row.key] # None
    OBVIOUS
  <2>1. Closing(r)
    <3>1. [row EXCEPT !.key = req[r].to, !.incomplete = FALSE].items = row.items
      BY DEF TaskTypeOK, Row
    <3> QED
      BY <3>1, RollSteps
  <2>2. row'.cycle = req[r].to
    BY <2>1, RollSteps, ClosingResets
  <2> QED
    BY <2>1, <2>2, RollSteps DEF ClosesOK, CloseOK, Roll
<1> QED
  BY <1>1, Closes, PTL DEF ResetOpensCycle

(***************************************************************************)
(* lastFullCompletionAt stands for the checklist: whoever changes it also  *)
(* clears or replaces that instant, so that a copy with the row's instant  *)
(* is complete only if the row is.  The segment board does not, and is     *)
(* assumed away.                                                           *)
(***************************************************************************)
DoneAt(r) == r.card = "VERIFIED" => r.lastFull # None

CopyOK(r) ==
  ~IsIdle(r) =>
    /\ DoneAt(req[r].seen)
    /\ req[r].seen.lastFull = row.lastFull /\ Complete(req[r].seen) => Complete(row)

CopiesOK == DoneAt(row) /\ \A r \in Requests : CopyOK(r)

\* A request that changes the checklist changes the instant.
LEMMA WritesAreDated ==
  ASSUME TaskTypeOK, Ops \intersect ColumnOps = {}, NEW r \in Requests,
         req[r].pc = "write", Serve(r)
  PROVE  row'.lastFull \in {None, ThisInstant} /\ DoneAt(row)'
<1>a. row \in Row /\ ThisInstant # None /\ None # "VERIFIED"
  BY InstantIsNew, BoardAssumption DEF TaskTypeOK
<1>1. CASE WriteProgress(r)
  BY <1>1, <1>a DEF WriteProgress, DoneAt, CardAfter, LastFullAfter, Row
<1>2. CASE WriteItemVerdict(r)
  BY <1>2, <1>a DEF WriteItemVerdict, DoneAt, CardAfter, LastFullAfter, Row
<1>3. CASE WriteItemRejection(r)
  BY <1>3, <1>a DEF WriteItemRejection, DoneAt, Row
<1>4. CASE WriteCardVerdict(r)
  BY <1>4, <1>a DEF WriteCardVerdict, AtWrite, DoneAt, Row
<1>5. ~WriteColumn(r)
  BY BusyIsTyped, BoardAssumption
  DEF WriteColumn, AtWrite, ColumnOps, Request, IsIdle
<1> QED
  BY <1>1, <1>2, <1>3, <1>4, <1>5 DEF Serve, Record, Roll

LEMMA CopiesStep ==
  ASSUME Ops \intersect ColumnOps = {}
  PROVE  TaskTypeOK /\ CopiesOK /\ [Next]_vars => CopiesOK'
<1> SUFFICES ASSUME TaskTypeOK, CopiesOK, [Next]_vars PROVE CopiesOK'
  OBVIOUS
<1> USE DEF CopiesOK
<1>a. row \in Row /\ req \in [Requests -> Request \union {Idle}]
  BY DEF TaskTypeOK
<1>1. CASE UNCHANGED vars \/ Calendar
  BY <1>1 DEF vars, Calendar, NextPeriod, LaterInPeriod, CopyOK, IsIdle, DoneAt,
              Complete, FullyComplete, CardVerified
<1>2. CASE Restart
  BY <1>2 DEF Restart, CopyOK, IsIdle, Idle, DoneAt
<1>3. ASSUME NEW r \in Requests, Send(r) PROVE CopiesOK'
  <2>1. /\ row' = row /\ req'[r].seen = row
        /\ \A s \in Requests : s # r => req'[s] = req[s]
    <3>1. CASE Arrive(r)
      BY <1>a, <3>1 DEF Arrive, Edit
    <3>2. ASSUME NEW op, NEW pc, NEW to, Load(r, op, pc, to)
          PROVE  /\ row' = row /\ req'[r].seen = row
                 /\ \A s \in Requests : s # r => req'[s] = req[s]
      BY <1>a, <3>2 DEF Load
    <3> QED
      BY <1>3, <3>1, <3>2 DEF Send, CloseStale, CloseEarly, Rekey
  <2>2. ASSUME NEW s \in Requests PROVE CopyOK(s)'
    BY <1>a, <2>1 DEF CopyOK, IsIdle, DoneAt, Complete, FullyComplete, CardVerified
  <2> QED
    BY <2>1, <2>2 DEF DoneAt
<1>4. ASSUME NEW r \in Requests, Serve(r), NEW s \in Requests, ~IsIdle(s)'
      PROVE  ~IsIdle(s) /\ req'[s].seen = req[s].seen
  <2>1. CASE s # r
    BY <1>4, <1>a, <2>1, SlotSteps DEF Turn, Answer, IsIdle
  <2>2. CASE s = r
    <3>1. CASE Turn(r, "record") /\ req[r].pc = "write"
      BY <1>a, <2>2, <3>1, BusyIsTyped DEF Turn, IsIdle, Request
    <3>2. CASE Turn(r, "roll") /\ Record(r)
      BY <1>a, <2>2, <3>2, BusyIsTyped DEF Turn, Record, IsIdle, Request
    <3>3. CASE Answer(r)
      BY <1>4, <1>a, <2>2, <3>3 DEF Answer, IsIdle, Idle
    <3> QED
      BY <1>4, <3>1, <3>2, <3>3, SlotSteps
  <2> QED
    BY <2>1, <2>2
<1>5. ASSUME NEW r \in Requests, Serve(r),
             \/ row'.lastFull = None
             \/ row'.lastFull = ThisInstant
             \/ /\ row'.lastFull = row.lastFull /\ row'.items = row.items
                /\ row'.card = row.card,
             DoneAt(row)'
      PROVE  CopiesOK'
  <2>1. ASSUME NEW s \in Requests, ~IsIdle(s)' PROVE CopyOK(s)'
    <3>1. ~IsIdle(s) /\ req'[s].seen = req[s].seen
      BY <1>4, <1>5, <2>1
    <3>2. Complete(req[s].seen) => req[s].seen.lastFull # None
      BY <3>1 DEF CopyOK, DoneAt, Complete, CardVerified
    <3>3. req[s].seen.lastFull # ThisInstant
      BY <3>1, InstantIsNew
    <3> QED
      BY <1>5, <3>1, <3>2, <3>3 DEF CopyOK, DoneAt, Complete, FullyComplete, CardVerified
  <2> QED
    BY <1>5, <2>1 DEF CopyOK
<1>6. ASSUME NEW r \in Requests, Serve(r), req[r].pc = "write" PROVE CopiesOK'
  BY <1>5, <1>6, WritesAreDated
<1>7. ASSUME NEW r \in Requests, Serve(r), Record(r) PROVE CopiesOK'
  BY <1>5, <1>7 DEF Record, DoneAt
<1>8. ASSUME NEW r \in Requests, Serve(r), Roll(r) PROVE CopiesOK'
  <2>1. CASE row' = row
    BY <1>5, <1>8, <2>1 DEF DoneAt
  <2>2. CASE row' # row /\ Closing(r)
    <3>1. row'.lastFull = None /\ row'.card = None
      BY <1>8, <2>2, RollSteps, ClosingResets
    <3> QED
      BY <1>5, <1>8, <3>1, BoardAssumption DEF DoneAt
  <2>3. CASE row' = [row EXCEPT !.key = req[r].to, !.incomplete = FALSE]
    <3>1. row'.lastFull = row.lastFull /\ row'.items = row.items /\ row'.card = row.card
      BY <1>a, <2>3 DEF Row
    <3> QED
      BY <1>5, <1>8, <3>1 DEF DoneAt
  <2> QED
    BY <1>8, <2>1, <2>2, <2>3, RollSteps
<1>9. ASSUME NEW r \in Requests, Serve(r)
      PROVE  req[r].pc = "write" \/ Record(r) \/ Roll(r)
  BY <1>9 DEF Serve, WriteProgress, WriteItemVerdict, WriteItemRejection,
              WriteCardVerdict, WriteColumn, AtWrite
<1> QED
  BY <1>1, <1>2, <1>3, <1>6, <1>7, <1>8, <1>9 DEF Next

(***************************************************************************)
(* Incomplete work stays until its time is over, whatever is unticked,     *)
(* submitted or rejected between the read that closes a cycle and its      *)
(* update.                                                                 *)
(***************************************************************************)
THEOREM IncompleteWorkIsHeld ==
  ASSUME Ops \intersect ColumnOps = {}
  PROVE  Spec => IncompleteIsHeld
<1> DEFINE A == row'.cycle > row.cycle /\ ~Complete(row) => HoldPassed
<1>1. Init => CopiesOK
  BY BoardAssumption DEF Init, CopiesOK, CopyOK, DoneAt, IsIdle, Idle
<1>2. TaskTypeOK /\ CopiesOK /\ [Next]_vars => CopiesOK'
  BY CopiesStep
<1>3. TaskTypeOK /\ ClosesOK /\ CopiesOK /\ [Next]_vars => [A]_vars
  <2> SUFFICES ASSUME TaskTypeOK, ClosesOK, CopiesOK, Next, row'.cycle > row.cycle,
                      ~Complete(row)
               PROVE  HoldPassed
    BY DEF vars
  <2>a. row \in Row /\ row.cycle \in Nat
    BY DEF TaskTypeOK, Row, Periods
  <2>b. row'.cycle # row.cycle
    BY <2>a
  <2>1. PICK r \in Requests : Roll(r) /\ row' # row
    <3>1. row'.cycle # row.cycle
      BY <2>b
    <3>2. PICK r \in Requests : Serve(r)
      BY <3>1 DEF Next, Calendar, NextPeriod, LaterInPeriod, Restart, Send, Arrive,
                  CloseStale, CloseEarly, Rekey, Load
    <3>3. Roll(r)
      BY <2>a, <3>1, <3>2 DEF Serve, WriteProgress, WriteItemVerdict,
         WriteItemRejection, WriteCardVerdict, WriteColumn, AtWrite, Record, Row
    <3> QED
      BY <3>1, <3>3
  <2>2. Closing(r)
    <3>1. [row EXCEPT !.key = req[r].to, !.incomplete = FALSE].cycle = row.cycle
      BY <2>a DEF Row
    <3> QED
      BY <2>a, <2>1, <2>b, <3>1, RollSteps
  <2>3. ~Complete(req[r].seen)
    BY <2>1, RollSteps DEF CopiesOK, CopyOK, Roll, IsIdle
  <2> QED
    BY <2>1, <2>2, <2>3, RollSteps DEF ClosesOK, CloseOK, HeldPast, HoldPassed
<1> QED
  BY <1>1, <1>2, <1>3, Closes, PTL DEF Spec, IncompleteIsHeld

(***************************************************************************)
(* One request after the other.  What an edit or a load holds is the row   *)
(* as it is, until it has written; and the marks of the checklist tell     *)
(* what they should.                                                       *)
(***************************************************************************)
SoloOK ==
  /\ \A r, s \in Requests : ~IsIdle(r) /\ ~IsIdle(s) => r = s
  /\ \A r \in Requests :
       /\ ~IsIdle(r) => req[r].op \notin ColumnOps
       /\ ~IsIdle(r) /\ (req[r].pc = "record" => req[r].to # None) => req[r].seen = row
       /\ req[r].pc = "write" => Accepted(req[r])

MarksOK(items, card, cycle) ==
  /\ \A i \in Items :
       /\ items[i].done => items[i].mark # None
       /\ items[i].done /\ items[i].mark = "VERIFIED" => items[i].verifiedAt = cycle
       /\ ~plan.verifies => items[i].mark \in {None, "VERIFIED"}
  /\ ~plan.verifies => card \in {None, "VERIFIED"}

SoloInv == SoloOK /\ MarksOK(row.items, row.card, row.cycle) /\ PendingIsListed

\* A request is sent only while none is in flight, and none to the segment
\* board.
SoloNext ==
  \/ Calendar
  \/ \E r \in Requests : \/ Send(r) /\ Settled /\ req'[r].op \notin ColumnOps
                         \/ Serve(r)

\* Nobody writes between a request's read and its write.
LEMMA SoloStep ==
  ASSUME TaskTypeOK, SoloOK, [SoloNext \/ Restart]_vars
  PROVE  SoloOK'
<1>a. row \in Row /\ req \in [Requests -> Request \union {Idle}]
  BY DEF TaskTypeOK
<1>1. CASE UNCHANGED vars \/ Calendar
  <2>1. row' = row /\ req' = req
    BY <1>1 DEF vars, Calendar, NextPeriod, LaterInPeriod
  <2> QED
    BY <2>1 DEF SoloOK, IsIdle, Accepted, PendingOf, Pending, CardVerified
<1>2. CASE Restart
  BY <1>2 DEF Restart, SoloOK, IsIdle, Idle
<1>3. ASSUME NEW r \in Requests, Send(r), Settled, req'[r].op \notin ColumnOps
      PROVE  SoloOK'
  <2>1. row' = row
    BY <1>3 DEF Send, Arrive, CloseStale, CloseEarly, Rekey, Load
  <2>2. /\ req'[r].seen = row
        /\ \A s \in Requests : s # r => req'[s] = req[s]
        /\ req'[r].pc = "write" => Accepted(req'[r])
    <3>1. CASE Arrive(r)
      BY <1>a, <3>1 DEF Arrive, Edit
    <3>2. ASSUME NEW op, NEW pc \in {"record", "roll"}, NEW to, Load(r, op, pc, to)
          PROVE  /\ req'[r].seen = row /\ req'[r].pc # "write"
                 /\ \A s \in Requests : s # r => req'[s] = req[s]
      BY <1>a, <3>2 DEF Load
    <3> QED
      BY <1>3, <3>1, <3>2 DEF Send, CloseStale, CloseEarly, Rekey
  <2>3. \A s \in Requests : s # r => IsIdle(s)'
    BY <1>3, <2>2 DEF Settled, Busy, IsIdle
  <2>4. \A q : Accepted(q) => Accepted(q)'
    OBVIOUS
  <2>5. \A s \in Requests : req'[s].pc = "write" => s = r
    BY <2>3 DEF IsIdle
  <2> QED
    BY <1>3, <2>1, <2>2, <2>3, <2>4, <2>5 DEF SoloOK
<1>4. ASSUME NEW r \in Requests, Serve(r) PROVE SoloOK'
  <2>1. /\ ~IsIdle(r) /\ \A s \in Requests : s # r => IsIdle(s) /\ req'[s] = req[s]
    <3>1. ~IsIdle(r)
      BY <1>4 DEF Serve, WriteProgress, WriteItemVerdict, WriteItemRejection,
                  WriteCardVerdict, WriteColumn, Record, Roll, AtWrite, IsIdle
    <3> QED
      BY <1>4, <1>a, <3>1, SlotSteps DEF SoloOK, Turn, Answer
  <2>2. CASE Turn(r, "record") /\ req[r].pc = "write"
    <3>1. /\ req'[r].pc = "record" /\ req'[r].to = None
          /\ req'[r].op = req[r].op
      BY <1>a, <2>2, BusyIsTyped, BoardAssumption DEF Turn, IsIdle, Request
    <3> QED
      BY <2>1, <3>1 DEF SoloOK, IsIdle
  <2>3. CASE Turn(r, "roll") /\ Record(r) /\ req[r].to # None
    <3>1. /\ row' = row /\ req'[r].pc = "roll" /\ req'[r].seen = req[r].seen
          /\ req'[r].op = req[r].op
      BY <1>a, <2>3, BusyIsTyped DEF Turn, Record, IsIdle, Request
    <3> QED
      BY <2>1, <2>3, <3>1 DEF SoloOK, IsIdle
  <2>4. CASE Answer(r)
    <3>1. IsIdle(r)' /\ req'[r].pc # "write"
      BY <1>a, <2>4 DEF Answer, IsIdle, Idle
    <3> QED
      BY <2>1, <3>1 DEF SoloOK, IsIdle
  <2> QED
    BY <1>4, <2>2, <2>3, <2>4, SlotSteps
<1> QED
  BY <1>1, <1>2, <1>3, <1>4 DEF SoloNext

\* What an edit does to one sub-task: a tick, and a verdict.
LEMMA TickedItem ==
  ASSUME NEW q, NEW c, NEW i \in Items, q.op \in {"mark", "unmark"}
  PROVE  ItemsAfter(q, c)[i] \in
           {q.seen.items[i], Submitted(plan.verifies, c), Cleared}
BY DEF ItemsAfter

LEMMA JudgedItem ==
  ASSUME NEW q, NEW c, NEW i \in Items, q.item \in Items \union {None},
         q.op \in {"approve", "reject", "resubmit"}, q.seen.items[i] \in Item
  PROVE  \/ ItemsAfter(q, c)[i] = q.seen.items[i]
         \/ ItemsAfter(q, c)[i] = Submitted(TRUE, c)
         \/ ItemsAfter(q, c)[i].mark = "VERIFIED" /\ ItemsAfter(q, c)[i].verifiedAt = c
         \/ ItemsAfter(q, c)[i].mark = "REJECTED"
BY DEF ItemsAfter, Item

\* A verdict is accepted only where there is something to decide: not if
\* completion is not verified.
LEMMA VerdictsNeedVerification ==
  ASSUME TaskTypeOK, SoloInv, NEW r \in Requests,
         AtWrite(r, {"approve", "reject", "resubmit"})
  PROVE  plan.verifies
<1> SUFFICES ASSUME ~plan.verifies PROVE FALSE
  OBVIOUS
<1>1. req[r].seen = row /\ Accepted(req[r])
  BY DEF SoloInv, SoloOK, AtWrite, IsIdle
<1>2. PendingOf(row) = {}
  BY DEF SoloInv, MarksOK, PendingOf, Pending
<1>3. row.card \in {None, "VERIFIED"}
  BY DEF SoloInv, MarksOK
<1>4. req[r].item \in Items \union {None}
  BY BusyIsTyped DEF AtWrite, IsIdle, Request
<1>5. \A i \in Items : row.items[i].mark # "REJECTED"
  BY BoardAssumption DEF SoloInv, MarksOK
<1> QED
  BY <1>1, <1>2, <1>3, <1>4, <1>5, BoardAssumption DEF Accepted, AtWrite

\* The checklist an edit writes has the marks it should.
LEMMA EditedMarks ==
  ASSUME TaskTypeOK, SoloInv, NEW r \in Requests,
         AtWrite(r, {"mark", "unmark", "approve", "reject", "resubmit"}),
         NEW card, ~plan.verifies => card \in {None, "VERIFIED"}
  PROVE  MarksOK(ItemsAfter(req[r], row.cycle), card, row.cycle)
<1> DEFINE q == req[r]
           items == ItemsAfter(q, row.cycle)
<1>1. q.seen = row /\ q.item \in Items \union {None} /\ row \in Row
  BY BusyIsTyped DEF SoloInv, SoloOK, AtWrite, IsIdle, Request, TaskTypeOK
<1>2. plan.verifies \in BOOLEAN
  BY DEF TaskTypeOK
<1>3. ASSUME NEW i \in Items
      PROVE  /\ items[i].done => items[i].mark # None
             /\ items[i].done /\ items[i].mark = "VERIFIED" =>
                  items[i].verifiedAt = row.cycle
             /\ ~plan.verifies => items[i].mark \in {None, "VERIFIED"}
  <2> HIDE DEF items
  <2>a. row.items[i] \in Item /\ None \notin {"PENDING_VERIFICATION", "VERIFIED", "REJECTED"}
    BY <1>1, BoardAssumption DEF Row
  <2>b. /\ row.items[i].done => row.items[i].mark # None
        /\ row.items[i].done /\ row.items[i].mark = "VERIFIED" =>
             row.items[i].verifiedAt = row.cycle
        /\ ~plan.verifies => row.items[i].mark \in {None, "VERIFIED"}
    BY DEF SoloInv, MarksOK
  <2>1. CASE items[i] = row.items[i]
    BY <2>1, <2>b
  <2>2. CASE items[i] = Submitted(plan.verifies, row.cycle)
    BY <2>2, <2>a, <1>2 DEF Submitted
  <2>3. CASE items[i] = Cleared
    BY <2>3, <2>a DEF Cleared
  <2>4. CASE plan.verifies /\ items[i] = Submitted(TRUE, row.cycle)
    BY <2>4, <2>a DEF Submitted
  <2>5. CASE items[i].mark = "VERIFIED" /\ items[i].verifiedAt = row.cycle
    BY <2>5, <2>a
  <2>6. CASE plan.verifies /\ items[i].mark = "REJECTED"
    BY <2>6, <2>a
  <2>7. CASE q.op \in {"mark", "unmark"}
    <3>1. items[i] \in {row.items[i], Submitted(plan.verifies, row.cycle), Cleared}
      BY <1>1, <2>7, TickedItem DEF items
    <3> QED
      BY <2>1, <2>2, <2>3, <3>1
  <2>8. CASE q.op \in {"approve", "reject", "resubmit"}
    <3>1. plan.verifies
      BY <2>8, VerdictsNeedVerification DEF AtWrite
    <3> QED
      BY ZenonT(40), <1>1, <2>a, <2>1, <2>4, <2>5, <2>6, <2>8, <3>1, JudgedItem DEF items
  <2> QED
    BY <2>7, <2>8 DEF AtWrite
<1> QED
  BY <1>3 DEF MarksOK

\* What is complete has nothing pending.
LEMMA CompleteIsNotPending ==
  ASSUME NEW items, NEW card, NEW cycle, MarksOK(items, card, cycle),
         NEW verified, FullyComplete(items, plan.verifies), plan.verifies \in BOOLEAN
  PROVE  Pending(items, verified) = {}
BY BoardAssumption DEF MarksOK, FullyComplete, Pending

LEMMA SoloInvWrites ==
  ASSUME TaskTypeOK, SoloInv, NEW r \in Requests, Serve(r)
  PROVE  MarksOK(row.items, row.card, row.cycle)' /\ PendingIsListed'
<1> DEFINE items == ItemsAfter(req[r], row.cycle)
<1>a. /\ row \in Row /\ plan.verifies \in BOOLEAN /\ plan' = plan
      /\ None \notin {"PENDING_VERIFICATION", "VERIFIED", "REJECTED"}
  BY SlotSteps, BoardAssumption DEF TaskTypeOK
<1>b. ASSUME row'.items = items, row'.cycle = row.cycle,
             AtWrite(r, {"mark", "unmark", "approve", "reject", "resubmit"}),
             ~plan.verifies => row'.card \in {None, "VERIFIED"},
             row'.lastFull # None => FullyComplete(items, plan.verifies)
      PROVE  MarksOK(row.items, row.card, row.cycle)' /\ PendingIsListed'
  <2>1. MarksOK(items, row'.card, row.cycle)
    BY <1>b, EditedMarks
  <2>2. MarksOK(row.items, row.card, row.cycle)'
    BY <1>a, <1>b, <2>1 DEF MarksOK
  <2>3. row'.lastFull # None => Pending(items, CardVerified(row'.card, row'.lastFull)) = {}
    BY <1>a, <1>b, <2>1, CompleteIsNotPending
  <2> QED
    BY <1>b, <2>2, <2>3 DEF PendingIsListed, PendingOf, Pending, CardVerified
<1>c. ASSUME row'.items = row.items, row'.cycle = row.cycle,
             \/ row'.card = row.card /\ row'.lastFull = row.lastFull
             \/ /\ plan.verifies
                /\ row'.lastFull # None => row'.card = "VERIFIED" /\ PendingOf(row) = {}
      PROVE  MarksOK(row.items, row.card, row.cycle)' /\ PendingIsListed'
  BY <1>a, <1>c DEF SoloInv, MarksOK, PendingIsListed, PendingOf, Pending, CardVerified
<1>1. CASE WriteProgress(r)
  <2>1. /\ row'.items = items /\ row'.cycle = row.cycle
        /\ row'.card = CardAfter(items, plan.verifies)
        /\ row'.lastFull = LastFullAfter(items, plan.verifies)
        /\ AtWrite(r, {"mark", "unmark", "approve", "reject", "resubmit"})
    BY <1>1, <1>a DEF WriteProgress, Row, AtWrite
  <2> HIDE DEF items
  <2> QED
    BY <1>a, <1>b, <2>1 DEF CardAfter, LastFullAfter
<1>2. CASE WriteItemVerdict(r)
  <2>1. /\ row'.items = items /\ row'.cycle = row.cycle
        /\ row'.lastFull = LastFullAfter(items, TRUE)
        /\ AtWrite(r, {"mark", "unmark", "approve", "reject", "resubmit"})
    BY <1>2, <1>a DEF WriteItemVerdict, Row, AtWrite
  <2>2. plan.verifies
    BY <1>2, VerdictsNeedVerification DEF WriteItemVerdict, AtWrite
  <2> HIDE DEF items
  <2> QED
    BY <1>a, <1>b, <2>1, <2>2 DEF LastFullAfter
<1>3. CASE WriteItemRejection(r)
  <2>1. /\ row'.items = items /\ row'.cycle = row.cycle /\ row'.lastFull = None
        /\ AtWrite(r, {"mark", "unmark", "approve", "reject", "resubmit"})
    BY <1>3, <1>a DEF WriteItemRejection, Row, AtWrite
  <2>2. plan.verifies
    BY <1>3, VerdictsNeedVerification DEF WriteItemRejection, AtWrite
  <2> QED
    BY <1>b, <2>1, <2>2
<1>4. CASE WriteCardVerdict(r)
  <2>1. plan.verifies
    BY <1>4, VerdictsNeedVerification DEF WriteCardVerdict
  <2>2. req[r].op = "approve" => PendingOf(row) = {}
    BY <1>4 DEF WriteCardVerdict, SoloInv, SoloOK, AtWrite, IsIdle, Accepted
  <2>3. row'.items = row.items /\ row'.cycle = row.cycle
    BY <1>4, <1>a DEF WriteCardVerdict, AtWrite, Row
  <2>4. row'.lastFull # None => row'.card = "VERIFIED" /\ req[r].op = "approve"
    BY <1>4, <1>a DEF WriteCardVerdict, AtWrite, Row
  <2> QED
    BY <1>c, <2>1, <2>2, <2>3, <2>4
<1>5. ~WriteColumn(r)
  BY DEF SoloInv, SoloOK, WriteColumn, AtWrite, ColumnOps, IsIdle
<1>6. CASE Record(r)
  BY <1>6, <1>c DEF Record
<1>7. CASE Roll(r)
  <2>1. CASE row' = row
    BY <2>1, <1>c
  <2>2. CASE row' = [row EXCEPT !.key = req[r].to, !.incomplete = FALSE]
    <3>1. /\ row'.items = row.items /\ row'.cycle = row.cycle
          /\ row'.card = row.card /\ row'.lastFull = row.lastFull
      BY <1>a, <2>2 DEF Row
    <3> QED
      BY <1>c, <3>1
  <2>3. CASE row' # row /\ Closing(r)
    <3>1. /\ row'.lastFull = None /\ row'.card = None
          /\ row'.items = Reset(row.items)
      <4>1. req[r].seen = row /\ req[r].op # "rekey"
        BY <1>7, <2>3 DEF SoloInv, SoloOK, Roll, IsIdle, Closing
      <4> QED
        BY <1>7, <2>3, <4>1, RollSteps, ClosingResets
    <3>2. ASSUME NEW i \in Items
          PROVE  ~Reset(row.items)[i].done /\ Reset(row.items)[i].mark = row.items[i].mark
      BY <1>a DEF Reset, Row, Item
    <3> QED
      BY <1>a, <3>1, <3>2 DEF SoloInv, MarksOK, PendingIsListed
  <2> QED
    BY <1>7, <2>1, <2>2, <2>3, RollSteps
<1> QED
  BY <1>1, <1>2, <1>3, <1>4, <1>5, <1>6, <1>7 DEF Serve

LEMMA SoloInvInit == Init => SoloInv
<1> SUFFICES ASSUME Init PROVE SoloInv
  OBVIOUS
<1>1. SoloOK
  BY DEF Init, SoloOK, IsIdle, Idle
<1> QED
  BY <1>1 DEF Init, SoloInv, MarksOK, PendingIsListed, Cleared

LEMMA SoloInvStep ==
  ASSUME TaskTypeOK, SoloInv, [SoloNext \/ Restart]_vars
  PROVE  SoloInv'
<1>1. SoloOK'
  BY SoloStep DEF SoloInv
<1>2. CASE row' = row /\ plan' = plan
  BY <1>1, <1>2
  DEF SoloInv, MarksOK, PendingIsListed, PendingOf, Pending, CardVerified
<1>3. CASE \E r \in Requests : Serve(r)
  BY <1>1, <1>3, SoloInvWrites DEF SoloInv
<1> QED
  BY <1>2, <1>3 DEF SoloNext, vars, Calendar, NextPeriod, LaterInPeriod, Restart,
     Send, Arrive, CloseStale, CloseEarly, Rekey, Load

LEMMA AloneWhenRoom ==
  ASSUME InFlight = 1, NEW r \in Requests, Room(r)
  PROVE  \A s \in Requests : IsIdle(s)
<1>1. IsFiniteSet(Busy) /\ Cardinality(Busy) \in Nat
  <2>1. Busy \subseteq Requests
    BY DEF Busy
  <2> QED
    BY <2>1, BoardAssumption, FS_Subset, FS_CardinalityType
<1>2. Cardinality(Busy) = 0
  BY <1>1 DEF Room
<1>3. Busy = {}
  BY <1>1, <1>2, FS_EmptySet
<1> QED
  BY <1>3 DEF Busy

\* So it is if one slot is used, or in the runs where requests wait.
LEMMA OneSlotIsSolo ==
  ASSUME InFlight = 1, Ops \intersect ColumnOps = {}, TaskTypeOK, [Next]_vars
  PROVE  [SoloNext \/ Restart]_vars
<1>1. ASSUME NEW r \in Requests, Send(r)
      PROVE  Settled /\ req'[r].op \notin ColumnOps
  <2>1. Room(r) /\ DOMAIN req = Requests
    BY <1>1 DEF Send, Arrive, CloseStale, CloseEarly, Rekey, Load, TaskTypeOK
  <2>2. req'[r].op \in Ops \union {"close", "early", "rekey"}
    <3>1. CASE Arrive(r)
      BY <2>1, <3>1 DEF Arrive, Edit
    <3>2. ASSUME NEW op, NEW pc, NEW to, Load(r, op, pc, to)
          PROVE  req'[r].op = op
      BY <2>1, <3>2 DEF Load
    <3> QED
      BY <1>1, <3>1, <3>2 DEF Send, CloseStale, CloseEarly, Rekey
  <2> QED
    BY <2>1, <2>2, AloneWhenRoom DEF Settled, Busy, ColumnOps
<1> QED
  BY <1>1 DEF Next, SoloNext

LEMMA SerialIsSolo ==
  ASSUME case = "serial", [CaseNext]_caseVars
  PROVE  [SoloNext]_vars
BY DEF CaseNext, caseVars, SoloNext, Belongs

LEMMA SoloIsInvariant ==
  ASSUME InFlight = 1, Ops \intersect ColumnOps = {}
  PROVE  Spec => []SoloInv
<1>1. Init => TaskTypeOK /\ SoloInv
  BY TaskTypesInit, SoloInvInit
<1>2. TaskTypeOK /\ SoloInv /\ [Next]_vars => (TaskTypeOK /\ SoloInv)'
  BY TaskTypesStep, OneSlotIsSolo, SoloInvStep
<1> QED
  BY <1>1, <1>2, PTL DEF Spec

(***************************************************************************)
(* One request after the other, what counts as finished was verified in    *)
(* the cycle it counts in, although resets keep older verifications.       *)
(***************************************************************************)
THEOREM FinishedWasVerified ==
  ASSUME InFlight = 1, Ops \intersect ColumnOps = {}
  PROVE  Spec => []FinishedIsVerifiedNow
<1>1. SoloInv => FinishedIsVerifiedNow
  BY DEF SoloInv, MarksOK, FinishedIsVerifiedNow
<1> QED
  BY <1>1, SoloIsInvariant, PTL

(***************************************************************************)
(* One request after the other, no submission is where no head sees it.    *)
(***************************************************************************)
THEOREM SubmissionsAreListed ==
  ASSUME InFlight = 1, Ops \intersect ColumnOps = {}
  PROVE  Spec => []PendingIsListed
<1>1. SoloInv => PendingIsListed
  BY DEF SoloInv
<1> QED
  BY <1>1, SoloIsInvariant, PTL

(***************************************************************************)
(* One request after the other, and none fails: a card that says that the  *)
(* last cycle was not completed.  The records of periods after the cycle   *)
(* are not stored yet, and the record of the cycle says no more than the   *)
(* checklist, unless a request that has changed it is about to store it.   *)
(***************************************************************************)
Recording(r) == req[r].pc = "record" /\ req[r].to = None

\* What a request holds when it stores a record or updates the row.
HoldsRecord(r) ==
  LET q == req[r] IN
  /\ Recording(r) =>
       q.seen.key = row.key /\ ItemsAfter(q, row.cycle) = row.items
  /\ Closing(r) /\ q.to # None =>
       /\ plan.freq = "DAILY" => q.to <= now.period
       /\ q.pc = "roll" /\ records[row.key] = TRUE => FullyComplete(row.items, TRUE)
  /\ ~IsIdle(r) /\ q.op = "rekey" =>
       /\ plan.freq # "DAILY" /\ ~FullyComplete(row.items, TRUE)
       /\ q.to <= row.cycle

\* The last tick verifies the card and stamps it.
FullIsVerified ==
  FullyComplete(row.items, TRUE) =>
    CardVerified(row.card, row.lastFull) /\ row.lastFull # None

KeyInCycle ==
  /\ row.key <= row.cycle
  /\ plan.freq = "DAILY" => row.key = row.cycle /\ row.cycle <= now.period

RecordsInCycle ==
  /\ \A p \in Periods : p > row.cycle => records[p] # TRUE
  /\ row.key # row.cycle => records[row.cycle] # TRUE
  /\ plan.freq # "DAILY" /\ row.key = row.cycle /\ records[row.cycle] = TRUE =>
       FullyComplete(row.items, TRUE) \/ \E r \in Requests : Recording(r)

DelayInv ==
  /\ FullIsVerified /\ KeyInCycle /\ RecordsInCycle /\ DelayedWasIncomplete
  /\ \A r \in Requests : HoldsRecord(r)

LEMMA DelayTypes ==
  ASSUME TaskTypeOK
  PROVE  /\ row \in Row /\ row.cycle \in Nat /\ row.key \in Nat
         /\ row.cycle \in Periods /\ row.key \in Periods
         /\ row.incomplete \in BOOLEAN /\ now.period \in Nat
         /\ records \in [Periods -> BOOLEAN \union {None}]
         /\ req \in [Requests -> Request \union {Idle}]
BY BoardAssumption DEF TaskTypeOK, Row, Periods

\* The board is idle, or the calendar goes on.
LEMMA DelayCalendar ==
  ASSUME TaskTypeOK, DelayInv, UNCHANGED vars \/ Calendar
  PROVE  DelayInv'
<1>1. /\ UNCHANGED <<plan, row, records, req>>
      /\ now'.period \in Nat /\ now.period <= now'.period
  BY DelayTypes DEF vars, Calendar, NextPeriod, LaterInPeriod, TaskTypeOK
<1>2. \A r \in Requests : Closing(r) /\ req[r].to # None => req[r].to \in Nat
  BY BusyIsTyped, BoardAssumption DEF Closing, IsIdle, Request, Edits, Periods
<1>3. ASSUME NEW r \in Requests
      PROVE  HoldsRecord(r)'
  <2>1. HoldsRecord(r)
    BY DEF DelayInv
  <2>2. ItemsAfter(req[r], row.cycle)' = ItemsAfter(req[r], row.cycle)
    BY <1>1 DEF ItemsAfter, Chosen
  <2>3. Closing(r) /\ req[r].to # None /\ req[r].to <= now.period
          => req[r].to <= now'.period
    BY <1>1, <1>2, DelayTypes
  <2>4. (Recording(r) <=> Recording(r)') /\ (Closing(r) <=> Closing(r)')
    BY <1>1 DEF Recording, Closing
  <2> QED
    BY <1>1, <2>1, <2>2, <2>3, <2>4 DEF HoldsRecord, IsIdle, FullyComplete
<1>4. KeyInCycle'
  BY <1>1, DelayTypes DEF DelayInv, KeyInCycle
<1>5. FullIsVerified' /\ RecordsInCycle' /\ DelayedWasIncomplete'
  BY <1>1
  DEF DelayInv, FullIsVerified, RecordsInCycle, DelayedWasIncomplete, Recording,
      FullyComplete, CardVerified
<1> QED
  BY <1>3, <1>4, <1>5 DEF DelayInv

\* A request that is sent when none is in flight.
LEMMA DelaySend ==
  ASSUME TaskTypeOK, DelayInv, NEW r \in Requests, Send(r), Settled
  PROVE  DelayInv'
<1>1. UNCHANGED <<plan, now, row, records>>
  BY DEF Send, Arrive, CloseStale, CloseEarly, Rekey, Load
<1>2. \A s \in Requests : IsIdle(s)
  BY DEF Settled, Busy
<1>3. /\ \A s \in Requests : s # r => req'[s] = req[s]
      /\ \/ req'[r].pc = "write" /\ req'[r].op \in Edits
         \/ CloseStale(r) /\ req'[r].pc = "record" /\ req'[r].op = "close"
              /\ req'[r].to = now.period
         \/ CloseEarly(r) /\ req'[r].pc = "record" /\ req'[r].op = "early"
              /\ req'[r].to = row.cycle + 1
         \/ Rekey(r) /\ req'[r].pc = "roll" /\ req'[r].op = "rekey"
              /\ req'[r].to = now.period
  <2>1. CASE Arrive(r)
    BY <2>1, DelayTypes, BoardAssumption DEF Arrive, Edit
  <2>2. ASSUME NEW op, NEW pc, NEW to, Load(r, op, pc, to)
        PROVE  /\ \A s \in Requests : s # r => req'[s] = req[s]
               /\ req'[r].pc = pc /\ req'[r].op = op /\ req'[r].to = to
    BY <2>2, DelayTypes DEF Load
  <2>3. CASE CloseStale(r)
    BY <2>2, <2>3 DEF CloseStale
  <2>4. CASE CloseEarly(r)
    BY <2>2, <2>4 DEF CloseEarly
  <2>5. CASE Rekey(r)
    BY <2>2, <2>5 DEF Rekey
  <2> QED
    BY <2>1, <2>3, <2>4, <2>5 DEF Send
<1>4. req'[r].op = "rekey" =>
        /\ plan.freq # "DAILY" /\ ~FullyComplete(row.items, TRUE)
        /\ req'[r].to <= row.cycle
  <2> SUFFICES ASSUME req'[r].op = "rekey"
               PROVE  /\ plan.freq # "DAILY" /\ ~FullyComplete(row.items, TRUE)
                      /\ req'[r].to <= row.cycle
    OBVIOUS
  <2>1. Rekey(r) /\ req'[r].to = now.period
    BY <1>3 DEF Edits
  <2>2. now.period <= row.cycle /\ row.key # now.period /\ ~Early
    BY <2>1, DelayTypes DEF Rekey, Stale
  <2>3. plan.freq # "DAILY"
    BY <2>2, DelayTypes DEF DelayInv, KeyInCycle
  <2>4. ~FullyComplete(row.items, TRUE)
    BY <2>1, <2>2, <2>3 DEF Rekey, Early, DelayInv, FullIsVerified, Complete
  <2> QED
    BY <2>1, <2>2, <2>3, <2>4
<1>5. plan.freq = "DAILY" => ~CloseEarly(r)
  BY DEF CloseEarly, Early
<1>6. ASSUME NEW s \in Requests
      PROVE  HoldsRecord(s)'
  <2>1. CASE s # r
    BY <1>2, <1>3, <2>1 DEF HoldsRecord, Recording, Closing, IsIdle
  <2>2. CASE s = r
    <3>1. ~Recording(r)'
      <4>1. now.period # None /\ row.cycle + 1 # None
        BY DelayTypes, BoardAssumption
      <4> QED
        BY <1>3, <4>1 DEF Recording
    <3>2. Closing(r)' => req'[r].pc # "roll"
      BY <1>3 DEF Closing
    <3>3. Closing(r)' /\ plan.freq = "DAILY" => req'[r].to <= now.period
      BY <1>3, <1>5, DelayTypes DEF Closing
    <3> QED
      BY <1>1, <1>4, <2>2, <3>1, <3>2, <3>3 DEF HoldsRecord, FullyComplete
  <2> QED
    BY <2>1, <2>2
<1>7. FullIsVerified' /\ KeyInCycle' /\ DelayedWasIncomplete'
  BY <1>1
  DEF DelayInv, FullIsVerified, KeyInCycle, DelayedWasIncomplete, FullyComplete,
      CardVerified
<1>8. RecordsInCycle'
  BY <1>1, <1>2 DEF DelayInv, RecordsInCycle, Recording, IsIdle, FullyComplete
<1> QED
  BY <1>6, <1>7, <1>8 DEF DelayInv

\* An edit is written, and its record will follow if it can say less than
\* the last one.
LEMMA DelayEdit ==
  ASSUME TaskTypeOK, DelayInv, SoloOK, NEW r \in Requests, req[r].pc = "write",
         UNCHANGED <<plan, now, records, row.cycle, row.key>>,
         row'.incomplete => row.incomplete, FullIsVerified',
         \/ Turn(r, "record") /\ ItemsAfter(req[r], row.cycle) = row'.items
         \/ /\ Answer(r)
            /\ FullyComplete(row.items, TRUE) => FullyComplete(row'.items, TRUE)
  PROVE  DelayInv'
<1>1. /\ \A s \in Requests : s # r => IsIdle(s) /\ req'[s] = req[s]
      /\ req[r].seen = row /\ ~IsIdle(r)
  BY DelayTypes DEF SoloOK, IsIdle, Turn, Answer
<1>2. req[r].op \in Edits /\ req[r].to = None
  BY <1>1, BusyIsTyped, BoardAssumption DEF Request
<1>3. Turn(r, "record") =>
        /\ req'[r].pc = "record" /\ req'[r].to = None /\ req'[r].op = req[r].op
        /\ req'[r].item = req[r].item /\ req'[r].seen = row
  BY <1>1, <1>2, DelayTypes, BusyIsTyped DEF Turn, Request
<1>4. Answer(r) => req'[r] = Idle
  BY DelayTypes DEF Answer
<1>5. ASSUME NEW s \in Requests PROVE HoldsRecord(s)'
  <2>1. CASE s # r \/ Answer(r)
    <3>1. req'[s].pc = "idle"
      BY <1>1, <1>4, <2>1 DEF IsIdle, Idle
    <3> QED
      BY <3>1 DEF HoldsRecord, Recording, Closing, IsIdle
  <2>2. CASE s = r /\ ~Answer(r)
    <3>1. ItemsAfter(req[r], row.cycle)' = ItemsAfter(req[r], row.cycle)
      <4>1. /\ req'[r].item = req[r].item /\ req'[r].op = req[r].op
            /\ req'[r].seen.items = req[r].seen.items
        BY <1>1, <1>3, <2>2
      <4> QED
        BY <1>2, <4>1 DEF ItemsAfter, Chosen, Edits
    <3>2. req'[r].op \notin {"close", "early", "rekey"}
      BY <1>2, <1>3, <2>2 DEF Edits
    <3> QED
      BY <1>3, <2>2, <3>1, <3>2 DEF HoldsRecord, Closing
  <2> QED
    BY <2>1, <2>2
<1>6. KeyInCycle' /\ DelayedWasIncomplete'
  BY DEF DelayInv, KeyInCycle, DelayedWasIncomplete
<1>7. RecordsInCycle'
  <2>1. \A s \in Requests : ~Recording(s)
    BY <1>1 DEF Recording, IsIdle
  <2>2. CASE ~Turn(r, "record")
    <3>1. FullyComplete(row.items, TRUE) => FullyComplete(row.items, TRUE)'
      BY <2>2 DEF FullyComplete
    <3> QED
      BY <2>1, <3>1 DEF DelayInv, RecordsInCycle
  <2>3. CASE Turn(r, "record")
    BY <1>3, <2>3 DEF DelayInv, RecordsInCycle, Recording
  <2> QED
    BY <2>2, <2>3
<1> QED
  BY <1>5, <1>6, <1>7 DEF DelayInv

LEMMA DelayWrites ==
  ASSUME TaskTypeOK, DelayInv, SoloOK, NEW r \in Requests, req[r].pc = "write",
         Serve(r)
  PROVE  DelayInv'
<1> DEFINE items == ItemsAfter(req[r], row.cycle)
<1>1. /\ req[r].seen = row /\ Accepted(req[r]) /\ row \in Row /\ DelayInv
      /\ req[r].item \in Items \union {None} /\ ThisInstant # None
      /\ row.incomplete \in BOOLEAN
      /\ None \notin {"PENDING_VERIFICATION", "VERIFIED", "REJECTED"}
  BY DelayTypes, BusyIsTyped, InstantIsNew, BoardAssumption
  DEF SoloOK, IsIdle, Request
<1>2. CASE WriteProgress(r)
  <2>1. /\ row'.items = items /\ row'.card = CardAfter(items, plan.verifies)
        /\ row'.lastFull = LastFullAfter(items, plan.verifies)
        /\ UNCHANGED <<plan, now, records, row.cycle, row.key>>
        /\ row'.incomplete => row.incomplete
        /\ Turn(r, "record")
    BY <1>1, <1>2 DEF WriteProgress, Row
  <2> HIDE DEF items
  <2>2. FullIsVerified'
    BY <1>1, <2>1
    DEF FullIsVerified, FullyComplete, CardAfter, LastFullAfter, CardVerified
  <2> QED
    BY <2>1, <2>2, DelayEdit DEF items
<1>3. CASE WriteItemVerdict(r)
  <2>1. /\ row'.items = items /\ row'.card = CardAfter(items, TRUE)
        /\ row'.lastFull = LastFullAfter(items, TRUE)
        /\ UNCHANGED <<plan, now, records, row.cycle, row.key>>
        /\ row'.incomplete => row.incomplete
        /\ IF req[r].op = "approve" THEN Turn(r, "record") ELSE Answer(r)
    BY <1>1, <1>3 DEF WriteItemVerdict, Row
  <2>2. req[r].op # "approve" => ~FullyComplete(row.items, TRUE)
    BY <1>1, <1>3 DEF WriteItemVerdict, AtWrite, Accepted, FullyComplete
  <2> HIDE DEF items
  <2>3. FullIsVerified'
    BY <1>1, <2>1
    DEF FullIsVerified, FullyComplete, CardAfter, LastFullAfter, CardVerified
  <2> QED
    BY <2>1, <2>2, <2>3, DelayEdit DEF items
<1>4. CASE WriteItemRejection(r)
  <2>1. /\ row'.items = items /\ UNCHANGED <<plan, now, records, row.cycle, row.key>>
        /\ row'.incomplete => row.incomplete
        /\ Answer(r)
    BY <1>1, <1>4 DEF WriteItemRejection, Row
  <2>2. ~FullyComplete(row.items, TRUE)
    BY <1>1, <1>4
    DEF WriteItemRejection, AtWrite, Accepted, FullyComplete, PendingOf, Pending
  <2>3. ~FullyComplete(items, TRUE)
    <3>1. req[r].item \in Items /\ req[r].op = "reject"
      BY <1>1, <1>4 DEF WriteItemRejection, AtWrite
    <3>2. items[req[r].item].mark = "REJECTED"
      <4>1. Chosen(req[r]) = {req[r].item}
        BY <3>1, BoardAssumption DEF Chosen
      <4>2. items[req[r].item] =
              [row.items[req[r].item] EXCEPT !.mark = "REJECTED", !.verifiedAt = None]
        BY <1>1, <3>1, <4>1 DEF ItemsAfter
      <4>3. row.items[req[r].item] \in Item
        BY <1>1, <3>1 DEF Row
      <4> HIDE DEF items
      <4> QED
        BY <4>2, <4>3 DEF Item
    <3> HIDE DEF items
    <3> QED
      BY <3>1, <3>2 DEF FullyComplete
  <2> HIDE DEF items
  <2>4. FullIsVerified'
    BY <2>1, <2>3 DEF FullIsVerified, FullyComplete
  <2> QED
    BY <2>1, <2>2, <2>4, DelayEdit
<1>5. CASE WriteCardVerdict(r)
  <2>1. /\ row'.items = row.items /\ UNCHANGED <<plan, now, records, row.cycle, row.key>>
        /\ row'.incomplete = row.incomplete /\ req[r].item = None
        /\ req[r].op \in {"approve", "reject", "resubmit"}
        /\ req[r].op = "approve" =>
             Turn(r, "record") /\ row'.card = "VERIFIED" /\ row'.lastFull # None
        /\ req[r].op # "approve" => Answer(r)
    BY <1>1, <1>5 DEF WriteCardVerdict, AtWrite, Row
  <2>2. req[r].op # "approve" => ~FullyComplete(row.items, TRUE)
    BY <1>1, <2>1 DEF Accepted, DelayInv, FullIsVerified, CardVerified
  <2>3. FullIsVerified'
    BY <1>1, <2>1, <2>2 DEF FullIsVerified, FullyComplete, CardVerified
  <2>4. items = row.items
    BY <1>1, <2>1 DEF ItemsAfter, Chosen, Row
  <2> HIDE DEF items
  <2> QED
    BY <2>1, <2>2, <2>3, <2>4, DelayEdit DEF items
<1>6. ~WriteColumn(r)
  BY DEF SoloOK, WriteColumn, AtWrite, ColumnOps, IsIdle
<1> QED
  BY <1>2, <1>3, <1>4, <1>5, <1>6 DEF Serve, Record, Roll

\* The record of the row's key is replaced by what the checklist says.
LEMMA DelayRecord ==
  ASSUME TaskTypeOK, DelayInv, SoloOK, NEW r \in Requests, Record(r)
  PROVE  DelayInv'
<1>1. /\ \A s \in Requests : s # r => IsIdle(s) /\ req'[s] = req[s]
      /\ ~IsIdle(r) /\ req[r].pc = "record" /\ UNCHANGED <<plan, now, row>>
  BY DelayTypes DEF SoloOK, IsIdle, Record, Turn, Answer
<1>2. /\ req[r].seen.key = row.key
      /\ ItemsAfter(req[r], row.cycle) = row.items
  <2>1. CASE Recording(r)
    BY <2>1 DEF DelayInv, HoldsRecord
  <2>2. CASE ~Recording(r)
    <3>1. req[r].seen = row /\ req[r].to # None
      BY <1>1, <2>2 DEF Recording, SoloOK
    <3>2. req[r].item = None /\ req[r].op \in {"close", "early", "rekey"}
      BY <1>1, <3>1, BusyIsTyped DEF Request
    <3> QED
      BY <3>1, <3>2, DelayTypes DEF ItemsAfter, Chosen, Row
  <2> QED
    BY <2>1, <2>2
<1>3. \A p \in Periods : p # row.key => records'[p] = records[p]
  BY <1>1, <1>2, DelayTypes DEF Record
<1>4. plan.freq # "DAILY" \/ req[r].to # None =>
        (records'[row.key] = TRUE => FullyComplete(row.items, TRUE))
  BY <1>1, <1>2, DelayTypes DEF Record
<1>5. FullIsVerified' /\ KeyInCycle' /\ DelayedWasIncomplete'
  <2>1. row.incomplete /\ row.key > 0 => records'[row.key - 1] # TRUE
    <3>1. row.key > 0 => row.key - 1 \in Periods /\ row.key - 1 # row.key
      BY DelayTypes, BoardAssumption DEF Periods
    <3> QED
      BY <1>3, <3>1, DelayTypes DEF DelayInv, DelayedWasIncomplete
  <2> QED
    BY <1>1, <2>1
    DEF DelayInv, FullIsVerified, KeyInCycle, DelayedWasIncomplete, FullyComplete,
        CardVerified
<1>6. RecordsInCycle'
  <2>1. \A p \in Periods : p > row.cycle => p # row.key
    BY DelayTypes DEF DelayInv, KeyInCycle, Periods
  <2>2. \A p \in Periods : p > row.cycle => records'[p] # TRUE
    BY <1>3, <2>1 DEF DelayInv, RecordsInCycle
  <2>3. row.key # row.cycle => records'[row.cycle] # TRUE
    BY <1>3, DelayTypes DEF DelayInv, RecordsInCycle
  <2>4. plan.freq # "DAILY" /\ row.key = row.cycle /\ records'[row.cycle] = TRUE
          => FullyComplete(row.items, TRUE)
    BY <1>4
  <2> QED
    BY <1>1, <2>2, <2>3, <2>4 DEF RecordsInCycle, FullyComplete
<1>7. ASSUME NEW s \in Requests PROVE HoldsRecord(s)'
  <2>1. CASE s # r \/ Answer(r)
    <3>1. req'[s].pc = "idle"
      BY <1>1, <2>1, DelayTypes DEF IsIdle, Idle, Answer
    <3> QED
      BY <3>1 DEF HoldsRecord, Recording, Closing, IsIdle
  <2>2. CASE s = r /\ ~Answer(r)
    <3>1. /\ req[r].to # None /\ req'[r].pc = "roll" /\ req'[r].op = req[r].op
          /\ req'[r].to = req[r].to
      BY <1>1, <2>2, DelayTypes, BusyIsTyped DEF Record, Turn, Request
    <3>2. Closing(r)' => Closing(r)
      BY <1>1, <3>1 DEF Closing
    <3> QED
      BY <1>1, <1>4, <2>2, <3>1, <3>2
      DEF DelayInv, HoldsRecord, Recording, IsIdle, FullyComplete
  <2> QED
    BY <2>1, <2>2
<1> QED
  BY <1>5, <1>6, <1>7 DEF DelayInv

\* The row moves to the calendar's key, or to a cycle that has no record yet.
LEMMA DelayRoll ==
  ASSUME TaskTypeOK, DelayInv, SoloOK, ClosesOK, NEW r \in Requests, Roll(r)
  PROVE  DelayInv'
<1>1. /\ \A s \in Requests : IsIdle(s)' /\ (s # r => IsIdle(s))
      /\ ~IsIdle(r) /\ req[r].pc = "roll" /\ req[r].seen = row
      /\ UNCHANGED <<plan, now, records>>
  BY DelayTypes DEF SoloOK, IsIdle, Idle, Roll, Answer
<1>2. \A s \in Requests : HoldsRecord(s)'
  BY <1>1 DEF HoldsRecord, Recording, Closing, IsIdle
<1>3. \A s \in Requests : ~Recording(s)
  BY <1>1 DEF Recording, IsIdle
<1>4. req[r].op \in {"close", "early", "rekey"} /\ req[r].to \in Periods
      /\ req[r].to \in Nat /\ req[r].to # None
  BY <1>1, BusyIsTyped, BoardAssumption DEF Request, Periods
<1>5. CASE row' = row
  BY <1>1, <1>2, <1>3, <1>5
  DEF DelayInv, FullIsVerified, KeyInCycle, RecordsInCycle, DelayedWasIncomplete,
      FullyComplete, CardVerified
<1>6. CASE row' = Rolled(req[r]) /\ req[r].op = "rekey"
  <2>1. /\ row'.items = row.items /\ row'.card = row.card
        /\ row'.lastFull = row.lastFull /\ row'.cycle = row.cycle
        /\ row'.key = req[r].to /\ row'.incomplete = FALSE
    BY <1>6, DelayTypes DEF Rolled, Row
  <2>2. /\ plan.freq # "DAILY" /\ ~FullyComplete(row.items, TRUE)
        /\ req[r].to <= row.cycle
    BY <1>1, <1>6 DEF DelayInv, HoldsRecord
  <2>3. records[row.cycle] # TRUE
    BY <1>3, <2>2 DEF DelayInv, RecordsInCycle
  <2>4. RecordsInCycle'
    BY <1>1, <2>1, <2>3 DEF DelayInv, RecordsInCycle
  <2>5. FullIsVerified' /\ KeyInCycle' /\ DelayedWasIncomplete'
    BY <1>1, <2>1, <2>2
    DEF DelayInv, FullIsVerified, KeyInCycle, DelayedWasIncomplete, FullyComplete,
        CardVerified
  <2> QED
    BY <1>2, <2>4, <2>5 DEF DelayInv
<1>7. CASE row' = Rolled(req[r]) /\ req[r].op # "rekey"
  <2>1. /\ row'.items = Reset(row.items) /\ row'.cycle = req[r].to
        /\ row'.key = req[r].to
        /\ row'.incomplete => ~Complete(row)
    BY <1>1, <1>7 DEF Rolled
  <2>2. Closing(r) /\ req[r].to > row.cycle
    BY <1>1, <1>4, <1>7 DEF Closing, ClosesOK, CloseOK
  <2>3. /\ plan.freq = "DAILY" => req[r].to <= now.period
        /\ records[row.key] = TRUE => FullyComplete(row.items, TRUE)
    BY <1>1, <1>4, <2>2 DEF DelayInv, HoldsRecord
  <2>4. FullIsVerified'
    <3>1. PICK i \in Items : TRUE
      BY BoardAssumption
    <3>2. ~Reset(row.items)[i].done
      BY <3>1, DelayTypes DEF Reset, Row, Item
    <3> QED
      BY <2>1, <3>1, <3>2 DEF FullIsVerified, FullyComplete
  <2>5. KeyInCycle'
    BY <1>1, <1>4, <2>1, <2>3 DEF KeyInCycle
  <2>6. \A p \in Periods : p >= req[r].to => records[p] # TRUE
    <3>1. \A p \in Periods : p >= req[r].to => p > row.cycle
      BY <1>4, <2>2, DelayTypes, BoardAssumption DEF Periods
    <3> QED
      BY <3>1 DEF DelayInv, RecordsInCycle
  <2>7. RecordsInCycle'
    <3>1. \A p \in Periods : p > req[r].to => p >= req[r].to
      BY <1>4, BoardAssumption DEF Periods
    <3>2. req[r].to >= req[r].to
      BY <1>4
    <3> QED
      BY <1>1, <1>4, <2>1, <2>6, <3>1, <3>2 DEF RecordsInCycle
  <2>8. DelayedWasIncomplete'
    <3> SUFFICES ASSUME row'.incomplete PROVE records[req[r].to - 1] # TRUE
      BY <1>1, <2>1 DEF DelayedWasIncomplete
    <3>1. ~FullyComplete(row.items, TRUE)
      BY <2>1 DEF DelayInv, FullIsVerified, Complete
    <3>2. req[r].to - 1 \in Periods /\ req[r].to - 1 >= row.cycle
      BY <1>4, <2>2, DelayTypes, BoardAssumption DEF Periods
    <3>3. CASE req[r].to - 1 > row.cycle
      BY <3>2, <3>3 DEF DelayInv, RecordsInCycle
    <3>4. CASE req[r].to - 1 = row.cycle
      BY <2>3, <3>1, <3>4 DEF DelayInv, RecordsInCycle
    <3>5. req[r].to - 1 > row.cycle \/ req[r].to - 1 = row.cycle
      BY <1>4, <3>2, DelayTypes
    <3> QED
      BY <3>3, <3>4, <3>5
  <2> QED
    BY <1>2, <2>4, <2>5, <2>7, <2>8 DEF DelayInv
<1> QED
  BY <1>5, <1>6, <1>7 DEF Roll

LEMMA DelayInit == Init => DelayInv
<1> SUFFICES ASSUME Init PROVE DelayInv
  OBVIOUS
<1>1. \A r \in Requests : HoldsRecord(r)
  BY DEF Init, HoldsRecord, Recording, Closing, IsIdle, Idle
<1>2. ~FullyComplete(row.items, TRUE)
  BY BoardAssumption DEF Init, FullyComplete, Cleared
<1>3. \A p \in Periods : records[p] # TRUE
  BY BoardAssumption DEF Init
<1>4. /\ 0 \in Periods /\ row.key = 0 /\ row.cycle = 0 /\ now.period = 0
      /\ row.incomplete = FALSE
  BY BoardAssumption DEF Init, Periods
<1>5. FullIsVerified /\ KeyInCycle
  <2>1. row.key <= row.cycle /\ row.cycle <= now.period /\ row.key = row.cycle
    BY <1>4
  <2> QED
    BY <1>2, <2>1 DEF FullIsVerified, KeyInCycle
<1>6. RecordsInCycle /\ DelayedWasIncomplete
  BY <1>3, <1>4 DEF RecordsInCycle, DelayedWasIncomplete
<1> QED
  BY <1>1, <1>5, <1>6 DEF DelayInv

LEMMA DelayStep ==
  ASSUME TaskTypeOK, SoloOK, ClosesOK, DelayInv, [SoloNext]_vars
  PROVE  DelayInv'
<1>1. ASSUME NEW r \in Requests, Serve(r) PROVE DelayInv'
  <2>1. req[r].pc = "write" \/ Record(r) \/ Roll(r)
    BY <1>1 DEF Serve, WriteProgress, WriteItemVerdict, WriteItemRejection,
                WriteCardVerdict, WriteColumn, AtWrite
  <2> QED
    BY <1>1, <2>1, DelayWrites, DelayRecord, DelayRoll
<1> QED
  BY <1>1, DelayCalendar, DelaySend DEF SoloNext

(***************************************************************************)
(* The runs' case of one request after the other.                          *)
(***************************************************************************)
SerialInv ==
  /\ TaskTypeOK /\ ClosesOK
  /\ case = "serial" => SoloInv /\ DelayInv

LEMMA SerialRuns == CaseSpec => []SerialInv
<1>1. CaseInit => SerialInv
  BY TaskTypesInit, ClosesInit, SoloInvInit, DelayInit DEF CaseInit, SerialInv
<1>2. SerialInv /\ [CaseNext]_caseVars => SerialInv'
  <2> SUFFICES ASSUME SerialInv, [CaseNext]_caseVars PROVE SerialInv'
    OBVIOUS
  <2>1. [Next]_vars /\ UNCHANGED case
    BY DEF CaseNext, caseVars, Next
  <2>2. TaskTypeOK' /\ ClosesOK'
    BY <2>1, TaskTypesStep, ClosesStep DEF SerialInv
  <2>3. case = "serial" => SoloInv' /\ DelayInv'
    BY SerialIsSolo, SoloInvStep, DelayStep DEF SerialInv, SoloInv
  <2> QED
    BY <2>1, <2>2, <2>3 DEF SerialInv
<1> QED
  BY <1>1, <1>2, PTL DEF CaseSpec

(***************************************************************************)
(* What counts as finished was verified in its cycle, in the run.          *)
(***************************************************************************)
THEOREM SerialFinishedWasVerified == CaseSpec => []SerialFinishedIsVerifiedNow
<1>1. SerialInv => SerialFinishedIsVerifiedNow
  BY DEF SerialInv, SoloInv, MarksOK, FinishedIsVerifiedNow,
         SerialFinishedIsVerifiedNow
<1> QED
  BY <1>1, SerialRuns, PTL

(***************************************************************************)
(* No submission is where no head sees it, in the run.                     *)
(***************************************************************************)
THEOREM SerialSubmissionsAreListed == CaseSpec => []SerialPendingIsListed
<1>1. SerialInv => SerialPendingIsListed
  BY DEF SerialInv, SoloInv, SerialPendingIsListed
<1> QED
  BY <1>1, SerialRuns, PTL

(***************************************************************************)
(* A card that is shown as delayed and the record of the period before     *)
(* agree, although cycles close ahead of the calendar, keys go back to it  *)
(* and some days leave no record.                                          *)
(***************************************************************************)
THEOREM SerialDelayedWereIncomplete == CaseSpec => []SerialDelayedWasIncomplete
<1>1. SerialInv => SerialDelayedWasIncomplete
  BY DEF SerialInv, DelayInv, SerialDelayedWasIncomplete
<1> QED
  BY <1>1, SerialRuns, PTL

=============================================================================
