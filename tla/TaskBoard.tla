----------------------------- MODULE TaskBoard -----------------------------
(***************************************************************************)
(* A recurring task of the Task Board: its checklist, the verification of  *)
(* what is ticked, and its cycles.  Reading the board (GET) is what closes *)
(* a cycle: it stores the record of the period, then resets the checklist  *)
(* with an update conditional on what it had read.  Every other request    *)
(* (PATCH, and PUT of a sub-task) writes the whole checklist back from the *)
(* copy it read, unconditionally, and then stores the record.              *)
(***************************************************************************)
EXTENDS Naturals, FiniteSets

CONSTANTS
  Items,        \* the checklist: sub-tasks that are done when ticked
  None,         \* null
  Times,        \* instants, compared for equality only
  Requests,     \* slots for requests in flight
  InFlight,     \* bound of a run: how many slots are used at once
  Ops,          \* the edits that are sent
  Frequencies,  \* those of DAILY, WEEKLY and MONTHLY that tasks have
  MaxPeriod,    \* bound: the last period the calendar reaches
  MaxCycle,     \* bound: the last cycle a task reaches, ahead of the calendar
  Faults        \* what may go wrong

Edits == {"mark", "unmark", "approve", "reject", "resubmit", "toDone", "toDo"}

ASSUME BoardAssumption ==
  /\ Items # {} /\ IsFiniteSet(Items) /\ None \notin Items /\ None \notin Times
  /\ IsFiniteSet(Requests) /\ InFlight \in Nat \ {0}
  /\ MaxPeriod \in Nat /\ MaxCycle \in Nat /\ MaxPeriod <= MaxCycle
  /\ Ops \subseteq Edits /\ None \notin Nat /\ None \notin BOOLEAN
  /\ None \notin {"PENDING_VERIFICATION", "VERIFIED", "REJECTED"}

\* There are more instants than requests remember.
ASSUME TimesAssumption ==
  \A held \in [Requests -> Times \union {None}] :
    \E t \in Times : \A r \in Requests : held[r] # t

VARIABLES
  plan,     \* the task's frequency; whether the platform verifies completion
  now,      \* the calendar: the period, and whether its first days are over
  row,      \* the row of kpi_maintenance
  records,  \* kpi_maintenance_period_snapshots: is the period fullyComplete?
  req       \* the requests in flight

vars == <<plan, now, row, records, req>>

Periods == 0..MaxCycle

Marks == {None, "PENDING_VERIFICATION", "VERIFIED", "REJECTED"}

\* verifiedAt, to the cycle; a reset clears neither it nor the status.
Item == [done : BOOLEAN, mark : Marks, verifiedAt : Periods \union {None}]

Row == [items : [Items -> Item], card : Marks, lastFull : Times \union {None},
        cycle : Periods, key : Periods, incomplete : BOOLEAN]

-----------------------------------------------------------------------------
(* What a checklist and a card say *)

\* isCompletionEffectivelyVerified
CardVerified(card, lastFull) ==
  card = "VERIFIED" \/ (card = None /\ lastFull # None)

\* pendingSubKpiItemsForVerification, isSubKpiPendingVerification
Pending(items, verified) ==
  {i \in Items : /\ items[i].done
                 /\ \/ items[i].mark = "PENDING_VERIFICATION"
                    \/ items[i].mark = None /\ ~verified}

PendingOf(r) == Pending(r.items, CardVerified(r.card, r.lastFull))

\* Mutant: what is submitted counts as finished.
FullySubmitted(items, verifies) == \A i \in Items : items[i].done

\* checklistFullyComplete.  With verification off a tick is enough, but a
\* caller that does not say whether it is on asks for the status.
FullyComplete(items, verifies) ==
  \A i \in Items : items[i].done /\ (verifies => items[i].mark = "VERIFIED")

Complete(r) ==
  FullyComplete(r.items, TRUE) /\ CardVerified(r.card, r.lastFull)

\* applySubKpiSubmitForVerification
Submitted(verifies, cycle) ==
  IF verifies
  THEN [done |-> TRUE, mark |-> "PENDING_VERIFICATION", verifiedAt |-> None]
  ELSE [done |-> TRUE, mark |-> "VERIFIED", verifiedAt |-> cycle]

\* applySubKpiClearVerification
Cleared == [done |-> FALSE, mark |-> None, verifiedAt |-> None]

\* Mutant: only what waits for the head is unticked.
ResetPending(items) ==
  [i \in Items |-> [items[i] EXCEPT !.done = @ /\ items[i].mark = "VERIFIED"]]

\* resetAllSubKpiDone, clearActiveSubKpiForReset
Reset(items) == [i \in Items |-> [items[i] EXCEPT !.done = FALSE]]

\* verificationDbPatchForSubKpiProgress
CardAfter(items, verifies) ==
  IF FullyComplete(items, verifies) THEN "VERIFIED"
  ELSE IF verifies /\ Pending(items, FALSE) # {}
       THEN "PENDING_VERIFICATION" ELSE None

-----------------------------------------------------------------------------
(* Requests *)

Idle == [pc |-> "idle", op |-> None, item |-> None, to |-> None, seen |-> None]

IsIdle(r) == req[r].pc = "idle"

Busy == {r \in Requests : ~IsIdle(r)}

Room(r) == IsIdle(r) /\ Cardinality(Busy) < InFlight

Turn(r, pc) == req' = [req EXCEPT ![r].pc = pc]

Answer(r) == req' = [req EXCEPT ![r] = Idle]

\* An instant that is not the lastFullCompletionAt of any copy.
ThisInstant ==
  CHOOSE t \in Times :
    \A r \in Requests : ~IsIdle(r) => req[r].seen.lastFull # t

LastFullAfter(items, verifies) ==
  IF FullyComplete(items, verifies) THEN ThisInstant ELSE None

Edit(op, item) == [pc |-> "write", op |-> op, item |-> item, to |-> None,
                   seen |-> row]

\* The checks of PATCH on the row it has read.
Accepted(q) ==
  LET pending == PendingOf(q.seen) IN
  CASE q.op \in {"mark", "unmark"} -> TRUE
    [] q.op \in {"toDone", "toDo"} -> q.item # None
    [] q.op \in {"approve", "reject"} ->
         IF q.item # None THEN q.item \in pending
         ELSE q.seen.card = "PENDING_VERIFICATION" /\ pending = {}
    [] q.op = "resubmit" ->
         IF q.item # None
         THEN q.seen.items[q.item].mark = "REJECTED" /\ q.seen.items[q.item].done
         ELSE q.seen.card = "REJECTED" /\ \A i \in Items : q.seen.items[i].done

\* The row is read and the request accepted.
Arrive(r) ==
  \E op \in Ops, item \in Items \union {None} :
    /\ Room(r) /\ Accepted(Edit(op, item))
    /\ req' = [req EXCEPT ![r] = Edit(op, item)]
    /\ UNCHANGED <<plan, now, row, records>>

\* A tick names an item or is for all of them; a verdict names one or is on
\* the card as a whole.
Chosen(q) ==
  CASE q.item # None             -> {q.item}
    [] q.op \in {"mark", "unmark"} -> Items
    [] OTHER                     -> {}

\* The checklist that the request writes back, in the given cycle.
ItemsAfter(q, cycle) ==
  [i \in Items |->
    LET it == q.seen.items[i] IN
    IF i \notin Chosen(q) THEN it
    ELSE CASE q.op = "mark"     -> Submitted(plan.verifies, cycle)
           [] q.op = "unmark"   -> Cleared
           [] q.op = "resubmit" -> Submitted(TRUE, cycle)
           [] q.op = "approve"  -> [it EXCEPT !.mark = "VERIFIED",
                                              !.verifiedAt = cycle]
           [] q.op = "reject"   -> [it EXCEPT !.mark = "REJECTED",
                                              !.verifiedAt = None]
           [] q.op = "toDone"   -> [it EXCEPT !.done = TRUE]
           [] q.op = "toDo"     -> [it EXCEPT !.done = FALSE]]

AtWrite(r, ops) == req[r].pc = "write" /\ req[r].op \in ops

\* setSubKpiItemDone and markEverySubKpiDone, with the card's patch.
WriteProgress(r) ==
  LET items == ItemsAfter(req[r], row.cycle) IN
  /\ AtWrite(r, {"mark", "unmark"})
  /\ row' = [row EXCEPT
       !.items = items,
       !.card = CardAfter(items, plan.verifies),
       !.lastFull = LastFullAfter(items, plan.verifies),
       !.incomplete = /\ @ /\ ~FullyComplete(items, plan.verifies)
                      /\ ~(req[r].op = "unmark" /\ req[r].item = None)]
  /\ Turn(r, "record")
  /\ UNCHANGED <<plan, now, records>>

\* The head approves or the assignee resubmits a sub-task: both count as if
\* verification were on.
WriteItemVerdict(r) ==
  LET items == ItemsAfter(req[r], row.cycle) IN
  /\ AtWrite(r, {"approve", "resubmit"}) /\ req[r].item # None
  /\ row' = [row EXCEPT !.items = items, !.card = CardAfter(items, TRUE),
                        !.lastFull = LastFullAfter(items, TRUE)]
  /\ IF req[r].op = "approve" THEN Turn(r, "record") ELSE Answer(r)
  /\ UNCHANGED <<plan, now, records>>

\* The card is rejected with its last pending sub-task.
WriteItemRejection(r) ==
  LET items == ItemsAfter(req[r], row.cycle) IN
  /\ AtWrite(r, {"reject"}) /\ req[r].item # None
  /\ row' = [row EXCEPT !.items = items, !.lastFull = None,
                        !.card = IF Pending(items, FALSE) # {}
                                 THEN "PENDING_VERIFICATION" ELSE "REJECTED"]
  /\ Answer(r)
  /\ UNCHANGED <<plan, now, records>>

\* A verdict on the card writes nothing into its checklist.
WriteCardVerdict(r) ==
  /\ AtWrite(r, {"approve", "reject", "resubmit"}) /\ req[r].item = None
  /\ CASE req[r].op = "approve" ->
            /\ row' = [row EXCEPT !.card = "VERIFIED", !.lastFull = ThisInstant]
            /\ Turn(r, "record")
       [] req[r].op = "reject" ->
            /\ row' = [row EXCEPT !.card = "REJECTED", !.lastFull = None]
            /\ Answer(r)
       [] req[r].op = "resubmit" ->
            /\ row' = [row EXCEPT !.card = "PENDING_VERIFICATION",
                                  !.lastFull = None]
            /\ Answer(r)
  /\ UNCHANGED <<plan, now, records>>

\* PUT .../subtasks/[subtaskId] moves a sub-task to a column of the segment
\* board.  It knows nothing of the card's verification.
WriteColumn(r) ==
  LET items == ItemsAfter(req[r], row.cycle)
      was   == FullyComplete(req[r].seen.items, TRUE)
      is    == FullyComplete(items, TRUE)
  IN
  /\ AtWrite(r, {"toDone", "toDo"})
  /\ row' = [row EXCEPT !.items = items,
                        !.incomplete = @ /\ ~is,
                        !.lastFull = IF ~was /\ is THEN ThisInstant
                                     ELSE IF was /\ ~is THEN None ELSE @]
  /\ Turn(r, "record")
  /\ UNCHANGED <<plan, now, records>>

-----------------------------------------------------------------------------
(* Reading the board *)

Load(r, op, pc, to) ==
  /\ Room(r)
  /\ req' = [req EXCEPT ![r] = [pc |-> pc, op |-> op, item |-> None, to |-> to,
                                seen |-> row]]
  /\ UNCHANGED <<plan, now, row, records>>

Stale == now.period > row.cycle

\* recurringIncompleteRolloverHoldDays: ten days, but for DAILY and WEEKLY.
HoldPassed ==
  now.period > row.cycle + (IF plan.freq = "MONTHLY" /\ ~now.late THEN 1 ELSE 0)

\* nextRolloverEligibleAtUtc: a completed day stays until midnight, when it
\* is stale.
Early == /\ ~Stale /\ Complete(row) /\ row.lastFull # None
         /\ plan.freq # "DAILY"

\* Mutant: a period that has a record has been closed.
CloseUnrecorded(r) ==
  /\ Stale /\ (Complete(row) \/ HoldPassed) /\ records[row.key] = None
  /\ Load(r, "close", "record", now.period)

\* A cycle whose period is over; an incomplete one once it was held.
CloseStale(r) ==
  /\ Stale /\ (Complete(row) \/ HoldPassed)
  /\ Load(r, "close", "record", now.period)

\* A completed cycle, before its period is over.
CloseEarly(r) ==
  /\ Early /\ row.cycle < MaxCycle
  /\ Load(r, "early", "record", row.cycle + 1)

\* The key is not the calendar's.
Rekey(r) ==
  /\ ~Stale /\ ~Early /\ row.key # now.period
  /\ Load(r, "rekey", "roll", now.period)

\* upsertKpiPeriodSnapshot, of what the request has read or written and under
\* the key it has read.  A day's progress is not recorded on a Sunday.
Record(r) ==
  LET q == req[r] IN
  /\ q.pc = "record"
  /\ records' =
       IF plan.freq = "DAILY" /\ now.late /\ q.to = None THEN records
       ELSE [records EXCEPT ![q.seen.key] =
               FullyComplete(ItemsAfter(q, row.cycle), TRUE)]
  /\ IF q.to = None THEN Answer(r) ELSE Turn(r, "roll")
  /\ UNCHANGED <<plan, now, row>>

\* Mutant: the row is updated by its id.
UnmovedOrNot(r) == TRUE

\* Mutant: its completion is not compared.
UnmovedCycle(r) ==
  row.key = req[r].seen.key /\ row.cycle = req[r].seen.cycle

\* The WHERE clause of the update.
Unmoved(r) ==
  /\ row.key = req[r].seen.key /\ row.cycle = req[r].seen.cycle
  /\ row.lastFull = req[r].seen.lastFull

\* Mutant: every cycle that is over was incomplete.
RolledLate(q) ==
  IF q.op = "rekey" THEN [row EXCEPT !.key = q.to, !.incomplete = FALSE]
  ELSE [items |-> Reset(q.seen.items), card |-> None, lastFull |-> None,
        cycle |-> q.to, key |-> q.to, incomplete |-> q.op = "close"]

Rolled(q) ==
  IF q.op = "rekey" THEN [row EXCEPT !.key = q.to, !.incomplete = FALSE]
  ELSE [items |-> Reset(q.seen.items), card |-> None, lastFull |-> None,
        cycle |-> q.to, key |-> q.to,
        incomplete |-> q.op = "close" /\ ~Complete(q.seen)]

\* The conditional update: "skip if another concurrent GET already rolled
\* this row".
Roll(r) ==
  /\ req[r].pc = "roll"
  /\ row' = IF Unmoved(r) THEN Rolled(req[r]) ELSE row
  /\ Answer(r)
  /\ UNCHANGED <<plan, now, records>>

-----------------------------------------------------------------------------
(* The calendar and the process *)

NextPeriod ==
  /\ now.period < MaxPeriod
  /\ now' = [period |-> now.period + 1, late |-> FALSE]
  /\ UNCHANGED <<plan, row, records, req>>

\* The eleventh day of a longer period; the Sunday that belongs to Saturday.
LaterInPeriod ==
  /\ ~now.late /\ plan.freq # "WEEKLY"
  /\ now' = [now EXCEPT !.late = TRUE]
  /\ UNCHANGED <<plan, row, records, req>>

\* The process restarts between two queries.
Restart ==
  /\ "crash" \in Faults /\ Busy # {}
  /\ req' = [r \in Requests |-> Idle]
  /\ UNCHANGED <<plan, now, row, records>>

-----------------------------------------------------------------------------

\* POST /api/kpi-maintenance
Init ==
  /\ plan \in [freq : Frequencies, verifies : BOOLEAN]
  /\ now = [period |-> 0, late |-> FALSE]
  /\ row = [items |-> [i \in Items |-> Cleared], card |-> None,
            lastFull |-> None, cycle |-> 0, key |-> 0, incomplete |-> FALSE]
  /\ records = [p \in Periods |-> None]
  /\ req = [r \in Requests |-> Idle]

Send(r) == Arrive(r) \/ CloseStale(r) \/ CloseEarly(r) \/ Rekey(r)

Serve(r) ==
  \/ WriteProgress(r) \/ WriteItemVerdict(r) \/ WriteItemRejection(r)
  \/ WriteCardVerdict(r) \/ WriteColumn(r) \/ Record(r) \/ Roll(r)

Calendar == NextPeriod \/ LaterInPeriod

Next == Calendar \/ Restart \/ \E r \in Requests : Send(r) \/ Serve(r)

Spec == Init /\ [][Next]_vars

=============================================================================
