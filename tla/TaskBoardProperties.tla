------------------------ MODULE TaskBoardProperties ------------------------
(***************************************************************************)
(* What is asked of TaskBoard.  "One at a time": requests do not overlap   *)
(* and none fails.  "Always": they do, and they may.                       *)
(***************************************************************************)
EXTENDS TaskBoard

ColumnOps == {"toDone", "toDo"}

Request ==
  [pc : {"write", "record"}, op : Ops, item : Items \union {None}, to : {None},
   seen : Row]
  \union [pc : {"record", "roll"}, op : {"close", "early", "rekey"},
          item : {None}, to : Periods, seen : Row]

\* The row, the records and what requests hold are what the routes put there.
TaskTypeOK ==
  /\ plan \in [freq : Frequencies, verifies : BOOLEAN]
  /\ now \in [period : 0..MaxPeriod, late : BOOLEAN]
  /\ row \in Row /\ records \in [Periods -> BOOLEAN \union {None}]
  /\ req \in [Requests -> Request \union {Idle}]

Settled == Busy = {}

-----------------------------------------------------------------------------
(* One at a time, and without the segment board *)

\* "Sub-task counts as finished for progress / Done only after head
\* verification": one that is counted in a cycle was verified in that cycle,
\* although a reset leaves the verification of the last one in place.
FinishedIsVerifiedNow ==
  \A i \in Items :
    row.items[i].done /\ row.items[i].mark = "VERIFIED" =>
      row.items[i].verifiedAt = row.cycle

\* What the board lists for a department head: cards that are pending, and of
\* the cards that are not completed those with a pending sub-task.  No
\* submission is left where no head sees it.
PendingIsListed ==
  PendingOf(row) # {} =>
    row.card = "PENDING_VERIFICATION" \/ row.lastFull = None

\* rolledOverIncomplete and the metrics agree: if the card says that the last
\* cycle was not completed, so does the record of its period.
DelayedWasIncomplete ==
  row.incomplete /\ row.key > 0 => records[row.key - 1] # TRUE

-----------------------------------------------------------------------------
(* Always *)

\* A read of the board that resets the checklist opens a cycle after the one
\* it closes and leaves a record of the period: however many do so at once,
\* what is ticked in the new cycle is not reset by another.
ResetOpensCycle ==
  [][ (\E r \in Requests : Roll(r)) /\ row'.items # row.items =>
        row'.cycle > row.cycle /\ records[row.key] # None ]_vars

\* "Incomplete work stays Delayed after the cycle deadline before resetting":
\* whatever is unticked, ticked or rejected while a request closes a cycle, a
\* checklist that is not complete is reset only when its time is over.
IncompleteIsHeld ==
  [][ row'.cycle > row.cycle /\ ~Complete(row) => HoldPassed ]_vars

-----------------------------------------------------------------------------
(* Eventually *)

\* People read the board again and again, and a request that has arrived is
\* served unless the process restarts.
Fairness ==
  \A r \in Requests : /\ WF_vars(Serve(r))
                      /\ SF_vars(CloseStale(r))

FaultsEnd == <>[][~Restart]_vars

\* A cycle that is over is closed once the process stops restarting, also if
\* it did between the record and the reset.
StaleIsClosed ==
  FaultsEnd =>
    ((Stale /\ HoldPassed) ~> ~Stale)

-----------------------------------------------------------------------------
(* Contradicted *)

\* "Head-verified complete — only then does the card become Done": a card
\* that is verified has every sub-task verified.
DoneIsHeadVerified ==
  Settled /\ plan.verifies /\ row.card = "VERIFIED" =>
    FullyComplete(row.items, TRUE)

=============================================================================
