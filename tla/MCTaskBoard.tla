---------------------------- MODULE MCTaskBoard ----------------------------
(***************************************************************************)
(* The cases of the runs of TaskBoard.                                     *)
(*                                                                         *)
(*   serial   one request after the other, without the segment board       *)
(*   board    one after the other, with the segment board                  *)
(*   faults   one after the other, and the process restarts                *)
(*   races    two at a time, of which one at most is an edit, without the  *)
(*            segment board and until the first cycle is closed            *)
(*                                                                         *)
(* All but the first are about a monthly task, whose cycles close early    *)
(* and are held; in "board" and "races" completion is verified.            *)
(***************************************************************************)
EXTENDS TaskBoardProperties, TLC

CONSTANTS Cases

VARIABLE case

Belongs(q) ==
  CASE case = "board"  -> Settled
    [] case = "serial" -> Settled /\ q.op \notin ColumnOps
    [] case = "faults" -> Settled /\ q.op \notin ColumnOps
    [] case = "races"  ->
         /\ q.op \notin ColumnOps /\ q.to \in {None, 0, 1}
         /\ q.op \in Ops => \A r \in Busy : req[r].op \notin Ops

\* The slots are alike; only fairness tells them apart.
FirstIdle == CHOOSE r \in Requests : IsIdle(r)

CaseInit ==
  /\ Init /\ case \in Cases
  /\ case # "serial" => plan.freq = "MONTHLY"
  /\ case \in {"board", "races"} => plan.verifies

CaseNext ==
  /\ \/ Calendar
     \/ case = "faults" /\ Restart
     \/ \E r \in Requests :
          \/ Send(r) /\ Belongs(req'[r]) /\ (case = "faults" \/ r = FirstIdle)
          \/ Serve(r)
  /\ UNCHANGED case

caseVars == <<vars, case>>

CaseSpec == CaseInit /\ [][CaseNext]_caseVars

FairCaseSpec == CaseSpec /\ Fairness

SerialFinishedIsVerifiedNow == case = "serial" => FinishedIsVerifiedNow
SerialPendingIsListed == case = "serial" => PendingIsListed
SerialDelayedWasIncomplete == case = "serial" => DelayedWasIncomplete
FaultyStaleIsClosed == case = "faults" => StaleIsClosed
=============================================================================
