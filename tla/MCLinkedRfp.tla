---------------------------- MODULE MCLinkedRfp ----------------------------
(***************************************************************************)
(* The draft and the two cases of the run of LinkedRfp.                    *)
(* "serial": the payment request was made at creation, then come requests  *)
(* of every kind, one after the other.  "races": two at a time that have   *)
(* to do with it, and failures.                                            *)
(***************************************************************************)
EXTENDS LinkedRfpProperties, TLC

CONSTANTS ana, ben, dan, L1

VARIABLE case

MCSeat(holder) == [holder |-> holder, alternates |-> {}, optional |-> FALSE]

\* A Work Plan of dan's, which ana and ben approve and dan confirms.
RfpDrafts ==
  {[seats |-> <<MCSeat(ana), MCSeat(ben)>>, flat |-> {}, creator |-> dan,
    confirmer |-> dan, travelers |-> {dan}, owner |-> dan, workPlan |-> TRUE,
    gatePass |-> FALSE, stops |-> {L1}]}

-----------------------------------------------------------------------------
(* The cases *)

Serial == case = "serial"

CaseInit == LinkedInit /\ case \in {"serial", "races"} /\ (Serial => tickets # << >>)

\* What arrives.
Belongs(q) ==
  IF Serial THEN \A r \in Requests : req[r] = Idle
            ELSE q.pc \in {"approve.read", "rfp"}

Travels(r) == (Accept(r) /\ Belongs(req'[r])) \/ Advance(r)

CaseNext ==
  /\ \/ ~Serial /\ (Restart \/ \E r \in Requests : FindFails(r) \/ QueryFails(r))
     \/ \E r \in Requests :
          \/ Travels(r) /\ UNCHANGED <<tickets, desk, lost>>
          \/ FindLinked(r) \/ FindNone(r) \/ CreateTicket(r) \/ LinkTicket(r)
          \/ ReleaseLoad(r) \/ ReleaseSave(r) \/ RetryLoad(r) \/ RetrySave(r)
          \/ EditLoad(r) \/ EditFields(r) \/ EditSave(r)
  /\ UNCHANGED case

caseVars == <<linkedVars, case>>

CaseSpec == CaseInit /\ [][CaseNext]_caseVars

\* What LinkedRfpProperties asks of requests that come one after the other:
\* a payment request is released once its Work Plan is approved, and from then
\* on it is not held again and the Work Plan's editor leaves it alone.
SerialApprovedIsReleased == Serial => ApprovedIsReleased
SerialReleasedIsFinal == [][ Serial => ReleasedIsFinal ]_caseVars
=============================================================================
