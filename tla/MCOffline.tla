----------------------------- MODULE MCOffline -----------------------------
(***************************************************************************)
(* The cases of the runs of OfflineQueue.                                  *)
(*                                                                         *)
(*   serial   one tab; the queue is sent while nothing is entered, and     *)
(*            nothing is lost                                              *)
(*   loss     one tab, online, visits and a new order: its page and flush  *)
(*            interleave, requests and answers are lost, or come too late  *)
(*   close    the same, of a new order only, and the tab is closed         *)
(*   tabs     two tabs share the database: what is entered without a       *)
(*            connection in one of them is sent by both; nothing is lost   *)
(***************************************************************************)
EXTENDS OfflineProperties, TLC

CONSTANTS tab1, tab2, d1, p1, a1, Cases

ASSUME TwoTabs == Tabs = {tab1, tab2}

VARIABLE case

Quiet(t) == page[t].pc \in {"idle", "closed"}

\* A step of the case.
NothingLost ==
  /\ \A c \in Callers : ~Loss(c)
  /\ \A t \in Tabs : ~PostTimesOut(t) /\ ~Close(t)

Entered(kinds) == \A t \in Tabs : page'[t].what # None => page'[t].what \in kinds

Asleep(t) == page'[t] = page[t] /\ flush'[t] = flush[t]

Belongs ==
  CASE case = "serial" ->
         /\ NothingLost /\ Asleep(tab2)
         /\ At(tab1, "idle")' \/ Quiet(tab1)'
    [] case = "loss" ->
         /\ ~Link /\ \A t \in Tabs : ~Close(t)
         /\ \A d \in Drafts : ~Discard(d)
         /\ Asleep(tab2)
         /\ Entered(Creates \union Visits)
    [] case = "close" ->
         /\ Asleep(tab2)
         /\ Entered(Creates)
    [] OTHER ->
         /\ NothingLost
         /\ page'[tab2] = page[tab2]
         /\ page'[tab1].pc # "posting"
         /\ Entered(Creates \union {<<"start", p1>>})
         /\ Link => \A t \in Tabs : At(t, "idle")

CaseInit == Init /\ case \in Cases /\ (case = "loss" => online)

CaseNext == Next /\ Belongs /\ UNCHANGED case

caseVars == <<vars, case>>

CaseSpec == CaseInit /\ [][CaseNext]_caseVars

\* The second tab has no part in what is asked to happen eventually.
FairCaseSpec == CaseSpec /\ TabFairness(tab1)

SerialCreatedOnce == case = "serial" => CreatedOnce
OpenShownIsKept == case # "close" => ShownIsKept
LossyQueuedIsApplied == case = "loss" /\ FaultsEnd => QueuedIsApplied
ClosedPendingIsCreated ==
  case = "close" /\ FaultsEnd /\ Reconnects => PendingIsCreated
=============================================================================
