------------------------------ MODULE VisitLog ------------------------------
(***************************************************************************)
(* What the record of the visits of a travel order, and that of the gate,  *)
(* promise: of every place the first start and, after it, the first end    *)
(* are kept, and neither is moved or erased, whoever else writes.          *)
(***************************************************************************)
CONSTANTS Locations, Stamps, None

VARIABLES
  started,  \* location -> the capture of its start, None before
  ended     \* location -> the capture of its end, None before

visits == <<started, ended>>

Init ==
  /\ started = [l \in Locations |-> None]
  /\ ended   = [l \in Locations |-> None]

Start(l, s) ==
  /\ started[l] = None
  /\ started' = [started EXCEPT ![l] = s]
  /\ UNCHANGED ended

End(l, s) ==
  /\ started[l] # None /\ ended[l] = None
  /\ ended' = [ended EXCEPT ![l] = s]
  /\ UNCHANGED started

Next == \E l \in Locations, s \in Stamps : Start(l, s) \/ End(l, s)

Spec == Init /\ [][Next]_visits

=============================================================================
