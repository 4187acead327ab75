-------------------------- MODULE ProceduralChain --------------------------
(***************************************************************************)
(* What the approval chains of the request types have in common.  Of the   *)
(* steps of its kind a request has some; they sign one after another, each *)
(* once, and then the chain is green-lit.  There are no requests, copies   *)
(* or awaits here.                                                         *)
(***************************************************************************)
EXTENDS Naturals

CONSTANT Length  \* how many steps the kind has

VARIABLES
  steps,  \* the steps this request has, of 1..Length
  at      \* the step whose turn it is, Length + 1 when green-lit

chain == <<steps, at>>

\* The step of ss after i.
After(ss, i) ==
  IF \E s \in ss : s > i
  THEN CHOOSE s \in ss : s > i /\ \A t \in ss : t > i => s <= t
  ELSE Length + 1

Init == steps \subseteq 1..Length /\ at = After(steps, 0)

Sign == at <= Length /\ at' = After(steps, at) /\ UNCHANGED steps

Next == Sign

Spec == Init /\ [][Next]_chain

=============================================================================
