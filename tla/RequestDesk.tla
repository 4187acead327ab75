---------------------------- MODULE RequestDesk ----------------------------
(***************************************************************************)
(* How the routes of a ticket work: PATCH .../tickets/[id] and the board's *)
(* manual assignment.  A request reads the row of the ticket once, then    *)
(* what else it needs (the approval meta, or the activity log), decides    *)
(* from the two copies, and writes with one or more queries.  Nothing is a *)
(* transaction, and between two queries other requests run.                *)
(*                                                                         *)
(* The modules that extend this one say what the row and the file hold and *)
(* what each operation does.                                               *)
(***************************************************************************)
EXTENDS Naturals, FiniteSets

CONSTANTS
  Agents,    \* the staff who act on the ticket
  Admins,    \* those of them whose role is Admin or above
  None,      \* null
  Requests,  \* slots for requests in flight
  InFlight,  \* bound of a run: how many slots are used at once
  Ops,       \* the operations that are sent
  Faults     \* what may go wrong

ASSUME DeskAssumption ==
  /\ Admins \subseteq Agents /\ None \notin Agents
  /\ IsFiniteSet(Requests) /\ InFlight \in Nat \ {0}

VARIABLES
  ticket,  \* the row of the ticket
  file,    \* what is read by a second query: the approval meta, or the log
  req      \* the requests in flight

deskVars == <<ticket, file, req>>

Idle == [pc |-> "idle", op |-> None, actor |-> None, arg |-> None,
         seen |-> None, saw |-> None]

\* A slot whose last request was not answered, or with an error.
Lost == [pc |-> "idle", op |-> "lost", actor |-> None, arg |-> None,
         seen |-> None, saw |-> None]

IsIdle(r) == req[r].pc = "idle"

Busy == {r \in Requests : ~IsIdle(r)}

At(r, op, pc) == req[r].op = op /\ req[r].pc = pc

Turn(r, pc) == req' = [req EXCEPT ![r].pc = pc]

Hold(r, pc, paper) == req' = [req EXCEPT ![r].pc = pc, ![r].saw = paper]

Answer(r) == req' = [req EXCEPT ![r] = Idle]

\* The request is accepted and the row is read.
Arrive(r, op, actor, arg) ==
  /\ op \in Ops /\ IsIdle(r) /\ Cardinality(Busy) < InFlight
  /\ req' = [req EXCEPT ![r] = [pc |-> IF op = "board" THEN "move" ELSE "read",
                                op |-> op, actor |-> actor, arg |-> arg,
                                seen |-> ticket, saw |-> None]]
  /\ UNCHANGED <<ticket, file>>

\* The second query.
ReadFile(r) ==
  /\ req[r].pc = "read"
  /\ Hold(r, "act", file)
  /\ UNCHANGED <<ticket, file>>

\* A query throws, or the connection is lost: what was written stays.
QueryFails(r) ==
  /\ "query" \in Faults /\ ~IsIdle(r)
  /\ req' = [req EXCEPT ![r] = Lost]
  /\ UNCHANGED <<ticket, file>>

\* The process restarts.
Restart ==
  /\ "crash" \in Faults /\ Busy # {}
  /\ req' = [r \in Requests |-> IF IsIdle(r) THEN req[r] ELSE Lost]
  /\ UNCHANGED <<ticket, file>>

Settled == Busy = {}

=============================================================================
