# A TLA+ development of the Workforce Productivity Dashboard

The repository is "Ticket System v3", a Next.js application over PostgreSQL
(with a MySQL "merged" database beside it) for the staff of a group of
companies: tickets, some of which go through a chain of approvals, recurring
tasks with KPI scores, and *travel orders*: plans that several people sign,
that somebody carries out, often without a connection, and whose completion is
a KPI. Paths below are relative to the repository root, which `src/` stands
for; `lib/` is `src/src/lib/`, `…/travel-orders/` is
`src/src/app/api/kpi-maintenance/[id]/travel-orders/`, and *the ticket route* is
`src/src/app/api/tickets/[id]/route.ts`.

Almost no handler opens a transaction or takes a lock. A route reads a row,
decides, awaits and writes; between two awaits the other requests of the
process (and of its sibling processes) run. Several columns are JSON values
that are read, changed in memory and written back whole. Work that follows an
answer is started and forgotten. That is what makes the code hard to test and
what these modules are about.

## 1. Inventory

| component | state it keeps | operations | interacts with | what is hard | what makes it correct |
|---|---|---|---|---|---|
| Approval chain (`lib/travel-order.ts`) | `approval_levels`: seats with holder, alternates, optional flag, signature | which seats are open, who may act, is the chain complete | the handlers below, the boards | optional seats, people with two roles | required seats in order; whoever holds an open seat can sign it |
| Travel order handlers (`lib/travel-order-db.ts`, `…/travel-orders/**`) | one row: status, signatures, gate pass; rows of locations | approve, reject, cancel, confirm, resubmit, gate start/end/edit/drop, visit start/end, add location, submit-done | the task's row, confirmation side effects, linked payment request | stale reads, unconditional writes, JSON lost updates | no signature or capture lost, status agrees with signatures, limits |
| Confirmation side effects (`lib/travel-order-kpi-finalize.ts`, `lib/sync/travel-order-*.ts`) | KPI columns of the order, the task's row, the mirror in MySQL | record KPI, complete task, upsert mirror | travel order, HRIS consumers of the mirror | fire-and-forget, crash or failed query between steps | recorded once, never overstated, reaches task and mirror |
| Linked Request for Payment (`lib/travel-order-rfp.ts`, `…/linked-rfp/route.ts`) | a ticket with `linked_travel_order_id` and a JSON `payment_approval_meta` | create, retry, edit while held, release | approval of the travel order, payment approval | look-up/create race, failures answered as "none", stale meta | one per order, released exactly by the approval |
| Request for Payment approval (`lib/request-for-payment-approval.ts`, `lib/payment-approval-db.ts`, the ticket route, the board's manual assignment) | `payment_approval_meta`: the procedural step, seats, signatures, acknowledgements, skips, held; the ticket's status and assignee; the mode of payment in its description | set seats, request, approve, set mode, complete, change status, assign on the board, release | tickets, the linked Work Plan, the request board | conditional and unconditional saves of one JSON value, a second query for the ticket | signed in order; the ticket is with whose turn it is; For Confirmation means green-lit |
| Item requisition, fund transfer, job order, Authority to Conduct Activity (`lib/*-approval.ts`, `lib/*-approval-db.ts`, the ticket route) | the same with other seats; pricing; execution, workers, Job Done and output of a job order | the same, price, undo a canvass, assign execution, upload, Job Done, transfers of the first and the last, and what opening a page repairs | tickets, the board, the pages | unconditional saves (conditional for an Authority), repairs on read | as above; no job order is approved before its Job Done; an Authority is signed by its seats, each once |
| Tickets (the ticket route, `src/src/app/api/tickets/email-verification/route.ts`, the page of the email links) | status, assignee, priority, rating; an activity log from which pending transfers and verifications are derived | move, prioritise, assign on the board, request/accept/decline a transfer, verify, reject, rate, cancel | approvals, notifications, SLA | a state read from a log and written by two queries, three ways to review | nobody's ticket gets into work; a closed ticket is rated and stays closed; custody is never lost |
| Offline client (`lib/offline/*.ts`, the panels of the task board) | IndexedDB: drafts, cached orders with overlays, a queue of operations | save a draft, post, keep offline, flush, requeue, reload, discard | the routes above, over a connection that fails | lost answers, time-outs, two tabs, a tab that is closed | nothing leaves the queue unapplied; what is shown is kept; what is queued is applied |
| Work Plan creation (`field-assignment/route.ts`, `lib/work-plan.ts`, legacy `…/travel-orders/route.ts`) | – | validate, insert order and locations, attach files, create payment request | all of the above | roll-back after partial failure | an order is complete or absent |
| KPI maintenance and cycles (`src/src/app/api/kpi-maintenance/route.ts`, `lib/kpi-*.ts`, the sub-task routes) | the task's row with a JSON checklist, its cycle, its period key; a record per period | tick, move on the segment board, close a cycle (by reading the board), record a period | verification, travel orders, efficiency | a read that writes; a record and a reset in two queries; whole checklists written back | work that is not complete is held, a cycle is closed once and recorded |
| Task completion verification (`lib/task-completion-verification*.ts`, the same route) | a status of the card and one of each sub-task | submit, approve, reject, resubmit a sub-task or the card; what is listed for a head | cycles, boards | two levels of verdicts, statuses that outlive a reset | what counts was verified in its cycle; submissions are seen |
| Intake, request chat, boards, notifications, efficiency, HRIS synchronisation, access, caches, UI | | | | mostly display, look-ups or bulk copy | |

`PROJECT.json` lists the components with their sources, and under "hazards"
what in this code is hard to test, each at its line.

## 2. What is modelled

Five families, which share no variables. In each, a module with the state and
one action per handler and per later query; a `*Properties` module that says
what is asked, in groups (*one at a time*, *always*, *eventually*,
*contradicted*); an `MC*` module with the drafts, forms and cases of the runs;
and a `*Proofs` module with the theorems. Operators marked "Mutant" are
plausible bugs: no action uses them, and each property is checked to fail when
one of them replaces the definition below it.

### Travel orders

**`ApprovalChain`** is a module of pure operators, one per function of
`lib/travel-order.ts` and named after it. A chain is a sequence of seats; the
mutable part of the JSON column is the set of signed levels. Operators take
(seats, signed) as arguments so that they apply to the row and to the copies
requests hold of it.

**`TravelOrder`** is one travel order with its task and its mirror row.

- `plan` holds what creation stored and nobody rewrites; `order` the columns
  the handlers write; `task` the completion of the KPI maintenance row;
  `merged` the row in `merged_travel_orders`.
- `req[r]` is a request in flight: the point it has reached (`pc`), who sent it,
  and what it holds across awaits, in particular `seen`, the copy of the row.
- An operation is an action that does what the route does up to its first write
  or second read (`Approve`, `Confirm`, `GateEdit`, `VisitStart`, `AddLocation`,
  `SubmitDone`, …), followed by one action per later query (`ReadToSign`,
  `WriteSignature`, `RereadApproved`, …). A refused request changes nothing and
  is no action, except where it had to read twice (`RefuseApproval`).
- Writes are what the UPDATE is: `SetStatus` writes without looking, as
  `updateTravelOrderStatus` does; `WriteSignature` writes the copy's signatures
  plus one; `WriteVisit` repeats its guard, because its WHERE clause does.
- `Init` admits every draft of the constant `Drafts`. Today's routes make only
  Work Plans, with a confirmer, a creator and stops from the venue labels. The
  handlers still serve the rows of the older Travel Order form, so drafts with
  flat approvers, without a Work Plan, are modelled from what
  `createTravelOrderWithLocations` and the handlers accept.
- Faults: a query of the KPI record fails (`FinalizeFails`), MySQL is down
  (`SyncFails`), the process restarts (`Crash`).

**`LinkedRfp`** extends `TravelOrder` with the tickets made for the order and
refines its one-step placeholders for the payment request (`Release`,
`CloseRfp`) into the chain of queries on the tickets. Of the JSON meta it keeps
the flag `awaitingTravelOrderApproval`, which is read, carried and written back
as the code does. Creation's own call either succeeded or failed softly before
other requests arrive.

**`OrderLifecycle`** and **`VisitLog`** are abstract specifications: what the
approval workflow and a record of visits promise, with one atomic step per
operation and no requests. `TravelOrder` implements the first when requests do
not overlap, and the second always for the visits of the locations, without
overlap for the two captures at the gate.

### Approval chains of tickets

**`RequestDesk`** is how the routes of a ticket work, whatever they do: a
request reads the row of the ticket, then a second paper (`file`: the approval
meta, or the activity log), decides from the two copies and writes with one or
more queries. A query that throws (`QueryFails`) and a restart (`Restart`) leave
what was written. A slot whose request was not answered is `Lost`, an answered
one `Idle`: without the difference, a fault and an answer after the last write
would be one and the same step, and "faults end" would forbid to answer.
**`ApprovalDesk`** adds what the request types with a chain share: the status
transitions, who may mutate the ticket, how the board follows the chain.

**`PaymentApproval`** is the chain of a Request for Payment (Noted By, Approved
By, Accounting, Finance; the first two can be skipped, the last two need an
Approved click before they sign, the mode of payment may be left to
Accounting). `file` is the meta, `ticket` the status, the assignee and whether
the description names a mode. One action per handler up to its save
(`SetSeats`, `RequestApproval`, `ApproveStep`, `UpdateMode`, `CompleteStep`,
`ChangeStatus`, `MoveOnBoard`/`SeatFromBoard`, `ReleaseHeld`) and one for the
second query that moves the ticket (`PlaceSeats`, `PlaceRequested`,
`PlaceCompleted`). `SaveFinds` is the WHERE clause of
`savePaymentApprovalMeta`: Ticket controls names the step it expects, the board
and the release do not.

**`ProceduralRequest`** is the item requisition, the fund transfer, the job order
and the Authority to Conduct Activity in one module, told apart by `file.type`
where the code is. The saves of the first three have no condition at all; an
Authority's signature names the step it read (`SaveFinds`). An Authority's seats
are given at intake, all different, and never change; who signs must have both
the seat and the ticket; the board only moves the ticket, and For Confirmation
waits for the chain instead of signing it. The module also has the pricing and undo of a canvass, the
execution of a job order (who executes, workers, assistance, uploads, Job
Done), what the "For Confirmation" move signs, and what merely opening a page
writes (`BackfillPreparedBy`, `ReconcileExecution`).
`requestTypeSupportsTransfer` lets a requisition and an Authority be transferred
like a plain ticket (`RequestTransfer`, `Park`, `AcceptTransfer`,
`DeclineTransfer`, `LogDecision`): the transfer takes the ticket from the holder
of the seat and does not know of the meta. `ticket.transfer` is what the log
says of it, since `file` is the meta here. What follows For Confirmation
(verification, rejection, rating) and cancelling are as in `TicketLifecycle`,
touch neither seat nor assignee and are not repeated.

**`ProceduralChain`** is the abstract specification: of the steps of its kind a
request has some, and they sign one after another, each once. What Ticket
controls does to a Request for Payment implements it, however requests cross,
and the meta of an Authority takes no step that is not one of its own.

### Tickets

**`TicketLifecycle`** is a ticket without a chain: status moves, priority, the
board's assignment, transfers (to a named colleague the ticket is parked
unassigned and ESCALATED; to an Admin it stays), the requestor's verification,
rejection and rating on the portal, by the links of the email and on the page
they open, and cancelling. `file` is what the activity log says: the transfer
that is pending and from whom to whom, whether the resolution is verified,
whether there is a rating. Handlers that write the row first and the log second
(or the reverse) are two actions with a crash in between.

**`Custody`** is the abstract specification of handing a ticket over: it is put
down only by its holder offering it to a colleague, who is on record until
somebody has it again.

### The offline client

**`OfflineQueue`** is the browser's database (`queue`, `draft`, `cache`), the
tabs that share it (`page[t]`: what the user is entering; `flush[t]`: the loop
that sends the queue), requests in flight (`call`), and the server reduced to
what it keeps of an operation: a creation or a new location is made again by
every request that arrives, a visit is refused when it was stored before or its
start was not. Requests and answers are lost (`Loss`), a page gives up after 45
seconds while the server goes on (`PostTimesOut`), tabs are closed in the middle
of an action (`Close`), the connection comes and goes (`Link`).

### Recurring tasks

**`TaskBoard`** is one recurring task: `row` is the row of `kpi_maintenance` (of
the checklist, for each sub-task, whether it is ticked, its verification status
and the cycle in which it was verified; the card's status;
`lastFullCompletionAt`; the cycle and the period key; `rolledOverIncomplete`),
`records` the table of period snapshots reduced to `fullyComplete`, `now` the
calendar, `plan` the frequency and whether the platform verifies completion.

- `Arrive` is a PATCH or PUT that has read the row and passed its checks
  (`Accepted`). It writes the whole checklist back from that copy
  (`WriteProgress`, `WriteItemVerdict`, `WriteItemRejection`, `WriteCardVerdict`,
  and `WriteColumn` for the segment board, which does not know of the card's
  verification) and, where the route does, stores the record (`Record`).
- `CloseStale`, `CloseEarly` and `Rekey` are a GET that has read the row and
  found the cycle over (held for ten days if it is incomplete and long), found
  it complete before its end, or found a period key that is not the calendar's.
  The record is stored, then `Roll` updates the row if the three columns of its
  WHERE clause are as they were read (`Unmoved`).
- An instant is one of `Times` and is compared for equality only, as the WHERE
  clause does. `ThisInstant` is any that no request in flight remembers.

### Abstractions

- The checklist of a task is fixed, its sub-tasks are done when ticked, and the
  platform's setting does not change. QUARTERLY and longer frequencies behave
  like MONTHLY. `now.late` is the eleventh day of such a period, and, of a day,
  the Sunday that belongs to Saturday's cycle (no record of an edit is stored on
  it). The end of the hold and the rollovers of several missed periods at once
  are kept; dates are not.
- Outside `TaskBoard` a timestamp is NULL or the slot that captured it: the code compares
  timestamps with NULL only. Two captures by one slot are not told apart.
- GPS positions, guard names, estimates, remarks, reasons, titles, amounts,
  prices and the content of attachments are left out; of prices and of a job
  order's output it is kept whether they are there.
- The mirror is one row written in one step; its rows of locations and travelers
  are left out. The best-effort reload before it is taken to succeed.
- "Actual departure" is `departed`/`returned`: Start and End at the gate.
- A permission is membership in `Managers`, `Guards` or `Admins`, fixed during a
  run. A head of department who is asked for help counts as an Admin.
- The rows of the order, the task and the ticket are not deleted.
- The log of a ticket is reduced to what the code derives from it. Of a log the
  last entry counts, so that what it says is a function of the last entries.
- An offline operation is identified by what it is about; gate-pass operations
  behave like visits and are not kept apart.
- No ticket is modelled together with a travel order other than through
  `LinkedRfp`'s flag and `PaymentApproval`'s `ReleaseHeld`.

## 3. Runs

`InFlight` (of a run) is how many requests overlap. With 1, requests come one
after the other, and the background work of a confirmation is part of its
request: the next one comes after it. With 2, everything interleaves. The
runs of a family share an MC module with a variable `case`, fixed at the start
of a behaviour, which says what arrives and what may fail; a property of one
case is named after it (`Serial…`, `Faulty…`, `Visit…`).

| run | what it asks | result |
|---|---|---|
| `travel_serial` | five drafts (Work Plans with a middle optional seat, with a gate pass, with all seats optional; legacy orders with flat approvers and with a chain), all operations but `gateDrop`, one at a time | holds: `ImplementsLifecycle`, `ImplementsGateLog`, `RecordsAgree` |
| `travel_races` | two at once. Behaviours with failing queries and restarts: chain operations, adding locations, dropping the pass. Behaviours of `VisitPlan` without: visits, one added location, submit-done, confirmation | holds: `RequiredSeatsInOrder`, `ApprovedIffSigned`, `LocationOvershoot`, `ImplementsVisitLog`, `VisitKpiReachesTask`, `VisitConfirmationReachesMirror` |
| `rfp_cases` | payment request made at creation. *serial*: all operations, one at a time. *races*: two at once, failing look-ups and queries, restarts | holds: `SerialApprovedIsReleased`, `SerialReleasedIsFinal`, `LinkedOvershoot` |
| `payment_cases` | *serial*: Ticket controls, one at a time. *faults*: the same, any query fails and the process restarts between any two. *overwrites*: two at once, signatures with the board's seat and the release, which save without looking | holds: `SerialHolderIsAssigned`, `FaultyReachesConfirmation`, `ChainIsSigned` |
| `payment_races` | two at once, all of Ticket controls, restarts | holds: `ImplementsChain`, `ConfirmationIsGreenLit` |
| `procedural_cases` | *serial*: four types, transfers included, one at a time. *faults*: what moves the chain on, failing queries and restarts. *races*: two at once, everything that saves the meta | holds: `SerialHolderIsAssigned`, `SerialConfirmationIsGreenLit`, `FaultyReachesConfirmation`, `ChainIsSigned`, `JobDoneBeforeApproval`, `AuthorityIsSignedInTurn` |
| `ticket_cases` | queries fail and the process restarts throughout. *work*: everything there is, one at a time. *handing*: the same with transfers to colleagues only. *races*: the board, moves, reviews and rejections on all ways, two at once. *reviews*: one at a time, fair | holds: `StaffWorkIsAssigned`, `StaffClosedStaysClosed`, `HandedEscalatedIsPending`, `ImplementsCustody`, `ClosedIsRated`, `LinkReviewCloses` |
| `offline_cases` | *serial*: one tab, nothing lost. *loss*: one tab that loses requests and answers, or gets them too late. *close*: a tab that is closed. *tabs*: two tabs, one database | holds: `SerialCreatedOnce`, `OpenShownIsKept`, `LeavesOnlyApplied`, `LossyQueuedIsApplied`, `ClosedPendingIsCreated` |
| `task_cases` | *serial*: every frequency, ticks and verdicts, one at a time. *board*: the same with the segment board. *faults*: one at a time, the process restarts. *races*: two at a time of which at most one is an edit | holds: `SerialFinishedIsVerifiedNow`, `SerialPendingIsListed`, `SerialDelayedWasIncomplete`, `ResetOpensCycle`, `IncompleteIsHeld`, `FaultyStaleIsClosed` |
| `travel_unsigned_confirm` | two at once, signatures and confirmation | **violated**: `ConfirmedIsFullySigned` |
| `travel_erased_departure` | two at once, gate captures and edits | **violated**: `DepartureKept` |
| `task_rejected_done` | one at a time, ticks and verdicts | **violated**: `DoneIsHeadVerified` |

The three violations contradict a comment, a message or a test of the
repository, quoted in `PROJECT.json` under "findings". In short: a signature
written from an old copy can undo the last signature while a confirmation is
under way; an edit of estimates can erase a departure; a task whose sub-tasks
were all rejected can be resubmitted and approved as a card, and is then Done
with every sub-task rejected.

The type invariants of `TravelOrder`, `TaskBoard`, `LinkedRfp`, `PaymentApproval`, `ProceduralRequest`,
`TicketLifecycle` and `OfflineQueue` are theorems and need no run.

What a case leaves out is what makes its property false, and is named here
rather than hidden:

- Two serial facts about the travel order do not survive overlap: the KPI can
  be recorded twice by a submit-done and a confirmation that both found it
  empty, and the flag of a payment request can be put back by an editor that
  read it before the release. `gateDrop` (an edit with `included: false` and no
  other data) clears the captures by design, which is why `travel_serial` leaves
  it out and `travel_races` has it. Resubmission keeps the signatures, and the
  next approval by anyone completes the order: `OrderLifecycle` says so
  (`Reopen`, `Endorse`), and `ApprovedIffSigned` is stated without it.
- `ImplementsChain` and `ConfirmationIsGreenLit` of payments are about Ticket
  controls: a save of the board or of the release can set the step back.
- `SerialHolderIsAssigned` leaves out, of requisitions, assignments that the
  board refuses after it has moved the ticket, and moves that take an Authority
  from its seat's holder, and of payments the board. A transfer takes the ticket
  away from the holder too. It is in the case, and the property allows for it:
  `lent` is set by the step of a transfer that changes the assignee and cleared
  by the next one that places the ticket, of the chain or of the board, and only
  while it is set may a requisition or an Authority be with somebody else.
  `ConfirmationIsGreenLit` makes no such allowance.
- *faults* and *races* send no transfers: the liveness of *faults* would need
  somebody who brings the ticket back, and the properties of *races* are about
  the meta, which no transfer touches; as theorems they hold with transfers.
- *work* and *handing* send everything, one request at a time. The rejection on
  the page of the email, which puts a ticket in work without looking at who has
  it, is the exception that `StaffWorkIsAssigned` names. *handing* leaves out
  transfers to an Admin, which park a ticket without taking it from its holder,
  so that Custody does not describe them.
- No property says that a closed ticket is verified: it may be closed on a
  verification of an earlier resolution, or on one whose rejection was not
  written to the log by a process that stopped (section 6).
- In *close* the property speaks of drafts, not of visits: a visit shown by a
  tab that is closed before it was queued is lost (section 6).

- The serial properties of tasks are false under overlap (PATCH writes what it
  read) and on the segment board, which ticks a sub-task with the verification
  of an earlier cycle; both are in section 6. `ResetOpensCycle` and
  `IncompleteIsHeld` are asked in all four cases.

### Bounds and why they suffice

- Two slots: every race in the hazard list is between two requests, and the
  statements about n slots are theorems. Slots are symmetric where nothing names
  them (`payment_races`); in the travel orders stamps do, and symmetry is not
  sound with liveness.
- Chains of one to three seats: optional seats exist from three levels on
  (`approvalLevelsAllowOptional`); three have a seat before, at and after an
  optional one, and all seats optional is a case of its own. The chains of
  tickets have all their steps, with the skips, deferrals and empty seats that
  the forms can make.
- Two or three people: a holder, a colleague and an Admin; in
  `procedural_cases` and `payment_races` the Admin holds a seat too, so that one
  person has two roles. The three seats of an Authority must have three people;
  its paths with four and five approving seats, which would need six and seven,
  are covered by the proofs.
- `MaxLocations` is 2 instead of 30, with up to 4 location identifiers in
  `travel_races`, so that the cap is reached and exceeded.
- `MaxTickets` 4 and `MaxLost` 1: two slots, one failed look-up, and one ticket
  that never got its link. `CreateTicket` waits at the bound.
- `Entries` 2 and `MaxOps` 4: two things are entered offline, and the queue
  gets two more operations than that, by requeueing; one draft, one place and
  one added location are enough for an End that overtakes its Start and for a
  draft that is queued twice.
- Two sub-tasks (one that is done and one that is not, one pending and one
  rejected), `MaxPeriod` 1 and `MaxCycle` 2: one deadline that is missed or met,
  and a task that is ahead of the calendar. `Times` 3: two requests remember two
  instants, a third is the present. All cases but *serial* are about a MONTHLY
  task, the only one of the three frequencies with both the hold and early
  closing; *board* and *races* are with verification on. *races* ends with the
  closing of the first cycle, and at most one of the two overlapping requests is
  an edit: two edits do not close cycles. `ResetOpensCycle` and
  `IncompleteIsHeld` are theorems without these limits, the latter without the
  segment board.
- One order, ticket or task per model: no handler reads two to write one.
- `travel_races` restricts what arrives and what fails by case with an action
  constraint, `CaseStep`; what was accepted is always carried on, so that the
  fairness stays meaningful. The passing runs have
  from 290 thousand (`travel_races`) to 3 million distinct states
  (`task_cases`) and take 40 seconds to two minutes each; TLC's coverage shows every
  action of every module taken in them, those that a case module conjoins with
  its case included.

### Fairness

- A request that was accepted is carried on (`WF` of `Continue(r)`, `Serve(r)`),
  which is what the event loop does as long as the process lives. Restarts are
  not fair and take requests away.
- Nobody has to send a request about a travel order, and no fault is fair; the
  liveness of `travel_races` is asked of the behaviours without faults, since
  nothing there retries.
- Of the chains it is assumed that people click, again and again, the buttons
  that the page offers them in the state that is stored (`SF` of `Signs`,
  `Confirms`, `Forwards`, …): a click is fair only if the request would be
  accepted as things stand, so that the fairness never does the handler's work.
  `FaultsEnd` says that from some time on no query fails and no process
  restarts; without it nothing could be promised.
- `LinkReviewCloses` assumes a requestor who uses the link until it works.
- The queue is sent again and again when there is a connection (the retry
  button, the `online` event, opening the list), `SF` of `Flush(t)`; a tab and
  the server go on with what they have begun.

- Somebody opens the board again and again (`SF` of `CloseStale`), and a read or
  an edit that has begun is carried on. The closing of a stale cycle is asked of
  behaviours in which the process stops restarting (`FaultsEnd`); edits may come
  in between for ever, since each is over before the next read in that case.

## 4. Proofs

Checked by TLAPS for all values of the constants that satisfy the named
assumptions (`TravelOrderAssumption`, `LinkedRfpAssumption`, `DeskAssumption`,
`PaymentAssumption`, `ProceduralAssumption`, `LifecycleAssumption`,
`OfflineAssumption`, `BoardAssumption`, `TimesAssumption`; they say only what the code guarantees of its inputs and
are evaluated by the runs). Every safety property and every refinement that a
passing run checks has its theorem, with the hypotheses that the table names.

Where a run asks something of some of its cases only, its proof module extends
the MC module and the theorem is about `CaseSpec`, the specification of that very
run, for any people, slots, operations and faults. Only payment
requests and the requests of `ProceduralRequest` start from one of the drafts
that their case names; `PeopleAssumption` says that the people these name are
agents, and `TwoTabs` that the tabs are the two that the cases of the offline
client name. What the cases restrict,
one request at a time above all, is in section 3.

| theorem | statement |
|---|---|
| `TypeInvariant` | `Spec => []TypeOK` |
| `SeatsInOrder` | `Spec => []RequiredSeatsInOrder` |
| `ApprovedWithSignatures` | `"resubmit" \notin Ops` implies `Spec => []ApprovedIffSigned` |
| `SerialHandlersImplementLifecycle` | with `InFlight = 1`, `Spec => ImplementsLifecycle` |
| `SerialGateIsALog` | with `InFlight = 1` and no `gateDrop`, `Spec => ImplementsGateLog` |
| `SerialKpiIsRecordedOnce` | with `InFlight = 1`, `Spec => KpiRecordedOnce` |
| `SerialKpiIsNotOverstated` | with `InFlight = 1`, `Spec => []KpiNeverOverstated` |
| `SerialRecordsAgree` | with `InFlight = 1` and no fault but `sync`, `Spec => []RecordsAgree` |
| `TaskCompletedAfterKpi` | `Spec => []TaskAfterKpi` |
| `VisitsAreALog` | `Spec => ImplementsVisitLog` |
| `LocationsAreBounded` | `Spec => []LocationOvershoot`, for a finite set of slots |
| `LinkedIsTravelOrder` | `LinkedSpec => Spec` |
| `LinkedTypeInvariant` | `LinkedSpec => []LinkedTypeOK` |
| `PaymentRequestsAreBounded` | `LinkedSpec => []LinkedOvershoot`, for a finite set of slots that is not empty |
| `SerialIsReleased` | `CaseSpec => []SerialApprovedIsReleased` |
| `SerialIsFinal` | `CaseSpec => SerialReleasedIsFinal` |
| `PaymentTypes` | `Spec => []PaymentTypeOK` |
| `ChainSigned` | `Spec => [](ChainIsSigned /\ ModeOnRecord)` |
| `TicketControlsSignInOrder` | without the board and the release, `Spec => ImplementsChain` |
| `ConfirmedIsGreenLit` | without the board and the release, `Spec => []ConfirmationIsGreenLit` |
| `SerialHolder` (of `PaymentProofs`) | `CaseSpec => []SerialHolderIsAssigned` |
| `ProceduralTypes` | `Spec => []ProceduralTypeOK` |
| `ChainsAreSigned` | `Spec => []ChainIsSigned` |
| `ApprovedJobsAreDone` | `Spec => []JobDoneBeforeApproval` |
| `AuthoritiesAreSignedInTurn` | `Spec => AuthorityIsSignedInTurn` |
| `SerialHolder` (of `ProceduralProofs`) | `CaseSpec => []SerialHolderIsAssigned` |
| `SerialGreenLit` | `CaseSpec => []SerialConfirmationIsGreenLit` |
| `TicketTypes` | `Spec => []TicketTypeOK` |
| `ClosedTicketsAreRated` | without cancelling, `Spec => ClosedIsRated` |
| `TicketStartsAssigned` | `CaseSpec => StaffWorkIsAssigned` |
| `TicketStaysClosed` | `CaseSpec => StaffClosedStaysClosed` |
| `TicketEscalatedIsPending` | `CaseSpec => []HandedEscalatedIsPending` |
| `TicketImplementsCustody` | `CaseSpec => ImplementsCustody` |
| `OfflineTypes` | `Spec => []OfflineTypeOK` |
| `QueueKeepsWhatIsNotApplied` | `Spec => LeavesOnlyApplied` |
| `ShownIsNotLost` | if tabs are not closed, `Spec => []ShownIsKept` |
| `OpenTabsLoseNothing` | `CaseSpec => []OpenShownIsKept` |
| `SerialCreatesOnce` | `CaseSpec => []SerialCreatedOnce` |
| `TaskTypes` | `Spec => []TaskTypeOK` |
| `ResetsOpenCycles` | `Spec => ResetOpensCycle` |
| `IncompleteWorkIsHeld` | without the segment board, `Spec => IncompleteIsHeld` |
| `FinishedWasVerified` | with `InFlight = 1` and without the segment board, `Spec => []FinishedIsVerifiedNow` |
| `SubmissionsAreListed` | with `InFlight = 1` and without the segment board, `Spec => []PendingIsListed` |
| `SerialFinishedWasVerified` | `CaseSpec => []SerialFinishedIsVerifiedNow` |
| `SerialSubmissionsAreListed` | `CaseSpec => []SerialPendingIsListed` |
| `SerialDelayedWereIncomplete` | `CaseSpec => []SerialDelayedWasIncomplete` |

- *Types*. `TypeOK` is not inductive: a slot at `status.write` must hold a status
  as its goal. The invariant is `RowsOK /\ SlotsOK`, rows and slots apart, so
  that each handler step is a lemma about the slot it puts (`GotoType`,
  `RereadType`, …). The other modules are laid out the same way.
- *Seats in order*. A stale copy may be older than the row, so the row alone
  carries too little: the invariant says it of the row and of every copy held.
  A signature is added only to a seat that its copy shows as unlocked
  (`SigningKeepsOrder`); every other step copies or keeps.
- *Approved with signatures*. Needs that the copies from which signatures are
  written were SUBMITTED rows, and that a request about to endorse a chain found
  it complete, which without resubmission cannot happen.
- *One at a time*. `OneByOne`: one slot at most is taken, and what it has decided
  is still so of the row (`Holds`); an APPROVED order has a complete chain. A
  step puts one slot while the others are idle, so the lemmas `AcceptHolds` and
  `ContinueHolds` speak of that slot only. The unconditional write that follows
  a check is then the abstract step, failures and restarts included.
- *Task after KPI*. Slots past `RecordKpi` imply `kpiAt`, which no step clears.
- *Visits*. Step simulation: `WriteVisit` is a `Start`, an `End` or a stutter.
- *Bounds*. A budget argument: locations (linked tickets) plus the requests
  about to insert one never exceed the cap plus slots minus one (slots plus
  failed look-ups), because a request joins the inserters only while it sees
  room (no ticket).
- *Composition*. Each step of `LinkedRfp` is a step of `TravelOrder` or leaves
  its variables alone, so that everything proved of the order holds with the
  payment request in place.
- *Chains signed*. Saves overwrite one another, so nothing can be said of what
  the meta was before. But every copy is by itself a paper that could be on
  file, and every operation makes such a paper of such a paper. `SignedInv` and
  `PapersInv` say it of the file and of all copies; for the mode of payment they
  add that a row a request has seen with a mode still has one.
- *Implements the chain*. `BehindInv`: no copy is ahead of the file or differs in
  its skips. A conditional save whose expected step is the file's is therefore a
  step of the chain from where the file is, or a stutter.
- *Authorities*. `AuthorityInv`: what an Authority has signed is exactly what
  comes before its step (`Exact`), and no request changes its type, seats or
  skips (`Alike`). A copy read at the step the file is at is therefore the file
  itself, and the save that finds its step is the next signature.
- *Closed is rated*. `RatedInv`: a ticket is CLOSED only with a rating, the same
  of every row a request has seen, and a request about to close has rated.
- *Queue*. `TrueInv`: an answer "ok" is about something the server has, and so is
  a draft that is called synced. That a row with an identifier is about one
  operation, even when a deleted row is put back by another tab (`IdsOK` in the
  types), makes the deletion of a row by identifier the deletion of what was
  sent.
- *Nothing shown is lost*. `KeptInv`: what any tab shows or keeps is `Safe`
  (applied, queued or underway), and so is every answer a caller has got. A reload
  replaces an overlay only by what the server sent, so that two tabs may
  overwrite each other's.
- *Created once*. `SoloInv` of `OfflineProofs`: what is to be created is in one
  place at a time (a draft, the page, a row of the queue, the drafts a flush is
  about to queue again), and in none once it is created, except until the answer
  is dealt with (`Once`, `Single`); the flush works through rows of the queue
  (`OwnRows`). `CreatedOnce` alone would not exclude that a flush queues a draft
  again whose request has just been answered.
- *Incomplete work is held*. The conditional update compares
  `lastFullCompletionAt`, not the checklist. `CopiesOK` says that this is
  enough: a complete copy whose completion time is the row's shows that the row
  is complete, and a verified card has a completion time. Every write that
  changes the checklist or the card clears the time or sets one that no request
  remembers (`TimesAssumption`). This fails on the segment board, where a column
  move may keep the time; there, requests one after the other, the property is
  only model-checked.
- *One request at a time, tasks*. `SoloInv`: the copy a request holds is the row,
  cycle for cycle, until it writes, so that what it writes is verified in the
  cycle of the row. `DelayInv` adds where the records stand: no record of
  completion lies beyond the cycle, nor at the cycle itself unless the key has
  come up with it, and a request that is about to record has seen the checklist
  it records; a card that a reset marks incomplete therefore never stands before
  a record of completion.
- *One request at a time, the records of a travel order*. `RecordsInv`: what a
  request between two of its statements knows of the KPI (`Recording`) bridges the
  moments in which order and task disagree; a mirrored row was written with the
  KPI on it.
- *One request at a time, tickets*. `DeskInv`: the row is as the request read it
  until the row is written, so that its checks still hold then (`Admitted`);
  what may enter work and what reopens a closed ticket is then read off each
  write of the row (`StaffStep`).
  `HandInv`: between the two writes of an operation the one that is done accounts
  for the other (`InHand`), with a crash between them too, because the order of
  the two writes is the right one for each operation. Custody is then a step
  simulation: only a write of the row is a step of it.
- *One request at a time, chains*. `PlacedInv` of `PaymentProofs` and
  `ProceduralProofs`: copies are the row and the meta as they are (`Current`), and
  between the save of the meta and the write of the row the request knows whom the
  ticket will be with. The board writes the ticket first; what it refuses after
  that is harmless where the seat is free or is the one it was asked for
  (`Refusable` is what the case leaves out, see section 6). `Sound` carries what
  `ConfirmationIsGreenLit` needs to be inductive: an approved Job Order has its
  output, which no upload takes away again, and a fund transfer was prepared at
  intake, so that its page does not move its chain. In
  `ProceduralProofs` it also says that only a ticket of a type that supports
  transfers has one pending, and `Placed` leaves the ticket of such a type where
  a transfer took it until it is placed again (`Loan`).
- *One request at a time, the linked payment request*. `ReleasedInTime`: on an
  approved order the payment request is held only while the request that approved
  it is still at work; and the flag that a retry or an edit is about to write back
  is the one on the ticket (`InHand`).

**Only model-checked**: the liveness properties (`VisitKpiReachesTask`,
`VisitConfirmationReachesMirror`, `FaultyReachesConfirmation`, `LinkReviewCloses`,
`LossyQueuedIsApplied`, `ClosedPendingIsCreated`, `FaultyStaleIsClosed`): fairness
and ENABLED are out of reach of the prover used. No recursive operator is used,
so nothing is left to induction over data.

## 5. Not modelled, and the plan

In the order in which it would add most:

1. *Linked payment request × payment approval.* `LinkedRfp` keeps one flag of
   the meta, `PaymentApproval` the whole meta with a release that comes from
   nowhere. Composed, the release's unconditional save would meet the clicks of
   Ticket controls on the ticket it releases.
2. *Creation and roll-back* (`field-assignment/route.ts`,
   `travel-order-db.ts:685`): an order whose INSERT of a location fails stays
   with fewer locations. It needs the insertion of an order as an action.
3. *Attachments of a location*: one JSON value, read before the files are stored
   and written after; the hazard is listed without a property.
4. *Other operations on recurring tasks*: sub-tasks that are added, removed or
   completed by screenshots and numbers, structured updates of the checklist,
   changes of the schedule, of the verifier and of the platform's setting, IT
   projects, one-off tasks, inverted recording, delay penalties. They share the
   protocol of `TaskBoard` (a whole checklist written back, a conditional
   reset); the calendar computations behind them are pure.
5. *Intake and request chat*, remarks, SLA clocks, board lanes and
   `reopenCount`: written along with the status and read for display.

Left out for good: pages and their layout, search, FAQ, efficiency aggregates,
the bulk synchronisation with HRIS and the merged database (idempotent copies
without a protocol), authentication, caches and rate limits, the generated
Prisma client, scripts. Most of the repository's lines are of this kind: pages
that draw what the routes answer, and queries that aggregate for display. The
routes and libraries that change shared state are a small part of it, and the
`map` is of them; a model of the others would have nothing to say that holds or
fails.

## 6. Disagreements seen while modelling, not checked by a run

Met while translating and read off the code; no run checks them. Lines are of
the ticket route unless a file is named.

Travel orders
- An agent who is the alternate of an optional seat and the holder of a later
  required one is refused until the optional seat is signed by its own holder:
  the first open level of either kind is picked (`lib/travel-order.ts:1138`),
  and then the holder is required (`lib/travel-order-db.ts:1518`). The comment
  at `lib/travel-order.ts:210` says that optional levels do not block.
- The percentage is recorded twice when submit-done and a confirmation overlap
  (`lib/travel-order-kpi-finalize.ts:28`).
- MySQL unreachable at a confirmation is logged
  (`lib/sync/travel-order-confirm-side-effects.ts:38`); since CONFIRMED cannot
  be confirmed again, the mirror never gets the order.

Payment requests
- One that is created after the approval of its Work Plan, by a retry after
  creation's own attempt failed softly, is held (`lib/travel-order-rfp.ts:217`)
  for a release that has run already, although its log says "Held until the Work
  Plan is fully approved." (241).
- Changing the Accounting seat keeps the former holder's Approved click (1617),
  while the comment at 1775 ties the click to the seat's holder.
- A manual assignment that the board refuses (manual-assignment route, 229 and
  245) has moved the ticket already (201).
- A request held for a travel order can be seated and signed from the board
  (manual-assignment route, 250), although
  `request-for-payment-approval.ts:62` says that it waits.
- A request that skips Noted By and defers its mode of payment can never
  complete (`request-for-payment-approval.ts`, 289 against 46).
- RESOLVED is not gated by the chain (549), For Confirmation is (547).

Recurring tasks (lines of `src/src/app/api/kpi-maintenance/route.ts`)
- A task that is completed before its period is over opens its next cycle under
  the next period's key; the next GET of the same period sets the key back
  (458–461), and progress of the new cycle then overwrites the record of the
  completed one, against "one efficiency point per recorded period"
  (`lib/kpi-period-snapshots.ts:431`).
- A reset leaves `VERIFIED` on what it unticks (`lib/kpi-subkpis.ts:1445`). A
  move to the Done column of the segment board ticks it again, and it counts as
  verified; the sub-task routes do not touch the card's status.
- An edit that arrives between a GET's read and its reset of a stale incomplete
  task is lost; one that was read before the reset and written after brings the
  ticks of the last cycle back (3305). A GET whose update finds the row moved
  has overwritten the record of the period (498) with what it had read.

Tickets
- A rating from the portal whose closing query failed is never completed: the
  second attempt finds the feedback and skips the closing (1404). The email's
  link does complete it (`LinkReviewCloses`).
- A ticket without an assignee that an Admin resolves and the requestor rejects
  by email is IN_PROGRESS and nobody's (the email page, 70, against 474). It
  stays so until the board or a decision on its transfer gives it to somebody.
- `approve_transfer` reads the log twice (1101 and 1209): when two Admins accept
  at once, the second puts the ticket into the queue.
- Cancelling reads the ticket before the activity and writes after
  (4204 and 4208), so that it crosses with an assignment; a pending transfer
  survives it (4202 and 4216). Accepting it gives the closed ticket to the
  colleague; where it names none, an Admin who accepts it reopens the ticket.
- A verification counts for a later resolution of the same ticket (1355). A
  rejection on the portal writes the row and then the log (1441 and 1450): when
  the process stops in between, the former verification stays in force and the
  ticket, resolved again, is closed on it, against "Tickets can only be fully
  closed after requestor verification".
- A transfer may be requested of a closed ticket (931). The manual assignment
  does not look at whether a ticket is closed either: it assigns it and leaves
  the status, unless that is ESCALATED (its route, 201–206).

Requisitions, fund transfers and job orders
- Opening the page of an approved and done Job Order that awaits confirmation
  puts it back to IN_PROGRESS (`lib/job-order-approval-db.ts:126`, called from
  `src/src/app/agent/tickets/[id]/page.tsx:267` and
  `src/src/app/agent/page.tsx:666`), against `lib/job-order-approval.ts:359`.
- An undo of the canvass decided from an old copy overwrites a completed
  Approved By (2493–2518, against `lib/item-requisition-approval.ts:164`).
- The For Confirmation move signs the canvass without prices.
- A transfer of a requisition or an Authority hands the ticket on and leaves the
  seat (931–1343), although the comment at `lib/request-types.ts:106` says that
  procedural types use approval chains instead. Whoever accepts a requisition
  signs in place of the seat's holder; whoever accepts an Authority cannot sign
  it (only the holder of the seat who also has the ticket can), so that it
  stands until it is given back by another transfer or by the board. A transfer
  that is pending outlives a move of the chain and can be decided afterwards.
- Setting the seats of a finished requisition or fund transfer clears the
  ticket's assignee; viewing a fund transfer advances Prepared By without moving
  the ticket.
- Two uploads at once overwrite each other's list; a reconciliation racing with
  the assignment of an execution restores the former worker.

Offline
- Discard deletes the draft row only (`removeDraftTravelOrder`,
  `kpi-kanban-flow.tsx:2298`); a queued creation is still sent, while the button
  (6278) says that the draft is removed.
- The comment "Idempotent / coalesced." (`lib/offline/travel-order-sync.ts:342`)
  is true of the client only: after a lost answer, after the 45 seconds of
  `fetch`, from two tabs, or when the reload races with the enqueueing, a
  creation is applied twice.
- A Start or End whose answer was lost is refused for ever (409) and stays in
  the queue as failed.
- The token `baseUpdatedAt` is stored and never sent.
- An answered operation removes the overlay of its order, later captures
  included (`travel-order-sync.ts:253`), until they are sent.
- A tab closed between showing a capture and queueing it shows it for ever and
  never sends it.
- An autosave from a second tab can set a queued draft back
  (`lib/offline/offline-db.ts:221`).
