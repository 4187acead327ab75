------------------------- MODULE OfflineProperties -------------------------
(***************************************************************************)
(* What is asked of OfflineQueue.  "One at a time": one tab, and it sends  *)
(* the queue while nothing is entered.  "Always": tabs, pages and flushes  *)
(* interleave, and requests and replies are lost.                          *)
(***************************************************************************)
EXTENDS OfflineQueue

Request == [pc    : {"none", "sent", "checked", "ok", "refused", "lost"},
            what  : {None} \union Operations,
            reply : SUBSET Captures]

PageState == [pc   : {"idle", "closed", "posting", "kept"},
              what : {None} \union Operations,
              view : SUBSET Captures]

FlushState ==
  [pc : {"idle", "ops", "requeue", "next", "send", "await", "failed"},
   todo : SUBSET Drafts, list : SUBSET PendingOp,
   op : {None} \union PendingOp, got : BOOLEAN]

Cached == [order : SUBSET Captures, overlay : {None} \union SUBSET Captures]

HasOp(t) == flush[t].pc \in {"send", "await", "failed"}

\* The copies of rows a flush has, and all rows and copies.
Copies(t) == flush[t].list \union (IF HasOp(t) THEN {flush[t].op} ELSE {})

Known == queue \union UNION {Copies(t) : t \in Tabs}

\* What tabs do, and have sent, is about an operation, and about the same one.
TabFits(t) ==
  /\ HasOp(t) => flush[t].op \in PendingOp
  /\ At(t, "await") => /\ call[<<t, "flush">>].pc # "none"
                       /\ call[<<t, "flush">>].what = flush[t].op.what
  /\ page[t].pc \in {"posting", "kept"} => page[t].what \in Operations
  /\ page[t].pc = "posting" => /\ call[<<t, "page">>].pc # "none"
                               /\ call[<<t, "page">>].what = page[t].what

\* Variables are what the components put there; rows and their copies with one
\* identifier are of one operation, even if a deleted row is put back.
OfflineTypeOK ==
  /\ online \in BOOLEAN /\ used \in 0..MaxOps
  /\ queue \subseteq PendingOp
  /\ draft \in [Drafts -> Rows \union {"new", "synced", "gone"}]
  /\ cache \in Cached
  /\ server \in Server
  /\ call \in [Callers -> Request]
  /\ page \in [Tabs -> PageState] /\ flush \in [Tabs -> FlushState]
  /\ \A c \in Callers : call[c].pc # "none" => call[c].what \in Operations
  /\ \A t \in Tabs : TabFits(t)
  /\ \A a, b \in Known : a.id = b.id => a = b
  /\ \A a \in Known : a.id <= used

\* The server has it.
Applied(what) ==
  IF what \in Visits THEN what \in server.visits ELSE server.made[Of(what)] > 0

-----------------------------------------------------------------------------
(* One at a time *)

\* An order, or a location, that was entered once is created once.
CreatedOnce == \A x \in Drafts \union Adds : server.made[x] <= 1

-----------------------------------------------------------------------------
(* Always *)

\* No two tabs, no late and no lost answer take from the queue what the server
\* does not have, nor call a draft synced that it does not have.
LeavesOnlyApplied ==
  [][/\ \A op \in queue \ queue' : Applied(op.what)
     /\ \A d \in Drafts : draft'[d] = "synced" => Applied(<<"create", d>>)]_vars

Underway(what) == \E t \in Tabs : page[t].pc = "kept" /\ page[t].what = what

\* A visit or a location that is shown, or that is kept to be shown, is on the
\* server or will be sent to it, whatever is reloaded over it and however the
\* overlays of two tabs replace each other.
ShownIsKept ==
  \A what \in cache.order \union mergeOverlay
                \union UNION {Shown(t) : t \in Tabs} :
    Applied(what) \/ Queued(what) \/ Underway(what)

-----------------------------------------------------------------------------
(* Eventually *)

\* A tab and the server go on with what they have begun, and the queue is sent
\* again and again when there is a connection: by Retry sync, when the browser
\* goes online, when the list of orders is opened.
TabFairness(t) ==
  /\ WF_vars(PageGoesOn(t)) /\ WF_vars(FlushGoesOn(t)) /\ SF_vars(Flush(t))
  /\ WF_vars(NetworkGoesOn(<<t, "page">>))
  /\ WF_vars(NetworkGoesOn(<<t, "flush">>))

\* No tab is without a connection for ever.
Reconnects == []<>online

\* Connections stop failing, and tabs are left open.
FaultsEnd ==
  <>[][(\A c \in Callers : ~Loss(c)) /\ (\A t \in Tabs : ~Close(t))]_vars

\* What was queued is applied, although operations before it may be refused for
\* ever.
QueuedIsApplied ==
  \A what \in Operations : Queued(what) ~> Applied(what)

\* "Saved offline — will sync when online": an order whose draft is pending is
\* created, also if the tab was closed before the operation was queued.
PendingIsCreated ==
  \A d \in Drafts :
    draft[d] = "pending" ~> (Applied(<<"create", d>>) \/ draft[d] = "gone")

=============================================================================
