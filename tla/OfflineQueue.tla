---------------------------- MODULE OfflineQueue ----------------------------
(***************************************************************************)
(* Travel orders without a connection: lib/offline/travel-order-sync and   *)
(* travel-order-offline-db, with the two components that use them, the     *)
(* form for a new order and the panel where visits are captured.           *)
(*                                                                         *)
(* What cannot be sent is put into a queue in the browser's database,      *)
(* which all tabs share, and each tab sends the queue by itself: it lists  *)
(* what waits, and sends one operation after the other.  Nothing is a      *)
(* transaction, requests and replies are lost, tabs are closed.            *)
(*                                                                         *)
(* One order that is approved and stays so, whose visits are captured, and *)
(* drafts of new ones.  Of an operation it is kept what it is about, and   *)
(* whether the server has it, not its text, its time or its attempts.      *)
(***************************************************************************)
EXTENDS Naturals, FiniteSets

CONSTANTS
  Tabs,
  Drafts,   \* local identifiers of new orders
  Places,   \* locations of the approved order
  Adds,     \* client identifiers of the locations added to it
  None,     \* null, and undefined
  Entries,  \* bound: people enter no more once that much has been queued
  MaxOps,   \* bound: so much is queued at all, by people and by flushes
  Faults    \* what may go wrong

\* Identifiers made by a client are never the same.
ASSUME OfflineAssumption ==
  Entries \in Nat /\ MaxOps \in Nat /\ Drafts \intersect Adds = {}

Creates == {<<"create", d>> : d \in Drafts}
Visits == {<<kind, p>> : kind \in {"start", "end"}, p \in Places}
Extras == {<<"add", a>> : a \in Adds}

\* What is captured on the panel of an order.
Captures == Visits \union Extras

Operations == Creates \union Captures

\* The columns of pendingOps that matter; id: createdAt, by which it is sorted.
PendingOp == [id : 1..MaxOps, what : Operations]

Callers == Tabs \X {"page", "flush"}

VARIABLES
  online,  \* what isBrowserOnline says, or the probe after it
  queue,   \* pendingOps, those that are pending or failed
  used,    \* how many identifiers were given
  draft,   \* the drafts, by the column syncStatus; new and gone: no row
  cache,   \* the row of the order in travelOrders
  server,  \* what the server has stored
  call,    \* the request each caller has sent last
  page,    \* a tab's form and panel
  flush    \* its flushPromise

vars == <<online, queue, used, draft, cache, server, call, page, flush>>

\* made: how often a POST was carried out: never, once, more than once.
Server == [visits : SUBSET Visits, made : [Drafts \union Adds -> 0..2]]

\* The order as the server sends it.
Sent == server.visits
          \union {<<"add", a>> : a \in {b \in Adds : server.made[b] > 0}}

NoCall == [pc |-> "none", what |-> None, reply |-> {}]

IdlePage(view) == [pc |-> "idle", what |-> None, view |-> view]

IdleFlush ==
  [pc |-> "idle", todo |-> {}, list |-> {}, op |-> None, got |-> FALSE]

\* The order is cached and shown as the server had it.
Init ==
  /\ online \in BOOLEAN
  /\ queue = {} /\ used = 0
  /\ draft = [d \in Drafts |-> "new"]
  /\ server = [visits |-> {}, made |-> [x \in Drafts \union Adds |-> 0]]
  /\ cache = [order |-> {}, overlay |-> None]
  /\ call = [c \in Callers |-> NoCall]
  /\ page = [t \in Tabs |-> IdlePage({})]
  /\ flush = [t \in Tabs |-> IdleFlush]

-----------------------------------------------------------------------------
(* The database of the browser *)

Enqueue(what) ==
  /\ used < MaxOps
  /\ queue' = queue \union {[id |-> used + 1, what |-> what]}
  /\ used' = used + 1

mergeOverlay == IF cache.overlay = None THEN cache.order ELSE cache.overlay

\* applyLocalTravelOrderOverlay and upsertCachedTravelOrder of what is shown.
ShowLocally(shown) == cache' = [order |-> shown, overlay |-> shown]

-----------------------------------------------------------------------------
(* The network and the server *)

Send(c, what) ==
  /\ call[c].pc = "none"
  /\ call' = [call EXCEPT ![c] = [pc |-> "sent", what |-> what, reply |-> {}]]

Hang(c) == call' = [call EXCEPT ![c] = NoCall]

Kind(what) == what[1]
Of(what) == what[2]

\* PATCH .../locations/:id: a visit starts once, and ends once after that.
Acceptable(what) ==
  CASE Kind(what) = "start" -> what \notin server.visits
    [] Kind(what) = "end"   -> /\ what \notin server.visits
                               /\ <<"start", Of(what)>> \in server.visits
    [] OTHER                -> TRUE

ServerChecks(c) ==
  /\ call[c].pc = "sent"
  /\ call' = [call EXCEPT ![c].pc = IF Acceptable(call[c].what) THEN "checked"
                                    ELSE "refused"]
  /\ UNCHANGED <<online, queue, used, draft, cache, server, page, flush>>

Stored(what) ==
  IF what \in Visits
  THEN [server EXCEPT !.visits = @ \union {what}]
  ELSE [server EXCEPT !.made[Of(what)] = IF @ = 0 THEN 1 ELSE 2]

\* The reply has the order as it is then.
ServerStores(c) ==
  /\ call[c].pc = "checked"
  /\ server' = Stored(call[c].what)
  /\ call' = [call EXCEPT ![c].pc = "ok", ![c].reply = Sent']
  /\ UNCHANGED <<online, queue, used, draft, cache, page, flush>>

\* The request does not arrive, or the reply does not.
Loss(c) ==
  /\ "loss" \in Faults
  /\ call[c].pc \in {"sent", "ok", "refused"}
  /\ call' = [call EXCEPT ![c].pc = "lost"]
  /\ UNCHANGED <<online, queue, used, draft, cache, server, page, flush>>

Link ==
  /\ online' = ~online
  /\ UNCHANGED <<queue, used, draft, cache, server, call, page, flush>>

-----------------------------------------------------------------------------
(* The page: TravelOrderRequestModal and TravelOrderSummaryPanel.  Sends at *)
(* once when the browser is online.  When it is not, or when the request    *)
(* fails, what was entered is stored and shown, and then queued.            *)

Shown(t) == page[t].view

\* saveDraftLocal, by hand or by itself.
SaveDraft(t, d) ==
  /\ page[t].pc = "idle" /\ draft[d] = "new"
  /\ draft' = [draft EXCEPT ![d] = "draft"]
  /\ UNCHANGED <<online, queue, used, cache, server, call, page, flush>>

Queued(what) == \E op \in queue : op.what = what

\* A location is entered once; if it is entered again, it is another one.
NotEntered(a) ==
  /\ server.made[a] = 0 /\ ~Queued(<<"add", a>>)
  /\ \A c \in Callers : call[c].what # <<"add", a>>
  /\ \A t \in Tabs : page[t].what # <<"add", a>>

\* The buttons follow what is shown.
Offered(t) ==
  {<<"create", d>> : d \in {e \in Drafts : draft[e] \in {"new", "draft"}}}
    \union {<<"start", p>> : p \in Places}
    \union {<<"end", p>> : p \in {q \in Places : <<"start", q>> \in Shown(t)}}
    \union {<<"add", a>> : a \in {b \in Adds : NotEntered(b)}}

Post(t, what) ==
  /\ page[t].pc = "idle" /\ what \in Offered(t) \ Shown(t)
  /\ online
  /\ Send(<<t, "page">>, what)
  /\ page' = [page EXCEPT ![t].pc = "posting", ![t].what = what]
  /\ UNCHANGED <<online, queue, used, draft, cache, server, flush>>

\* queueFieldAssignmentCreate saves the draft; patchLocationOffline and
\* addLocationOffline show the order as it will be.
Keep(t, what) ==
  /\ page' = [page EXCEPT
       ![t] = [pc   |-> "kept", what |-> what,
               view |-> IF what \in Captures THEN @.view \union {what}
                        ELSE @.view]]
  /\ IF what \in Captures
     THEN ShowLocally(Shown(t) \union {what}) /\ UNCHANGED draft
     ELSE draft' = [draft EXCEPT ![Of(what)] = "pending"] /\ UNCHANGED cache

EnterOffline(t, what) ==
  /\ page[t].pc = "idle" /\ what \in Offered(t) \ Shown(t)
  /\ ~online /\ used < Entries
  /\ Keep(t, what)
  /\ UNCHANGED <<online, queue, used, server, call, flush>>

PostFails(t) ==
  /\ page[t].pc = "posting" /\ used < Entries
  /\ call[<<t, "page">>].pc = "lost"
  /\ Hang(<<t, "page">>)
  /\ Keep(t, page[t].what)
  /\ UNCHANGED <<online, queue, used, server, flush>>

\* The same if nothing has come within the time that is given.
PostTimesOut(t) ==
  /\ "late" \in Faults
  /\ page[t].pc = "posting" /\ used < Entries
  /\ call[<<t, "page">>].pc \in {"sent", "checked"}
  /\ Keep(t, page[t].what)
  /\ UNCHANGED <<online, queue, used, server, call, flush>>

\* Mutant: what is stored and shown is not queued if the browser is online.
QueueKeptOffline(t) ==
  /\ page[t].pc = "kept"
  /\ IF online THEN UNCHANGED <<queue, used>> ELSE Enqueue(page[t].what)
  /\ page' = [page EXCEPT ![t] = IdlePage(Shown(t))]
  /\ UNCHANGED <<online, draft, cache, server, call, flush>>

QueueKept(t) ==
  /\ page[t].pc = "kept"
  /\ Enqueue(page[t].what)
  /\ page' = [page EXCEPT ![t] = IdlePage(Shown(t))]
  /\ UNCHANGED <<online, draft, cache, server, call, flush>>

\* The draft of an order that was created is deleted; an overlay stays.
PostAnswered(t) ==
  LET c == <<t, "page">>
  IN  /\ page[t].pc = "posting" /\ call[c].pc \in {"ok", "refused"}
      /\ Hang(c)
      /\ IF call[c].pc = "refused"
         THEN page' = [page EXCEPT ![t] = IdlePage(Shown(t))]
              /\ UNCHANGED <<draft, cache>>
         ELSE IF page[t].what \in Captures
         THEN /\ page' = [page EXCEPT ![t] = IdlePage(call[c].reply)]
              /\ cache' = [cache EXCEPT !.order = call[c].reply]
              /\ UNCHANGED draft
         ELSE /\ page' = [page EXCEPT ![t] = IdlePage(Shown(t))]
              /\ draft' = [draft EXCEPT ![Of(page[t].what)] = "gone"]
              /\ UNCHANGED cache
      /\ UNCHANGED <<online, queue, used, server, flush>>

\* cacheTravelOrders clears every overlay.  What is cached is shown if the
\* server cannot be asked.
Reload(t) ==
  /\ page[t].pc \in {"idle", "closed"}
  /\ \/ /\ online
        /\ cache' = [order |-> Sent, overlay |-> None]
        /\ page' = [page EXCEPT ![t] = IdlePage(Sent)]
     \/ /\ ~online \/ "loss" \in Faults
        /\ page' = [page EXCEPT ![t] = IdlePage(mergeOverlay)]
        /\ UNCHANGED cache
  /\ UNCHANGED <<online, queue, used, draft, server, call, flush>>

\* The drafts that have a row which was not created yet.
Rows == {"draft", "pending"}

\* Discard, or Remove draft, on the list of orders: its row, nothing else.
Discard(d) ==
  /\ draft[d] \in Rows
  /\ draft' = [draft EXCEPT ![d] = "gone"]
  /\ UNCHANGED <<online, queue, used, cache, server, call, page, flush>>

-----------------------------------------------------------------------------
(* A tab sends the queue: flushTravelOrderPendingQueue *)

At(t, pc) == flush[t].pc = pc

FlushAt(t, pc) == flush' = [flush EXCEPT ![t].pc = pc]

\* Goes on to what is left of a list.
FlushList(t, list) ==
  flush' = [flush EXCEPT ![t] = [IdleFlush EXCEPT !.pc = "next", !.list = list]]

\* One of a tab at a time; nothing keeps two tabs apart.
Flush(t) ==
  /\ At(t, "idle") /\ online
  /\ flush' = [flush EXCEPT ![t].pc = "ops",
                            ![t].todo = {d \in Drafts : draft[d] = "pending"}]
  /\ UNCHANGED <<online, queue, used, draft, cache, server, call, page>>

\* Mutant: the queue is not looked at before drafts are queued again.
ReadOpsIgnored(t) ==
  /\ At(t, "ops")
  /\ FlushAt(t, "requeue")
  /\ UNCHANGED <<online, queue, used, draft, cache, server, call, page>>

\* The drafts were read before the queue is.
ReadOps(t) ==
  /\ At(t, "ops")
  /\ flush' = [flush EXCEPT ![t].pc = "requeue",
                            ![t].todo = {d \in @ : ~Queued(<<"create", d>>)}]
  /\ UNCHANGED <<online, queue, used, draft, cache, server, call, page>>

\* Mutant: a draft whose creation is not queued is left.
RequeueNothing(t) ==
  /\ At(t, "requeue")
  /\ FlushList(t, queue)
  /\ UNCHANGED <<online, queue, used, draft, cache, server, call, page>>

Requeue(t) ==
  /\ At(t, "requeue")
  /\ \/ /\ \E d \in flush[t].todo :
             /\ Enqueue(<<"create", d>>)
             /\ flush' = [flush EXCEPT ![t].todo = @ \ {d}]
     \/ /\ flush[t].todo = {}
        /\ FlushList(t, queue)
        /\ UNCHANGED <<queue, used>>
  /\ UNCHANGED <<online, draft, cache, server, call, page>>

\* The oldest that is left of the list; markPendingOp looks for its row.
TakeNext(t) ==
  /\ At(t, "next")
  /\ IF flush[t].list = {} THEN flush' = [flush EXCEPT ![t] = IdleFlush]
     ELSE \E op \in flush[t].list :
            /\ \A o \in flush[t].list : op.id <= o.id
            /\ flush' = [flush EXCEPT ![t].pc = "send", ![t].op = op,
                                      ![t].list = @ \ {op},
                                      ![t].got = op \in queue]
  /\ UNCHANGED <<online, queue, used, draft, cache, server, call, page>>

\* Puts the row that was found, and sends the operation found or not.
SendNext(t) ==
  /\ At(t, "send")
  /\ queue' = IF flush[t].got THEN queue \union {flush[t].op} ELSE queue
  /\ Send(<<t, "flush">>, flush[t].op.what)
  /\ FlushAt(t, "await")
  /\ UNCHANGED <<online, used, draft, cache, server, page>>

\* Mutant: an operation that the server refuses leaves the queue.
SettlesAny(reply) == reply \in {"ok", "refused"}

Settles(reply) == reply = "ok"

\* The draft is synced, the overlay cleared, the row deleted.
Settle(t) ==
  LET c == <<t, "flush">>
      what == flush[t].op.what
  IN  /\ At(t, "await") /\ Settles(call[c].pc)
      /\ Hang(c)
      /\ draft' = [d \in Drafts |->
                     IF what = <<"create", d>> /\ draft[d] \in Rows
                     THEN "synced" ELSE draft[d]]
      /\ cache' = IF what \in Captures
                  THEN [order |-> call[c].reply, overlay |-> None] ELSE cache
      /\ queue' = queue \ {flush[t].op}
      /\ FlushList(t, flush[t].list)
      /\ UNCHANGED <<online, used, server, page>>

SendFails(t) ==
  LET c == <<t, "flush">>
  IN  /\ At(t, "await") /\ call[c].pc \in {"refused", "lost"}
      /\ Hang(c)
      /\ flush' = [flush EXCEPT ![t].pc = "failed",
                                ![t].got = flush[t].op \in queue]
      /\ UNCHANGED <<online, queue, used, draft, cache, server, page>>

\* Mutant: what comes after one that fails is left for later.
MarkFailedStops(t) ==
  /\ At(t, "failed")
  /\ queue' = IF flush[t].got THEN queue \union {flush[t].op} ELSE queue
  /\ flush' = [flush EXCEPT ![t] = IdleFlush]
  /\ UNCHANGED <<online, used, draft, cache, server, call, page>>

\* The row that was found is put back as failed; then the next one.
MarkFailed(t) ==
  /\ At(t, "failed")
  /\ queue' = IF flush[t].got THEN queue \union {flush[t].op} ELSE queue
  /\ FlushList(t, flush[t].list)
  /\ UNCHANGED <<online, used, draft, cache, server, call, page>>

\* The tab is closed, or reloaded; what it has sent may still arrive.
Close(t) ==
  /\ "close" \in Faults /\ page[t].pc # "closed"
  /\ page' = [page EXCEPT ![t] = [IdlePage({}) EXCEPT !.pc = "closed"]]
  /\ flush' = [flush EXCEPT ![t] = IdleFlush]
  /\ UNCHANGED <<online, queue, used, draft, cache, server, call>>

\* An answer nobody waits for any more.  Until it is there, or lost, this
\* caller sends nothing else.
Forgotten(c) ==
  /\ call[c].pc \in {"ok", "refused", "lost"}
  /\ IF c[2] = "page" THEN page[c[1]].pc # "posting" ELSE ~At(c[1], "await")
  /\ Hang(c)
  /\ UNCHANGED <<online, queue, used, draft, cache, server, page, flush>>

-----------------------------------------------------------------------------
(* The system *)

EnterSomething(t) ==
  \/ \E d \in Drafts : SaveDraft(t, d)
  \/ \E what \in Operations : Post(t, what) \/ EnterOffline(t, what)

PageGoesOn(t) == PostFails(t) \/ QueueKept(t) \/ PostAnswered(t)

FlushGoesOn(t) ==
  \/ ReadOps(t) \/ Requeue(t) \/ TakeNext(t) \/ SendNext(t)
  \/ Settle(t) \/ SendFails(t) \/ MarkFailed(t)

NetworkGoesOn(c) == ServerChecks(c) \/ ServerStores(c) \/ Forgotten(c)

Next ==
  \/ Link \/ \E d \in Drafts : Discard(d)
  \/ \E t \in Tabs : EnterSomething(t) \/ Reload(t) \/ PageGoesOn(t)
  \/ \E t \in Tabs : PostTimesOut(t) \/ Close(t)
  \/ \E t \in Tabs : Flush(t) \/ FlushGoesOn(t)
  \/ \E c \in Callers : NetworkGoesOn(c) \/ Loss(c)

Spec == Init /\ [][Next]_vars

=============================================================================
