--------------------------- MODULE OfflineProofs ---------------------------
(***************************************************************************)
(* Proofs about OfflineQueue, for any number of tabs: the type invariant,  *)
(* with the identifiers of rows and their copies; that nothing leaves the  *)
(* queue before the server has it; that nothing that is shown is lost.     *)
(* And of one tab by itself that it creates everything once.               *)
(***************************************************************************)
EXTENDS MCOffline, TLAPS

-----------------------------------------------------------------------------
(* The parts of the type invariant *)

RowsOK ==
  /\ online \in BOOLEAN /\ used \in 0..MaxOps
  /\ queue \subseteq PendingOp
  /\ draft \in [Drafts -> Rows \union {"new", "synced", "gone"}]
  /\ cache \in Cached
  /\ server \in Server

ActorsOK ==
  /\ call \in [Callers -> Request]
  /\ page \in [Tabs -> PageState] /\ flush \in [Tabs -> FlushState]

CallsOK == \A c \in Callers : call[c].pc # "none" => call[c].what \in Operations

TabsOK == \A t \in Tabs : TabFits(t)

IdsOK ==
  /\ \A a, b \in Known : a.id = b.id => a = b
  /\ \A a \in Known : a.id <= used

LEMMA TypeParts ==
  OfflineTypeOK <=> RowsOK /\ ActorsOK /\ CallsOK /\ TabsOK /\ IdsOK
BY DEF OfflineTypeOK, RowsOK, ActorsOK, CallsOK, TabsOK, IdsOK

\* What the server sends is of the order.
LEMMA SentType == server \in Server => Sent \subseteq Captures
BY DEF Server, Sent, Captures, Extras

\* Kinds of operations do not mix.
LEMMA Kinds ==
  /\ \A d \in Drafts : <<"create", d>> \in Operations \ Captures
  /\ \A what \in Operations \ Captures :
       \E d \in Drafts : what = <<"create", d>> /\ Of(what) = d
  /\ \A what \in Operations \ Visits : Of(what) \in Drafts \union Adds
BY DEF Operations, Captures, Creates, Visits, Extras, Of

-----------------------------------------------------------------------------
(* Rows *)

LEMMA EnqueueType ==
  ASSUME OfflineTypeOK, NEW what \in Operations, Enqueue(what)
  PROVE  used' \in 0..MaxOps /\ queue' \subseteq PendingOp
<1> SUFFICES used + 1 \in 1..MaxOps
  BY DEF Enqueue, OfflineTypeOK, PendingOp
<1> QED BY OfflineAssumption DEF Enqueue, OfflineTypeOK

LEMMA StoredType ==
  ASSUME server \in Server, NEW what \in Operations, server' = Stored(what)
  PROVE  server' \in Server
<1>1. CASE what \in Visits
  BY <1>1 DEF Stored, Server
<1>2. CASE what \notin Visits
  <2> Of(what) \in Drafts \union Adds
    BY <1>2, Kinds
  <2> QED BY <1>2 DEF Stored, Server
<1> QED BY <1>1, <1>2

\* What a page keeps of an operation.
LEMMA KeepType ==
  ASSUME OfflineTypeOK, NEW t \in Tabs, NEW what \in Operations, Keep(t, what)
  PROVE  /\ page' \in [Tabs -> PageState]
         /\ draft' \in [Drafts -> Rows \union {"new", "synced", "gone"}]
         /\ cache' \in Cached
<1> USE DEF OfflineTypeOK
<1>1. page[t].view \subseteq Captures
  BY DEF PageState
<1>2. page' \in [Tabs -> PageState]
  BY <1>1 DEF Keep, PageState
<1>3. CASE what \in Captures
  BY <1>1, <1>2, <1>3 DEF Keep, ShowLocally, Shown, Cached
<1>4. CASE what \notin Captures
  BY <1>2, <1>4 DEF Keep, Rows
<1> QED BY <1>3, <1>4

LEMMA RowsPage ==
  ASSUME OfflineTypeOK, NEW t \in Tabs,
         EnterSomething(t) \/ Reload(t) \/ PageGoesOn(t) \/ PostTimesOut(t)
  PROVE  RowsOK'
<1> USE DEF OfflineTypeOK, RowsOK
<1>1. CASE \E d \in Drafts : SaveDraft(t, d)
  BY <1>1 DEF SaveDraft, Rows
<1>2. CASE \E what \in Operations : Post(t, what)
  BY <1>2 DEF Post
<1>3. CASE \E what \in Operations : EnterOffline(t, what)
  BY <1>3, KeepType DEF EnterOffline
<1>4. CASE Reload(t)
  BY <1>4, SentType DEF Reload, mergeOverlay, Cached
<1>5. CASE PostFails(t)
  <2> page[t].what \in Operations
    BY <1>5 DEF PostFails, TabFits
  <2> QED BY <1>5, KeepType DEF PostFails
<1>6. CASE PostTimesOut(t)
  <2> page[t].what \in Operations
    BY <1>6 DEF PostTimesOut, TabFits
  <2> QED BY <1>6, KeepType DEF PostTimesOut
<1>7. CASE QueueKept(t)
  <2> page[t].what \in Operations
    BY <1>7 DEF QueueKept, TabFits
  <2> QED BY <1>7, EnqueueType DEF QueueKept
<1>8. CASE PostAnswered(t)
  <2> call[<<t, "page">>].reply \subseteq Captures
    BY DEF Callers, Request
  <2> QED BY <1>8 DEF PostAnswered, Rows, Cached
<1> QED BY <1>1, <1>2, <1>3, <1>4, <1>5, <1>6, <1>7, <1>8
     DEF EnterSomething, PageGoesOn

LEMMA RowsFlush ==
  ASSUME OfflineTypeOK, NEW t \in Tabs, Flush(t) \/ FlushGoesOn(t) \/ Close(t)
  PROVE  RowsOK'
<1> USE DEF OfflineTypeOK, RowsOK
<1>1. CASE Flush(t) \/ ReadOps(t) \/ TakeNext(t) \/ SendFails(t) \/ Close(t)
  BY <1>1 DEF Flush, ReadOps, TakeNext, SendFails, Close
<1>2. CASE Requeue(t)
  <2>1. CASE \E d \in flush[t].todo : Enqueue(<<"create", d>>)
    <3> \A d \in flush[t].todo : <<"create", d>> \in Operations
      BY Kinds DEF FlushState
    <3> QED BY <1>2, <2>1, EnqueueType DEF Requeue
  <2> QED BY <1>2, <2>1 DEF Requeue
<1>3. CASE SendNext(t) \/ MarkFailed(t)
  BY <1>3 DEF SendNext, MarkFailed, At, TabFits, HasOp
<1>4. CASE Settle(t)
  <2> call[<<t, "flush">>].reply \subseteq Captures
    BY DEF Callers, Request
  <2> QED BY <1>4 DEF Settle, Rows, Cached
<1> QED BY <1>1, <1>2, <1>3, <1>4 DEF FlushGoesOn

LEMMA RowsElse ==
  ASSUME OfflineTypeOK,
         \/ Link \/ \E d \in Drafts : Discard(d)
         \/ \E c \in Callers : NetworkGoesOn(c) \/ Loss(c)
         \/ UNCHANGED vars
  PROVE  RowsOK'
<1> USE DEF OfflineTypeOK, RowsOK
<1>1. CASE Link \/ \E d \in Drafts : Discard(d)
  BY <1>1 DEF Link, Discard, Rows
<1>2. ASSUME NEW c \in Callers, ServerStores(c) PROVE RowsOK'
  <2> call[c].what \in Operations
    BY <1>2 DEF ServerStores
  <2> server' \in Server
    BY <1>2, StoredType DEF ServerStores
  <2> QED BY <1>2 DEF ServerStores
<1>3. CASE \E c \in Callers : ServerChecks(c) \/ Forgotten(c) \/ Loss(c)
  BY <1>3 DEF ServerChecks, Forgotten, Loss
<1>4. CASE UNCHANGED vars
  BY <1>4 DEF vars
<1> QED BY <1>1, <1>2, <1>3, <1>4 DEF NetworkGoesOn

-----------------------------------------------------------------------------
(* Requests, pages and flushes *)

LEMMA CallerPairs ==
  /\ \A t \in Tabs : <<t, "page">> \in Callers /\ <<t, "flush">> \in Callers
  /\ \A t, u : <<t, "page">> # <<u, "flush">>
  /\ \A t, u : <<t, "page">> = <<u, "page">> => t = u
  /\ \A t, u : <<t, "flush">> = <<u, "flush">> => t = u
BY DEF Callers

LEMMA SendType ==
  ASSUME ActorsOK, NEW c \in Callers, NEW what \in Operations, Send(c, what)
  PROVE  call' \in [Callers -> Request]
BY DEF ActorsOK, Send, Request

LEMMA HangType ==
  ASSUME ActorsOK, NEW c \in Callers, Hang(c)
  PROVE  call' \in [Callers -> Request]
BY DEF ActorsOK, Hang, NoCall, Request

LEMMA ListType ==
  ASSUME ActorsOK, NEW t \in Tabs, NEW list \in SUBSET PendingOp,
         FlushList(t, list)
  PROVE  flush' \in [Tabs -> FlushState]
BY DEF ActorsOK, FlushList, IdleFlush, FlushState

LEMMA ActorsPage ==
  ASSUME OfflineTypeOK, NEW t \in Tabs,
         EnterSomething(t) \/ Reload(t) \/ PageGoesOn(t) \/ PostTimesOut(t)
  PROVE  ActorsOK'
<1> ActorsOK /\ TabFits(t)
  BY TypeParts DEF TabsOK
<1> USE CallerPairs DEF ActorsOK
<1>0. page[t].view \subseteq Captures
  BY DEF PageState
<1>1. CASE \E d \in Drafts : SaveDraft(t, d)
  BY <1>1 DEF SaveDraft
<1>2. ASSUME NEW what \in Operations, Post(t, what) PROVE ActorsOK'
  <2>1. page' \in [Tabs -> PageState]
    <3> DEFINE posting == [page EXCEPT ![t].pc = "posting"]
    <3>1. posting \in [Tabs -> PageState]
      BY DEF PageState
    <3>2. page' = [posting EXCEPT ![t].what = what]
      BY <1>2 DEF Post
    <3> HIDE DEF posting
    <3> QED BY <3>1, <3>2 DEF PageState
  <2>2. call' \in [Callers -> Request]
    BY <1>2, SendType DEF Post
  <2> QED BY <1>2, <2>1, <2>2 DEF Post
<1>3. CASE \E what \in Operations : EnterOffline(t, what)
  BY <1>3, KeepType DEF EnterOffline
<1>4. CASE Reload(t)
  <2>1. Sent \subseteq Captures /\ mergeOverlay \subseteq Captures
    BY SentType DEF OfflineTypeOK, Cached, mergeOverlay
  <2>2. page' \in [Tabs -> PageState]
    BY <1>4, <2>1 DEF Reload, IdlePage, PageState
  <2> QED BY <1>4, <2>2 DEF Reload
<1>5. CASE PostFails(t)
  <2>1. page[t].what \in Operations
    BY <1>5 DEF PostFails, TabFits
  <2>2. call' \in [Callers -> Request]
    BY <1>5, HangType DEF PostFails
  <2> QED BY <1>5, <2>1, <2>2, KeepType DEF PostFails
<1>6. CASE PostTimesOut(t)
  <2>1. page[t].what \in Operations
    BY <1>6 DEF PostTimesOut, TabFits
  <2> QED BY <1>6, <2>1, KeepType DEF PostTimesOut
<1>7. CASE QueueKept(t)
  BY <1>0, <1>7 DEF QueueKept, IdlePage, Shown, PageState
<1>8. CASE PostAnswered(t)
  <2>1. call[<<t, "page">>].reply \subseteq Captures
    BY DEF Request
  <2>2. page' \in [Tabs -> PageState]
    BY <1>0, <1>8, <2>1 DEF PostAnswered, IdlePage, Shown, PageState
  <2>3. call' \in [Callers -> Request]
    BY <1>8, HangType DEF PostAnswered
  <2> QED BY <1>8, <2>2, <2>3 DEF PostAnswered
<1> QED BY <1>1, <1>2, <1>3, <1>4, <1>5, <1>6, <1>7, <1>8
     DEF EnterSomething, PageGoesOn

LEMMA ActorsFlush ==
  ASSUME OfflineTypeOK, NEW t \in Tabs, Flush(t) \/ FlushGoesOn(t) \/ Close(t)
  PROVE  ActorsOK'
<1> ActorsOK /\ TabFits(t)
  BY TypeParts DEF TabsOK
<1> queue \subseteq PendingOp
  BY DEF OfflineTypeOK
<1> USE CallerPairs DEF ActorsOK
<1>0. flush[t].list \subseteq PendingOp /\ flush[t].todo \subseteq Drafts
  BY DEF FlushState
<1> DEFINE Being(pc) == [flush EXCEPT ![t].pc = pc]
<1>1. CASE Flush(t)
  <2> flush' \in [Tabs -> FlushState]
    <3> DEFINE pending == {d \in Drafts : draft[d] = "pending"}
               opening == Being("ops")
    <3>1. opening \in [Tabs -> FlushState]
      BY DEF FlushState
    <3>2. flush' = [opening EXCEPT ![t].todo = pending]
      BY <1>1 DEF Flush
    <3>3. pending \subseteq Drafts
      OBVIOUS
    <3> HIDE DEF opening, pending
    <3> QED BY <3>1, <3>2, <3>3 DEF FlushState
  <2> QED BY <1>1 DEF Flush
<1>2. CASE ReadOps(t)
  <2> flush' \in [Tabs -> FlushState]
    <3> DEFINE left == {d \in flush[t].todo : ~Queued(<<"create", d>>)}
               asked == Being("requeue")
    <3>1. asked \in [Tabs -> FlushState] /\ asked[t].todo = flush[t].todo
      BY DEF FlushState
    <3>2. flush' = [asked EXCEPT ![t].todo = left]
      BY <1>2, <3>1 DEF ReadOps
    <3>3. left \subseteq Drafts
      BY <1>0
    <3> HIDE DEF asked, left
    <3> QED BY <3>1, <3>2, <3>3 DEF FlushState
  <2> QED BY <1>2 DEF ReadOps
<1>3. CASE Requeue(t)
  <2>1. ASSUME NEW d \in flush[t].todo,
               flush' = [flush EXCEPT ![t].todo = @ \ {d}]
        PROVE  flush' \in [Tabs -> FlushState]
    <3> DEFINE left == flush[t].todo \ {d}
    <3>1. left \subseteq Drafts
      BY <1>0
    <3>2. flush' = [flush EXCEPT ![t].todo = left]
      BY <2>1
    <3> HIDE DEF left
    <3> QED BY <3>1, <3>2 DEF FlushState
  <2> QED BY <1>3, <2>1, ListType DEF Requeue
<1>4. CASE TakeNext(t)
  <2>1. ASSUME NEW op \in flush[t].list,
               flush' = [flush EXCEPT ![t].pc = "send", ![t].op = op,
                                      ![t].list = @ \ {op},
                                      ![t].got = op \in queue]
        PROVE  flush' \in [Tabs -> FlushState]
    <3> DEFINE sending == Being("send")
               taken == [sending EXCEPT ![t].op = op]
               rest == [taken EXCEPT ![t].list = @ \ {op}]
    <3>1. sending \in [Tabs -> FlushState]
      BY DEF FlushState
    <3>2. taken \in [Tabs -> FlushState]
      <4> HIDE DEF sending
      <4> QED BY <1>0, <3>1 DEF FlushState
    <3>3. rest \in [Tabs -> FlushState]
      <4> DEFINE left == taken[t].list \ {op}
      <4>1. left \subseteq PendingOp
        <5> HIDE DEF taken
        <5> QED BY <3>2 DEF FlushState
      <4>2. rest = [taken EXCEPT ![t].list = left]
        OBVIOUS
      <4> HIDE DEF taken, rest, left
      <4> QED BY <3>2, <4>1, <4>2 DEF FlushState
    <3>4. flush' = [rest EXCEPT ![t].got = op \in queue]
      BY <2>1
    <3>5. (op \in queue) \in BOOLEAN
      OBVIOUS
    <3> HIDE DEF rest
    <3> QED BY <3>3, <3>4, <3>5 DEF FlushState
  <2>2. ASSUME flush' = [flush EXCEPT ![t] = IdleFlush]
        PROVE  flush' \in [Tabs -> FlushState]
    BY <2>2 DEF IdleFlush, FlushState
  <2> QED BY <1>4, <2>1, <2>2 DEF TakeNext
<1>5. CASE SendNext(t)
  <2>1. flush[t].op \in PendingOp
    BY <1>5 DEF SendNext, At, TabFits, HasOp
  <2>2. call' \in [Callers -> Request]
    BY <1>5, <2>1, SendType DEF SendNext, PendingOp
  <2>3. flush' \in [Tabs -> FlushState]
    <3>1. flush' = Being("await")
      BY <1>5 DEF SendNext, FlushAt
    <3> QED BY <3>1 DEF FlushState
  <2> QED BY <1>5, <2>2, <2>3 DEF SendNext
<1>6. CASE Settle(t)
  BY <1>0, <1>6, HangType, ListType DEF Settle
<1>7. CASE SendFails(t)
  <2> flush' \in [Tabs -> FlushState]
    <3> DEFINE failing == Being("failed")
    <3>1. failing \in [Tabs -> FlushState]
      BY DEF FlushState
    <3>2. flush' = [failing EXCEPT ![t].got = flush[t].op \in queue]
      BY <1>7 DEF SendFails
    <3>3. (flush[t].op \in queue) \in BOOLEAN
      OBVIOUS
    <3> HIDE DEF failing
    <3> QED BY <3>1, <3>2, <3>3 DEF FlushState
  <2> QED BY <1>7, HangType DEF SendFails
<1>8. CASE MarkFailed(t)
  BY <1>0, <1>8, ListType DEF MarkFailed
<1>9. CASE Close(t)
  <2>1. flush' \in [Tabs -> FlushState]
    BY <1>9 DEF Close, IdleFlush, FlushState
  <2>2. page' \in [Tabs -> PageState]
    BY <1>9 DEF Close, IdlePage, PageState
  <2> QED BY <1>9, <2>1, <2>2 DEF Close
<1> QED BY <1>1, <1>2, <1>3, <1>4, <1>5, <1>6, <1>7, <1>8, <1>9
     DEF FlushGoesOn

LEMMA ActorsElse ==
  ASSUME OfflineTypeOK,
         \/ Link \/ \E d \in Drafts : Discard(d)
         \/ \E c \in Callers : NetworkGoesOn(c) \/ Loss(c)
         \/ UNCHANGED vars
  PROVE  ActorsOK'
<1> ActorsOK /\ CallsOK
  BY TypeParts
<1> USE DEF ActorsOK
<1>1. CASE Link \/ (\E d \in Drafts : Discard(d)) \/ UNCHANGED vars
  BY <1>1 DEF Link, Discard, vars
<1>2. ASSUME NEW c \in Callers, ServerStores(c) PROVE ActorsOK'
  <2>1. call[c].what \in Operations
    BY <1>2 DEF ServerStores, CallsOK
  <2>2. Sent' \subseteq Captures
    <3> server' \in Server
      BY <1>2, <2>1, StoredType DEF ServerStores, OfflineTypeOK
    <3> QED BY DEF Server, Sent, Captures, Extras
  <2>3. call' \in [Callers -> Request]
    BY <1>2, <2>2 DEF ServerStores, Request
  <2> QED BY <1>2, <2>3 DEF ServerStores
<1>3. ASSUME NEW c \in Callers, ServerChecks(c) \/ Loss(c) PROVE ActorsOK'
  <2> call' \in [Callers -> Request]
    BY <1>3 DEF ServerChecks, Loss, Request
  <2> QED BY <1>3 DEF ServerChecks, Loss
<1>4. ASSUME NEW c \in Callers, Forgotten(c) PROVE ActorsOK'
  BY <1>4, HangType DEF Forgotten
<1> QED BY <1>1, <1>2, <1>3, <1>4 DEF NetworkGoesOn

-----------------------------------------------------------------------------
(* Operations that are in hand or underway *)

LEMMA CallsKept ==
  ASSUME OfflineTypeOK, NEW c \in Callers, NEW what \in Operations,
         Hang(c) \/ Send(c, what)
  PROVE  CallsOK'
BY DEF OfflineTypeOK, CallsOK, Hang, Send, NoCall

LEMMA CallsStep == OfflineTypeOK /\ [Next]_vars => CallsOK'
<1> SUFFICES ASSUME OfflineTypeOK, [Next]_vars PROVE CallsOK'
  OBVIOUS
<1> CallsOK /\ TabsOK
  BY TypeParts
<1> USE CallerPairs
<1>1. ASSUME NEW t \in Tabs, EnterSomething(t) \/ Reload(t) PROVE CallsOK'
  BY <1>1, CallsKept DEF CallsOK, EnterSomething, SaveDraft, Post, EnterOffline,
     Reload
<1>2. ASSUME NEW t \in Tabs, PageGoesOn(t) \/ PostTimesOut(t) PROVE CallsOK'
  <2>1. \A what : UNCHANGED call => CallsOK'
    BY DEF CallsOK
  <2>2. \A c \in Callers : Hang(c) => CallsOK'
    BY CallsKept, Kinds DEF CallsOK, Hang, NoCall
  <2> QED BY <1>2, <2>1, <2>2 DEF PageGoesOn, PostFails, PostTimesOut, QueueKept,
       PostAnswered
<1>3. ASSUME NEW t \in Tabs, Flush(t) \/ FlushGoesOn(t) \/ Close(t)
      PROVE  CallsOK'
  <2>1. SendNext(t) => CallsOK'
    <3> SendNext(t) => flush[t].op.what \in Operations
      BY DEF SendNext, At, TabsOK, TabFits, HasOp, PendingOp
    <3> QED BY CallsKept DEF SendNext
  <2>2. Settle(t) \/ SendFails(t) => CallsOK'
    BY DEF Settle, SendFails, CallsOK, Hang, NoCall, OfflineTypeOK
  <2> QED BY <1>3, <2>1, <2>2 DEF CallsOK, Flush, FlushGoesOn, ReadOps, Requeue,
       TakeNext, MarkFailed, Close
<1>4. ASSUME NEW c \in Callers, NetworkGoesOn(c) \/ Loss(c) PROVE CallsOK'
  <2>1. \/ call' = [call EXCEPT ![c] = NoCall]
        \/ /\ call[c].pc # "none" /\ call'[c].what = call[c].what
           /\ \A e \in Callers \ {c} : call'[e] = call[e]
    BY <1>4 DEF OfflineTypeOK, NetworkGoesOn, ServerChecks, ServerStores,
       Forgotten, Loss, Hang, Request
  <2> QED BY <2>1 DEF OfflineTypeOK, CallsOK, NoCall
<1>5. CASE Link \/ (\E d \in Drafts : Discard(d)) \/ UNCHANGED vars
  BY <1>5 DEF CallsOK, Link, Discard, vars
<1> QED BY <1>1, <1>2, <1>3, <1>4, <1>5 DEF Next

\* A tab that has no part in a step.
LEMMA OthersFit ==
  ASSUME NEW u \in Tabs, TabFits(u), page'[u] = page[u], flush'[u] = flush[u],
         call'[<<u, "page">>] = call[<<u, "page">>],
         call'[<<u, "flush">>] = call[<<u, "flush">>]
  PROVE  TabFits(u)'
BY DEF TabFits, HasOp, At

LEMMA PageFits ==
  ASSUME OfflineTypeOK, NEW t \in Tabs,
         EnterSomething(t) \/ Reload(t) \/ PageGoesOn(t) \/ PostTimesOut(t)
  PROVE  TabsOK'
<1> ActorsOK /\ TabsOK
  BY TypeParts
<1> USE CallerPairs DEF ActorsOK
<1> DEFINE Sends(u) ==
      /\ HasOp(u) => flush[u].op \in PendingOp
      /\ At(u, "await") => /\ call[<<u, "flush">>].pc # "none"
                           /\ call[<<u, "flush">>].what = flush[u].op.what
    Posts ==
      /\ page[t].pc \in {"posting", "kept"} => page[t].what \in Operations
      /\ page[t].pc = "posting" => /\ call[<<t, "page">>].pc # "none"
                                   /\ call[<<t, "page">>].what = page[t].what
<1>1. /\ UNCHANGED flush
      /\ \A c \in Callers \ {<<t, "page">>} : call'[c] = call[c]
      /\ \A u \in Tabs \ {t} : page'[u] = page[u]
  BY DEF EnterSomething, SaveDraft, Post, Send, EnterOffline, Keep, Reload,
     PageGoesOn, PostFails, Hang, QueueKept, PostAnswered, PostTimesOut
<1>2. Posts'
  <2>1. CASE EnterSomething(t)
    <3>1. CASE \E d \in Drafts : SaveDraft(t, d)
      BY <3>1 DEF TabsOK, TabFits, SaveDraft
    <3>2. ASSUME NEW what \in Operations, Post(t, what) PROVE Posts'
      <4>1. page'[t].pc = "posting" /\ page'[t].what = what
        BY <3>2 DEF Post, PageState
      <4>2. call'[<<t, "page">>].pc = "sent" /\ call'[<<t, "page">>].what = what
        BY <3>2 DEF Post, Send
      <4> QED BY <4>1, <4>2
    <3>3. ASSUME NEW what \in Operations, EnterOffline(t, what) PROVE Posts'
      BY <3>3 DEF EnterOffline, Keep
    <3> QED BY <2>1, <3>1, <3>2, <3>3 DEF EnterSomething
  <2>2. CASE Reload(t)
    BY <2>2 DEF Reload, IdlePage
  <2>3. CASE PageGoesOn(t) \/ PostTimesOut(t)
    <3>1. CASE PostFails(t) \/ PostTimesOut(t)
      <4>1. page[t].what \in Operations
        BY <3>1 DEF TabsOK, TabFits, PostFails, PostTimesOut
      <4>2. page'[t].pc = "kept" /\ page'[t].what = page[t].what
        BY <3>1 DEF PostFails, PostTimesOut, Keep
      <4> QED BY <4>1, <4>2
    <3>2. CASE QueueKept(t) \/ PostAnswered(t)
      BY <3>2 DEF QueueKept, PostAnswered, IdlePage
    <3> QED BY <2>3, <3>1, <3>2 DEF PageGoesOn
  <2> QED BY <2>1, <2>2, <2>3
<1>3. Sends(t)'
  BY <1>1 DEF TabsOK, TabFits, HasOp, At
<1>4. TabFits(t)'
  BY <1>2, <1>3 DEF TabFits
<1>5. \A u \in Tabs \ {t} : TabFits(u)'
  BY <1>1, OthersFit DEF TabsOK
<1> QED BY <1>4, <1>5 DEF TabsOK

LEMMA FlushFits ==
  ASSUME OfflineTypeOK, NEW t \in Tabs, Flush(t) \/ FlushGoesOn(t) \/ Close(t)
  PROVE  TabsOK'
<1> ActorsOK /\ TabsOK
  BY TypeParts
<1> USE CallerPairs DEF ActorsOK
<1>1. /\ \A c \in Callers \ {<<t, "flush">>} : call'[c] = call[c]
      /\ \A u \in Tabs \ {t} : page'[u] = page[u] /\ flush'[u] = flush[u]
  BY DEF Flush, FlushGoesOn, ReadOps, Requeue, FlushList, TakeNext, SendNext,
     Send, FlushAt, Settle, SendFails, Hang, MarkFailed, Close
<1>2. page'[t] = page[t] \/ page'[t].pc = "closed"
  BY DEF Flush, FlushGoesOn, ReadOps, Requeue, TakeNext, SendNext, Settle,
     SendFails, MarkFailed, Close, IdlePage
<1>3. \/ ~HasOp(t)'
      \/ /\ HasOp(t)' /\ flush'[t].op \in PendingOp
         /\ flush'[t].pc = "await" =>
              /\ call'[<<t, "flush">>].pc # "none"
              /\ call'[<<t, "flush">>].what = flush'[t].op.what
  <2>1. CASE Flush(t)
    BY <2>1 DEF Flush, HasOp, FlushState
  <2>2. CASE ReadOps(t)
    BY <2>2 DEF ReadOps, HasOp, FlushState
  <2>3. CASE Requeue(t)
    <3>1. ASSUME NEW d, flush' = [flush EXCEPT ![t].todo = @ \ {d}]
          PROVE  flush'[t].pc = flush[t].pc
      BY <3>1 DEF FlushState
    <3>2. FlushList(t, queue) => flush'[t].pc = "next"
      BY DEF FlushList, IdleFlush
    <3> QED BY <2>3, <3>1, <3>2 DEF Requeue, At, HasOp
  <2>4. CASE TakeNext(t)
    <3>1. ASSUME NEW op \in flush[t].list,
                 flush' = [flush EXCEPT ![t].pc = "send", ![t].op = op,
                                        ![t].list = @ \ {op},
                                        ![t].got = op \in queue]
          PROVE  flush'[t].pc = "send" /\ flush'[t].op \in PendingOp
      BY <3>1 DEF FlushState
    <3>2. flush' = [flush EXCEPT ![t] = IdleFlush] => flush'[t].pc = "idle"
      BY DEF IdleFlush
    <3> QED BY <2>4, <3>1, <3>2 DEF TakeNext, HasOp
  <2>5. CASE SendNext(t)
    BY <2>5 DEF SendNext, At, FlushAt, Send, TabsOK, TabFits, HasOp, FlushState
  <2>6. CASE Settle(t) \/ MarkFailed(t)
    BY ZenonT(40), <2>6 DEF Settle, MarkFailed, FlushList, IdleFlush, HasOp
  <2>7. CASE SendFails(t)
    BY <2>7 DEF SendFails, At, TabsOK, TabFits, HasOp, FlushState
  <2>8. CASE Close(t)
    BY <2>8 DEF Close, IdleFlush, HasOp
  <2> QED BY <2>1, <2>2, <2>3, <2>4, <2>5, <2>6, <2>7, <2>8 DEF FlushGoesOn
<1>4. TabFits(t)'
  BY <1>1, <1>2, <1>3 DEF TabsOK, TabFits, HasOp, At
<1>5. \A u \in Tabs \ {t} : TabFits(u)'
  BY <1>1, OthersFit DEF TabsOK
<1> QED BY <1>4, <1>5 DEF TabsOK

LEMMA ElseFits ==
  ASSUME OfflineTypeOK,
         \/ Link \/ \E d \in Drafts : Discard(d)
         \/ \E c \in Callers : NetworkGoesOn(c) \/ Loss(c)
         \/ UNCHANGED vars
  PROVE  TabsOK'
<1> ActorsOK /\ TabsOK
  BY TypeParts
<1> USE CallerPairs DEF ActorsOK
<1>1. CASE Link \/ (\E d \in Drafts : Discard(d)) \/ UNCHANGED vars
  BY <1>1, OthersFit DEF Link, Discard, vars, TabsOK
<1>2. ASSUME NEW c \in Callers, Forgotten(c) PROVE TabsOK'
  <2>1. \A u \in Tabs : /\ page[u].pc # "posting" \/ c # <<u, "page">>
                        /\ ~At(u, "await") \/ c # <<u, "flush">>
    BY <1>2 DEF Forgotten
  <2> QED BY <1>2, <2>1 DEF Forgotten, Hang, TabsOK, TabFits, HasOp, At
<1>3. ASSUME NEW c \in Callers,
             ServerChecks(c) \/ ServerStores(c) \/ Loss(c)
      PROVE  TabsOK'
  <2>1. /\ UNCHANGED <<page, flush>>
        /\ \A d \in Callers : /\ call[d].pc # "none" => call'[d].pc # "none"
                              /\ call'[d].what = call[d].what
    BY <1>3 DEF ServerChecks, ServerStores, Loss, Request
  <2> QED BY <2>1 DEF TabsOK, TabFits, HasOp, At
<1> QED BY <1>1, <1>2, <1>3 DEF NetworkGoesOn

-----------------------------------------------------------------------------
(* Identifiers: a step makes rows and copies of what is known already, but  *)
(* for the row that it puts into the queue.                                 *)

LEMMA KnownWithin ==
  ASSUME NEW X, queue' \subseteq X, \A u \in Tabs : Copies(u)' \subseteq X
  PROVE  Known' \subseteq X
BY DEF Known

LEMMA KnownNow ==
  /\ queue \subseteq Known
  /\ \A u \in Tabs : Copies(u) \subseteq Known
  /\ \A u \in Tabs : flush[u].list \subseteq Known
  /\ \A u \in Tabs : HasOp(u) => flush[u].op \in Known
BY DEF Known, Copies

LEMMA IdsKept ==
  ASSUME IdsOK, used' = used, Known' \subseteq Known
  PROVE  IdsOK'
BY DEF IdsOK

LEMMA IdsGrow ==
  ASSUME OfflineTypeOK, NEW what, Enqueue(what),
         \A u \in Tabs : Copies(u)' \subseteq Known
  PROVE  IdsOK'
<1> DEFINE row == [id |-> used + 1, what |-> what]
<1>1. Known' \subseteq Known \union {row}
  BY KnownWithin, KnownNow DEF Enqueue
<1>2. used \in Nat /\ used' = used + 1 /\ row.id = used + 1
  BY OfflineAssumption DEF OfflineTypeOK, Enqueue
<1>3. \A a \in Known : a.id \in Nat /\ a.id <= used
  <2> \A u \in Tabs : HasOp(u) => flush[u].op \in PendingOp
    BY DEF OfflineTypeOK, TabFits
  <2> Known \subseteq PendingOp
    BY DEF OfflineTypeOK, Known, Copies, FlushState
  <2> QED BY OfflineAssumption DEF OfflineTypeOK, PendingOp
<1> HIDE DEF row
<1>4. \A a \in Known' : a.id <= used'
  BY <1>1, <1>2, <1>3
<1>5. \A a, b \in Known' : a.id = b.id => a = b
  <2> \A a \in Known : a.id # row.id
    BY <1>2, <1>3
  <2> QED BY <1>1 DEF OfflineTypeOK
<1> QED BY <1>4, <1>5 DEF IdsOK

LEMMA CopiesSame ==
  ASSUME NEW u \in Tabs, flush'[u] = flush[u]
  PROVE  Copies(u)' = Copies(u)
BY DEF Copies, HasOp

\* What a flush has in hand after a step is a row, or a copy of its own.
LEMMA FlushCopies ==
  ASSUME OfflineTypeOK, NEW t \in Tabs, Flush(t) \/ FlushGoesOn(t) \/ Close(t)
  PROVE  \A u \in Tabs : Copies(u)' \subseteq Known
<1> ActorsOK /\ TabsOK
  BY TypeParts
<1> USE DEF ActorsOK
<1>1. \A u \in Tabs \ {t} : flush'[u] = flush[u]
  BY DEF Flush, FlushGoesOn, ReadOps, Requeue, FlushList, TakeNext, SendNext,
     FlushAt, Settle, SendFails, MarkFailed, Close
<1>2. ASSUME NEW list, FlushList(t, list)
      PROVE  Copies(t)' = list
  BY <1>2 DEF FlushList, IdleFlush, Copies, HasOp
<1>3. ASSUME flush'[t].list \subseteq flush[t].list, ~HasOp(t)'
      PROVE  Copies(t)' \subseteq Known
  BY <1>3, KnownNow DEF Copies
<1>4. ASSUME flush'[t].list = flush[t].list, HasOp(t),
             flush'[t].op = flush[t].op
      PROVE  Copies(t)' \subseteq Known
  BY <1>4, KnownNow DEF Copies
<1>5. Copies(t)' \subseteq Known
  <2>1. CASE Flush(t)
    <3> flush'[t].list = flush[t].list /\ flush'[t].pc = "ops"
      BY <2>1 DEF Flush, FlushState
    <3> QED BY <1>3 DEF HasOp
  <2>2. CASE ReadOps(t)
    <3> flush'[t].list = flush[t].list /\ flush'[t].pc = "requeue"
      BY <2>2 DEF ReadOps, FlushState
    <3> QED BY <1>3 DEF HasOp
  <2>3. CASE Requeue(t)
    <3>1. ASSUME NEW d, flush' = [flush EXCEPT ![t].todo = @ \ {d}]
          PROVE  Copies(t)' \subseteq Known
      <4> flush'[t].list = flush[t].list /\ flush'[t].pc = "requeue"
        BY <2>3, <3>1 DEF Requeue, At, FlushState
      <4> QED BY <1>3 DEF HasOp
    <3> QED BY <1>2, <2>3, <3>1, KnownNow DEF Requeue
  <2>4. CASE TakeNext(t)
    <3>1. ASSUME NEW op \in flush[t].list,
                 flush' = [flush EXCEPT ![t].pc = "send", ![t].op = op,
                                        ![t].list = @ \ {op},
                                        ![t].got = op \in queue]
          PROVE  Copies(t)' \subseteq Known
      <4> flush'[t].list = flush[t].list \ {op} /\ flush'[t].op = op
        BY <3>1 DEF FlushState
      <4> QED BY KnownNow DEF Copies
    <3>2. flush' = [flush EXCEPT ![t] = IdleFlush] => Copies(t)' \subseteq Known
      BY DEF IdleFlush, Copies, HasOp
    <3> QED BY <2>4, <3>1, <3>2 DEF TakeNext
  <2>5. CASE SendNext(t)
    <3> /\ flush'[t].list = flush[t].list /\ flush'[t].op = flush[t].op
        /\ HasOp(t)
      BY <2>5 DEF SendNext, At, FlushAt, HasOp, FlushState
    <3> QED BY <1>4
  <2>6. CASE Settle(t) \/ MarkFailed(t)
    BY <1>2, <2>6, KnownNow DEF Settle, MarkFailed
  <2>7. CASE SendFails(t)
    <3> /\ flush'[t].list = flush[t].list /\ flush'[t].op = flush[t].op
        /\ HasOp(t)
      BY <2>7 DEF SendFails, At, HasOp, FlushState
    <3> QED BY <1>4
  <2>8. CASE Close(t)
    BY <2>8 DEF Close, IdleFlush, Copies, HasOp
  <2> QED BY <2>1, <2>2, <2>3, <2>4, <2>5, <2>6, <2>7, <2>8 DEF FlushGoesOn
<1> QED BY <1>1, <1>5, CopiesSame, KnownNow

LEMMA IdsStep == OfflineTypeOK /\ [Next]_vars => IdsOK'
<1> SUFFICES ASSUME OfflineTypeOK, [Next]_vars PROVE IdsOK'
  OBVIOUS
<1> IdsOK /\ TabsOK
  BY TypeParts
<1>1. UNCHANGED flush => \A u \in Tabs : Copies(u)' \subseteq Known
  BY CopiesSame, KnownNow
<1>2. ASSUME UNCHANGED <<queue, used, flush>> PROVE IdsOK'
  BY <1>1, <1>2, IdsKept, KnownWithin, KnownNow
<1>3. ASSUME NEW t \in Tabs, EnterSomething(t) \/ Reload(t) \/ PageGoesOn(t)
      PROVE  IdsOK'
  <2>1. CASE QueueKept(t)
    BY <1>1, <2>1, IdsGrow DEF QueueKept
  <2>2. CASE EnterSomething(t) \/ Reload(t) \/ PostFails(t) \/ PostAnswered(t)
    BY <1>2, <2>2 DEF EnterSomething, SaveDraft, Post, EnterOffline, Reload,
       PostFails, PostAnswered
  <2> QED BY <1>3, <2>1, <2>2 DEF PageGoesOn
<1>4. ASSUME NEW t \in Tabs, Flush(t) \/ FlushGoesOn(t) \/ Close(t)
      PROVE  IdsOK'
  <2>1. \A u \in Tabs : Copies(u)' \subseteq Known
    BY <1>4, FlushCopies
  <2>2. queue' \subseteq Known /\ used' = used => IdsOK'
    BY <2>1, IdsKept, KnownWithin
  <2>3. CASE Requeue(t)
    BY <2>1, <2>2, <2>3, IdsGrow, KnownNow DEF Requeue
  <2>4. CASE SendNext(t) \/ MarkFailed(t)
    <3> flush[t].op \in Known
      BY <2>4, KnownNow DEF SendNext, MarkFailed, At, HasOp
    <3> QED BY <2>2, <2>4, KnownNow DEF SendNext, MarkFailed
  <2>5. CASE Flush(t) \/ ReadOps(t) \/ TakeNext(t) \/ Settle(t) \/ SendFails(t)
               \/ Close(t)
    BY <2>2, <2>5, KnownNow DEF Flush, ReadOps, TakeNext, Settle, SendFails,
       Close
  <2> QED BY <1>4, <2>3, <2>4, <2>5 DEF FlushGoesOn
<1>5. CASE \/ Link \/ \E d \in Drafts : Discard(d)
           \/ \E t \in Tabs : PostTimesOut(t)
           \/ \E c \in Callers : NetworkGoesOn(c) \/ Loss(c)
           \/ UNCHANGED vars
  BY <1>2, <1>5 DEF Link, Discard, PostTimesOut, NetworkGoesOn, ServerChecks,
     ServerStores, Forgotten, Loss, vars
<1> QED BY <1>3, <1>4, <1>5 DEF Next

-----------------------------------------------------------------------------
(* Types *)

LEMMA TypeInit == Init => OfflineTypeOK
<1> SUFFICES ASSUME Init PROVE OfflineTypeOK
  OBVIOUS
<1>1. RowsOK
  BY OfflineAssumption DEF Init, RowsOK, Cached, Server
<1>2. ActorsOK
  BY DEF Init, ActorsOK, NoCall, IdlePage, IdleFlush, Request, PageState,
     FlushState
<1>3. CallsOK /\ TabsOK
  BY DEF Init, CallsOK, TabsOK, TabFits, HasOp, At, NoCall, IdlePage, IdleFlush
<1>4. Known = {}
  BY DEF Init, Known, Copies, HasOp, IdleFlush
<1> QED BY <1>1, <1>2, <1>3, <1>4, TypeParts DEF IdsOK

LEMMA TypeStep == OfflineTypeOK /\ [Next]_vars => OfflineTypeOK'
<1> SUFFICES ASSUME OfflineTypeOK, [Next]_vars PROVE OfflineTypeOK'
  OBVIOUS
<1>1. RowsOK' /\ ActorsOK' /\ TabsOK'
  BY RowsPage, RowsFlush, RowsElse, ActorsPage, ActorsFlush, ActorsElse,
     PageFits, FlushFits, ElseFits DEF Next
<1>2. CallsOK' /\ IdsOK'
  BY CallsStep, IdsStep
<1> QED BY <1>1, <1>2, TypeParts, PTL

\* Rows, requests, pages and flushes keep their types, and a row that one tab
\* puts back after another has deleted it is still the only one of its
\* identifier.
THEOREM OfflineTypes == Spec => []OfflineTypeOK
BY TypeInit, TypeStep, PTL DEF Spec

-----------------------------------------------------------------------------
(* What leaves the queue.  An answer "ok" tells the truth for ever, since   *)
(* the server takes nothing back, so whoever waits for it, and however late *)
(* it comes, its operation may go.                                          *)

RepliesAreTrue ==
  \A c \in Callers : call[c].pc = "ok" => Applied(call[c].what)

SyncedIsTrue ==
  \A d \in Drafts : draft[d] = "synced" => Applied(<<"create", d>>)

TrueInv == OfflineTypeOK /\ RepliesAreTrue /\ SyncedIsTrue

LEMMA StoredApplied ==
  ASSUME server \in Server, NEW what \in Operations, server' = Stored(what)
  PROVE  /\ Applied(what)'
         /\ \A w \in Operations : Applied(w) => Applied(w)'
<1>1. CASE what \in Visits
  BY <1>1 DEF Stored, Applied, Server
<1>2. CASE what \notin Visits
  <2> Of(what) \in Drafts \union Adds
    BY <1>2, Kinds
  <2> server.made \in [Drafts \union Adds -> 0..2]
    BY DEF Server
  <2>1. /\ server'.visits = server.visits
        /\ server'.made = [server.made EXCEPT
                             ![Of(what)] = IF @ = 0 THEN 1 ELSE 2]
    BY <1>2 DEF Stored, Server
  <2>2. server'.made[Of(what)] > 0
    BY <2>1
  <2>3. \A x \in Drafts \union Adds : server.made[x] > 0 => server'.made[x] > 0
    BY <2>1
  <2> QED BY <1>2, <2>1, <2>2, <2>3, Kinds DEF Applied
<1> QED BY <1>1, <1>2

LEMMA AppliedStays ==
  ASSUME OfflineTypeOK, [Next]_vars, NEW what \in Operations, Applied(what)
  PROVE  Applied(what)'
<1>1. ASSUME NEW c \in Callers, ServerStores(c) PROVE Applied(what)'
  <2> call[c].what \in Operations /\ server \in Server
    BY <1>1 DEF OfflineTypeOK, ServerStores
  <2> QED BY <1>1, StoredApplied DEF ServerStores
<1>2. UNCHANGED server => Applied(what)'
  BY DEF Applied
<1> QED BY <1>1, <1>2 DEF Next, vars, Link, Discard, EnterSomething, SaveDraft,
     Post, EnterOffline, Reload, PageGoesOn, PostFails, QueueKept, PostAnswered,
     PostTimesOut, Close, Flush, FlushGoesOn, ReadOps, Requeue, TakeNext,
     SendNext, Settle, SendFails, MarkFailed, NetworkGoesOn, ServerChecks,
     Forgotten, Loss

LEMMA RepliesStep == TrueInv /\ [Next]_vars => RepliesAreTrue'
<1> SUFFICES ASSUME TrueInv, [Next]_vars PROVE RepliesAreTrue'
  OBVIOUS
<1> OfflineTypeOK /\ RepliesAreTrue
  BY DEF TrueInv
<1> USE CallerPairs
<1>1. ASSUME NEW c \in Callers, ServerStores(c) PROVE RepliesAreTrue'
  <2>1. call[c].what \in Operations /\ server \in Server
    BY <1>1 DEF OfflineTypeOK, ServerStores
  <2>2. \A w \in Operations : w = call[c].what => Applied(w)'
    BY <1>1, <2>1, StoredApplied DEF ServerStores
  <2>3. /\ call'[c].what = call[c].what
        /\ \A d \in Callers \ {c} : call'[d] = call[d]
    BY <1>1 DEF ServerStores, OfflineTypeOK, Request
  <2>4. ASSUME NEW d \in Callers, call'[d].pc = "ok"
        PROVE  Applied(call[d].what)'
    <3>1. PICK w \in Operations : w = call[d].what
      BY <2>1, <2>3, <2>4 DEF OfflineTypeOK
    <3>2. call'[d].what = w
      BY <2>3, <3>1
    <3>3. Applied(w)'
      BY <2>2, <2>3, <2>4, <3>1, AppliedStays DEF RepliesAreTrue
    <3> QED BY <3>2, <3>3 DEF Applied
  <2> QED BY <2>4 DEF RepliesAreTrue
<1>2. ASSUME \A c \in Callers : call'[c].pc = "ok" =>
               call[c].pc = "ok" /\ call'[c].what = call[c].what
      PROVE  RepliesAreTrue'
  <2>1. ASSUME NEW d \in Callers, call'[d].pc = "ok"
        PROVE  Applied(call[d].what)'
    <3>1. PICK w \in Operations : w = call[d].what
      BY <1>2, <2>1 DEF OfflineTypeOK
    <3>2. call'[d].what = w
      BY <1>2, <2>1, <3>1
    <3>3. Applied(w)'
      BY <1>2, <2>1, <3>1, AppliedStays DEF RepliesAreTrue
    <3> QED BY <3>2, <3>3 DEF Applied
  <2> QED BY <2>1 DEF RepliesAreTrue
<1>3. ASSUME NEW c \in Callers, ServerChecks(c) \/ Loss(c) \/ Forgotten(c)
      PROVE  RepliesAreTrue'
  BY <1>2, <1>3 DEF ServerChecks, Loss, Forgotten, Hang, NoCall, OfflineTypeOK,
     Request
<1>4. ASSUME NEW t \in Tabs,
             EnterSomething(t) \/ Reload(t) \/ PageGoesOn(t) \/ PostTimesOut(t)
      PROVE  RepliesAreTrue'
  <2> ASSUME NEW c \in Callers, Hang(c) PROVE RepliesAreTrue'
    BY <1>2 DEF Hang, NoCall, OfflineTypeOK
  <2> ASSUME NEW c \in Callers, NEW what, Send(c, what) PROVE RepliesAreTrue'
    BY <1>2 DEF Send, OfflineTypeOK
  <2> QED BY <1>2, <1>4 DEF EnterSomething, SaveDraft, Post, EnterOffline, Reload,
       PageGoesOn, PostFails, QueueKept, PostAnswered, PostTimesOut
<1>5. ASSUME NEW t \in Tabs, Flush(t) \/ FlushGoesOn(t) \/ Close(t)
      PROVE  RepliesAreTrue'
  <2> ASSUME NEW c \in Callers, Hang(c) PROVE RepliesAreTrue'
    BY <1>2 DEF Hang, NoCall, OfflineTypeOK
  <2> ASSUME NEW c \in Callers, NEW what, Send(c, what) PROVE RepliesAreTrue'
    BY <1>2 DEF Send, OfflineTypeOK
  <2> QED BY <1>2, <1>5 DEF Flush, FlushGoesOn, ReadOps, Requeue, TakeNext,
       SendNext, Settle, SendFails, MarkFailed, Close
<1>6. CASE Link \/ (\E d \in Drafts : Discard(d)) \/ UNCHANGED vars
  BY <1>2, <1>6 DEF Link, Discard, vars
<1> QED BY <1>1, <1>3, <1>4, <1>5, <1>6 DEF Next, NetworkGoesOn

\* A tab settles what it waited for.
LEMMA SettledIsApplied ==
  ASSUME TrueInv, NEW t \in Tabs, Settle(t)
  PROVE  Applied(flush[t].op.what)
BY CallerPairs DEF TrueInv, OfflineTypeOK, RepliesAreTrue, TabFits, Settle,
   Settles

LEMMA SyncedStep == TrueInv /\ [Next]_vars => SyncedIsTrue'
<1> SUFFICES ASSUME TrueInv, [Next]_vars, NEW d \in Drafts,
                    draft'[d] = "synced"
             PROVE  Applied(<<"create", d>>)'
  BY DEF SyncedIsTrue, Applied
<1> OfflineTypeOK /\ SyncedIsTrue
  BY DEF TrueInv
<1>1. draft[d] = "synced" => Applied(<<"create", d>>)'
  BY AppliedStays, Kinds DEF SyncedIsTrue
<1>2. ASSUME NEW t \in Tabs, Settle(t) PROVE Applied(<<"create", d>>)'
  <2>1. CASE flush[t].op.what = <<"create", d>>
    BY <1>2, <2>1, SettledIsApplied, AppliedStays, Kinds
  <2>2. CASE flush[t].op.what # <<"create", d>>
    BY <1>1, <1>2, <2>2 DEF Settle
  <2> QED BY <2>1, <2>2
<1>3. ASSUME NEW e, NEW s, s # "synced", draft' = [draft EXCEPT ![e] = s]
      PROVE  Applied(<<"create", d>>)'
  BY <1>1, <1>3 DEF OfflineTypeOK
<1>4. ASSUME NEW t \in Tabs,
             EnterSomething(t) \/ PageGoesOn(t) \/ PostTimesOut(t)
      PROVE  Applied(<<"create", d>>)'
  BY <1>1, <1>3, <1>4 DEF EnterSomething, SaveDraft, Post, EnterOffline, Keep,
     PageGoesOn, PostFails, QueueKept, PostAnswered, PostTimesOut
<1>5. CASE \E e \in Drafts : Discard(e)
  BY <1>3, <1>5 DEF Discard
<1> QED BY <1>1, <1>2, <1>4, <1>5 DEF Next, vars, Link, Reload, Close, Flush,
     FlushGoesOn, ReadOps, Requeue, TakeNext, SendNext, SendFails, MarkFailed,
     NetworkGoesOn, ServerChecks, ServerStores, Forgotten, Loss

LEMMA QueueStep ==
  ASSUME TrueInv, [Next]_vars, NEW op \in queue \ queue'
  PROVE  Applied(op.what)
<1>1. ASSUME NEW t \in Tabs, Settle(t) PROVE Applied(op.what)
  BY <1>1, SettledIsApplied DEF Settle
<1> QED BY <1>1 DEF Next, vars, Link, Discard, EnterSomething, SaveDraft, Post,
     EnterOffline, Reload, PageGoesOn, PostFails, QueueKept, Enqueue,
     PostAnswered, PostTimesOut, Close, Flush, FlushGoesOn, ReadOps, Requeue,
     TakeNext, SendNext, SendFails, MarkFailed, NetworkGoesOn, ServerChecks,
     ServerStores, Forgotten, Loss

LEMMA DraftStep ==
  ASSUME TrueInv, [Next]_vars, NEW d \in Drafts, draft'[d] = "synced"
  PROVE  Applied(<<"create", d>>)
<1> OfflineTypeOK /\ SyncedIsTrue
  BY DEF TrueInv
<1>1. draft[d] = "synced" => Applied(<<"create", d>>)
  BY DEF SyncedIsTrue
<1>2. ASSUME NEW t \in Tabs, Settle(t) PROVE Applied(<<"create", d>>)
  BY <1>1, <1>2, SettledIsApplied DEF Settle
<1>3. ASSUME NEW e, NEW s, s # "synced", draft' = [draft EXCEPT ![e] = s]
      PROVE  Applied(<<"create", d>>)
  BY <1>1, <1>3 DEF OfflineTypeOK
<1>4. ASSUME NEW t \in Tabs,
             EnterSomething(t) \/ PageGoesOn(t) \/ PostTimesOut(t)
      PROVE  Applied(<<"create", d>>)
  BY <1>1, <1>3, <1>4 DEF EnterSomething, SaveDraft, Post, EnterOffline, Keep,
     PageGoesOn, PostFails, QueueKept, PostAnswered, PostTimesOut
<1>5. CASE \E e \in Drafts : Discard(e)
  BY <1>3, <1>5 DEF Discard
<1> QED BY <1>1, <1>2, <1>4, <1>5 DEF Next, vars, Link, Reload, Close, Flush,
     FlushGoesOn, ReadOps, Requeue, TakeNext, SendNext, SendFails, MarkFailed,
     NetworkGoesOn, ServerChecks, ServerStores, Forgotten, Loss

LEMMA TrueInit == Init => TrueInv
BY TypeInit DEF Init, TrueInv, RepliesAreTrue, SyncedIsTrue, NoCall

LEMMA TrueStep == TrueInv /\ [Next]_vars => TrueInv'
BY TypeStep, RepliesStep, SyncedStep DEF TrueInv

\* However many tabs send the queue, and whatever is lost or comes late, an
\* operation leaves it, and a draft is called synced, only when the server has
\* it.
THEOREM QueueKeepsWhatIsNotApplied == Spec => LeavesOnlyApplied
<1>1. TrueInv /\ [Next]_vars =>
        [/\ \A op \in queue \ queue' : Applied(op.what)
         /\ \A d \in Drafts : draft'[d] = "synced" => Applied(<<"create", d>>)]_vars
  BY QueueStep, DraftStep
<1> QED BY <1>1, TrueInit, TrueStep, PTL DEF Spec, LeavesOnlyApplied

-----------------------------------------------------------------------------
(* What is shown.  Every copy of the order -- the cached one, its overlay,   *)
(* what a tab shows and what an answer holds -- has only what the server has *)
(* stored, what waits in the queue, and what a page is about to queue.       *)

Safe(what) == Applied(what) \/ Queued(what) \/ Underway(what)

RepliesAreStored ==
  \A c \in Callers : \A what \in call[c].reply : Applied(what)

Displayed ==
  cache.order \union mergeOverlay \union UNION {Shown(t) : t \in Tabs}

KeptInv ==
  /\ TrueInv /\ RepliesAreStored
  /\ \A what \in Displayed : Safe(what)

\* The order as it is sent holds what was applied, and nothing else.
SentIsTrue == \A what \in Sent : what \in Captures /\ Applied(what)

LEMMA SentIsApplied == server \in Server => SentIsTrue
<1> SUFFICES ASSUME server \in Server PROVE SentIsTrue
  OBVIOUS
<1>1. ASSUME NEW what \in server.visits PROVE what \in Captures /\ Applied(what)
  BY <1>1 DEF Applied, Server, Captures
<1>2. ASSUME NEW a \in Adds, server.made[a] > 0
      PROVE  <<"add", a>> \in Captures /\ Applied(<<"add", a>>)
  BY <1>2 DEF Applied, Captures, Extras, Visits, Of
<1> QED BY <1>1, <1>2 DEF Sent, SentIsTrue

LEMMA SentIsAppliedNext == (server \in Server)' => SentIsTrue'
BY SentIsApplied, PTL

LEMMA DisplayedType == OfflineTypeOK => Displayed \subseteq Captures
BY DEF OfflineTypeOK, Cached, PageState, Displayed, mergeOverlay, Shown

\* An operation that is kept stays so until it is queued, and a queued one
\* until it is applied; only a tab that is closed forgets one.
LEMMA SafeStays ==
  ASSUME TrueInv, [Next]_vars, \A t \in Tabs : ~Close(t),
         NEW what \in Operations, Safe(what)
  PROVE  Safe(what)'
<1> OfflineTypeOK
  BY DEF TrueInv
<1>1. CASE Applied(what)
  BY <1>1, AppliedStays DEF Safe
<1>2. ASSUME NEW op \in queue, op.what = what PROVE Safe(what)'
  <2>1. CASE op \in queue'
    BY <1>2, <2>1 DEF Safe, Queued
  <2>2. CASE op \notin queue'
    BY <1>1, <1>2, <2>2, QueueStep
  <2> QED BY <2>1, <2>2
<1>3. ASSUME NEW t \in Tabs, page[t].pc = "kept", page[t].what = what
      PROVE  Safe(what)'
  <2>1. CASE page'[t] = page[t]
    BY <1>3, <2>1 DEF Safe, Underway
  <2>2. CASE QueueKept(t)
    <3> DEFINE op == [id |-> used + 1, what |-> page[t].what]
    <3>1. op \in queue' /\ op.what = what
      BY <1>3, <2>2 DEF QueueKept, Enqueue
    <3> HIDE DEF op
    <3> QED BY <3>1 DEF Safe, Queued
  <2>3. ASSUME NEW u \in Tabs, EnterSomething(u) \/ Reload(u) \/ PageGoesOn(u)
                                 \/ PostTimesOut(u)
        PROVE  page'[t] = page[t] \/ QueueKept(t)
    <3>1. CASE u = t
      BY <1>3, <2>3, <3>1 DEF EnterSomething, SaveDraft, Post, EnterOffline,
         Reload, PageGoesOn, PostFails, PostAnswered, PostTimesOut
    <3>2. CASE u # t
      BY <2>3, <3>2 DEF EnterSomething, SaveDraft, Post, EnterOffline, Keep,
         Reload, PageGoesOn, PostFails, QueueKept, PostAnswered, PostTimesOut,
         OfflineTypeOK
    <3> QED BY <3>1, <3>2
  <2> QED BY <2>1, <2>2, <2>3 DEF Next, vars, Link, Discard, Flush, FlushGoesOn,
       ReadOps, Requeue, TakeNext, SendNext, Settle, SendFails, MarkFailed,
       NetworkGoesOn, ServerChecks, ServerStores, Forgotten, Loss
<1> QED BY <1>1, <1>2, <1>3 DEF Safe, Queued, Underway

LEMMA StoredRepliesStep == KeptInv /\ [Next]_vars => RepliesAreStored'
<1> SUFFICES ASSUME KeptInv, [Next]_vars, NEW c \in Callers,
                    NEW what \in call'[c].reply
             PROVE  Applied(what)'
  BY DEF RepliesAreStored, Applied
<1> TrueInv /\ OfflineTypeOK /\ RepliesAreStored
  BY DEF KeptInv, TrueInv
<1> USE CallerPairs
<1>1. what \in call[c].reply => Applied(what)'
  BY AppliedStays DEF OfflineTypeOK, Request, RepliesAreStored, Operations
<1>2. ASSUME NEW d \in Callers, ServerStores(d) PROVE Applied(what)'
  <2>1. call[d].what \in Operations /\ server \in Server
    BY <1>2 DEF OfflineTypeOK, ServerStores
  <2>2. server' \in Server
    BY <1>2, <2>1, StoredType DEF ServerStores
  <2>3. \A w \in Sent' : Applied(w)'
    <3> SentIsTrue'
      BY <2>2, SentIsAppliedNext
    <3> QED BY DEF SentIsTrue
  <2>4. call'[d].reply = Sent' /\ \A e \in Callers \ {d} : call'[e] = call[e]
    BY <1>2 DEF ServerStores, OfflineTypeOK, Request
  <2> QED BY <1>1, <2>3, <2>4
<1>3. ASSUME NEW d \in Callers, Hang(d) PROVE Applied(what)'
  BY <1>1, <1>3 DEF Hang, NoCall, OfflineTypeOK
<1>4. ASSUME NEW d \in Callers, NEW w, Send(d, w) PROVE Applied(what)'
  BY <1>1, <1>4 DEF Send, OfflineTypeOK
<1>5. ASSUME NEW d \in Callers, ServerChecks(d) \/ Loss(d) PROVE Applied(what)'
  BY <1>1, <1>5 DEF ServerChecks, Loss, OfflineTypeOK, Request
<1>6. UNCHANGED call => Applied(what)'
  BY <1>1
<1> QED BY <1>2, <1>3, <1>4, <1>5, <1>6 DEF Next, vars, Link, Discard,
     EnterSomething, SaveDraft, Post, EnterOffline, Reload, PageGoesOn,
     PostFails, QueueKept, PostAnswered, PostTimesOut, Close, Flush,
     FlushGoesOn, ReadOps, Requeue, TakeNext, SendNext, Settle, SendFails,
     MarkFailed, NetworkGoesOn, Forgotten

LEMMA ShownStep ==
  ASSUME KeptInv, [Next]_vars, \A t \in Tabs : ~Close(t),
         NEW what \in Displayed'
  PROVE  Safe(what)'
<1> TrueInv /\ OfflineTypeOK /\ RepliesAreStored
  BY DEF KeptInv, TrueInv
<1> USE CallerPairs
<1>1. what \in Displayed => Safe(what)'
  BY SafeStays, DisplayedType DEF KeptInv, Operations
<1>2. what \in Operations /\ Applied(what) => Safe(what)'
  BY AppliedStays DEF Safe
<1>3. ASSUME NEW c \in Callers, what \in call[c].reply PROVE Safe(what)'
  BY <1>2, <1>3 DEF RepliesAreStored, OfflineTypeOK, Request, Operations
<1>4. what \in Sent => Safe(what)'
  BY <1>2, SentIsApplied DEF SentIsTrue, OfflineTypeOK, Operations
<1>5. UNCHANGED <<cache, page>> => Safe(what)'
  BY <1>1 DEF Displayed, mergeOverlay, Shown
<1>6. \A t \in Tabs : Shown(t) \subseteq Displayed
  BY DEF Displayed
<1>7. cache.order \subseteq Displayed /\ mergeOverlay \subseteq Displayed
  BY DEF Displayed
<1>8. ASSUME NEW t \in Tabs, NEW w \in Operations, Keep(t, w) PROVE Safe(what)'
  <2>1. w \in Captures => Safe(w)'
    BY <1>8 DEF Keep, Safe, Underway, OfflineTypeOK
  <2>2. CASE w \in Captures
    <3>1. cache' = [order |-> Shown(t) \union {w}, overlay |-> Shown(t) \union {w}]
      BY <1>8, <2>2 DEF Keep, ShowLocally
    <3>2. Shown(t)' = Shown(t) \union {w}
      BY <1>8, <2>2 DEF Keep, Shown, OfflineTypeOK
    <3>3. \A u \in Tabs \ {t} : Shown(u)' = Shown(u)
      BY <1>8 DEF Keep, Shown, OfflineTypeOK
    <3>4. what \in Displayed \/ what = w
      BY <1>6, <3>1, <3>2, <3>3 DEF Displayed, mergeOverlay
    <3> QED BY <1>1, <2>1, <2>2, <3>4
  <2>3. CASE w \notin Captures
    <3>1. UNCHANGED cache /\ \A u \in Tabs : Shown(u)' = Shown(u)
      BY <1>8, <2>3 DEF Keep, Shown, OfflineTypeOK
    <3> QED BY <1>1, <3>1 DEF Displayed, mergeOverlay
  <2> QED BY <2>2, <2>3
<1>9. ASSUME NEW t \in Tabs, NEW w, page' = [page EXCEPT ![t] = IdlePage(w)],
             \/ cache' = cache
             \/ cache'.order = w /\ cache'.overlay \in {cache.overlay, None},
             w \subseteq Displayed \/ (\A x \in w : x = what => Safe(what)')
      PROVE  Safe(what)'
  <2>1. \A u \in Tabs : Shown(u)' = IF u = t THEN w ELSE Shown(u)
    BY <1>9 DEF IdlePage, Shown, OfflineTypeOK
  <2>2. what \in Displayed \/ what \in w
    BY <1>6, <1>7, <1>9, <2>1 DEF Displayed, mergeOverlay
  <2> QED BY <1>1, <1>9, <2>2
<1>10. ASSUME NEW t \in Tabs, EnterSomething(t) PROVE Safe(what)'
  <2>1. CASE (\E d \in Drafts : SaveDraft(t, d))
    BY <1>5, <2>1 DEF SaveDraft
  <2>2. ASSUME NEW w \in Operations, Post(t, w) PROVE Safe(what)'
    <3>1. UNCHANGED cache /\ \A u \in Tabs : Shown(u)' = Shown(u)
      BY <2>2 DEF Post, Shown, OfflineTypeOK, PageState
    <3> QED BY <1>1, <3>1 DEF Displayed, mergeOverlay
  <2> QED BY <1>8, <1>10, <2>1, <2>2 DEF EnterSomething, EnterOffline
<1>11. ASSUME NEW t \in Tabs, Reload(t) PROVE Safe(what)'
  BY <1>4, <1>7, <1>9, <1>11 DEF Reload
<1>12. ASSUME NEW t \in Tabs, PostFails(t) \/ PostTimesOut(t) PROVE Safe(what)'
  <2> page[t].what \in Operations
    BY <1>12 DEF PostFails, PostTimesOut, OfflineTypeOK, TabFits
  <2> QED BY <1>8, <1>12 DEF PostFails, PostTimesOut
<1>13. ASSUME NEW t \in Tabs, QueueKept(t) PROVE Safe(what)'
  BY <1>6, <1>9, <1>13 DEF QueueKept
<1>14. ASSUME NEW t \in Tabs, PostAnswered(t) PROVE Safe(what)'
  <2> DEFINE reply == call[<<t, "page">>].reply
  <2>1. \/ page' = [page EXCEPT ![t] = IdlePage(Shown(t))] /\ UNCHANGED cache
        \/ /\ page' = [page EXCEPT ![t] = IdlePage(reply)]
           /\ cache' = [cache EXCEPT !.order = reply]
    BY <1>14 DEF PostAnswered
  <2>2. \A x \in reply : x = what => Safe(what)'
    BY <1>3
  <2>3. cache' = [cache EXCEPT !.order = reply] =>
          cache'.order = reply /\ cache'.overlay = cache.overlay
    BY DEF OfflineTypeOK, Cached
  <2> HIDE DEF reply
  <2> QED BY <1>6, <1>9, <2>1, <2>2, <2>3
<1>15. ASSUME NEW t \in Tabs, Settle(t) PROVE Safe(what)'
  <2>1. UNCHANGED page
    BY <1>15 DEF Settle
  <2>2. \/ UNCHANGED cache
        \/ cache' = [order |-> call[<<t, "flush">>].reply, overlay |-> None]
    BY <1>15 DEF Settle
  <2>3. what \in Displayed \/ what \in call[<<t, "flush">>].reply
    BY <2>1, <2>2 DEF Displayed, mergeOverlay, Shown
  <2> QED BY <1>1, <1>3, <2>3
<1> QED BY <1>5, <1>10, <1>11, <1>12, <1>13, <1>14, <1>15
     DEF Next, vars, Link, Discard, PageGoesOn, Flush, FlushGoesOn, ReadOps,
     Requeue, TakeNext, SendNext, SendFails, MarkFailed, NetworkGoesOn,
     ServerChecks, ServerStores, Forgotten, Loss

LEMMA KeptInit == Init => KeptInv
<1> SUFFICES ASSUME Init PROVE KeptInv
  OBVIOUS
<1>1. RepliesAreStored
  BY DEF Init, RepliesAreStored, NoCall
<1>2. Displayed = {}
  BY DEF Init, Displayed, mergeOverlay, Shown, IdlePage
<1> QED BY <1>1, <1>2, TrueInit DEF KeptInv

LEMMA KeptStep ==
  KeptInv /\ [Next]_vars /\ (\A t \in Tabs : ~Close(t)) => KeptInv'
<1> SUFFICES ASSUME KeptInv, [Next]_vars, \A t \in Tabs : ~Close(t)
             PROVE  KeptInv'
  OBVIOUS
<1>1. TrueInv' /\ RepliesAreStored'
  BY TrueStep, StoredRepliesStep DEF KeptInv
<1>2. \A what \in Displayed' : Safe(what)'
  BY ShownStep
<1> QED BY <1>1, <1>2 DEF KeptInv

LEMMA KeptIsShown == KeptInv => ShownIsKept
BY DEF KeptInv, ShownIsKept, Displayed, Safe

\* Where no tab is closed, nothing that is shown is lost: for any number of
\* tabs that show and send at once, and whatever requests and answers are lost
\* or come too late.
THEOREM ShownIsNotLost == "close" \notin Faults => (Spec => []ShownIsKept)
<1> SUFFICES ASSUME "close" \notin Faults PROVE Spec => []ShownIsKept
  OBVIOUS
<1>1. \A t \in Tabs : ~Close(t)
  BY DEF Close
<1> QED BY <1>1, KeptInit, KeptStep, KeptIsShown, PTL DEF Spec

\* The same of the cases in which the tab is left open.
THEOREM OpenTabsLoseNothing == CaseSpec => []OpenShownIsKept
<1> DEFINE Inv == case # "close" => KeptInv
<1>1. CaseInit => Inv
  BY KeptInit DEF CaseInit
<1>2. Inv /\ [CaseNext]_caseVars => Inv'
  <2> SUFFICES ASSUME Inv, [CaseNext]_caseVars, case' # "close" PROVE KeptInv'
    OBVIOUS
  <2>1. case # "close" /\ KeptInv
    BY DEF CaseNext, caseVars
  <2>2. CASE UNCHANGED caseVars
    <3> [Next]_vars /\ UNCHANGED page
      BY <2>2 DEF caseVars, vars
    <3> \A t \in Tabs : ~Close(t)
      BY <2>1 DEF Close, KeptInv, TrueInv, OfflineTypeOK, IdlePage
    <3> QED BY <2>1, KeptStep
  <2>3. CASE CaseNext
    <3> [Next]_vars /\ \A t \in Tabs : ~Close(t)
      BY <2>1, <2>3 DEF CaseNext, Belongs, NothingLost
    <3> QED BY <2>1, KeptStep
  <2> QED BY <2>2, <2>3
<1>3. Inv => OpenShownIsKept
  BY KeptIsShown DEF OpenShownIsKept
<1> QED BY <1>1, <1>2, <1>3, PTL DEF CaseSpec

-----------------------------------------------------------------------------
(* Nothing is created twice.  One tab, which sends the queue while nothing   *)
(* is entered.  What is to be created is in one place at a time -- a draft,  *)
(* a page that posts or keeps it, a row of the queue, the drafts a flush is  *)
(* about to queue again -- and nowhere once it was created, except until the *)
(* answer is dealt with.                                                     *)

Counted == Creates \union Extras

Busy(t, what) == page[t].pc \in {"posting", "kept"} /\ page[t].what = what

Drafted(what) ==
  \E d \in Drafts : what = <<"create", d>> /\ draft[d] \in Rows \union {"new"}

ToRequeue(t, what) ==
  /\ flush[t].pc \in {"ops", "requeue"}
  /\ \E d \in flush[t].todo : what = <<"create", d>>

Pending(t, what) ==
  Queued(what) \/ Busy(t, what) \/ Drafted(what) \/ ToRequeue(t, what)

\* It was created, and the tab does not know yet.
Landed(t, what) ==
  \/ Busy(t, what) /\ page[t].pc = "posting" /\ call[<<t, "page">>].pc = "ok"
  \/ At(t, "await") /\ flush[t].op.what = what /\ call[<<t, "flush">>].pc = "ok"

Once(t) ==
  /\ CreatedOnce
  /\ \A what \in Counted :
       Pending(t, what) => server.made[Of(what)] = 0 \/ Landed(t, what)

Single(t) ==
  /\ \A a, b \in queue : a.what = b.what /\ a.what \in Counted => a = b
  /\ \A what \in Counted : Queued(what) => ~Busy(t, what)
  /\ \A d \in Drafts : Queued(<<"create", d>>) \/ ToRequeue(t, <<"create", d>>) =>
       draft[d] \notin {"new", "draft"}
  /\ \A d \in Drafts : Busy(t, <<"create", d>>) =>
       draft[d] \notin IF page[t].pc = "posting" THEN {"pending"}
                      ELSE {"new", "draft"}
  /\ At(t, "requeue") => \A d \in flush[t].todo : ~Queued(<<"create", d>>)

\* The page and the flush take turns, and whoever is not waiting has sent
\* nothing.
ByTurns(t) ==
  /\ page[t].pc \in {"idle", "posting", "kept"}
  /\ At(t, "idle") \/ page[t].pc = "idle"
  /\ page[t].pc # "posting" => call[<<t, "page">>].pc = "none"
  /\ ~At(t, "await") => call[<<t, "flush">>].pc = "none"
  /\ \A c \in Callers : call[c].pc # "lost"

\* What the flush goes through are rows of the queue.
OwnRows(t) ==
  /\ flush[t].list \subseteq queue
  /\ HasOp(t) => flush[t].op \in queue \ flush[t].list

Still(t) ==
  /\ page[t].pc = "idle" /\ At(t, "idle")
  /\ call[<<t, "page">>].pc = "none" /\ call[<<t, "flush">>].pc = "none"

SoloInv(t) ==
  /\ OfflineTypeOK
  /\ \A u \in Tabs \ {t} : Still(u)
  /\ ByTurns(t) /\ OwnRows(t) /\ Single(t) /\ Once(t)

\* One tab is awake, sends its queue or lets something be entered, and nothing
\* is lost, late or closed.
SoloNext(t) ==
  /\ Next /\ NothingLost
  /\ \A u \in Tabs \ {t} : Asleep(u)
  /\ At(t, "idle")' \/ Quiet(t)'

SerialInv == case = "serial" => SoloInv(tab1)

LEMMA CountedKinds ==
  /\ Counted = Operations \ Visits
  /\ \A d \in Drafts : <<"create", d>> \in Counted
  /\ \A v, w \in Counted : Of(v) = Of(w) => v = w
<1>1. /\ Counted = Operations \ Visits
      /\ \A d \in Drafts : <<"create", d>> \in Counted
  BY DEF Counted, Operations, Captures, Creates, Extras, Visits
<1>2. \A v, w \in Counted : Of(v) = Of(w) => v = w
  BY OfflineAssumption DEF Counted, Creates, Extras, Of
<1> QED BY <1>1, <1>2

\* What the parts of the invariant look at, when nothing is created.
LEMMA OnceKept ==
  ASSUME NEW t \in Tabs, Once(t), server' = server,
         \A what \in Counted : Pending(t, what)' =>
           Pending(t, what) /\ (Landed(t, what) => Landed(t, what)')
  PROVE  Once(t)'
BY DEF Once, CreatedOnce

LEMMA StillKept ==
  ASSUME NEW t \in Tabs, NEW u \in Tabs \ {t}, Still(u), Asleep(u),
         call'[<<u, "page">>] = call[<<u, "page">>],
         call'[<<u, "flush">>] = call[<<u, "flush">>]
  PROVE  Still(u)'
BY DEF Still, Asleep, At

\* Link, Discard, a draft saved by any tab, and what a tab does to see the order.
LEMMA BesideStep ==
  ASSUME NEW t \in Tabs, SoloInv(t), \A u \in Tabs \ {t} : Asleep(u),
         UNCHANGED <<queue, server, call, flush>>,
         page'[t] = page[t] \/ (page[t].pc = "idle" /\ page'[t].pc = "idle"),
         \A d \in Drafts : \/ draft'[d] \in {draft[d], "gone"}
                           \/ draft[d] = "new" /\ draft'[d] = "draft"
  PROVE  /\ \A u \in Tabs \ {t} : Still(u)'
         /\ ByTurns(t)' /\ OwnRows(t)' /\ Single(t)' /\ Once(t)'
<1> USE DEF SoloInv
<1>1. \A u \in Tabs \ {t} : Still(u)'
  BY StillKept
<1>2. ByTurns(t)' /\ OwnRows(t)'
  BY DEF ByTurns, OwnRows, At, HasOp
<1>3. \A what : /\ Queued(what)' = Queued(what)
                /\ Busy(t, what)' = Busy(t, what)
                /\ ToRequeue(t, what)' = ToRequeue(t, what)
                /\ Landed(t, what)' = Landed(t, what)
                /\ Drafted(what)' => Drafted(what)
  BY DEF Queued, Busy, ToRequeue, Landed, At, Drafted, Rows
<1>4. Single(t)'
  <2>1. \A d \in Drafts :
          Queued(<<"create", d>>)' \/ ToRequeue(t, <<"create", d>>)' =>
            draft'[d] \notin {"new", "draft"}
    BY <1>3 DEF Single
  <2>2. ASSUME NEW d \in Drafts, Busy(t, <<"create", d>>)'
        PROVE  draft'[d] \notin IF page'[t].pc = "posting" THEN {"pending"}
                               ELSE {"new", "draft"}
    BY <1>3, <2>2 DEF Single, Busy
  <2>3. At(t, "requeue")' => \A d \in flush'[t].todo : ~Queued(<<"create", d>>)'
    BY <1>3 DEF Single, At
  <2> QED BY <1>3, <2>1, <2>2, <2>3 DEF Single
<1>5. Once(t)'
  BY <1>3, OnceKept DEF Pending
<1> QED BY <1>1, <1>2, <1>4, <1>5

\* What is offered is nowhere yet.
LEMMA OfferedIsNew ==
  ASSUME NEW t \in Tabs, SoloInv(t), page[t].pc = "idle", At(t, "idle"),
         NEW what \in Counted, what \in Offered(t)
  PROVE  /\ ~Queued(what) /\ server.made[Of(what)] = 0
         /\ \A d \in Drafts : what = <<"create", d>> => draft[d] \in {"new", "draft"}
<1>1. ASSUME NEW d \in Drafts, what = <<"create", d>>, draft[d] \in {"new", "draft"}
      PROVE  ~Queued(what) /\ server.made[Of(what)] = 0
  <2>1. ~Queued(what) /\ Drafted(what)
    BY <1>1 DEF SoloInv, Single, Drafted, Rows
  <2>2. ~Landed(t, what)
    BY DEF Landed, Busy, At
  <2> QED BY <2>1, <2>2 DEF SoloInv, Once, Pending
<1>2. ASSUME NEW a \in Adds, what = <<"add", a>>, NotEntered(a)
      PROVE  ~Queued(what) /\ server.made[Of(what)] = 0
  BY <1>2 DEF NotEntered, Of
<1>3. \A p \in Places : what # <<"start", p>> /\ what # <<"end", p>>
  BY CountedKinds DEF Visits
<1>4. \/ \E d \in Drafts : what = <<"create", d>> /\ draft[d] \in {"new", "draft"}
      \/ \E a \in Adds : what = <<"add", a>> /\ NotEntered(a)
  BY <1>3 DEF Offered
<1>5. \A d \in Drafts, a \in Adds : <<"create", d>> # <<"add", a>>
  OBVIOUS
<1>6. ASSUME NEW d \in Drafts, what = <<"create", d>>
      PROVE  draft[d] \in {"new", "draft"}
  BY <1>4, <1>5, <1>6
<1> QED BY <1>1, <1>2, <1>4, <1>6

\* A page that begins to post, or to keep, what was offered.
LEMMA EnteredStep ==
  ASSUME NEW t \in Tabs, SoloInv(t), \A u \in Tabs \ {t} : Asleep(u),
         page[t].pc = "idle", At(t, "idle")', UNCHANGED <<queue, server, flush>>,
         NEW what \in Offered(t), page'[t].pc \in {"posting", "kept"},
         page'[t].what = what,
         \A c \in Callers : c # <<t, "page">> => call'[c] = call[c],
         IF page'[t].pc = "posting" THEN call'[<<t, "page">>].pc = "sent"
         ELSE call'[<<t, "page">>] = call[<<t, "page">>],
         \A d \in Drafts :
           draft'[d] = IF page'[t].pc = "kept" /\ what = <<"create", d>>
                       THEN "pending" ELSE draft[d]
  PROVE  /\ \A u \in Tabs \ {t} : Still(u)'
         /\ ByTurns(t)' /\ OwnRows(t)' /\ Single(t)' /\ Once(t)'
<1> USE CallerPairs DEF SoloInv
<1>0. At(t, "idle") /\ flush'[t] = flush[t]
  BY DEF At
<1>1. \A u \in Tabs \ {t} : Still(u)'
  BY StillKept
<1>2. ByTurns(t)' /\ OwnRows(t)'
  BY <1>0 DEF ByTurns, OwnRows, At, HasOp
<1>3. \A w : /\ Queued(w)' = Queued(w)
             /\ Busy(t, w)' => w = what
             /\ ~Busy(t, w) /\ ~ToRequeue(t, w)' /\ ~Landed(t, w)
  BY <1>0 DEF Queued, Busy, ToRequeue, Landed, At
<1>4. \A w \in Counted : w = what =>
        /\ ~Queued(w) /\ server.made[Of(w)] = 0
        /\ \A d \in Drafts : w = <<"create", d>> => draft[d] \in {"new", "draft"}
  BY <1>0, OfferedIsNew
<1>5. \A w \in Counted \ {what} : Drafted(w)' => Drafted(w)
  BY DEF Drafted
<1>6. Single(t)'
  <2>1. \A w \in Counted : Queued(w)' => ~Busy(t, w)'
    BY <1>3, <1>4
  <2>2. ASSUME NEW d \in Drafts,
               Queued(<<"create", d>>)' \/ ToRequeue(t, <<"create", d>>)'
        PROVE  draft'[d] \notin {"new", "draft"}
    BY <1>3, <2>2 DEF Single
  <2>3. ASSUME NEW d \in Drafts, Busy(t, <<"create", d>>)'
        PROVE  draft'[d] \notin IF page'[t].pc = "posting" THEN {"pending"}
                               ELSE {"new", "draft"}
    BY <1>4, <2>3, CountedKinds DEF Busy
  <2>4. ~At(t, "requeue")'
    BY DEF At
  <2> QED BY <2>1, <2>2, <2>3, <2>4 DEF Single
<1>7. Once(t)'
  <2> \A w \in Counted : Pending(t, w)' => server.made[Of(w)] = 0
    BY <1>3, <1>4, <1>5 DEF Once, Pending
  <2> QED BY DEF Once, CreatedOnce
<1> QED BY <1>1, <1>2, <1>6, <1>7

\* A page that is done: what it posted was answered, or what it kept is queued.
LEMMA QueueKeptStep ==
  ASSUME NEW t \in Tabs, SoloInv(t), \A u \in Tabs \ {t} : Asleep(u), QueueKept(t)
  PROVE  /\ \A u \in Tabs \ {t} : Still(u)'
         /\ ByTurns(t)' /\ OwnRows(t)' /\ Single(t)' /\ Once(t)'
<1> USE CallerPairs DEF SoloInv
<1> DEFINE what == page[t].what
           row == [id |-> used + 1, what |-> what]
<1>0. /\ page[t].pc = "kept" /\ Busy(t, what) /\ queue' = queue \union {row}
      /\ page'[t].pc = "idle" /\ row.what = what
      /\ UNCHANGED <<draft, server, call, flush>>
  BY DEF QueueKept, Enqueue, Busy, IdlePage, OfflineTypeOK
<1> HIDE DEF what, row
<1>1. \A u \in Tabs \ {t} : Still(u)'
  BY <1>0, StillKept
<1>2. ByTurns(t)' /\ OwnRows(t)' /\ At(t, "idle")
  BY <1>0 DEF ByTurns, OwnRows, At, HasOp
<1>3. \A w : /\ Queued(w)' <=> Queued(w) \/ w = what
             /\ ~Busy(t, w)' /\ ~ToRequeue(t, w)' /\ ~Landed(t, w)
             /\ Drafted(w)' = Drafted(w)
  BY <1>0, <1>2 DEF Queued, Busy, ToRequeue, Landed, At, Drafted
<1>4. Single(t)'
  <2>1. what \in Counted => \A a \in queue : a.what # what
    BY <1>0 DEF Single, Queued
  <2>2. \A a, b \in queue' : a.what = b.what /\ a.what \in Counted => a = b
    BY <1>0, <2>1 DEF Single
  <2>3. ASSUME NEW d \in Drafts,
               Queued(<<"create", d>>)' \/ ToRequeue(t, <<"create", d>>)'
        PROVE  draft'[d] \notin {"new", "draft"}
    <3>1. CASE what = <<"create", d>>
      BY <1>0, <3>1 DEF Single
    <3> QED BY <1>0, <1>3, <2>3, <3>1 DEF Single
  <2> QED BY <1>0, <1>2, <1>3, <2>2, <2>3 DEF Single, At
<1>5. Once(t)'
  BY <1>0, <1>3, OnceKept DEF Pending
<1> QED BY <1>1, <1>2, <1>4, <1>5

LEMMA PostAnsweredStep ==
  ASSUME NEW t \in Tabs, SoloInv(t), \A u \in Tabs \ {t} : Asleep(u),
         PostAnswered(t)
  PROVE  /\ \A u \in Tabs \ {t} : Still(u)'
         /\ ByTurns(t)' /\ OwnRows(t)' /\ Single(t)' /\ Once(t)'
<1> USE CallerPairs DEF SoloInv
<1> DEFINE what == page[t].what
           reply == call[<<t, "page">>].pc
<1>0. /\ page[t].pc = "posting" /\ Busy(t, what) /\ page'[t].pc = "idle"
      /\ reply \in {"ok", "refused"} /\ call'[<<t, "page">>].pc = "none"
      /\ \A c \in Callers : c # <<t, "page">> => call'[c] = call[c]
      /\ UNCHANGED <<queue, server, flush>>
  <2>1. \E view : page' = [page EXCEPT ![t] = IdlePage(view)]
    BY DEF PostAnswered
  <2>2. page'[t].pc = "idle"
    BY <2>1 DEF IdlePage, OfflineTypeOK
  <2>3. /\ page[t].pc = "posting" /\ reply \in {"ok", "refused"}
        /\ Hang(<<t, "page">>) /\ UNCHANGED <<queue, server, flush>>
    BY DEF PostAnswered
  <2> QED BY <2>2, <2>3 DEF Busy, Hang, NoCall, OfflineTypeOK
<1>1. \A d \in Drafts :
        draft'[d] = IF reply = "ok" /\ what = <<"create", d>> THEN "gone"
                    ELSE draft[d]
  <2>1. CASE reply = "refused" \/ what \in Captures
    BY <2>1, Kinds DEF PostAnswered
  <2>2. CASE reply = "ok" /\ what \notin Captures
    <3>1. what \in Operations
      BY <1>0 DEF OfflineTypeOK, TabFits
    <3>2. PICK e \in Drafts : what = <<"create", e>> /\ Of(what) = e
      BY <2>2, <3>1, Kinds
    <3>3. draft' = [draft EXCEPT ![e] = "gone"]
      BY <2>2, <3>2 DEF PostAnswered
    <3> QED BY <2>2, <3>2, <3>3 DEF OfflineTypeOK
  <2> QED BY <1>0, <2>1, <2>2
<1> HIDE DEF what, reply
<1>2. \A u \in Tabs \ {t} : Still(u)'
  BY <1>0, StillKept
<1>3. ByTurns(t)' /\ OwnRows(t)' /\ At(t, "idle")
  BY <1>0 DEF ByTurns, OwnRows, At, HasOp
<1>4. \A w : /\ Queued(w)' = Queued(w)
             /\ ~Busy(t, w)' /\ ~ToRequeue(t, w)'
             /\ Drafted(w)' => Drafted(w)
             /\ Landed(t, w) => w = what /\ reply = "ok"
  BY <1>0, <1>1, <1>3
     DEF Queued, Busy, ToRequeue, Landed, At, Drafted, Rows, what, reply
<1>5. Single(t)'
  BY <1>0, <1>1, <1>3, <1>4 DEF Single, At
<1>6. ASSUME reply = "ok", NEW w \in Counted, w = what PROVE ~Pending(t, w)'
  <2>1. ~Queued(w)
    BY <1>0, <1>6 DEF Single
  <2>2. ~Drafted(w)'
    BY <1>1, <1>6 DEF Drafted, Rows
  <2> QED BY <1>4, <2>1, <2>2 DEF Pending
<1>7. Once(t)'
  BY <1>0, <1>4, <1>6, OnceKept DEF Pending
<1> QED BY <1>2, <1>3, <1>5, <1>7

\* What the server does with what the tab has sent.
LEMMA ServerStep ==
  ASSUME NEW t \in Tabs, SoloInv(t), \A u \in Tabs \ {t} : Asleep(u),
         NEW c \in Callers, ServerChecks(c) \/ ServerStores(c)
  PROVE  /\ \A u \in Tabs \ {t} : Still(u)'
         /\ ByTurns(t)' /\ OwnRows(t)' /\ Single(t)' /\ Once(t)'
<1> USE CallerPairs DEF SoloInv
<1> DEFINE what == call[c].what
<1>0. /\ UNCHANGED <<queue, draft, page, flush>>
      /\ \A d \in Callers \ {c} : call'[d] = call[d]
      /\ call[c].pc \in {"sent", "checked"}
      /\ call'[c].pc \in {"checked", "refused", "ok"}
      /\ call'[c].what = what
  BY DEF ServerChecks, ServerStores, OfflineTypeOK, Request
<1>1. c = <<t, "page">> \/ c = <<t, "flush">>
  <2> PICK u \in Tabs : c = <<u, "page">> \/ c = <<u, "flush">>
    BY DEF Callers
  <2> QED BY <1>0 DEF Still
<1>2. \/ c = <<t, "page">> /\ page[t].pc = "posting" /\ Busy(t, what)
         /\ At(t, "idle")
      \/ /\ c = <<t, "flush">> /\ At(t, "await") /\ flush[t].op.what = what
         /\ flush[t].op \in queue /\ page[t].pc = "idle"
  <2>1. CASE c = <<t, "page">>
    BY <1>0, <2>1 DEF ByTurns, At, OfflineTypeOK, TabFits, Busy
  <2>2. CASE c = <<t, "flush">>
    <3> At(t, "await")
      BY <1>0, <2>2 DEF ByTurns
    <3> QED BY <2>2 DEF ByTurns, At, OfflineTypeOK, TabFits, OwnRows, HasOp
  <2> QED BY <1>1, <2>1, <2>2
<1> HIDE DEF what
<1>3. \A u \in Tabs \ {t} : Still(u)'
  BY <1>0, <1>1, StillKept
<1>4. ByTurns(t)' /\ OwnRows(t)'
  BY <1>0, <1>2 DEF ByTurns, OwnRows, At, HasOp
<1>5. \A w : /\ Queued(w)' = Queued(w) /\ Busy(t, w)' = Busy(t, w)
             /\ ToRequeue(t, w)' = ToRequeue(t, w) /\ Drafted(w)' = Drafted(w)
             /\ ~Landed(t, w)
  BY <1>0, <1>2 DEF Queued, Busy, ToRequeue, Landed, At, Drafted
<1>6. Single(t)'
  BY <1>0, <1>5 DEF Single, At
<1>7. CASE server' = server
  BY <1>5, <1>6, <1>3, <1>4, <1>7, OnceKept DEF Pending
<1>8. CASE ServerStores(c)
  <2>1. what \in Operations /\ server' = Stored(what) /\ call'[c].pc = "ok"
    BY <1>8 DEF ServerStores, OfflineTypeOK, Request, what
  <2>2. CASE what \in Visits
    <3> server'.made = server.made
      BY <2>1, <2>2 DEF Stored, OfflineTypeOK, Server
    <3> QED BY <1>3, <1>4, <1>5, <1>6 DEF Once, CreatedOnce, Pending
  <2>3. CASE what \notin Visits
    <3>1. what \in Counted /\ Of(what) \in Drafts \union Adds
      BY <2>1, <2>3, CountedKinds, Kinds
    <3>2. Pending(t, what)
      BY <1>2 DEF Pending, Queued
    <3>3. server.made[Of(what)] = 0
      BY <1>5, <3>1, <3>2 DEF Once
    <3>4. server'.made = [server.made EXCEPT ![Of(what)] = 1]
      BY <2>1, <2>3, <3>3 DEF Stored, OfflineTypeOK, Server
    <3>5. \A x \in Drafts \union Adds :
            server'.made[x] = IF x = Of(what) THEN 1 ELSE server.made[x]
      BY <3>4 DEF OfflineTypeOK, Server
    <3>6. \A w : w = what => Landed(t, w)'
      BY <1>0, <1>2, <2>1 DEF Landed, Busy, At
    <3>7. ASSUME NEW w \in Counted, Pending(t, w)'
          PROVE  server'.made[Of(w)] = 0 \/ Landed(t, w)'
      <4>1. w # what => Of(w) # Of(what) /\ Of(w) \in Drafts \union Adds
        BY <3>1, CountedKinds, Kinds
      <4>2. w # what => server.made[Of(w)] = 0
        BY <1>5, <3>7 DEF Once, Pending
      <4> QED BY <3>5, <3>6, <4>1, <4>2
    <3>8. CreatedOnce'
      BY <3>5 DEF Once, CreatedOnce
    <3> QED BY <1>3, <1>4, <1>6, <3>7, <3>8 DEF Once
  <2> QED BY <2>2, <2>3
<1> QED BY <1>7, <1>8 DEF ServerChecks

\* A flush that goes from one list or operation to the next.
LEMMA FlushBeside ==
  ASSUME NEW t \in Tabs, SoloInv(t), \A u \in Tabs \ {t} : Asleep(u),
         UNCHANGED <<queue, server, draft, page, call>>,
         page[t].pc = "idle", ~At(t, "await"), ~At(t, "await")', OwnRows(t)',
         \A w : ToRequeue(t, w)' =>
           \/ ToRequeue(t, w)
           \/ \E d \in Drafts : w = <<"create", d>> /\ draft[d] = "pending",
         At(t, "requeue")' => \A d \in flush'[t].todo : ~Queued(<<"create", d>>)
  PROVE  /\ \A u \in Tabs \ {t} : Still(u)'
         /\ ByTurns(t)' /\ Single(t)' /\ Once(t)'
<1> USE DEF SoloInv
<1>1. \A u \in Tabs \ {t} : Still(u)'
  BY StillKept
<1>2. ByTurns(t)'
  BY DEF ByTurns
<1>3. \A w : /\ Queued(w)' = Queued(w) /\ Busy(t, w)' = Busy(t, w)
             /\ Drafted(w)' = Drafted(w) /\ ~Landed(t, w) /\ ~Busy(t, w)
  BY DEF Queued, Busy, Landed, Drafted
<1>4. Single(t)'
  <2> \A d \in Drafts :
        Queued(<<"create", d>>)' \/ ToRequeue(t, <<"create", d>>)' =>
          draft'[d] \notin {"new", "draft"}
    BY <1>3 DEF Single
  <2> QED BY <1>3 DEF Single
<1>5. Once(t)'
  BY <1>3, OnceKept DEF Pending, Drafted, Rows
<1> QED BY <1>1, <1>2, <1>4, <1>5

LEMMA FlushSteps ==
  ASSUME NEW t \in Tabs, SoloInv(t), \A u \in Tabs \ {t} : Asleep(u),
         Flush(t) \/ ReadOps(t) \/ TakeNext(t) \/ MarkFailed(t),
         At(t, "idle")' \/ Quiet(t)'
  PROVE  /\ \A u \in Tabs \ {t} : Still(u)'
         /\ ByTurns(t)' /\ OwnRows(t)' /\ Single(t)' /\ Once(t)'
<1> USE DEF SoloInv
<1>1. CASE Flush(t)
  <2>1. /\ UNCHANGED <<queue, server, draft, page, call>> /\ At(t, "idle")
        /\ flush'[t].pc = "ops"
        /\ flush'[t].todo = {d \in Drafts : draft[d] = "pending"}
        /\ flush'[t].list = flush[t].list
    BY <1>1 DEF Flush, OfflineTypeOK, FlushState
  <2>2. page[t].pc = "idle"
    BY <2>1 DEF At, Quiet, ByTurns
  <2>3. OwnRows(t)' /\ ~At(t, "await") /\ ~At(t, "await")' /\ ~At(t, "requeue")'
    BY <2>1 DEF OwnRows, HasOp, At
  <2>4. \A w : ToRequeue(t, w)' =>
          \E d \in Drafts : w = <<"create", d>> /\ draft[d] = "pending"
    BY <2>1 DEF ToRequeue
  <2> QED BY <2>1, <2>2, <2>3, <2>4, FlushBeside
<1>2. CASE ReadOps(t)
  <2>1. /\ UNCHANGED <<queue, server, draft, page, call>> /\ flush[t].pc = "ops"
        /\ flush'[t].pc = "requeue" /\ flush'[t].list = flush[t].list
        /\ flush'[t].todo = {d \in flush[t].todo : ~Queued(<<"create", d>>)}
    BY <1>2 DEF ReadOps, At, OfflineTypeOK, FlushState
  <2>2. page[t].pc = "idle" /\ OwnRows(t)' /\ ~At(t, "await") /\ ~At(t, "await")'
    BY <2>1 DEF OwnRows, HasOp, At, ByTurns
  <2>3. \A w : ToRequeue(t, w)' => ToRequeue(t, w)
    BY <2>1 DEF ToRequeue
  <2> QED BY <2>1, <2>2, <2>3, FlushBeside
<1>3. CASE TakeNext(t)
  <2>1. /\ UNCHANGED <<queue, server, draft, page, call>> /\ flush[t].pc = "next"
        /\ \/ flush'[t] = IdleFlush
           \/ \E op \in flush[t].list :
                /\ flush'[t].pc = "send" /\ flush'[t].op = op
                /\ flush'[t].list = flush[t].list \ {op}
    <3>1. ASSUME NEW op \in flush[t].list,
                 flush' = [flush EXCEPT ![t].pc = "send", ![t].op = op,
                                        ![t].list = @ \ {op},
                                        ![t].got = op \in queue]
          PROVE  /\ flush'[t].pc = "send" /\ flush'[t].op = op
                 /\ flush'[t].list = flush[t].list \ {op}
      BY <3>1 DEF OfflineTypeOK, FlushState
    <3>2. flush' = [flush EXCEPT ![t] = IdleFlush] => flush'[t] = IdleFlush
      BY DEF OfflineTypeOK
    <3> QED BY <1>3, <3>1, <3>2 DEF TakeNext, At
  <2>2. page[t].pc = "idle" /\ OwnRows(t)' /\ ~At(t, "await") /\ ~At(t, "await")'
    BY <2>1 DEF OwnRows, HasOp, At, ByTurns, IdleFlush
  <2>3. ~At(t, "requeue")' /\ \A w : ~ToRequeue(t, w)'
    BY <2>1 DEF ToRequeue, At, IdleFlush
  <2> QED BY <2>1, <2>2, <2>3, FlushBeside
<1>4. CASE MarkFailed(t)
  <2>1. /\ UNCHANGED <<server, draft, page, call>> /\ flush[t].pc = "failed"
        /\ flush'[t].pc = "next" /\ flush'[t].list = flush[t].list
    BY <1>4 DEF MarkFailed, At, FlushList, IdleFlush, OfflineTypeOK
  <2>2. flush[t].op \in queue
    BY <2>1 DEF OwnRows, HasOp
  <2>3. queue' = queue
    BY <1>4, <2>2 DEF MarkFailed
  <2>4. page[t].pc = "idle" /\ OwnRows(t)' /\ ~At(t, "await") /\ ~At(t, "await")'
    BY <2>1, <2>3 DEF OwnRows, HasOp, At, ByTurns
  <2>5. ~At(t, "requeue")' /\ \A w : ~ToRequeue(t, w)'
    BY <2>1 DEF ToRequeue, At
  <2> QED BY <2>1, <2>3, <2>4, <2>5, FlushBeside
<1> QED BY <1>1, <1>2, <1>3, <1>4

LEMMA RequeueStep ==
  ASSUME NEW t \in Tabs, SoloInv(t), \A u \in Tabs \ {t} : Asleep(u), Requeue(t)
  PROVE  /\ \A u \in Tabs \ {t} : Still(u)'
         /\ ByTurns(t)' /\ OwnRows(t)' /\ Single(t)' /\ Once(t)'
<1> USE DEF SoloInv
<1>0. flush[t].pc = "requeue" /\ page[t].pc = "idle" /\ ~At(t, "await")
  BY DEF Requeue, At, ByTurns
<1>1. CASE FlushList(t, queue) /\ queue' = queue
  <2>1. /\ UNCHANGED <<queue, server, draft, page, call>>
        /\ flush'[t].pc = "next" /\ flush'[t].list = queue
    BY <1>1 DEF Requeue, FlushList, IdleFlush, OfflineTypeOK
  <2>2. OwnRows(t)' /\ ~At(t, "await")' /\ ~At(t, "requeue")'
    BY <2>1 DEF OwnRows, HasOp, At
  <2>3. \A w : ~ToRequeue(t, w)'
    BY <2>1 DEF ToRequeue
  <2> QED BY <1>0, <2>1, <2>2, <2>3, FlushBeside
<1>2. ASSUME NEW d \in flush[t].todo, Enqueue(<<"create", d>>),
             flush' = [flush EXCEPT ![t].todo = @ \ {d}]
      PROVE  /\ \A u \in Tabs \ {t} : Still(u)'
             /\ ByTurns(t)' /\ OwnRows(t)' /\ Single(t)' /\ Once(t)'
  <2> DEFINE what == <<"create", d>>
             row == [id |-> used + 1, what |-> what]
  <2>0. d \in Drafts /\ what \in Counted
    BY CountedKinds DEF OfflineTypeOK, FlushState
  <2>1. /\ UNCHANGED <<server, draft, page, call>>
        /\ queue' = queue \union {row} /\ row.what = what
        /\ flush'[t].pc = "requeue" /\ flush'[t].list = flush[t].list
        /\ flush'[t].todo = flush[t].todo \ {d}
    BY <1>0, <1>2 DEF Requeue, Enqueue, OfflineTypeOK, FlushState
  <2>2. ~Queued(what) /\ ToRequeue(t, what) /\ \A w : ~Busy(t, w) /\ ~Landed(t, w)
    BY <1>0, <1>2, <2>0 DEF Single, At, ToRequeue, Busy, Landed
  <2>3. draft[d] \notin {"new", "draft"}
    BY <2>0, <2>2 DEF Single
  <2> HIDE DEF row
  <2>4. \A u \in Tabs \ {t} : Still(u)'
    BY <2>1, StillKept
  <2>5. ByTurns(t)' /\ OwnRows(t)'
    BY <1>0, <2>1 DEF ByTurns, OwnRows, At, HasOp
  <2>6. \A w : /\ Queued(w)' <=> Queued(w) \/ w = what
               /\ ~Busy(t, w)' /\ Drafted(w)' = Drafted(w)
               /\ ToRequeue(t, w)' => ToRequeue(t, w)
    BY <1>0, <2>1, <2>2 DEF Queued, Busy, ToRequeue, Drafted
  <2>7. Single(t)'
    <3>1. \A a, b \in queue' : a.what = b.what /\ a.what \in Counted => a = b
      BY <2>1, <2>2 DEF Single, Queued
    <3>2. \A e \in Drafts :
            Queued(<<"create", e>>)' \/ ToRequeue(t, <<"create", e>>)' =>
              draft'[e] \notin {"new", "draft"}
      BY <2>1, <2>3, <2>6 DEF Single
    <3>3. \A e \in flush'[t].todo : ~Queued(<<"create", e>>)'
      BY <1>0, <2>1, <2>6 DEF Single, At
    <3> QED BY <2>6, <3>1, <3>2, <3>3 DEF Single
  <2>8. Once(t)'
    BY <2>1, <2>2, <2>6, OnceKept DEF Pending
  <2> QED BY <2>4, <2>5, <2>7, <2>8
<1> QED BY <1>1, <1>2 DEF Requeue

\* A flush that sends the row it has taken, and one whose sending fails.
LEMMA SendStep ==
  ASSUME NEW t \in Tabs, SoloInv(t), \A u \in Tabs \ {t} : Asleep(u),
         SendNext(t) \/ SendFails(t)
  PROVE  /\ \A u \in Tabs \ {t} : Still(u)'
         /\ ByTurns(t)' /\ OwnRows(t)' /\ Single(t)' /\ Once(t)'
<1> USE CallerPairs DEF SoloInv
<1> DEFINE F == <<t, "flush">>
<1>1. /\ UNCHANGED <<server, draft, page>> /\ HasOp(t) /\ page[t].pc = "idle"
      /\ \A c \in Callers \ {F} : call'[c] = call[c]
      /\ call[F].pc # "ok" /\ call'[F].pc \in {"none", "sent"}
  <2>1. CASE SendNext(t)
    BY <2>1 DEF SendNext, Send, HasOp, At, ByTurns, OfflineTypeOK, Request
  <2>2. CASE SendFails(t)
    BY <2>2 DEF SendFails, Hang, NoCall, HasOp, At, ByTurns, OfflineTypeOK
  <2> QED BY <2>1, <2>2
<1>2. flush[t].op \in queue
  BY <1>1 DEF OwnRows
<1>3. /\ queue' = queue /\ flush'[t].list = flush[t].list
      /\ flush'[t].op = flush[t].op
      /\ flush'[t].pc = IF call'[F].pc = "sent" THEN "await" ELSE "failed"
  <2>1. CASE SendNext(t)
    BY <1>2, <2>1 DEF SendNext, Send, FlushAt, OfflineTypeOK, FlushState
  <2>2. CASE SendFails(t)
    BY <2>2 DEF SendFails, Hang, NoCall, OfflineTypeOK, FlushState
  <2> QED BY <2>1, <2>2
<1>4. \A u \in Tabs \ {t} : Still(u)'
  BY <1>1, StillKept
<1>5. OwnRows(t)'
  BY <1>1, <1>3 DEF OwnRows, HasOp
<1>6. ByTurns(t)'
  BY <1>1, <1>3 DEF ByTurns, At
<1>7. \A w : /\ Queued(w)' = Queued(w) /\ ~Busy(t, w) /\ ~Busy(t, w)'
             /\ Drafted(w)' = Drafted(w) /\ ~ToRequeue(t, w)'
             /\ ~Landed(t, w)
  BY <1>1, <1>3 DEF Queued, Busy, ToRequeue, Landed, At, Drafted
<1>8. Single(t)'
  <2> ~At(t, "requeue")'
    BY <1>3 DEF At
  <2> QED BY <1>1, <1>3, <1>7 DEF Single
<1>9. Once(t)'
  BY <1>1, <1>7, OnceKept DEF Pending
<1> QED BY <1>4, <1>5, <1>6, <1>8, <1>9

LEMMA SettleStep ==
  ASSUME NEW t \in Tabs, SoloInv(t), \A u \in Tabs \ {t} : Asleep(u), Settle(t)
  PROVE  /\ \A u \in Tabs \ {t} : Still(u)'
         /\ ByTurns(t)' /\ OwnRows(t)' /\ Single(t)' /\ Once(t)'
<1> USE CallerPairs DEF SoloInv
<1> DEFINE F == <<t, "flush">>
           op == flush[t].op
<1>1. /\ UNCHANGED <<server, page>> /\ At(t, "await") /\ page[t].pc = "idle"
      /\ \A c \in Callers \ {F} : call'[c] = call[c]
      /\ call'[F].pc = "none" /\ queue' = queue \ {op}
      /\ flush'[t].pc = "next" /\ flush'[t].list = flush[t].list
  BY DEF Settle, Hang, NoCall, At, ByTurns, FlushList, IdleFlush, OfflineTypeOK
<1>2. \A d \in Drafts :
        draft'[d] = IF op.what = <<"create", d>> /\ draft[d] \in Rows
                    THEN "synced" ELSE draft[d]
  BY DEF Settle
<1>3. op \in queue \ flush[t].list
  BY <1>1 DEF OwnRows, HasOp, At
<1> HIDE DEF op
<1>4. \A u \in Tabs \ {t} : Still(u)'
  BY <1>1, StillKept
<1>5. ByTurns(t)' /\ OwnRows(t)'
  BY <1>1, <1>3 DEF ByTurns, OwnRows, HasOp, At
<1>6. \A w : /\ Queued(w)' => Queued(w)
             /\ ~Busy(t, w) /\ ~Busy(t, w)' /\ ~ToRequeue(t, w)'
             /\ Drafted(w)' => Drafted(w)
             /\ Landed(t, w) => w = op.what
  BY <1>1, <1>2 DEF Queued, Busy, ToRequeue, Drafted, Landed, At, Rows, op
<1>7. Single(t)'
  <2>1. \A d \in Drafts :
          Queued(<<"create", d>>)' \/ ToRequeue(t, <<"create", d>>)' =>
            draft'[d] \notin {"new", "draft"}
    BY <1>2, <1>6 DEF Single
  <2>2. ~At(t, "requeue")'
    BY <1>1 DEF At
  <2>3. \A a, b \in queue' : a.what = b.what /\ a.what \in Counted => a = b
    BY <1>1 DEF Single
  <2> QED BY <1>6, <2>1, <2>2, <2>3 DEF Single
<1>8. ASSUME NEW w \in Counted, w = op.what PROVE ~Pending(t, w)'
  <2>1. ~Queued(w)'
    BY <1>1, <1>3, <1>8 DEF Single, Queued
  <2>2. Queued(w)
    BY <1>3, <1>8 DEF Queued
  <2>3. ~Drafted(w)'
    BY <1>2, <1>8, <2>2 DEF Drafted, Single, Rows
  <2> QED BY <1>6, <2>1, <2>3 DEF Pending
<1>9. Once(t)'
  BY <1>1, <1>6, <1>8, OnceKept DEF Pending
<1> QED BY <1>4, <1>5, <1>7, <1>9

\* What a page does first, and when it sees the order again.
LEMMA EnterStep ==
  ASSUME NEW t \in Tabs, SoloInv(t), \A u \in Tabs \ {t} : Asleep(u),
         At(t, "idle")' \/ Quiet(t)',
         \E what \in Operations : Post(t, what) \/ EnterOffline(t, what)
  PROVE  /\ \A u \in Tabs \ {t} : Still(u)'
         /\ ByTurns(t)' /\ OwnRows(t)' /\ Single(t)' /\ Once(t)'
<1> USE CallerPairs DEF SoloInv
<1>1. ASSUME NEW what \in Operations, Post(t, what)
      PROVE  /\ \A u \in Tabs \ {t} : Still(u)'
             /\ ByTurns(t)' /\ OwnRows(t)' /\ Single(t)' /\ Once(t)'
  <2>1. /\ page[t].pc = "idle" /\ what \in Offered(t)
        /\ page'[t].pc = "posting" /\ page'[t].what = what
        /\ UNCHANGED <<queue, draft, server, flush>>
        /\ \A c \in Callers : c # <<t, "page">> => call'[c] = call[c]
        /\ call'[<<t, "page">>].pc = "sent"
    BY <1>1 DEF Post, Send, OfflineTypeOK, PageState, Request
  <2>2. At(t, "idle")'
    BY <2>1 DEF Quiet
  <2> QED BY <2>1, <2>2, EnteredStep
<1>2. ASSUME NEW what \in Operations, EnterOffline(t, what)
      PROVE  /\ \A u \in Tabs \ {t} : Still(u)'
             /\ ByTurns(t)' /\ OwnRows(t)' /\ Single(t)' /\ Once(t)'
  <2>1. /\ page[t].pc = "idle" /\ what \in Offered(t)
        /\ page'[t].pc = "kept" /\ page'[t].what = what
        /\ UNCHANGED <<queue, server, call, flush>>
    BY <1>2 DEF EnterOffline, Keep, OfflineTypeOK
  <2>2. \A d \in Drafts :
          draft'[d] = IF what = <<"create", d>> THEN "pending" ELSE draft[d]
    <3>1. CASE what \in Captures
      BY <1>2, <3>1, Kinds DEF EnterOffline, Keep
    <3>2. CASE what \notin Captures
      <4> PICK e \in Drafts : what = <<"create", e>> /\ Of(what) = e
        BY <3>2, Kinds
      <4> draft' = [draft EXCEPT ![e] = "pending"]
        BY <1>2, <3>2 DEF EnterOffline, Keep
      <4> QED BY DEF OfflineTypeOK
    <3> QED BY <3>1, <3>2
  <2>3. At(t, "idle")'
    BY <2>1 DEF Quiet
  <2> QED BY <2>1, <2>2, <2>3, EnteredStep
<1> QED BY <1>1, <1>2

\* What every tab may do that is awake or not: save a draft, see the order.
LEMMA AnyTabStep ==
  ASSUME NEW t \in Tabs, SoloInv(t), \A u \in Tabs \ {t} : Asleep(u),
         NEW u \in Tabs, (\E d \in Drafts : SaveDraft(u, d)) \/ Reload(u)
  PROVE  /\ \A v \in Tabs \ {t} : Still(v)'
         /\ ByTurns(t)' /\ OwnRows(t)' /\ Single(t)' /\ Once(t)'
<1> USE DEF SoloInv
<1>1. ASSUME NEW d \in Drafts, SaveDraft(u, d)
      PROVE  /\ UNCHANGED <<queue, server, call, flush, page>>
             /\ \A e \in Drafts : \/ draft'[e] = draft[e]
                                  \/ draft[e] = "new" /\ draft'[e] = "draft"
  BY <1>1 DEF SaveDraft, OfflineTypeOK
<1>2. ASSUME Reload(u)
      PROVE  /\ UNCHANGED <<queue, server, call, flush, draft>>
             /\ page'[t] = page[t] \/ (page[t].pc = "idle" /\ page'[t].pc = "idle")
  <2>1. \E view : page' = [page EXCEPT ![u] = IdlePage(view)]
    BY <1>2 DEF Reload
  <2>2. page[u].pc \in {"idle", "closed"}
    BY <1>2 DEF Reload
  <2>3. page[t].pc # "closed"
    BY DEF ByTurns
  <2> QED BY <1>2, <2>1, <2>2, <2>3 DEF Reload, IdlePage, OfflineTypeOK
<1> QED BY <1>1, <1>2, BesideStep

LEMMA OwnTabStep ==
  ASSUME NEW t \in Tabs, SoloInv(t), NothingLost, \A u \in Tabs \ {t} : Asleep(u),
         At(t, "idle")' \/ Quiet(t)',
         \/ EnterSomething(t) \/ Reload(t) \/ PageGoesOn(t)
         \/ Flush(t) \/ FlushGoesOn(t)
  PROVE  /\ \A u \in Tabs \ {t} : Still(u)'
         /\ ByTurns(t)' /\ OwnRows(t)' /\ Single(t)' /\ Once(t)'
<1>1. ~PostFails(t)
  BY CallerPairs DEF PostFails, SoloInv, ByTurns
<1> QED BY <1>1, AnyTabStep, EnterStep, QueueKeptStep, PostAnsweredStep,
     FlushSteps, RequeueStep, SendStep, SettleStep
     DEF EnterSomething, PageGoesOn, FlushGoesOn

\* A tab that sleeps does nothing else.
LEMMA OtherTabStep ==
  ASSUME NEW t \in Tabs, SoloInv(t), \A u \in Tabs \ {t} : Asleep(u),
         NEW u \in Tabs \ {t},
         \/ EnterSomething(u) \/ Reload(u) \/ PageGoesOn(u)
         \/ Flush(u) \/ FlushGoesOn(u)
  PROVE  (\E d \in Drafts : SaveDraft(u, d)) \/ Reload(u)
<1>1. /\ page[u].pc = "idle" /\ flush[u].pc = "idle"
      /\ page'[u].pc = "idle" /\ flush'[u].pc = "idle"
  BY DEF SoloInv, Still, At, Asleep
<1>2. ~PageGoesOn(u) /\ ~FlushGoesOn(u)
  BY <1>1 DEF PageGoesOn, PostFails, QueueKept, PostAnswered, FlushGoesOn,
     ReadOps, Requeue, TakeNext, SendNext, Settle, SendFails, MarkFailed, At
<1>3. ~Flush(u)
  BY <1>1 DEF Flush, SoloInv, OfflineTypeOK, FlushState
<1>4. \A what \in Operations : ~Post(u, what)
  BY <1>1 DEF Post, SoloInv, OfflineTypeOK, PageState
<1>5. \A what \in Operations : ~EnterOffline(u, what)
  BY <1>1 DEF EnterOffline, Keep, SoloInv, OfflineTypeOK
<1> QED BY <1>2, <1>3, <1>4, <1>5 DEF EnterSomething

LEMMA SoloStep ==
  ASSUME NEW t \in Tabs PROVE SoloInv(t) /\ SoloNext(t) => SoloInv(t)'
<1> SUFFICES ASSUME SoloInv(t), SoloNext(t) PROVE SoloInv(t)'
  OBVIOUS
<1> /\ Next /\ NothingLost /\ \A u \in Tabs \ {t} : Asleep(u)
    /\ At(t, "idle")' \/ Quiet(t)'
  BY DEF SoloNext
<1>1. OfflineTypeOK'
  BY TypeStep DEF SoloInv
<1> SUFFICES /\ \A u \in Tabs \ {t} : Still(u)'
             /\ ByTurns(t)' /\ OwnRows(t)' /\ Single(t)' /\ Once(t)'
  BY <1>1 DEF SoloInv
<1>2. ASSUME NEW u \in Tabs,
             \/ EnterSomething(u) \/ Reload(u) \/ PageGoesOn(u)
             \/ Flush(u) \/ FlushGoesOn(u)
      PROVE  /\ \A v \in Tabs \ {t} : Still(v)'
             /\ ByTurns(t)' /\ OwnRows(t)' /\ Single(t)' /\ Once(t)'
  <2>1. CASE u = t
    BY <1>2, <2>1, OwnTabStep
  <2>2. CASE u # t
    BY <1>2, <2>2, OtherTabStep, AnyTabStep
  <2> QED BY <2>1, <2>2
<1>3. \A c \in Callers : ~Forgotten(c)
  <2> SUFFICES ASSUME NEW c \in Callers, Forgotten(c) PROVE FALSE
    OBVIOUS
  <2>1. PICK u \in Tabs : c = <<u, "page">> \/ c = <<u, "flush">>
    BY DEF Callers
  <2>2. call[c].pc # "none"
    BY DEF Forgotten
  <2>3. u = t
    <3>1. Still(u) => call[<<u, "page">>].pc = "none" /\ call[<<u, "flush">>].pc = "none"
      BY DEF Still
    <3> QED BY <2>1, <2>2, <3>1 DEF SoloInv
  <2>4. CASE c = <<u, "page">>
    BY <2>2, <2>3, <2>4 DEF Forgotten, SoloInv, ByTurns
  <2>5. CASE c = <<u, "flush">>
    BY <2>2, <2>3, <2>5 DEF Forgotten, SoloInv, ByTurns
  <2> QED BY <2>1, <2>4, <2>5
<1>4. ASSUME NEW c \in Callers, NetworkGoesOn(c)
      PROVE  /\ \A v \in Tabs \ {t} : Still(v)'
             /\ ByTurns(t)' /\ OwnRows(t)' /\ Single(t)' /\ Once(t)'
  BY <1>3, <1>4, ServerStep DEF NetworkGoesOn
<1>5. CASE Link
  BY <1>5, BesideStep DEF Link
<1>6. CASE \E d \in Drafts : Discard(d)
  <2> PICK d \in Drafts : Discard(d)
    BY <1>6
  <2>1. UNCHANGED <<queue, server, call, flush, page>>
    BY DEF Discard
  <2>2. \A e \in Drafts : draft'[e] \in {draft[e], "gone"}
    BY DEF Discard, SoloInv, OfflineTypeOK
  <2> QED BY <2>1, <2>2, BesideStep
<1> QED BY <1>2, <1>4, <1>5, <1>6 DEF Next, NothingLost

LEMMA SoloInit == \A t \in Tabs : Init => SoloInv(t)
<1> SUFFICES ASSUME NEW t \in Tabs, Init PROVE SoloInv(t)
  OBVIOUS
<1> USE CallerPairs DEF Init
<1>1. (\A u \in Tabs : Still(u)) /\ ByTurns(t) /\ OwnRows(t)
  BY DEF Still, ByTurns, OwnRows, At, HasOp, IdlePage, IdleFlush, NoCall
<1>2. Single(t)
  BY DEF Single, Queued, Busy, ToRequeue, At, IdlePage, IdleFlush
<1>3. Once(t)
  <2>1. \A what \in Counted : server.made[Of(what)] = 0
    BY CountedKinds, Kinds
  <2> QED BY <2>1 DEF Once, CreatedOnce
<1> QED BY <1>1, <1>2, <1>3, TypeInit DEF SoloInv

LEMMA SoloStutter == \A t \in Tabs : SoloInv(t) /\ UNCHANGED vars => SoloInv(t)'
<1> SUFFICES ASSUME NEW t \in Tabs, SoloInv(t), UNCHANGED vars PROVE SoloInv(t)'
  OBVIOUS
<1>1. OfflineTypeOK'
  BY TypeStep DEF SoloInv
<1> QED BY <1>1, BesideStep DEF SoloInv, vars, Asleep

\* A tab that sends what it has queued while nothing is entered, and loses no
\* request, creates every order and every location once: although drafts are
\* queued again by every flush, are entered with and without a connection, and
\* are posted by the page as well as by the flush.
THEOREM SerialCreatesOnce == CaseSpec => []SerialCreatedOnce
<1>0. tab1 \in Tabs /\ Tabs \ {tab1} \subseteq {tab2}
  BY TwoTabs
<1>1. CaseInit => SerialInv
  BY <1>0, SoloInit DEF CaseInit, SerialInv
<1>2. SerialInv /\ [CaseNext]_caseVars => SerialInv'
  <2> SUFFICES ASSUME SerialInv, [CaseNext]_caseVars, case' = "serial"
               PROVE  SoloInv(tab1)'
    BY DEF SerialInv
  <2>1. case = "serial" /\ SoloInv(tab1)
    BY DEF CaseNext, caseVars, SerialInv
  <2>2. CASE UNCHANGED caseVars
    BY <1>0, <2>1, <2>2, SoloStutter DEF caseVars
  <2>3. CASE CaseNext
    <3> SoloNext(tab1)
      BY <1>0, <2>1, <2>3 DEF CaseNext, Belongs, SoloNext
    <3> QED BY <1>0, <2>1, SoloStep
  <2> QED BY <2>2, <2>3
<1>3. SerialInv => SerialCreatedOnce
  BY DEF SerialInv, SoloInv, Once, SerialCreatedOnce
<1> QED BY <1>1, <1>2, <1>3, PTL DEF CaseSpec

=============================================================================
