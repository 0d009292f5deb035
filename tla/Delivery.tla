------------------------------- MODULE Delivery -----------------------------
(***************************************************************************)
(* How a message reaches its recipients: it is committed with a pending    *)
(* row per recipient, then written to the recipients that are live; a      *)
(* client that logs in reads what is pending page by page; and a client    *)
(* acknowledges a message once it has it in its buffer, which clears the   *)
(* row.  Sessions end at any moment, and the server may crash.             *)
(*                                                                         *)
(* The live sessions are those of SessionDirectory, which Admission        *)
(* implements.  A session stands for the connection and for the client     *)
(* process at its other end: a client connects once.  Left out: message    *)
(* contents, requests that do not touch pending rows, and the replies a    *)
(* client takes no step on (ACCEPTED, ACKNOWLEDGED).                       *)
(***************************************************************************)
EXTENDS SessionDirectory, Naturals, Sequences, FiniteSets

CONSTANTS
  NoUser,
  MaxMessages,          \* bound of the model: messages ever accepted
  MaxLoad,              \* bound of the model: messages and logins together
  MaxEnds,              \* bound of the model: sessions that end by themselves
  PageLimit,            \* rows a client asks for at a time (50 in the code)
  MaxAutomaticRequests  \* capacity of the client's request queue (256)

ASSUME NoUserAssumption == NoUser \notin User
ASSUME BoundsAssumption ==
  /\ MaxMessages \in Nat /\ MaxLoad \in Nat /\ MaxEnds \in Nat
  /\ PageLimit \in Nat \ {0}
  /\ MaxAutomaticRequests \in Nat \ {0}

VARIABLES
  \* The database: message_history and message_recipients.
  log,       \* recipients of every message; its position is the message id
  acked,     \* the ids with a row of each user whose acknowledged_at is set
  \* The handler of each session.
  owner,     \* the authenticated user
  hstep,     \* the step the handler is about to take
  msg,       \* the message it is delivering
  todo,      \* the recipients of msg it has still to look up
  target,    \* the session it is about to write msg to
  page,      \* the page of pending rows it is about to write
  \* The connection.
  down,      \* frames from the server to the client
  up,        \* frames from the client to the server
  \* The client.
  auto,      \* automaticRequests: ACK and SYNC requests not yet sent
  sync,      \* pendingSynchronizationActive, pendingAfter and pendingThrough
  buf,       \* the ids in the message buffer
  halted,    \* ClientConnection::stopping
  fault,     \* a page failed the client's validation
  \* History.
  seen       \* the ids that reached a message buffer of each user

dbVars      == <<log, acked>>
jobVars     == <<msg, todo, target>>
handlerVars == <<owner, hstep, jobVars, page>>
clientVars  == <<auto, sync, buf, halted, fault, seen>>
vars == <<dirVars, dbVars, handlerVars, down, up, clientVars>>

Id     == 1..MaxMessages
Cursor == 0..MaxMessages       \* 0: no message yet, and an absent watermark

Load == Len(log) + Cardinality({s \in Session : owner[s] # NoUser})

Pending(u) == {i \in DOMAIN log : u \in log[i]} \ acked[u]

Highest(ids) == IF ids = {} THEN 0 ELSE CHOOSE i \in ids : \A j \in ids : j <= i

\* The n smallest of a set of ids: ORDER BY h.id LIMIT n.
First(ids, n) == {i \in ids : Cardinality({j \in ids : j <= i}) <= n}

Ack(i)           == [kind |-> "ack", id |-> i]
Sync(after, thr) == [kind |-> "sync", after |-> after, through |-> thr]
Message(i)       == [kind |-> "message", id |-> i]
Page(ids, next, thr, more) ==
  [kind |-> "page", ids |-> ids, next |-> next, through |-> thr, more |-> more]
Failure          == [kind |-> "fail"]

Rows(after, thr, ids, more) ==
  [after |-> after, through |-> thr, ids |-> ids, more |-> more]
NoPage == Rows(0, 0, {}, FALSE)

SyncState(phase, after, thr) ==
  [phase |-> phase, after |-> after, through |-> thr]

Init ==
  /\ DirInit
  /\ log    = <<>>
  /\ acked  = [u \in User |-> {}]
  /\ owner  = [s \in Session |-> NoUser]
  /\ hstep  = [s \in Session |-> "none"]
  /\ msg    = [s \in Session |-> 0]
  /\ todo   = [s \in Session |-> {}]
  /\ target = [s \in Session |-> NoSession]
  /\ page   = [s \in Session |-> NoPage]
  /\ down   = [s \in Session |-> <<>>]
  /\ up     = [s \in Session |-> <<>>]
  /\ auto   = [s \in Session |-> <<>>]
  /\ sync   = [s \in Session |-> SyncState("unstarted", 0, 0)]
  /\ buf    = [s \in Session |-> {}]
  /\ halted = [s \in Session |-> FALSE]
  /\ fault  = [s \in Session |-> FALSE]
  /\ seen   = [u \in User |-> {}]

-----------------------------------------------------------------------------
(* Writing a frame to a session either puts it on the wire or ends it.     *)
(* What is written to a client that has stopped is lost, and what a client *)
(* has written is lost once the handler of its session has left.           *)

Send(s, frame) ==
  /\ s \notin ended
  /\ down' = IF halted[s] THEN down ELSE [down EXCEPT ![s] = Append(@, frame)]
  /\ UNCHANGED dirVars

SendFails(s) ==
  /\ End(s) \/ (s \in ended /\ UNCHANGED dirVars)
  /\ UNCHANGED down

\* The loop of processMessages: its test, and the end after a failed write.
\* (A conjunct to follow those that determine ended'.)
NextRequest(s, rest) ==
  IF s \in ended'
    THEN /\ hstep' = [hstep EXCEPT ![s] = "out"]
         /\ up'    = [up EXCEPT ![s] = <<>>]
    ELSE /\ hstep' = [hstep EXCEPT ![s] = "read"]
         /\ up'    = [up EXCEPT ![s] = rest]

HasRequest(s, kind) ==
  /\ hstep[s] = "read"
  /\ up[s] # <<>>
  /\ Head(up[s]).kind = kind

-----------------------------------------------------------------------------
(* Sessions.                                                               *)

LogIn(u, s) ==
  /\ owner[s] = NoUser
  /\ Load < MaxLoad
  /\ Publish(u, s)
  /\ owner' = [owner EXCEPT ![s] = u]
  /\ hstep' = [hstep EXCEPT ![s] = "read"]
  /\ UNCHANGED <<dbVars, jobVars, page, down, up, clientVars>>

\* The peer is gone, EXIT, a write of another handler failed, a shutdown.
SessionEnds(s) ==
  /\ owner[s] # NoUser
  /\ Cardinality(ended) < MaxEnds
  /\ End(s)
  /\ UNCHANGED <<dbVars, handlerVars, down, up, clientVars>>

\* A read of a session that has ended finds nothing more.
Leave(s) ==
  /\ hstep[s] = "read" /\ s \in ended
  /\ UNCHANGED <<dirVars, dbVars, owner, jobVars, page, down, clientVars>>
  /\ NextRequest(s, <<>>)

\* The server process dies with every handler; the database file stays.
Crash ==
  /\ live'  = [u \in User |-> NoSession]
  /\ ended' = {s \in Session : owner[s] # NoUser}
  /\ hstep' = [s \in Session |-> IF owner[s] = NoUser THEN "none" ELSE "out"]
  /\ msg'    = [s \in Session |-> 0]
  /\ todo'   = [s \in Session |-> {}]
  /\ target' = [s \in Session |-> NoSession]
  /\ page'   = [s \in Session |-> NoPage]
  /\ up' = [s \in Session |-> <<>>]
  /\ UNCHANGED <<dbVars, owner, down, clientVars>>

-----------------------------------------------------------------------------
(* Accepting a message and delivering it (handlePrivate, handleGroup,      *)
(* handleBroadcast, finishAcceptance, deliverCommittedMessage).            *)

AcceptMessage(s, recipients) ==
  /\ hstep[s] = "read"
  /\ Len(log) < MaxMessages /\ Load < MaxLoad
  /\ log' = Append(log, recipients)
  /\ hstep' = [hstep EXCEPT ![s] = "accepted"]
  /\ msg'   = [msg EXCEPT ![s] = Len(log) + 1]
  /\ todo'  = [todo EXCEPT ![s] = recipients]
  /\ UNCHANGED <<dirVars, acked, owner, target, page, down, up, clientVars>>

\* The sender is answered first; a failed answer does not stop the delivery.
AnswerSender(s) ==
  /\ hstep[s] = "accepted"
  /\ hstep' = [hstep EXCEPT ![s] = "route"]
  /\ UNCHANGED dirVars \/ End(s)
  /\ UNCHANGED <<dbVars, owner, jobVars, page, down, up, clientVars>>

FindReady(s, u) ==
  /\ hstep[s] = "route"
  /\ u \in todo[s]
  /\ todo' = [todo EXCEPT ![s] = @ \ {u}]
  /\ IF live[u] # NoSession
       THEN /\ target' = [target EXCEPT ![s] = live[u]]
            /\ hstep'  = [hstep EXCEPT ![s] = "deliver"]
       ELSE UNCHANGED <<target, hstep>>
  /\ UNCHANGED <<dirVars, dbVars, owner, msg, page, down, up, clientVars>>

SendDelivery(s) ==
  /\ hstep[s] = "deliver"
  /\ Send(target[s], Message(msg[s])) \/ SendFails(target[s])
  /\ hstep'  = [hstep EXCEPT ![s] = "route"]
  /\ target' = [target EXCEPT ![s] = NoSession]
  /\ UNCHANGED <<dbVars, owner, msg, todo, page, up, clientVars>>

FinishRoutes(s) ==
  /\ hstep[s] = "route"
  /\ todo[s] = {}
  /\ msg' = [msg EXCEPT ![s] = 0]
  /\ UNCHANGED <<dirVars, dbVars, owner, todo, target, page, down, clientVars>>
  /\ NextRequest(s, up[s])

-----------------------------------------------------------------------------
(* Requests of the client: acknowledge, read a page of pending messages.   *)

AcknowledgeDelivery(s) ==
  LET u == owner[s]  i == Head(up[s]).id IN
  /\ HasRequest(s, "ack")
  /\ u \in log[i]
  /\ acked' = [acked EXCEPT ![u] = @ \cup {i}]
  /\ UNCHANGED dirVars \/ End(s)      \* the answer is written, or is not
  /\ NextRequest(s, Tail(up[s]))
  /\ UNCHANGED <<log, owner, jobVars, page, down, clientVars>>

\* Variant: the watermark itself is left out of the range.
GetPendingPageBelow(s) ==
  LET after     == Head(up[s]).after
      through   == Head(up[s]).through
      watermark == IF through = 0 THEN Highest(Pending(owner[s])) ELSE through
      rows      == {i \in Pending(owner[s]) : after < i /\ i < watermark}
      ids       == First(rows, PageLimit)
  IN
  /\ HasRequest(s, "sync")
  /\ up' = [up EXCEPT ![s] = Tail(@)]
  /\ page'  = [page EXCEPT ![s] = Rows(after, watermark, ids, rows # ids)]
  /\ hstep' = [hstep EXCEPT ![s] = "page"]
  /\ UNCHANGED <<dirVars, dbVars, owner, jobVars, down, clientVars>>

\* Variant: rows are cleared when they are fetched, as the server once did.
GetPendingPageAndClear(s) ==
  LET rows == Pending(owner[s])
      ids  == First(rows, PageLimit)
  IN
  /\ HasRequest(s, "sync")
  /\ up' = [up EXCEPT ![s] = Tail(@)]
  /\ page'  = [page EXCEPT ![s] = Rows(0, Highest(rows), ids, rows # ids)]
  /\ hstep' = [hstep EXCEPT ![s] = "page"]
  /\ acked' = [acked EXCEPT ![owner[s]] = @ \cup ids]
  /\ UNCHANGED <<dirVars, log, owner, jobVars, down, clientVars>>

\* The watermark of a synchronization is fixed by its first page.
GetPendingPage(s) ==
  LET after     == Head(up[s]).after
      through   == Head(up[s]).through
      watermark == IF through = 0 THEN Highest(Pending(owner[s])) ELSE through
      rows      == {i \in Pending(owner[s]) : after < i /\ i <= watermark}
      ids       == First(rows, PageLimit)
  IN
  /\ HasRequest(s, "sync")
  /\ up' = [up EXCEPT ![s] = Tail(@)]
  /\ page'  = [page EXCEPT ![s] = Rows(after, watermark, ids, rows # ids)]
  /\ hstep' = [hstep EXCEPT ![s] = "page"]
  /\ UNCHANGED <<dirVars, dbVars, owner, jobVars, down, clientVars>>

\* Variant: the cursor moves past the rows left out of the frame.
WritePageToTheEnd(s) ==
  LET p == page[s] IN
  /\ hstep[s] = "page"
  /\ \E n \in 0..Cardinality(p.ids) :
       LET kept == First(p.ids, n)
           next == IF kept = {} THEN p.after ELSE Highest(p.ids)
           more == p.more \/ kept # p.ids
       IN  /\ kept = {} => p.ids = {}
           /\ Send(s, Page(kept, next, p.through, more)) \/ SendFails(s)
  /\ page' = [page EXCEPT ![s] = NoPage]
  /\ NextRequest(s, up[s])
  /\ UNCHANGED <<dbVars, owner, jobVars, clientVars>>

\* As many rows are written as fit in a frame, and at least one.
WritePage(s) ==
  LET p == page[s] IN
  /\ hstep[s] = "page"
  /\ \E n \in 0..Cardinality(p.ids) :
       LET kept == First(p.ids, n)
           next == IF kept = {} THEN p.after ELSE Highest(kept)
           more == p.more \/ kept # p.ids
       IN  /\ kept = {} => p.ids = {}
           /\ Send(s, Page(kept, next, p.through, more)) \/ SendFails(s)
  /\ page' = [page EXCEPT ![s] = NoPage]
  /\ NextRequest(s, up[s])
  /\ UNCHANGED <<dbVars, owner, jobVars, clientVars>>

\* The database operation throws and is rolled back.
RequestFails(s) ==
  /\ HasRequest(s, "ack") \/ HasRequest(s, "sync")
  /\ Send(s, Failure) \/ SendFails(s)
  /\ NextRequest(s, Tail(up[s]))
  /\ UNCHANGED <<dbVars, owner, jobVars, page, clientVars>>

-----------------------------------------------------------------------------
(* The client: its main thread starts the synchronization and sends what   *)
(* the receiver thread queued.                                             *)

\* requestStop: nothing that is queued or on the wire is looked at any more.
Halt(s) ==
  /\ halted' = [halted EXCEPT ![s] = TRUE]
  /\ auto'   = [auto EXCEPT ![s] = <<>>]
  /\ down'   = [down EXCEPT ![s] = <<>>]

StartSynchronization(s) ==
  /\ owner[s] # NoUser /\ ~halted[s]
  /\ sync[s].phase = "unstarted"
  /\ sync' = [sync EXCEPT ![s] = SyncState("active", 0, 0)]
  /\ auto' = [auto EXCEPT ![s] = Append(@, Sync(0, 0))]
  /\ UNCHANGED <<dirVars, dbVars, handlerVars, down, up, buf, halted, fault, seen>>

FlushRequest(s) ==
  /\ ~halted[s]
  /\ auto[s] # <<>>
  /\ \/ /\ auto' = [auto EXCEPT ![s] = Tail(@)]
        /\ up' = IF hstep[s] = "out" THEN up
                 ELSE [up EXCEPT ![s] = Append(@, Head(auto[s]))]
        /\ UNCHANGED <<down, halted>>
     \/ /\ Halt(s)
        /\ UNCHANGED up
  /\ UNCHANGED <<dirVars, dbVars, handlerVars, sync, buf, fault, seen>>

\* The user leaves, the connection is lost, the message buffer is full.
ClientStops(s) ==
  /\ owner[s] # NoUser /\ ~halted[s]
  /\ Halt(s)
  /\ UNCHANGED <<dirVars, dbVars, handlerVars, up, sync, buf, fault, seen>>

\* The receiver dispatches frames once the synchronization was started.
HasFrame(s, kind) ==
  /\ ~halted[s]
  /\ sync[s].phase # "unstarted"
  /\ down[s] # <<>>
  /\ Head(down[s]).kind = kind

TakeFrame(s) == down' = [down EXCEPT ![s] = Tail(@)]

Retain(s, ids) ==
  /\ buf'  = [buf EXCEPT ![s] = @ \cup ids]
  /\ seen' = [seen EXCEPT ![owner[s]] = @ \cup ids]

\* Variant: the queue is tested before the size of the batch is known.
FitsOne(s, n) == Len(auto[s]) < MaxAutomaticRequests

Fits(s, n) == Len(auto[s]) + n <= MaxAutomaticRequests

\* Variant: a message the full buffer refused is acknowledged all the same.
ReceiveMessageUnbuffered(s) ==
  /\ HasFrame(s, "message")
  /\ IF Fits(s, 1)
       THEN /\ auto' = [auto EXCEPT ![s] = Append(@, Ack(Head(down[s]).id))]
            /\ TakeFrame(s)
            /\ UNCHANGED halted
       ELSE Halt(s)
  /\ UNCHANGED <<dirVars, dbVars, handlerVars, up, sync, buf, fault, seen>>

\* Variant: the acknowledgement is forgotten.
ReceiveMessageUnacknowledged(s) ==
  /\ HasFrame(s, "message")
  /\ Retain(s, {Head(down[s]).id})
  /\ TakeFrame(s)
  /\ UNCHANGED <<dirVars, dbVars, handlerVars, up, auto, sync, halted, fault>>

ReceiveMessage(s) ==
  LET i == Head(down[s]).id IN
  /\ HasFrame(s, "message")
  /\ Retain(s, {i})
  /\ IF Fits(s, 1)
       THEN /\ auto' = [auto EXCEPT ![s] = Append(@, Ack(i))]
            /\ TakeFrame(s)
            /\ UNCHANGED halted
       ELSE Halt(s)
  /\ UNCHANGED <<dirVars, dbVars, handlerVars, up, sync, fault>>

\* What processPendingPage demands of a page before it uses any of it.
ValidPage(s, p) ==
  LET expected == sync[s] IN
  /\ expected.phase = "active"
  /\ expected.through # 0 => expected.through = p.through
  /\ expected.after <= p.through
  /\ \A i \in p.ids : expected.after < i /\ i <= p.through
  /\ p.next = IF p.ids = {} THEN expected.after ELSE Highest(p.ids)
  /\ p.more => p.ids # {}

\* The acknowledgements of a page, in the order of its records.
InOrder(ids) ==
  [n \in 1..Cardinality(ids) |->
     Ack(CHOOSE i \in ids : Cardinality({j \in ids : j <= i}) = n)]

UsePage(s, p) ==
  LET more == IF p.more THEN <<Sync(p.next, p.through)>> ELSE <<>> IN
  /\ Retain(s, p.ids)
  /\ IF Fits(s, Cardinality(p.ids) + Len(more))
       THEN /\ auto' = [auto EXCEPT ![s] = @ \o InOrder(p.ids) \o more]
            /\ sync' = [sync EXCEPT ![s] =
                 IF p.more THEN SyncState("active", p.next, p.through)
                           ELSE SyncState("done", 0, 0)]
            /\ TakeFrame(s)
            /\ UNCHANGED halted
       ELSE /\ Halt(s)
            /\ UNCHANGED sync
  /\ UNCHANGED fault

RejectPage(s) ==
  /\ fault' = [fault EXCEPT ![s] = TRUE]
  /\ Halt(s)
  /\ UNCHANGED <<sync, buf, seen>>

ReceivePage(s) ==
  LET p == Head(down[s]) IN
  /\ HasFrame(s, "page")
  /\ IF ValidPage(s, p) THEN UsePage(s, p) ELSE RejectPage(s)
  /\ UNCHANGED <<dirVars, dbVars, handlerVars, up>>

\* A failed acknowledgement or synchronization stops the client.
ReceiveFailure(s) ==
  /\ HasFrame(s, "fail")
  /\ Halt(s)
  /\ UNCHANGED <<dirVars, dbVars, handlerVars, up, sync, buf, fault, seen>>

-----------------------------------------------------------------------------

Route(s) ==
  \/ AnswerSender(s)
  \/ \E u \in User : FindReady(s, u)
  \/ SendDelivery(s)
  \/ FinishRoutes(s)

Serve(s) == AcknowledgeDelivery(s) \/ GetPendingPage(s) \/ WritePage(s)

Receive(s) == ReceiveMessage(s) \/ ReceivePage(s) \/ ReceiveFailure(s)

SessionStep(s) ==
  \/ \E u \in User : LogIn(u, s)
  \/ SessionEnds(s)
  \/ Leave(s)
  \/ \E recipients \in SUBSET (User \ {owner[s]}) : AcceptMessage(s, recipients)
  \/ Route(s)
  \/ Serve(s)
  \/ RequestFails(s)
  \/ StartSynchronization(s)
  \/ FlushRequest(s)
  \/ ClientStops(s)
  \/ Receive(s)

Next == Crash \/ \E s \in Session : SessionStep(s)

Spec == Init /\ [][Next]_vars

-----------------------------------------------------------------------------
(* Safety.                                                                 *)

\* The client's strict validation never rejects a page of this server, whatever
\* is committed, acknowledged or left out of a page for its size in between.
PagesAreValid == \A s \in Session : ~fault[s]

Contents(f) == CASE f.kind = "message" -> {f.id}
                 [] f.kind = "page"    -> f.ids
                 [] OTHER              -> {}

InTransit(s, i) == \E n \in DOMAIN down[s] : i \in Contents(down[s][n])

BeingRouted(u, s, i) ==
  \E r \in Session : msg[r] = i /\ (u \in todo[r] \/ target[r] = s)

\* The synchronization of s will still read i: a request for it is to come, or
\* is queued or on its way, or the page that will lead to the request is.
Requested(request, i) ==
  /\ request.kind = "sync"
  /\ request.after < i
  /\ request.through # 0 => i <= request.through

Continued(next, through, more, i) == more /\ next < i /\ i <= through

ToBeRead(s, i) ==
  \/ sync[s].phase = "unstarted"
  \/ \E n \in DOMAIN auto[s] : Requested(auto[s][n], i)
  \/ \E n \in DOMAIN up[s]   : Requested(up[s][n], i)
  \/ hstep[s] = "page" /\ (i \in page[s].ids \/
       Continued(page[s].after, page[s].through, page[s].more, i))
  \/ \E n \in DOMAIN down[s] :
       LET p == down[s][n] IN
       p.kind = "page" /\ Continued(p.next, p.through, p.more, i)

Doomed(s) == halted[s] \/ \E n \in DOMAIN down[s] : down[s][n] = Failure

\* No message falls between live delivery and synchronization: while a user is
\* connected, each of the user's pending messages is in the client's buffer, on the
\* wire, in the hands of the handler that accepted it, or still ahead of the
\* synchronization.  The commit, the publication of the session, the choice of
\* the watermark and the look-up of the recipient are four steps of different
\* threads, each under another lock.
NoLostDelivery ==
  \A s \in Session :
    LET u == owner[s] IN
    u # NoUser /\ s \notin ended /\ ~Doomed(s) =>
      \A i \in Pending(u) : \/ i \in buf[s]
                            \/ InTransit(s, i)
                            \/ BeingRouted(u, s, i)
                            \/ ToBeRead(s, i)

\* An acknowledgement under way is for a message its sender has in its buffer,
\* so it is never refused as NOT_FOUND_OR_NOT_RECIPIENT, which would stop the
\* client.  And acknowledgements and page requests together keep within the
\* client's queue: a batch that does not fit enters it in no part.
AcksAreDue ==
  \A s \in Session :
    /\ Len(auto[s]) <= MaxAutomaticRequests
    /\ \A n \in DOMAIN up[s] :
         up[s][n].kind = "ack" =>
           LET i == up[s][n].id IN
           i \in buf[s] /\ i \in DOMAIN log /\ owner[s] \in log[i]

Inbox == INSTANCE Inbox WITH accepted <- log, shown <- seen, delivered <- acked

\* At least once, to nobody else, and acknowledged only when shown.
ImplementsInbox == Inbox!InboxSpec

\* README.md, 2.3: "After delivery, the messages are removed from the database."
\* A message acknowledged by each of its recipients would not be stored.
RemovedAfterDelivery ==
  \A i \in DOMAIN log :
    log[i] # {} => \E u \in log[i] : i \notin acked[u]

-----------------------------------------------------------------------------
(* Liveness.  Handlers and clients run, peers take what is written to them *)
(* (a stalled peer is the subject of Admission), the database answers.     *)

ServerFairness ==
  \A s \in Session : WF_vars(Route(s)) /\ WF_vars(Serve(s))

ClientFairness ==
  \A s \in Session :
    WF_vars(StartSynchronization(s)) /\ WF_vars(FlushRequest(s))
    /\ WF_vars(Receive(s))

FairSpec == Spec /\ ServerFairness /\ ClientFairness

\* Whoever stays connected gets every message pending for him, and it is then
\* recorded as delivered: sooner or later, or one of the two ends has stopped.
EventuallyDelivered ==
  \A u \in User, s \in Session, i \in Id :
    live[u] = s /\ i \in Pending(u)
      ~> i \in acked[u] \/ s \in ended \/ halted[s]
=============================================================================
