--------------------------- MODULE Delivery_proofs ---------------------------
(***************************************************************************)
(* Proofs about Delivery: its invariant is inductive, the safety           *)
(* properties follow from it, and every step is a step of Inbox.           *)
(*                                                                         *)
(* A step changes the state of one session, and what is on the wire to one *)
(* more; UndisturbedKeeps and NothingRerouted stand for all the others, so *)
(* that each action is proved about the session it acts on.                *)
(***************************************************************************)
EXTENDS Delivery_invariant

-----------------------------------------------------------------------------
(* Types.                                                                  *)

DirectoryTypes ==
  /\ live \in [User -> Session \cup {NoSession}]
  /\ ended \subseteq Session

\* A session that ends leaves the directory well formed.
LEMMA EndTypes ==
  ASSUME Types, NEW s \in Session, End(s) \/ UNCHANGED dirVars
  PROVE  DirectoryTypes'
BY DEF Types, ServerTypes, DirectoryTypes, End, dirVars

\* So does a frame that is written, which keeps the wire well formed too.
LEMMA SendTypes ==
  ASSUME Types, NEW s \in Session, NEW frame \in Frame,
         Send(s, frame) \/ SendFails(s)
  PROVE  DirectoryTypes' /\ down' \in [Session -> Seq(Frame)]
<1>1. DirectoryTypes'
  BY EndTypes DEF Send, SendFails
<1>2. Append(down[s], frame) \in Seq(Frame)
  BY Appended DEF Types, ClientTypes
<1> QED
  BY <1>1, <1>2 DEF Send, SendFails, Types, ClientTypes

\* A handler goes on, or leaves.
LEMMA NextRequestTypes ==
  ASSUME Types, NEW s \in Session, NEW rest \in Seq(Request),
         NextRequest(s, rest)
  PROVE  /\ hstep' \in [Session -> HandlerStep]
         /\ up' \in [Session -> Seq(Request)]
<1>1. <<>> \in Seq(Request)
  OBVIOUS
<1> QED
  BY <1>1 DEF NextRequest, Types, ServerTypes, ClientTypes, HandlerStep

\* A client that stops has its queues emptied.
LEMMA HaltTypes ==
  ASSUME Types, NEW s \in Session, Halt(s)
  PROVE  /\ halted' \in [Session -> BOOLEAN]
         /\ auto' \in [Session -> Seq(Request)]
         /\ down' \in [Session -> Seq(Frame)]
<1>1. <<>> \in Seq(Request) /\ <<>> \in Seq(Frame)
  OBVIOUS
<1> QED
  BY <1>1 DEF Halt, Types, ClientTypes

\* What a client retains are ids.
LEMMA RetainTypes ==
  ASSUME Types, NEW s \in Session, owner[s] \in User,
         NEW ids \in SUBSET Nat, Retain(s, ids)
  PROVE  buf' \in [Session -> SUBSET Nat] /\ seen' \in [User -> SUBSET Nat]
BY DEF Retain, Types, ClientTypes

\* Every step keeps the types.
LEMMA TypesStep == IInv /\ Next => Types'
<1> SUFFICES ASSUME IInv, Next PROVE Types'
  OBVIOUS
<1> USE DEF IInv, Types, ServerTypes, ClientTypes, HandlerStep
<1>1. ASSUME Crash PROVE Types'
  <2>1. <<>> \in Seq(Request)
    OBVIOUS
  <2>2. NoPage \in PageRows
    BY DEF NoPage, Rows, PageRows
  <2> QED
    BY <1>1, <2>1, <2>2 DEF Crash, dbVars, clientVars
<1>2. ASSUME NEW s \in Session, NEW u \in User, LogIn(u, s) PROVE Types'
  BY <1>2 DEF LogIn, Publish, dbVars, jobVars, clientVars
<1>3. ASSUME NEW s \in Session, SessionEnds(s) PROVE Types'
  BY <1>3, EndTypes
  DEF SessionEnds, DirectoryTypes, dbVars, handlerVars, jobVars, clientVars
<1>4. ASSUME NEW s \in Session, Leave(s) PROVE Types'
  <2>1. <<>> \in Seq(Request)
    OBVIOUS
  <2> QED
    BY <1>4, <2>1, NextRequestTypes
    DEF Leave, dirVars, dbVars, jobVars, clientVars
<1>5. ASSUME NEW s \in Session, NEW rs \in SUBSET (User \ {owner[s]}),
             AcceptMessage(s, rs)
      PROVE  Types'
  <2>1. /\ Append(log, rs) \in Seq(SUBSET User)
        /\ Len(log) + 1 \in Nat
    BY AppendProperties, LenProperties
  <2> QED
    BY <1>5, <2>1 DEF AcceptMessage, dirVars, clientVars
<1>6. ASSUME NEW s \in Session, AnswerSender(s) PROVE Types'
  BY <1>6, EndTypes
  DEF AnswerSender, DirectoryTypes, dirVars, dbVars, jobVars, clientVars
<1>7. ASSUME NEW s \in Session, NEW u \in User, FindReady(s, u) PROVE Types'
  BY <1>7 DEF FindReady, dirVars, dbVars, clientVars
<1>8. ASSUME NEW s \in Session, SendDelivery(s) PROVE Types'
  <2>1. target[s] \in Session /\ Message(msg[s]) \in Frame
    BY <1>8, ContentsOf DEF SendDelivery, JobFollowsStep, Frame
  <2>2. DirectoryTypes' /\ down' \in [Session -> Seq(Frame)]
    BY <1>8, <2>1, SendTypes DEF SendDelivery
  <2> QED
    BY <1>8, <2>2 DEF SendDelivery, DirectoryTypes, dbVars, clientVars
<1>9. ASSUME NEW s \in Session, FinishRoutes(s) PROVE Types'
  <2>1. up[s] \in Seq(Request)
    OBVIOUS
  <2> QED
    BY <1>9, <2>1, NextRequestTypes
    DEF FinishRoutes, dirVars, dbVars, clientVars
<1>10. ASSUME NEW s \in Session, AcknowledgeDelivery(s) PROVE Types'
  <2>1. /\ owner[s] \in User /\ Head(up[s]) \in AckRequest
        /\ Tail(up[s]) \in Seq(Request)
    BY <1>10, RequestRead, HeadTaken DEF AcknowledgeDelivery
  <2>2. /\ hstep' \in [Session -> HandlerStep]
        /\ up' \in [Session -> Seq(Request)]
    BY <1>10, <2>1, NextRequestTypes DEF AcknowledgeDelivery
  <2>3. DirectoryTypes'
    BY <1>10, EndTypes DEF AcknowledgeDelivery
  <2> QED
    BY <1>10, <2>1, <2>2, <2>3
    DEF AcknowledgeDelivery, AckRequest, DirectoryTypes, dirVars, jobVars, clientVars
<1>11. ASSUME NEW s \in Session, GetPendingPage(s) PROVE Types'
  <2> DEFINE after == Head(up[s]).after
             through == Head(up[s]).through
             watermark == IF through = 0 THEN Highest(Pending(owner[s]))
                                         ELSE through
             rows == {i \in Pending(owner[s]) : after < i /\ i <= watermark}
             ids == First(rows, PageLimit)
  <2>1. /\ owner[s] \in User /\ Head(up[s]) \in SyncRequest
        /\ Tail(up[s]) \in Seq(Request)
    BY <1>11, RequestRead, HeadTaken DEF GetPendingPage
  <2>2. after \in Nat /\ watermark \in Nat /\ ids \in SUBSET Nat
    <3>1. after \in Nat /\ through \in Nat
      BY <2>1 DEF SyncRequest
    <3>2. /\ Pending(owner[s]) \subseteq 1..Len(log)
          /\ Pending(owner[s]) \in SUBSET Nat
          /\ Highest(Pending(owner[s])) \in Nat
      BY LogIds
    <3>3. ids \subseteq rows /\ rows \subseteq Pending(owner[s])
      BY DEF First
    <3> QED
      BY <3>1, <3>2, <3>3
  <2>3. /\ page' = [page EXCEPT ![s] = Rows(after, watermark, ids, rows # ids)]
        /\ up' = [up EXCEPT ![s] = Tail(@)]
    BY <1>11 DEF GetPendingPage
  <2> HIDE DEF after, watermark, ids, rows
  <2>4. Rows(after, watermark, ids, rows # ids) \in PageRows
    BY <2>2 DEF Rows, PageRows
  <2>5. /\ page' \in [Session -> PageRows]
        /\ up' \in [Session -> Seq(Request)]
    BY <2>1, <2>3, <2>4
  <2> QED
    BY <1>11, <2>5 DEF GetPendingPage, dirVars, dbVars, jobVars, clientVars
<1>12. ASSUME NEW s \in Session, WritePage(s) PROVE Types'
  <2>1. PICK n \in 0..Cardinality(page[s].ids) :
               LET kept == First(page[s].ids, n)
                   next == IF kept = {} THEN page[s].after ELSE Highest(kept)
                   more == page[s].more \/ kept # page[s].ids
               IN  \/ Send(s, Page(kept, next, page[s].through, more))
                   \/ SendFails(s)
    BY <1>12 DEF WritePage
  <2> DEFINE kept == First(page[s].ids, n)
             next == IF kept = {} THEN page[s].after ELSE Highest(kept)
             more == page[s].more \/ kept # page[s].ids
             frame == Page(kept, next, page[s].through, more)
  <2>2. page[s] \in PageRows /\ page[s].ids \subseteq 1..Len(log)
    BY LogIds DEF SessionInv, OnlyAddressed
  <2>3. kept \in SUBSET Nat /\ next \in Nat /\ more \in BOOLEAN
    BY <2>2, LogIds DEF First, PageRows
  <2>4. Send(s, frame) \/ SendFails(s)
    BY <2>1
  <2> HIDE DEF kept, next, more
  <2>5. frame \in Frame
    BY <2>2, <2>3 DEF Page, Frame, PageFrame, PageRows
  <2> HIDE DEF frame
  <2>6. DirectoryTypes' /\ down' \in [Session -> Seq(Frame)]
    BY <2>4, <2>5, SendTypes
  <2>7. up[s] \in Seq(Request) /\ NextRequest(s, up[s])
    BY <1>12 DEF WritePage
  <2>8. /\ hstep' \in [Session -> HandlerStep]
        /\ up' \in [Session -> Seq(Request)]
    BY <2>7, NextRequestTypes
  <2>9. NoPage \in PageRows
    BY DEF NoPage, Rows, PageRows
  <2> QED
    BY <1>12, <2>6, <2>8, <2>9
    DEF WritePage, DirectoryTypes, dbVars, jobVars, clientVars
<1>13. ASSUME NEW s \in Session, RequestFails(s) PROVE Types'
  <2>1. Tail(up[s]) \in Seq(Request)
    BY <1>13, RequestRead, HeadTaken DEF RequestFails
  <2>2. /\ hstep' \in [Session -> HandlerStep]
        /\ up' \in [Session -> Seq(Request)]
    BY <1>13, <2>1, NextRequestTypes DEF RequestFails
  <2>3. DirectoryTypes' /\ down' \in [Session -> Seq(Frame)]
    BY <1>13, SendTypes, ContentsOf DEF RequestFails
  <2> QED
    BY <1>13, <2>2, <2>3
    DEF RequestFails, DirectoryTypes, dbVars, jobVars, clientVars
<1>14. ASSUME NEW s \in Session, StartSynchronization(s) PROVE Types'
  <2>1. /\ Append(auto[s], Sync(0, 0)) \in Seq(Request)
        /\ SyncState("active", 0, 0) \in SyncStates
    <3>1. Sync(0, 0) \in Request /\ auto[s] \in Seq(Request)
      BY DEF Sync, SyncRequest, Request
    <3> QED
      BY <3>1, Appended DEF SyncState, SyncStates
  <2> QED
    BY <1>14, <2>1
    DEF StartSynchronization, dirVars, dbVars, handlerVars, jobVars
<1>15. ASSUME NEW s \in Session, FlushRequest(s) PROVE Types'
  <2>1. /\ auto[s] \in Seq(Request) /\ up[s] \in Seq(Request)
        /\ auto[s] # <<>>
    BY <1>15 DEF FlushRequest
  <2>2. /\ Tail(auto[s]) \in Seq(Request)
        /\ Append(up[s], Head(auto[s])) \in Seq(Request)
    BY <2>1, HeadTaken, Appended
  <2>3. CASE Halt(s) /\ UNCHANGED up
    BY <1>15, <2>3, HaltTypes
    DEF FlushRequest, dirVars, dbVars, handlerVars, jobVars
  <2>4. CASE /\ auto' = [auto EXCEPT ![s] = Tail(@)]
             /\ up' = IF hstep[s] = "out" THEN up
                      ELSE [up EXCEPT ![s] = Append(@, Head(auto[s]))]
             /\ UNCHANGED <<down, halted>>
    <3>1. auto' \in [Session -> Seq(Request)]
      BY <2>2, <2>4
    <3>2. up' \in [Session -> Seq(Request)]
      BY <2>2, <2>4
    <3> QED
      BY <1>15, <2>4, <3>1, <3>2
      DEF FlushRequest, dirVars, dbVars, handlerVars, jobVars
  <2> QED
    BY <1>15, <2>3, <2>4 DEF FlushRequest
<1>16. ASSUME NEW s \in Session, ClientStops(s) PROVE Types'
  BY <1>16, HaltTypes DEF ClientStops, dirVars, dbVars, handlerVars, jobVars
<1>17. ASSUME NEW s \in Session, ReceiveMessage(s) PROVE Types'
  <2> DEFINE i == Head(down[s]).id
  <2>1. /\ owner[s] \in User /\ i \in Nat
        /\ Tail(down[s]) \in Seq(Frame)
    BY <1>17, FrameReceived, HeadTaken DEF ReceiveMessage, MessageFrame
  <2>2. buf' \in [Session -> SUBSET Nat] /\ seen' \in [User -> SUBSET Nat]
    BY <1>17, <2>1, RetainTypes DEF ReceiveMessage
  <2>3. CASE Fits(s, 1)
    <3>1. /\ auto' = [auto EXCEPT ![s] = Append(@, Ack(i))]
          /\ TakeFrame(s) /\ UNCHANGED halted
      BY <1>17, <2>3 DEF ReceiveMessage
    <3>2. Append(auto[s], Ack(i)) \in Seq(Request)
      <4>1. Ack(i) \in Request
        BY <2>1 DEF Ack, Request, AckRequest
      <4> QED
        BY <4>1, Appended
    <3> QED
      BY <1>17, <2>1, <2>2, <3>1, <3>2
      DEF ReceiveMessage, TakeFrame, dirVars, dbVars, handlerVars, jobVars
  <2>4. CASE ~Fits(s, 1)
    BY <1>17, <2>2, <2>4, HaltTypes
    DEF ReceiveMessage, dirVars, dbVars, handlerVars, jobVars
  <2> QED
    BY <2>3, <2>4
<1>18. ASSUME NEW s \in Session, ReceivePage(s) PROVE Types'
  <2> DEFINE p == Head(down[s])
  <2>1. /\ owner[s] \in User /\ p \in PageFrame
        /\ Tail(down[s]) \in Seq(Frame)
        /\ p.ids \subseteq 1..Len(log)
    <3>1. /\ owner[s] \in User /\ p \in PageFrame
          /\ down[s] \in Seq(Frame) /\ down[s] # <<>>
          /\ Contents(p) \subseteq Addressed(owner[s])
      BY <1>18, FrameReceived DEF ReceivePage
    <3>2. Tail(down[s]) \in Seq(Frame)
      BY <3>1, HeadTaken
    <3>3. Contents(p) = p.ids
      BY <3>1, ContentsOf
    <3> QED
      BY <3>1, <3>2, <3>3, LogIds
  <2>2. IsFiniteSet(p.ids) /\ p.ids \in SUBSET Nat
    BY <2>1, LogIds
  <2>3. CASE UsePage(s, p)
    <3>1. buf' \in [Session -> SUBSET Nat] /\ seen' \in [User -> SUBSET Nat]
      BY <2>1, <2>2, <2>3, PageUsed, RetainTypes
    <3>2. CASE PageTaken(s, p)
      <4>1. Queued(auto[s], p) \in Seq(Request)
        <5>1. auto[s] \in Seq(Request)
          OBVIOUS
        <5> QED
          BY <2>1, <2>2, <5>1, PageIsQueued
      <4>2. NextSync(p) \in SyncStates
        BY <2>1 DEF PageFrame, SyncState, SyncStates, NextSync
      <4> HIDE DEF p
      <4> QED
        BY <1>18, <2>1, <2>3, <3>1, <3>2, <4>1, <4>2, PageUsed
        DEF ReceivePage, PageTaken, TakeFrame, dirVars, dbVars, handlerVars, jobVars
    <3>3. CASE Halt(s) /\ UNCHANGED sync
      BY <1>18, <2>3, <3>1, <3>3, PageUsed, HaltTypes
      DEF ReceivePage, dirVars, dbVars, handlerVars, jobVars
    <3> QED
      BY <2>3, <3>2, <3>3, PageUsed
  <2>4. CASE RejectPage(s)
    BY <1>18, <2>4, HaltTypes
    DEF ReceivePage, RejectPage, dirVars, dbVars, handlerVars, jobVars
  <2> QED
    BY <1>18, <2>3, <2>4 DEF ReceivePage
<1>19. ASSUME NEW s \in Session, ReceiveFailure(s) PROVE Types'
  BY <1>19, HaltTypes DEF ReceiveFailure, dirVars, dbVars, handlerVars, jobVars
<1> QED
  BY <1>1, <1>2, <1>3, <1>4, <1>5, <1>6, <1>7, <1>8, <1>9, <1>10,
     <1>11, <1>12, <1>13, <1>14, <1>15, <1>16, <1>17, <1>18, <1>19
  DEF Next, SessionStep, Route, Serve, Receive

-----------------------------------------------------------------------------
(* The directory, the handlers, the validation of pages.                   *)

\* A session nobody logged in on stays unused.
LEMMA UsedIsOwnedStep == IInv /\ Next => UsedIsOwned'
<1> SUFFICES ASSUME IInv, Next PROVE UsedIsOwned'
  OBVIOUS
<1> USE DEF IInv, Types, ServerTypes, ClientTypes
<1>1. ASSUME Crash PROVE UsedIsOwned'
  BY <1>1 DEF Crash, dbVars, clientVars, UsedIsOwned, Unused
<1>2. ASSUME NEW s \in Session, NEW u \in User, LogIn(u, s) PROVE UsedIsOwned'
  BY <1>2, NoUserAssumption
  DEF LogIn, Publish, dbVars, jobVars, clientVars, UsedIsOwned, Unused
<1>3. ASSUME NEW s \in Session, SessionEnds(s) PROVE UsedIsOwned'
  BY <1>3
  DEF SessionEnds, End, dbVars, handlerVars, jobVars, clientVars, UsedIsOwned,
      Unused
<1>4. ASSUME NEW s \in Session, Leave(s) PROVE UsedIsOwned'
  BY <1>4
  DEF Leave, NextRequest, dirVars, dbVars, jobVars, clientVars, UsedIsOwned,
      Unused
<1>5. ASSUME NEW s \in Session, NEW rs \in SUBSET (User \ {owner[s]}),
             AcceptMessage(s, rs)
      PROVE  UsedIsOwned'
  BY <1>5 DEF AcceptMessage, dirVars, clientVars, UsedIsOwned, Unused
<1>6. ASSUME NEW s \in Session, AnswerSender(s) PROVE UsedIsOwned'
  BY <1>6
  DEF AnswerSender, End, dirVars, dbVars, jobVars, clientVars, UsedIsOwned,
      Unused
<1>7. ASSUME NEW s \in Session, NEW u \in User, FindReady(s, u)
      PROVE  UsedIsOwned'
  BY <1>7 DEF FindReady, dirVars, dbVars, clientVars, UsedIsOwned, Unused
<1>8. ASSUME NEW s \in Session, SendDelivery(s) PROVE UsedIsOwned'
  <2>1. /\ hstep[s] = "deliver" /\ target[s] \in Session
        /\ msg[s] \in DOMAIN log /\ owner[target[s]] \in log[msg[s]]
    BY <1>8 DEF SendDelivery, JobFollowsStep
  <2>2. owner[target[s]] # NoUser
    BY <2>1, NoUserAssumption, ElementOfSeq
  <2>3. ASSUME NEW r \in Session, owner[r] = NoUser PROVE Unused(r)'
    BY <1>8, <2>1, <2>2, <2>3
    DEF SendDelivery, Send, SendFails, End, dirVars, dbVars, clientVars,
        UsedIsOwned, Unused
  <2>4. ASSUME NEW r \in Session, owner[r] # NoUser PROVE hstep'[r] # "none"
    BY <1>8, <2>4 DEF SendDelivery, UsedIsOwned
  <2> QED
    BY <1>8, <2>3, <2>4 DEF SendDelivery, UsedIsOwned
<1>9. ASSUME NEW s \in Session, FinishRoutes(s) PROVE UsedIsOwned'
  BY <1>9
  DEF FinishRoutes, NextRequest, dirVars, dbVars, clientVars, UsedIsOwned,
      Unused
<1>10. ASSUME NEW s \in Session, AcknowledgeDelivery(s) PROVE UsedIsOwned'
  BY <1>10
  DEF AcknowledgeDelivery, HasRequest, NextRequest, End, dirVars, jobVars,
      clientVars, UsedIsOwned, Unused
<1>11. ASSUME NEW s \in Session, GetPendingPage(s) PROVE UsedIsOwned'
  BY <1>11
  DEF GetPendingPage, HasRequest, dirVars, dbVars, jobVars, clientVars,
      UsedIsOwned, Unused
<1>12. ASSUME NEW s \in Session, WritePage(s) PROVE UsedIsOwned'
  BY <1>12
  DEF WritePage, NextRequest, Send, SendFails, End, dirVars, dbVars, jobVars,
      clientVars, UsedIsOwned, Unused
<1>13. ASSUME NEW s \in Session, RequestFails(s) PROVE UsedIsOwned'
  BY <1>13
  DEF RequestFails, HasRequest, NextRequest, Send, SendFails, End, dirVars,
      dbVars, jobVars, clientVars, UsedIsOwned, Unused
<1>14. ASSUME NEW s \in Session, StartSynchronization(s) PROVE UsedIsOwned'
  BY <1>14
  DEF StartSynchronization, dirVars, dbVars, handlerVars, jobVars, UsedIsOwned,
      Unused
<1>15. ASSUME NEW s \in Session, FlushRequest(s) PROVE UsedIsOwned'
  BY <1>15
  DEF FlushRequest, Halt, dirVars, dbVars, handlerVars, jobVars, UsedIsOwned,
      Unused
<1>16. ASSUME NEW s \in Session, ClientStops(s) PROVE UsedIsOwned'
  BY <1>16
  DEF ClientStops, Halt, dirVars, dbVars, handlerVars, jobVars, UsedIsOwned,
      Unused
<1>17. ASSUME NEW s \in Session, ReceiveMessage(s) PROVE UsedIsOwned'
  BY <1>17
  DEF ReceiveMessage, HasFrame, Halt, Retain, TakeFrame, dirVars, dbVars,
      handlerVars, jobVars, UsedIsOwned, Unused
<1>18. ASSUME NEW s \in Session, ReceivePage(s) PROVE UsedIsOwned'
  BY <1>18
  DEF ReceivePage, HasFrame, UsePage, RejectPage, Halt, Retain, TakeFrame,
      dirVars, dbVars, handlerVars, jobVars, UsedIsOwned, Unused
<1>19. ASSUME NEW s \in Session, ReceiveFailure(s) PROVE UsedIsOwned'
  BY <1>19
  DEF ReceiveFailure, HasFrame, Halt, dirVars, dbVars, handlerVars, jobVars,
      UsedIsOwned, Unused
<1> QED
  BY <1>1, <1>2, <1>3, <1>4, <1>5, <1>6, <1>7, <1>8, <1>9, <1>10,
     <1>11, <1>12, <1>13, <1>14, <1>15, <1>16, <1>17, <1>18, <1>19
  DEF Next, SessionStep, Route, Serve, Receive

\* The directory and the sessions agree.
LEMMA LiveIsOwnerStep == IInv /\ Next => LiveIsOwner'
<1> SUFFICES ASSUME IInv, Next PROVE LiveIsOwner'
  OBVIOUS
<1> USE DEF IInv, Types, ServerTypes, ClientTypes
<1>1. ASSUME Crash PROVE LiveIsOwner'
  BY <1>1 DEF Crash, dbVars, clientVars, LiveIsOwner, UsedIsOwned, Unused
<1>2. ASSUME NEW s \in Session, NEW u \in User, LogIn(u, s) PROVE LiveIsOwner'
  <2>1. s \notin ended /\ u # NoUser
    BY <1>2, NoUserAssumption DEF LogIn, UsedIsOwned, Unused
  <2>2. \A v \in User : live[v] # s
    BY <1>2 DEF LogIn, Publish
  <2>3. live[u] = NoSession
    BY <1>2 DEF LogIn, Publish
  <2>4. ASSUME NEW v \in User, live'[v] # NoSession
        PROVE  owner'[live'[v]] = v /\ live'[v] \notin ended'
    BY <1>2, <2>1, <2>2, <2>4 DEF LogIn, Publish, LiveIsOwner
  <2>5. ASSUME NEW r \in Session, owner'[r] # NoUser, r \notin ended'
        PROVE  live'[owner'[r]] = r
    <3>1. CASE r = s
      BY <1>2, <3>1 DEF LogIn, Publish
    <3>2. CASE r # s
      <4>1. owner'[r] = owner[r] /\ live[owner[r]] = r
        BY <1>2, <2>5, <3>2 DEF LogIn, Publish, LiveIsOwner
      <4>2. owner[r] # u
        BY <2>3, <4>1, NoSessionAssumption
      <4> QED
        BY <1>2, <4>1, <4>2 DEF LogIn, Publish
    <3> QED
      BY <3>1, <3>2
  <2> QED
    BY <2>4, <2>5 DEF LiveIsOwner
<1>3. ASSUME NEW s \in Session, SessionEnds(s) PROVE LiveIsOwner'
  BY <1>3
  DEF SessionEnds, End, dbVars, handlerVars, jobVars, clientVars, LiveIsOwner,
      UsedIsOwned, Unused
<1>4. ASSUME NEW s \in Session, Leave(s) PROVE LiveIsOwner'
  BY <1>4
  DEF Leave, NextRequest, dirVars, dbVars, jobVars, clientVars, LiveIsOwner,
      UsedIsOwned, Unused
<1>5. ASSUME NEW s \in Session, NEW rs \in SUBSET (User \ {owner[s]}),
             AcceptMessage(s, rs)
      PROVE  LiveIsOwner'
  BY <1>5
  DEF AcceptMessage, dirVars, clientVars, LiveIsOwner, UsedIsOwned, Unused
<1>6. ASSUME NEW s \in Session, AnswerSender(s) PROVE LiveIsOwner'
  BY <1>6
  DEF AnswerSender, End, dirVars, dbVars, jobVars, clientVars, LiveIsOwner,
      UsedIsOwned, Unused
<1>7. ASSUME NEW s \in Session, NEW u \in User, FindReady(s, u)
      PROVE  LiveIsOwner'
  BY <1>7
  DEF FindReady, dirVars, dbVars, clientVars, LiveIsOwner, UsedIsOwned, Unused
<1>8. ASSUME NEW s \in Session, SendDelivery(s) PROVE LiveIsOwner'
  <2>1. target[s] \in Session
    BY <1>8 DEF SendDelivery, JobFollowsStep
  <2>2. (End(target[s]) \/ UNCHANGED dirVars) /\ UNCHANGED owner
    BY <1>8 DEF SendDelivery, Send, SendFails
  <2> QED
    BY <2>1, <2>2 DEF End, dirVars, LiveIsOwner
<1>9. ASSUME NEW s \in Session, FinishRoutes(s) PROVE LiveIsOwner'
  BY <1>9
  DEF FinishRoutes, NextRequest, dirVars, dbVars, clientVars, LiveIsOwner,
      UsedIsOwned, Unused
<1>10. ASSUME NEW s \in Session, AcknowledgeDelivery(s) PROVE LiveIsOwner'
  BY <1>10
  DEF AcknowledgeDelivery, HasRequest, NextRequest, End, dirVars, jobVars,
      clientVars, LiveIsOwner, UsedIsOwned, Unused
<1>11. ASSUME NEW s \in Session, GetPendingPage(s) PROVE LiveIsOwner'
  BY <1>11
  DEF GetPendingPage, HasRequest, dirVars, dbVars, jobVars, clientVars,
      LiveIsOwner, UsedIsOwned, Unused
<1>12. ASSUME NEW s \in Session, WritePage(s) PROVE LiveIsOwner'
  BY <1>12
  DEF WritePage, NextRequest, Send, SendFails, End, dirVars, dbVars, jobVars,
      clientVars, LiveIsOwner, UsedIsOwned, Unused
<1>13. ASSUME NEW s \in Session, RequestFails(s) PROVE LiveIsOwner'
  BY <1>13
  DEF RequestFails, HasRequest, NextRequest, Send, SendFails, End, dirVars,
      dbVars, jobVars, clientVars, LiveIsOwner, UsedIsOwned, Unused
<1>14. ASSUME NEW s \in Session, StartSynchronization(s) PROVE LiveIsOwner'
  BY <1>14
  DEF StartSynchronization, dirVars, dbVars, handlerVars, jobVars, LiveIsOwner,
      UsedIsOwned, Unused
<1>15. ASSUME NEW s \in Session, FlushRequest(s) PROVE LiveIsOwner'
  BY <1>15
  DEF FlushRequest, Halt, dirVars, dbVars, handlerVars, jobVars, LiveIsOwner,
      UsedIsOwned, Unused
<1>16. ASSUME NEW s \in Session, ClientStops(s) PROVE LiveIsOwner'
  BY <1>16
  DEF ClientStops, Halt, dirVars, dbVars, handlerVars, jobVars, LiveIsOwner,
      UsedIsOwned, Unused
<1>17. ASSUME NEW s \in Session, ReceiveMessage(s) PROVE LiveIsOwner'
  BY <1>17
  DEF ReceiveMessage, HasFrame, Halt, Retain, TakeFrame, dirVars, dbVars,
      handlerVars, jobVars, LiveIsOwner, UsedIsOwned, Unused
<1>18. ASSUME NEW s \in Session, ReceivePage(s) PROVE LiveIsOwner'
  BY <1>18
  DEF ReceivePage, HasFrame, UsePage, RejectPage, Halt, Retain, TakeFrame,
      dirVars, dbVars, handlerVars, jobVars, LiveIsOwner, UsedIsOwned, Unused
<1>19. ASSUME NEW s \in Session, ReceiveFailure(s) PROVE LiveIsOwner'
  BY <1>19
  DEF ReceiveFailure, HasFrame, Halt, dirVars, dbVars, handlerVars, jobVars,
      LiveIsOwner, UsedIsOwned, Unused
<1> QED
  BY <1>1, <1>2, <1>3, <1>4, <1>5, <1>6, <1>7, <1>8, <1>9, <1>10,
     <1>11, <1>12, <1>13, <1>14, <1>15, <1>16, <1>17, <1>18, <1>19
  DEF Next, SessionStep, Route, Serve, Receive

\* A handler holds what its step needs, and nothing else.
LEMMA JobFollowsStepStep == IInv /\ Next => JobFollowsStep'
<1> SUFFICES ASSUME IInv, Next PROVE JobFollowsStep'
  OBVIOUS
<1> USE DEF IInv, Types, ServerTypes, ClientTypes
<1>1. ASSUME Crash PROVE JobFollowsStep'
  BY <1>1 DEF Crash, dbVars, clientVars, JobFollowsStep
<1>2. ASSUME NEW s \in Session, NEW u \in User, LogIn(u, s)
      PROVE  JobFollowsStep'
  <2>1. hstep[s] = "none"
    BY <1>2 DEF LogIn, UsedIsOwned, Unused
  <2>2. \A r \in Session : target[r] = NoSession \/ target[r] # s
    <3>1. ASSUME NEW r \in Session, target[r] = s, hstep[r] = "deliver"
          PROVE  FALSE
      <4>1. msg[r] \in DOMAIN log /\ owner[s] \in log[msg[r]]
        BY <3>1 DEF JobFollowsStep
      <4>2. owner[s] \in User
        BY <4>1, ElementOfSeq
      <4> QED
        BY <1>2, <4>2, NoUserAssumption DEF LogIn
    <3> QED
      BY <3>1 DEF JobFollowsStep
  <2> QED
    BY <1>2, <2>1, <2>2, NoSessionAssumption
    DEF LogIn, Publish, dbVars, jobVars, clientVars, JobFollowsStep
<1>3. ASSUME NEW s \in Session, SessionEnds(s) PROVE JobFollowsStep'
  BY <1>3
  DEF SessionEnds, End, dbVars, handlerVars, jobVars, clientVars,
      JobFollowsStep
<1>4. ASSUME NEW s \in Session, Leave(s) PROVE JobFollowsStep'
  BY <1>4
  DEF Leave, NextRequest, dirVars, dbVars, jobVars, clientVars, JobFollowsStep
<1>5. ASSUME NEW s \in Session, NEW rs \in SUBSET (User \ {owner[s]}),
             AcceptMessage(s, rs)
      PROVE  JobFollowsStep'
  <2>1. /\ Len(log) \in Nat /\ DOMAIN log = 1..Len(log)
        /\ DOMAIN log' = 1..(Len(log) + 1)
        /\ \A i \in DOMAIN log : log'[i] = log[i]
        /\ log'[Len(log) + 1] = rs
    BY <1>5, AppendProperties, LenProperties DEF AcceptMessage
  <2>2. DOMAIN log \subseteq DOMAIN log' /\ Len(log) + 1 \in DOMAIN log'
    BY <2>1
  <2>3. /\ hstep[s] = "read" /\ target[s] = NoSession
        /\ hstep' = [hstep EXCEPT ![s] = "accepted"]
        /\ msg'   = [msg EXCEPT ![s] = Len(log) + 1]
        /\ todo'  = [todo EXCEPT ![s] = rs]
        /\ UNCHANGED <<ended, owner, target, page, up>>
    BY <1>5 DEF AcceptMessage, JobFollowsStep, dirVars, clientVars
  <2> QED
    BY <2>1, <2>2, <2>3 DEF JobFollowsStep
<1>6. ASSUME NEW s \in Session, AnswerSender(s) PROVE JobFollowsStep'
  BY <1>6
  DEF AnswerSender, End, dirVars, dbVars, jobVars, clientVars, JobFollowsStep
<1>7. ASSUME NEW s \in Session, NEW u \in User, FindReady(s, u)
      PROVE  JobFollowsStep'
  <2>1. /\ hstep[s] = "route" /\ u \in todo[s] /\ u \in log[msg[s]]
        /\ todo[s] \subseteq log[msg[s]]
    BY <1>7 DEF FindReady, JobFollowsStep
  <2>2. live[u] # NoSession => live[u] \in Session /\ owner[live[u]] = u
    BY DEF LiveIsOwner
  <2> QED
    BY <1>7, <2>1, <2>2
    DEF FindReady, dirVars, dbVars, clientVars, JobFollowsStep
<1>8. ASSUME NEW s \in Session, SendDelivery(s) PROVE JobFollowsStep'
  BY <1>8
  DEF SendDelivery, Send, SendFails, End, dirVars, dbVars, clientVars,
      JobFollowsStep
<1>9. ASSUME NEW s \in Session, FinishRoutes(s) PROVE JobFollowsStep'
  BY <1>9
  DEF FinishRoutes, NextRequest, dirVars, dbVars, clientVars, JobFollowsStep
<1>10. ASSUME NEW s \in Session, AcknowledgeDelivery(s) PROVE JobFollowsStep'
  BY <1>10
  DEF AcknowledgeDelivery, HasRequest, NextRequest, End, dirVars, jobVars,
      clientVars, JobFollowsStep
<1>11. ASSUME NEW s \in Session, GetPendingPage(s) PROVE JobFollowsStep'
  BY <1>11
  DEF GetPendingPage, HasRequest, dirVars, dbVars, jobVars, clientVars,
      JobFollowsStep
<1>12. ASSUME NEW s \in Session, WritePage(s) PROVE JobFollowsStep'
  BY <1>12
  DEF WritePage, NextRequest, Send, SendFails, End, dirVars, dbVars, jobVars,
      clientVars, JobFollowsStep
<1>13. ASSUME NEW s \in Session, RequestFails(s) PROVE JobFollowsStep'
  <2>1. /\ hstep[s] = "read" /\ NextRequest(s, Tail(up[s]))
        /\ UNCHANGED <<log, owner, msg, todo, target, page>>
    BY <1>13 DEF RequestFails, HasRequest, dbVars, jobVars, clientVars
  <2>2. ended \subseteq ended'
    BY <1>13 DEF RequestFails, Send, SendFails, End, dirVars
  <2> QED
    BY <2>1, <2>2 DEF NextRequest, JobFollowsStep
<1>14. ASSUME NEW s \in Session, StartSynchronization(s) PROVE JobFollowsStep'
  BY <1>14
  DEF StartSynchronization, dirVars, dbVars, handlerVars, jobVars,
      JobFollowsStep
<1>15. ASSUME NEW s \in Session, FlushRequest(s) PROVE JobFollowsStep'
  BY <1>15
  DEF FlushRequest, Halt, dirVars, dbVars, handlerVars, jobVars, JobFollowsStep
<1>16. ASSUME NEW s \in Session, ClientStops(s) PROVE JobFollowsStep'
  BY <1>16
  DEF ClientStops, Halt, dirVars, dbVars, handlerVars, jobVars, JobFollowsStep
<1>17. ASSUME NEW s \in Session, ReceiveMessage(s) PROVE JobFollowsStep'
  BY <1>17
  DEF ReceiveMessage, HasFrame, Halt, Retain, TakeFrame, dirVars, dbVars,
      handlerVars, jobVars, JobFollowsStep
<1>18. ASSUME NEW s \in Session, ReceivePage(s) PROVE JobFollowsStep'
  BY <1>18
  DEF ReceivePage, HasFrame, UsePage, RejectPage, Halt, Retain, TakeFrame,
      dirVars, dbVars, handlerVars, jobVars, JobFollowsStep
<1>19. ASSUME NEW s \in Session, ReceiveFailure(s) PROVE JobFollowsStep'
  BY <1>19
  DEF ReceiveFailure, HasFrame, Halt, dirVars, dbVars, handlerVars, jobVars,
      JobFollowsStep
<1> QED
  BY <1>1, <1>2, <1>3, <1>4, <1>5, <1>6, <1>7, <1>8, <1>9, <1>10,
     <1>11, <1>12, <1>13, <1>14, <1>15, <1>16, <1>17, <1>18, <1>19
  DEF Next, SessionStep, Route, Serve, Receive

\* A page that was written is never rejected.
LEMMA PagesAreValidStep == IInv /\ Next => PagesAreValid'
<1> SUFFICES ASSUME IInv, Next PROVE PagesAreValid'
  OBVIOUS
<1> USE DEF IInv, Types, ServerTypes, ClientTypes
<1>1. ASSUME Crash PROVE PagesAreValid'
  BY <1>1 DEF Crash, dbVars, clientVars, PagesAreValid
<1>2. ASSUME NEW s \in Session, NEW u \in User, LogIn(u, s)
      PROVE  PagesAreValid'
  BY <1>2 DEF LogIn, Publish, dbVars, jobVars, clientVars, PagesAreValid
<1>3. ASSUME NEW s \in Session, SessionEnds(s) PROVE PagesAreValid'
  BY <1>3
  DEF SessionEnds, End, dbVars, handlerVars, jobVars, clientVars, PagesAreValid
<1>4. ASSUME NEW s \in Session, Leave(s) PROVE PagesAreValid'
  BY <1>4
  DEF Leave, NextRequest, dirVars, dbVars, jobVars, clientVars, PagesAreValid
<1>5. ASSUME NEW s \in Session, NEW rs \in SUBSET (User \ {owner[s]}),
             AcceptMessage(s, rs)
      PROVE  PagesAreValid'
  BY <1>5 DEF AcceptMessage, dirVars, clientVars, PagesAreValid
<1>6. ASSUME NEW s \in Session, AnswerSender(s) PROVE PagesAreValid'
  BY <1>6
  DEF AnswerSender, End, dirVars, dbVars, jobVars, clientVars, PagesAreValid
<1>7. ASSUME NEW s \in Session, NEW u \in User, FindReady(s, u)
      PROVE  PagesAreValid'
  BY <1>7 DEF FindReady, dirVars, dbVars, clientVars, PagesAreValid
<1>8. ASSUME NEW s \in Session, SendDelivery(s) PROVE PagesAreValid'
  BY <1>8
  DEF SendDelivery, Send, SendFails, End, dirVars, dbVars, clientVars,
      PagesAreValid
<1>9. ASSUME NEW s \in Session, FinishRoutes(s) PROVE PagesAreValid'
  BY <1>9
  DEF FinishRoutes, NextRequest, dirVars, dbVars, clientVars, PagesAreValid
<1>10. ASSUME NEW s \in Session, AcknowledgeDelivery(s) PROVE PagesAreValid'
  BY <1>10
  DEF AcknowledgeDelivery, HasRequest, NextRequest, End, dirVars, jobVars,
      clientVars, PagesAreValid
<1>11. ASSUME NEW s \in Session, GetPendingPage(s) PROVE PagesAreValid'
  BY <1>11
  DEF GetPendingPage, HasRequest, dirVars, dbVars, jobVars, clientVars,
      PagesAreValid
<1>12. ASSUME NEW s \in Session, WritePage(s) PROVE PagesAreValid'
  BY <1>12
  DEF WritePage, NextRequest, Send, SendFails, End, dirVars, dbVars, jobVars,
      clientVars, PagesAreValid
<1>13. ASSUME NEW s \in Session, RequestFails(s) PROVE PagesAreValid'
  BY <1>13
  DEF RequestFails, HasRequest, NextRequest, Send, SendFails, End, dirVars,
      dbVars, jobVars, clientVars, PagesAreValid
<1>14. ASSUME NEW s \in Session, StartSynchronization(s) PROVE PagesAreValid'
  BY <1>14
  DEF StartSynchronization, dirVars, dbVars, handlerVars, jobVars,
      PagesAreValid
<1>15. ASSUME NEW s \in Session, FlushRequest(s) PROVE PagesAreValid'
  BY <1>15
  DEF FlushRequest, Halt, dirVars, dbVars, handlerVars, jobVars, PagesAreValid
<1>16. ASSUME NEW s \in Session, ClientStops(s) PROVE PagesAreValid'
  BY <1>16
  DEF ClientStops, Halt, dirVars, dbVars, handlerVars, jobVars, PagesAreValid
<1>17. ASSUME NEW s \in Session, ReceiveMessage(s) PROVE PagesAreValid'
  BY <1>17
  DEF ReceiveMessage, HasFrame, Halt, Retain, TakeFrame, dirVars, dbVars,
      handlerVars, jobVars, PagesAreValid
<1>18. ASSUME NEW s \in Session, ReceivePage(s) PROVE PagesAreValid'
  <2>1. /\ Head(down[s]) \in Range(down[s])
        /\ Head(down[s]).kind = "page" /\ ~halted[s]
    BY <1>18, FrameReceived DEF ReceivePage
  <2>2. ValidPage(s, Head(down[s]))
    BY <2>1 DEF SessionInv, Synchronizing, SyncAgrees
  <2> QED
    BY <1>18, <2>2 DEF ReceivePage, UsePage, PagesAreValid
<1>19. ASSUME NEW s \in Session, ReceiveFailure(s) PROVE PagesAreValid'
  BY <1>19
  DEF ReceiveFailure, HasFrame, Halt, dirVars, dbVars, handlerVars, jobVars,
      PagesAreValid
<1> QED
  BY <1>1, <1>2, <1>3, <1>4, <1>5, <1>6, <1>7, <1>8, <1>9, <1>10,
     <1>11, <1>12, <1>13, <1>14, <1>15, <1>16, <1>17, <1>18, <1>19
  DEF Next, SessionStep, Route, Serve, Receive

-----------------------------------------------------------------------------
(* What a step may do to the history: messages, acknowledgements, showings *)
(* and ends of sessions are never taken back.                              *)

Grows ==
  /\ Len(log) <= Len(log')
  /\ \A i \in 1..Len(log) : log'[i] = log[i]
  /\ ended \subseteq ended'
  /\ \A u \in User : acked[u] \subseteq acked'[u] /\ seen[u] \subseteq seen'[u]

\* A user is shown more, never less.
LEMMA RetainGrows ==
  ASSUME Types, NEW s, NEW ids, Retain(s, ids) \/ UNCHANGED seen
  PROVE  \A u \in User : seen[u] \subseteq seen'[u]
<1>1. seen \in [User -> SUBSET Nat]
  BY DEF Types, ClientTypes
<1>2. CASE Retain(s, ids)
  BY <1>1, <1>2 DEF Retain
<1> QED
  BY <1>2

\* Every step only adds to the history.
LEMMA GrowsStep == IInv /\ Next => Grows
<1> SUFFICES ASSUME IInv, Next PROVE Grows
  OBVIOUS
<1> USE DEF IInv, Types, ServerTypes, ClientTypes
<1> USE LogIds
<1>1. ASSUME Crash PROVE Grows
  BY <1>1 DEF Crash, UsedIsOwned, Unused, Grows, dbVars, clientVars
<1>2. ASSUME NEW s \in Session, NEW u \in User, LogIn(u, s) PROVE Grows
  BY <1>2 DEF LogIn, Publish, dbVars, jobVars, clientVars, Grows
<1>3. ASSUME NEW s \in Session, SessionEnds(s) PROVE Grows
  BY <1>3 DEF SessionEnds, End, dbVars, handlerVars, jobVars, clientVars, Grows
<1>4. ASSUME NEW s \in Session, Leave(s) PROVE Grows
  BY <1>4 DEF Leave, NextRequest, dirVars, dbVars, jobVars, clientVars, Grows
<1>5. ASSUME NEW s \in Session, NEW rs \in SUBSET (User \ {owner[s]}),
             AcceptMessage(s, rs)
      PROVE  Grows
  <2>1. /\ Len(log') = Len(log) + 1
        /\ \A i \in 1..Len(log) : log'[i] = log[i]
    BY <1>5, AppendProperties DEF AcceptMessage
  <2> QED
    BY <1>5, <2>1 DEF AcceptMessage, Grows, dirVars, clientVars
<1>6. ASSUME NEW s \in Session, AnswerSender(s) PROVE Grows
  BY <1>6 DEF AnswerSender, End, dirVars, dbVars, jobVars, clientVars, Grows
<1>7. ASSUME NEW s \in Session, NEW u \in User, FindReady(s, u) PROVE Grows
  BY <1>7 DEF FindReady, dirVars, dbVars, clientVars, Grows
<1>8. ASSUME NEW s \in Session, SendDelivery(s) PROVE Grows
  BY <1>8
  DEF SendDelivery, Send, SendFails, End, dirVars, dbVars, clientVars, Grows
<1>9. ASSUME NEW s \in Session, FinishRoutes(s) PROVE Grows
  BY <1>9 DEF FinishRoutes, NextRequest, dirVars, dbVars, clientVars, Grows
<1>10. ASSUME NEW s \in Session, AcknowledgeDelivery(s) PROVE Grows
  BY <1>10
  DEF AcknowledgeDelivery, HasRequest, NextRequest, End, dirVars, jobVars,
      clientVars, Grows
<1>11. ASSUME NEW s \in Session, GetPendingPage(s) PROVE Grows
  BY <1>11
  DEF GetPendingPage, HasRequest, dirVars, dbVars, jobVars, clientVars, Grows
<1>12. ASSUME NEW s \in Session, WritePage(s) PROVE Grows
  BY <1>12
  DEF WritePage, NextRequest, Send, SendFails, End, dirVars, dbVars, jobVars,
      clientVars, Grows
<1>13. ASSUME NEW s \in Session, RequestFails(s) PROVE Grows
  BY <1>13
  DEF RequestFails, HasRequest, NextRequest, Send, SendFails, End, dirVars,
      dbVars, jobVars, clientVars, Grows
<1>14. ASSUME NEW s \in Session, StartSynchronization(s) PROVE Grows
  BY <1>14
  DEF StartSynchronization, dirVars, dbVars, handlerVars, jobVars, Grows
<1>15. ASSUME NEW s \in Session, FlushRequest(s) PROVE Grows
  BY <1>15 DEF FlushRequest, Halt, dirVars, dbVars, handlerVars, jobVars, Grows
<1>16. ASSUME NEW s \in Session, ClientStops(s) PROVE Grows
  BY <1>16 DEF ClientStops, Halt, dirVars, dbVars, handlerVars, jobVars, Grows
<1>17. ASSUME NEW s \in Session, ReceiveMessage(s) PROVE Grows
  BY <1>17
  DEF ReceiveMessage, HasFrame, Halt, Retain, TakeFrame, dirVars, dbVars,
      handlerVars, jobVars, Grows
<1>18. ASSUME NEW s \in Session, ReceivePage(s) PROVE Grows
  <2>1. UNCHANGED <<log, acked, ended>>
    BY <1>18 DEF ReceivePage, dirVars, dbVars, handlerVars, jobVars
  <2>2. Retain(s, Head(down[s]).ids) \/ UNCHANGED seen
    BY <1>18, PageUsed DEF ReceivePage, RejectPage
  <2>3. \A u \in User : seen[u] \subseteq seen'[u]
    BY <2>2, RetainGrows
  <2>4. Len(log) <= Len(log')
    BY <2>1
  <2> QED
    BY <2>1, <2>3, <2>4 DEF Grows
<1>19. ASSUME NEW s \in Session, ReceiveFailure(s) PROVE Grows
  BY <1>19
  DEF ReceiveFailure, HasFrame, Halt, dirVars, dbVars, handlerVars, jobVars,
      Grows
<1> QED
  BY <1>1, <1>2, <1>3, <1>4, <1>5, <1>6, <1>7, <1>8, <1>9, <1>10,
     <1>11, <1>12, <1>13, <1>14, <1>15, <1>16, <1>17, <1>18, <1>19
  DEF Next, SessionStep, Route, Serve, Receive

\* Any id that a step makes pending is that of a new message.
LEMMA PendingGrows ==
  ASSUME Types, Types', Grows, NEW u
  PROVE  /\ Addressed(u) \subseteq Addressed(u)'
         /\ u \in User =>
              \A i \in Pending(u)' : i \in Pending(u) \/ Len(log) < i
         /\ u \in User => \A i \in Pending(u)' : i \in Nat \ {0}
<1>1. /\ DOMAIN log = 1..Len(log) /\ Len(log) \in Nat
      /\ DOMAIN log' = 1..Len(log') /\ Len(log') \in Nat
  BY LenProperties DEF Types, ServerTypes
<1>2. Addressed(u) \subseteq Addressed(u)'
  BY <1>1 DEF Addressed, Grows
<1>3. ASSUME u \in User, NEW i \in Pending(u)'
      PROVE  (i \in Pending(u) \/ Len(log) < i) /\ i \in Nat \ {0}
  BY <1>1, <1>3 DEF Pending, Grows
<1> QED
  BY <1>2, <1>3

-----------------------------------------------------------------------------
(* A session that a step does not disturb: its client and its queues are   *)
(* the same, and its handler loses a request or a page only when it ends.  *)

Undisturbed(r) ==
  /\ owner'[r] = owner[r]
  /\ down'[r] = down[r] /\ auto'[r] = auto[r] /\ sync'[r] = sync[r]
  /\ buf'[r] = buf[r] /\ halted'[r] = halted[r]
  /\ \/ up'[r] = up[r]
     \/ up'[r] = <<>> /\ r \in ended'
  /\ \/ page'[r] = page[r] /\ (hstep'[r] = "page" <=> hstep[r] = "page")
     \/ page'[r] = NoPage /\ hstep'[r] # "page" /\ r \in ended'

\* What the parts of the invariant say of r depends on little else.
LEMMA UndisturbedKeeps ==
  ASSUME IInv, Types', Grows, NEW r \in Session, Undisturbed(r)
  PROVE  /\ OnlyAddressed(r)'
         /\ AcksAreHeld(r)'
         /\ WithinLog(r)'
         /\ Synchronizing(r)'
         /\ PageIsPrefix(r)'
<1>1. /\ Types /\ UsedIsOwned
      /\ OnlyAddressed(r) /\ AcksAreHeld(r) /\ WithinLog(r)
      /\ Synchronizing(r) /\ PageIsPrefix(r)
  BY DEF IInv, SessionInv
<1>2. /\ NoPage.ids = {} /\ NoPage.through = 0
      /\ Range(<<>>) = {} /\ Absent(<<>>, "sync") /\ AtMostOne(<<>>, "sync")
  BY NothingInEmpty DEF NoPage, Rows
<1>3. Requests(r)' \subseteq Requests(r)
  BY <1>2 DEF Undisturbed, Requests
<1>4. OnlyAddressed(r)'
  <2> PICK u : u = owner[r]
    OBVIOUS
  <2>1. Addressed(u) \subseteq Addressed(u)'
    BY <1>1, PendingGrows
  <2>2. page'[r].ids \subseteq page[r].ids
    BY <1>2 DEF Undisturbed
  <2> QED
    BY <1>1, <2>1, <2>2 DEF OnlyAddressed, Undisturbed
<1>5. AcksAreHeld(r)'
  <2>1. owner[r] # NoUser => seen[owner[r]] \subseteq seen'[owner[r]]
    BY <1>1 DEF Types, ServerTypes, Grows
  <2> QED
    BY <1>1, <1>3, <2>1 DEF AcksAreHeld, Undisturbed
<1>6. WithinLog(r)'
  <2>1. /\ Len(log) \in Nat /\ Len(log') \in Nat /\ Len(log) <= Len(log')
        /\ page[r].through \in Nat
    BY <1>1, LenProperties DEF Grows, Types, ServerTypes, PageRows
  <2>2. page'[r].through <= Len(log')
    BY <1>1, <1>2, <2>1 DEF WithinLog, Undisturbed
  <2>3. ASSUME NEW q \in Requests(r)', q.kind = "sync"
        PROVE  q.through <= Len(log')
    <3>1. q.through <= Len(log) /\ q \in Requests(r)
      BY <1>1, <1>3, <2>3 DEF WithinLog
    <3>2. q.through \in Nat
      <4>1. q \in Request
        BY <1>1, <3>1, RangeOfSeq DEF Requests, Types, ClientTypes
      <4> QED
        BY <2>3, <4>1 DEF Request, AckRequest, SyncRequest
    <3> QED
      BY <2>1, <3>1, <3>2
  <2>4. ASSUME NEW f \in Range(down'[r]), f.kind = "page"
        PROVE  f.through <= Len(log')
    <3>1. f.through <= Len(log) /\ f \in Range(down[r])
      BY <1>1, <2>4 DEF WithinLog, Undisturbed
    <3>2. f.through \in Nat
      <4>1. f \in Frame
        BY <1>1, <3>1, RangeOfSeq DEF Types, ClientTypes
      <4> QED
        BY <2>4, <4>1 DEF Frame, MessageFrame, PageFrame, Failure
    <3> QED
      BY <2>1, <3>1, <3>2
  <2> QED
    BY <2>2, <2>3, <2>4 DEF WithinLog
<1>7. ASSUME ~halted'[r] PROVE OneSync(r)' /\ SyncAgrees(r)'
  <2>1. OneSync(r) /\ SyncAgrees(r)
    BY <1>1, <1>7 DEF Synchronizing, Undisturbed
  <2>2. hstep'[r] = "page" => hstep[r] = "page" /\ page'[r] = page[r]
    BY DEF Undisturbed
  <2>3. /\ up'[r] = up[r] \/ up'[r] = <<>>
        /\ down'[r] = down[r] /\ auto'[r] = auto[r] /\ sync'[r] = sync[r]
    BY DEF Undisturbed
  <2>4. OneSync(r)'
    BY <1>2, <2>1, <2>2, <2>3 DEF OneSync
  <2>5. SyncAgrees(r)'
    BY <1>3, <2>1, <2>2, <2>3 DEF SyncAgrees, ValidPage
  <2> QED
    BY <2>4, <2>5
<1>8. PageIsPrefix(r)'
  <2> PICK u : u = owner[r]
    OBVIOUS
  <2>1. owner'[r] = u
    BY DEF Undisturbed
  <2>2. ASSUME hstep'[r] = "page", NEW i \in Pending(u)' \ page'[r].ids,
               page'[r].after < i, i <= page'[r].through
        PROVE  page'[r].more /\ \A j \in page'[r].ids : j < i
    <3>1. hstep[r] = "page" /\ page'[r] = page[r]
      BY <2>2 DEF Undisturbed
    <3>2. u \in User
      BY <3>1, ActiveIsOwned
    <3>3. (i \in Pending(u) \/ Len(log) < i) /\ i \in Nat
      BY <1>1, <3>2, PendingGrows
    <3>4. /\ Len(log) \in Nat /\ page[r].through \in Nat
          /\ page[r].through <= Len(log)
      BY <1>1, LenProperties DEF WithinLog, Types, ServerTypes, PageRows
    <3>5. i \in Pending(u)
      BY <2>2, <3>1, <3>3, <3>4
    <3> QED
      BY <1>1, <2>2, <3>1, <3>5 DEF PageIsPrefix
  <2> QED
    BY <2>1, <2>2 DEF PageIsPrefix
<1> QED
  BY <1>4, <1>5, <1>6, <1>7, <1>8 DEF Synchronizing

\* What was under way to r still is, if it is still routed to r.
LEMMA UndisturbedLosesNothing ==
  ASSUME IInv, Types', Grows, NEW r \in Session, Undisturbed(r),
         NEW u, u = owner[r],
         Serving(r)' => \A i \in Pending(u)' :
           \/ i \in Pending(u) /\ ~BeingRouted(u, r, i)
           \/ BeingRouted(u, r, i)'
  PROVE  NothingIsLost(r)'
<1>1. owner'[r] = u
  BY DEF Undisturbed
<1>2. ASSUME Serving(r)', NEW i \in Pending(u)'
      PROVE  Underway(r, i)'
  <2>1. /\ r \notin ended' /\ r \notin ended
        /\ down'[r] = down[r] /\ auto'[r] = auto[r] /\ sync'[r] = sync[r]
        /\ buf'[r] = buf[r] /\ halted'[r] = halted[r] /\ up'[r] = up[r]
        /\ page'[r] = page[r] /\ (hstep'[r] = "page" <=> hstep[r] = "page")
    BY <1>2 DEF Undisturbed, Serving, Grows
  <2>2. CASE BeingRouted(u, r, i)'
    BY <1>1, <2>2 DEF Underway
  <2>3. CASE i \in Pending(u) /\ ~BeingRouted(u, r, i)
    <3>1. Serving(r)
      BY <1>1, <1>2, <2>1 DEF Serving
    <3>2. Underway(r, i)
      BY <2>3, <3>1 DEF IInv, SessionInv, NothingIsLost
    <3>3. (Sent(r, i) => Sent(r, i)') /\ (InPage(r, i) => InPage(r, i)')
          /\ Requests(r)' = Requests(r)
      BY <2>1 DEF Sent, InPage, Requests
    <3> QED
      BY <2>1, <2>3, <3>2, <3>3 DEF Underway
  <2> QED
    BY <1>2, <2>2, <2>3
<1> QED
  BY <1>1, <1>2 DEF NothingIsLost

\* A step that leaves the deliveries alone disturbs none.
LEMMA NothingRerouted ==
  ASSUME IInv, Types', Grows, UNCHANGED <<log, msg, todo, target>>,
         NEW r \in Session, Undisturbed(r)
  PROVE  SessionInv(r)'
<1> PICK u : u = owner[r]
  OBVIOUS
<1>1. ASSUME Serving(r)', NEW i \in Pending(u)'
      PROVE  \/ i \in Pending(u) /\ ~BeingRouted(u, r, i)
             \/ BeingRouted(u, r, i)'
  <2>1. u \in User
    BY <1>1 DEF Serving, Undisturbed, IInv, Types, ServerTypes
  <2>2. i \in Pending(u)
    BY <1>1, <2>1 DEF Pending, Grows
  <2>3. BeingRouted(u, r, i) => BeingRouted(u, r, i)'
    BY DEF BeingRouted
  <2> QED
    BY <2>2, <2>3
<1> QED
  BY <1>1, UndisturbedKeeps, UndisturbedLosesNothing DEF SessionInv

-----------------------------------------------------------------------------
(* Sessions come and go; messages are accepted and routed.                 *)

\* After a crash no session is served, and nothing is promised to one.
LEMMA CrashKeeps ==
  ASSUME IInv, Types', Grows, Crash, NEW r \in Session
  PROVE  SessionInv(r)'
<1>1. Undisturbed(r) /\ ~Serving(r)'
  <2>1. /\ ended' = {q \in Session : owner[q] # NoUser}
        /\ hstep'[r] \in {"none", "out"} /\ page'[r] = NoPage /\ up'[r] = <<>>
        /\ UNCHANGED <<owner, clientVars, down>>
    BY DEF Crash
  <2>2. owner[r] = NoUser =>
          up[r] = <<>> /\ page[r] = NoPage /\ hstep[r] = "none"
    BY DEF IInv, UsedIsOwned, Unused
  <2>3. ~Serving(r)'
    BY <2>1 DEF Serving
  <2>4. Undisturbed(r)
    BY <2>1, <2>2 DEF Undisturbed, clientVars
  <2> QED
    BY <2>3, <2>4
<1> QED
  BY <1>1, UndisturbedKeeps DEF SessionInv, NothingIsLost

\* Nothing is promised to a session that has ended.
LEMMA SessionEndsKeeps ==
  ASSUME IInv, Types', Grows, NEW s \in Session, SessionEnds(s),
         NEW r \in Session
  PROVE  SessionInv(r)'
<1>1. Undisturbed(r)
  BY DEF SessionEnds, Undisturbed, handlerVars, clientVars
<1> QED
  BY <1>1, NothingRerouted DEF SessionEnds, dbVars, handlerVars, jobVars

\* A handler that leaves takes the requests of an ended session with it.
LEMMA LeaveKeeps ==
  ASSUME IInv, Types', Grows, NEW s \in Session, Leave(s), NEW r \in Session
  PROVE  SessionInv(r)'
<1>1. s \in ended' /\ hstep[s] = "read" /\ NextRequest(s, <<>>)
      /\ UNCHANGED <<owner, page, down, clientVars>>
  BY DEF Leave, dirVars
<1>2. Undisturbed(r)
  BY <1>1 DEF NextRequest, Undisturbed, clientVars, IInv, Types, ServerTypes,
              ClientTypes
<1> QED
  BY <1>2, NothingRerouted DEF Leave, dbVars, jobVars

\* The answer to the sender leaves the delivery alone.
LEMMA AnswerSenderKeeps ==
  ASSUME IInv, Types', Grows, NEW s \in Session, AnswerSender(s),
         NEW r \in Session
  PROVE  SessionInv(r)'
<1>1. Undisturbed(r)
  BY DEF AnswerSender, Undisturbed, clientVars, IInv, Types, ServerTypes
<1> QED
  BY <1>1, NothingRerouted DEF AnswerSender, dbVars, jobVars

\* The message is pending and routed from the same step on.
LEMMA AcceptMessageKeeps ==
  ASSUME IInv, Types', Grows, NEW s \in Session,
         NEW recipients \in SUBSET (User \ {owner[s]}),
         AcceptMessage(s, recipients), NEW r \in Session
  PROVE  SessionInv(r)'
<1> PICK u : u = owner[r]
  OBVIOUS
<1>1. Undisturbed(r)
  BY DEF AcceptMessage, Undisturbed, clientVars, IInv, Types, ServerTypes
<1>2. /\ todo[s] = {} /\ target[s] = NoSession
      /\ msg' = [msg EXCEPT ![s] = Len(log) + 1]
      /\ todo' = [todo EXCEPT ![s] = recipients]
      /\ target' = target /\ acked' = acked
  BY DEF AcceptMessage, IInv, JobFollowsStep
<1>3. /\ Len(log) \in Nat
      /\ DOMAIN log = 1..Len(log)
      /\ DOMAIN log' = 1..(Len(log) + 1)
      /\ \A i \in DOMAIN log : log'[i] = log[i]
      /\ log'[Len(log) + 1] = recipients
  BY LogIds, AppendProperties, LenProperties
  DEF AcceptMessage, IInv, Types, ServerTypes
<1>4. ASSUME Serving(r)', NEW i \in Pending(u)'
      PROVE  \/ i \in Pending(u) /\ ~BeingRouted(u, r, i)
             \/ BeingRouted(u, r, i)'
  <2>1. CASE i = Len(log) + 1
    <3>1. u \in todo'[s] /\ msg'[s] = i
      BY <1>2, <1>3, <1>4, <2>1 DEF Pending, IInv, Types, ServerTypes
    <3> QED
      BY <3>1 DEF BeingRouted
  <2>2. CASE i # Len(log) + 1
    <3>1. i \in Pending(u)
      BY <1>2, <1>3, <1>4, <2>2 DEF Pending
    <3>2. BeingRouted(u, r, i) => BeingRouted(u, r, i)'
      BY <1>2, NoSessionAssumption DEF BeingRouted, IInv, Types, ServerTypes
    <3> QED
      BY <3>1, <3>2
  <2> QED
    BY <2>1, <2>2
<1> QED
  BY <1>1, <1>4, UndisturbedKeeps, UndisturbedLosesNothing DEF SessionInv

\* The session found for a recipient is the recipient's, if that has one.
LEMMA FindReadyKeeps ==
  ASSUME IInv, Types', Grows, NEW s \in Session, NEW v \in User,
         FindReady(s, v), NEW r \in Session
  PROVE  SessionInv(r)'
<1> PICK u : u = owner[r]
  OBVIOUS
<1>1. Undisturbed(r)
  BY DEF FindReady, Undisturbed, clientVars, IInv, Types, ServerTypes
<1>2. /\ target[s] = NoSession /\ UNCHANGED <<log, acked, msg>>
      /\ todo' = [todo EXCEPT ![s] = @ \ {v}]
      /\ target' = [target EXCEPT ![s] = live[v]]
  <2>1. target[s] = NoSession
    BY DEF FindReady, IInv, JobFollowsStep
  <2> QED
    BY <2>1 DEF FindReady, dbVars, IInv, Types, ServerTypes
<1>3. ASSUME Serving(r)', NEW i \in Pending(u)'
      PROVE  \/ i \in Pending(u) /\ ~BeingRouted(u, r, i)
             \/ BeingRouted(u, r, i)'
  <2>1. i \in Pending(u)
    BY <1>2, <1>3 DEF Pending
  <2>2. u = v => live[v] = r
    BY <1>1, <1>3 DEF Undisturbed, Serving, Grows, IInv, LiveIsOwner
  <2>3. ASSUME NEW q \in Session, msg[q] = i, u \in todo[q] \/ target[q] = r
        PROVE  msg'[q] = i /\ (u \in todo'[q] \/ target'[q] = r)
    BY <1>2, <2>2, <2>3, NoSessionAssumption DEF IInv, Types, ServerTypes
  <2> QED
    BY <2>1, <2>3 DEF BeingRouted
<1> QED
  BY <1>1, <1>3, UndisturbedKeeps, UndisturbedLosesNothing DEF SessionInv

\* A handler that has looked up every recipient routes nothing any more.
LEMMA FinishRoutesKeeps ==
  ASSUME IInv, Types', Grows, NEW s \in Session, FinishRoutes(s),
         NEW r \in Session
  PROVE  SessionInv(r)'
<1> PICK u : u = owner[r]
  OBVIOUS
<1>1. Undisturbed(r)
  BY DEF FinishRoutes, NextRequest, Undisturbed, clientVars, IInv, Types,
         ServerTypes, ClientTypes
<1>2. /\ todo[s] = {} /\ target[s] = NoSession
      /\ msg' = [msg EXCEPT ![s] = 0]
      /\ UNCHANGED <<log, acked, todo, target>>
  BY DEF FinishRoutes, dbVars, IInv, JobFollowsStep
<1>3. ASSUME Serving(r)', NEW i \in Pending(u)'
      PROVE  \/ i \in Pending(u) /\ ~BeingRouted(u, r, i)
             \/ BeingRouted(u, r, i)'
  <2>1. i \in Pending(u)
    BY <1>2, <1>3 DEF Pending
  <2>2. BeingRouted(u, r, i) => BeingRouted(u, r, i)'
    BY <1>2, NoSessionAssumption DEF BeingRouted, IInv, Types, ServerTypes
  <2> QED
    BY <2>1, <2>2
<1> QED
  BY <1>1, <1>3, UndisturbedKeeps, UndisturbedLosesNothing DEF SessionInv

\* A new session is empty, and has its synchronization before it.
LEMMA LogInKeeps ==
  ASSUME IInv, Types', Grows, NEW s \in Session, NEW u \in User, LogIn(u, s),
         NEW r \in Session
  PROVE  SessionInv(r)'
<1>1. CASE r # s
  <2>1. Undisturbed(r)
    BY <1>1 DEF LogIn, Undisturbed, clientVars, IInv, Types, ServerTypes
  <2> QED
    BY <2>1, NothingRerouted DEF LogIn, dbVars, jobVars
<1>2. CASE r = s
  <2>1. Unused(s)
    BY DEF LogIn, IInv, UsedIsOwned
  <2>2. /\ page'[s].ids = {} /\ page'[s].through = 0
        /\ down'[s] = <<>> /\ up'[s] = <<>> /\ auto'[s] = <<>> /\ buf'[s] = {}
        /\ sync'[s].phase = "unstarted" /\ sync'[s].after = 0
        /\ sync'[s].through = 0 /\ hstep'[s] = "read"
    BY <2>1
    DEF LogIn, clientVars, Unused, NoPage, Rows, SyncState, IInv, Types,
                ServerTypes
  <2>3. /\ Range(<<>>) = {} /\ Len(<<>>) = 0
        /\ \A kind : Absent(<<>>, kind) /\ AtMostOne(<<>>, kind)
    BY NothingInEmpty
  <2>4. Requests(s)' = {}
    BY <2>2, <2>3 DEF Requests
  <2>5. OnlyAddressed(s)'
    BY <2>2, <2>3 DEF OnlyAddressed
  <2>6. AcksAreHeld(s)'
    BY <2>2, <2>3, <2>4, BoundsAssumption DEF AcksAreHeld
  <2>7. WithinLog(s)'
    BY <2>2, <2>3, <2>4, LenProperties DEF WithinLog, Types, ServerTypes
  <2>8. Synchronizing(s)'
    BY <2>2, <2>3, <2>4 DEF Synchronizing, OneSync, SyncAgrees
  <2>9. PageIsPrefix(s)' /\ NothingIsLost(s)'
    BY <2>2 DEF PageIsPrefix, NothingIsLost, Underway
  <2> QED
    BY <1>2, <2>5, <2>6, <2>7, <2>8, <2>9 DEF SessionInv
<1> QED
  BY <1>1, <1>2

-----------------------------------------------------------------------------
(* A frame is written to a client.                                         *)

\* A frame is written to one client: it is put on the wire, or the client has
\* stopped, or the session has ended.
LEMMA SendDisturbs ==
  ASSUME NEW t \in Session, NEW frame, Send(t, frame) \/ SendFails(t), Types
  PROVE  /\ \A r \in Session \ {t} : down'[r] = down[r]
         /\ \/ down'[t] = Append(down[t], frame) /\ ~halted[t]
            \/ down'[t] = down[t] /\ (halted[t] \/ t \in ended')
<1>1. CASE Send(t, frame)
  BY <1>1 DEF Send, Types, ClientTypes
<1>2. CASE SendFails(t)
  BY <1>2 DEF SendFails, End, dirVars
<1> QED
  BY <1>1, <1>2

\* The message leaves the hands of the handler for the wire.
LEMMA SendDeliveryKeeps ==
  ASSUME IInv, Types', Grows, NEW s \in Session, SendDelivery(s),
         NEW r \in Session
  PROVE  SessionInv(r)'
<1> PICK u : u = owner[r]
  OBVIOUS
<1> DEFINE t == target[s]
<1>1. /\ t \in Session /\ msg[s] \in DOMAIN log
      /\ owner[t] \in log[msg[s]]
  BY DEF SendDelivery, IInv, JobFollowsStep
<1>2. /\ target' = [target EXCEPT ![s] = NoSession]
      /\ UNCHANGED <<log, acked, msg, todo, owner, page, up, auto, sync, buf,
                     halted, seen>>
      /\ \A q \in Session : hstep'[q] = "page" <=> hstep[q] = "page"
  BY DEF SendDelivery, dbVars, clientVars, IInv, Types, ServerTypes
<1>3. /\ \A q \in Session \ {t} : down'[q] = down[q]
      /\ \/ down'[t] = Append(down[t], Message(msg[s])) /\ ~halted[t]
         \/ down'[t] = down[t] /\ (halted[t] \/ t \in ended')
  BY <1>1, SendDisturbs DEF SendDelivery, IInv
<1> HIDE DEF t
<1>4. ASSUME NEW i \in Pending(u)', BeingRouted(u, r, i), t # r
      PROVE  BeingRouted(u, r, i)'
  BY <1>2, <1>4, NoSessionAssumption
  DEF t, BeingRouted, IInv, Types, ServerTypes
<1>5. CASE down'[r] = down[r]
  <2>1. Undisturbed(r)
    BY <1>2, <1>5 DEF Undisturbed
  <2>2. ASSUME Serving(r)', NEW i \in Pending(u)'
        PROVE  \/ i \in Pending(u) /\ ~BeingRouted(u, r, i)
               \/ BeingRouted(u, r, i)'
    <3>1. i \in Pending(u)
      BY <1>2, <2>2 DEF Pending
    <3>2. CASE t # r
      BY <1>4, <2>2, <3>1, <3>2
    <3>3. CASE t = r
      <4>1. down'[t] = Append(down[t], Message(msg[s]))
        BY <1>2, <1>3, <2>2, <3>3 DEF Serving
      <4>2. Len(down'[t]) = Len(down[t]) + 1 /\ Len(down[t]) \in Nat
        BY <1>1, <4>1, AppendProperties, LenProperties
        DEF IInv, Types, ClientTypes
      <4> QED
        BY <1>5, <3>3, <4>2
    <3> QED
      BY <3>2, <3>3
  <2> QED
    BY <2>1, <2>2, UndisturbedKeeps, UndisturbedLosesNothing DEF SessionInv
<1>6. CASE down'[r] # down[r]
  <2> DEFINE frame == Message(msg[s])
  <2>1. r = t /\ down'[r] = Append(down[r], frame) /\ ~halted[r]
    BY <1>3, <1>6
  <2>2. /\ SessionInv(r) /\ Types
        /\ u \in User /\ u \in log[msg[s]]
    BY <1>1, <2>1, ElementOfSeq DEF IInv, Types, ServerTypes
  <2>3. /\ msg[s] \in Nat /\ frame.kind = "message"
        /\ Contents(frame) = {msg[s]}
        /\ frame \in Frame /\ frame # Failure
    BY <2>2, ContentsOf
    DEF Types, ServerTypes, Message, Frame, MessageFrame, Failure
  <2>4. down[r] \in Seq(Frame)
    BY <2>2 DEF Types, ClientTypes
  <2> HIDE DEF frame
  <2>5. /\ Range(down'[r]) = Range(down[r]) \cup {frame}
        /\ AtMostOne(down[r], "page") => AtMostOne(down'[r], "page")
        /\ Absent(down[r], "page") => Absent(down'[r], "page")
    BY <2>1, <2>3, <2>4, Appended
  <2>6. Requests(r)' = Requests(r)
    BY <1>2 DEF Requests
  <2>7. OnlyAddressed(r)'
    <3>1. Addressed(u)' = Addressed(u) /\ msg[s] \in Addressed(u)
      BY <1>1, <1>2, <2>2 DEF Addressed
    <3> QED
      BY <1>2, <2>2, <2>3, <2>5, <3>1 DEF SessionInv, OnlyAddressed
  <2>8. AcksAreHeld(r)'
    BY <1>2, <2>2, <2>6 DEF SessionInv, AcksAreHeld
  <2>9. WithinLog(r)'
    BY <1>2, <2>2, <2>3, <2>5, <2>6 DEF SessionInv, WithinLog
  <2>10. Synchronizing(r)'
    <3>1. OneSync(r) /\ SyncAgrees(r)
      BY <2>1, <2>2 DEF SessionInv, Synchronizing
    <3>2. OneSync(r)'
      BY <1>2, <2>5, <3>1 DEF OneSync
    <3>3. SyncAgrees(r)'
      BY <1>2, <2>3, <2>5, <2>6, <3>1 DEF SyncAgrees, ValidPage
    <3> QED
      BY <3>2, <3>3 DEF Synchronizing
  <2>11. PageIsPrefix(r)'
    BY <1>2, <2>2 DEF SessionInv, PageIsPrefix, Pending
  <2>12. NothingIsLost(r)'
    <3>1. ASSUME Serving(r)', NEW i \in Pending(u)' PROVE Underway(r, i)'
      <4>1. Serving(r) /\ i \in Pending(u)
        BY <1>2, <2>5, <3>1 DEF Serving, Grows, Pending
      <4>2. Underway(r, i)
        BY <2>2, <4>1 DEF SessionInv, NothingIsLost
      <4>3. BeingRouted(u, r, i) => BeingRouted(u, r, i)' \/ i = msg[s]
        BY <1>2 DEF BeingRouted, IInv, Types, ServerTypes
      <4>4. i = msg[s] => Sent(r, i)'
        BY <2>3, <2>5 DEF Sent
      <4>5. (Sent(r, i) => Sent(r, i)') /\ (InPage(r, i) => InPage(r, i)')
        BY <1>2, <2>5 DEF Sent, InPage
      <4>6. owner'[r] = u /\ sync'[r] = sync[r] /\ buf'[r] = buf[r]
        BY <1>2
      <4> QED
        BY <2>6, <4>2, <4>3, <4>4, <4>5, <4>6 DEF Underway
    <3> QED
      BY <1>2, <3>1 DEF NothingIsLost
  <2> QED
    BY <2>7, <2>8, <2>9, <2>10, <2>11, <2>12 DEF SessionInv
<1> QED
  BY <1>5, <1>6

-----------------------------------------------------------------------------
(* The requests of a client.                                               *)

\* A step of the handler of s that is not a delivery disturbs no other.
LEMMA OthersUndisturbed ==
  ASSUME IInv, Types', Grows, NEW s \in Session, NEW r \in Session, r # s,
         UNCHANGED <<log, msg, todo, target, owner>>,
         down'[r] = down[r], up'[r] = up[r], auto'[r] = auto[r],
         sync'[r] = sync[r], buf'[r] = buf[r], halted'[r] = halted[r],
         page'[r] = page[r], hstep'[r] = hstep[r]
  PROVE  SessionInv(r)'
<1>1. Undisturbed(r)
  BY DEF Undisturbed
<1> QED
  BY <1>1, NothingRerouted

\* What reading a request does to the connection.
LEMMA RequestTaken ==
  ASSUME IInv, NEW s \in Session, up[s] # <<>>, hstep[s] = "read",
         NextRequest(s, Tail(up[s]))
  PROVE  /\ \A r \in Session \ {s} : up'[r] = up[r] /\ hstep'[r] = hstep[r]
         /\ hstep'[s] # "page"
         /\ Range(up'[s]) \subseteq Range(up[s])
         /\ s \notin ended' => Range(up[s]) = Range(up'[s]) \cup {Head(up[s])}
         /\ \A kind :
              /\ Absent(up[s], kind) => Absent(up'[s], kind)
              /\ AtMostOne(up[s], kind) => AtMostOne(up'[s], kind)
<1>1. /\ Range(up[s]) = Range(Tail(up[s])) \cup {Head(up[s])}
      /\ \A kind :
           /\ Absent(up[s], kind) => Absent(Tail(up[s]), kind)
           /\ AtMostOne(up[s], kind) => AtMostOne(Tail(up[s]), kind)
  <2>1. up[s] \in Seq(Request)
    BY DEF IInv, Types, ClientTypes
  <2> QED
    BY <2>1, HeadTaken
<1>2. /\ \A r \in Session \ {s} : up'[r] = up[r] /\ hstep'[r] = hstep[r]
      /\ hstep'[s] # "page"
      /\ up'[s] = Tail(up[s]) \/ (up'[s] = <<>> /\ s \in ended')
  BY DEF NextRequest, IInv, Types, ServerTypes, ClientTypes
<1> QED
  BY <1>1, <1>2, NothingInEmpty

\* An acknowledgement changes what is pending, for the better.
LEMMA AcknowledgeDeliveryKeeps ==
  ASSUME IInv, Types', Grows, NEW s \in Session, AcknowledgeDelivery(s),
         NEW r \in Session
  PROVE  SessionInv(r)'
<1> PICK u : u = owner[s]
  OBVIOUS
<1>1. /\ UNCHANGED <<log, msg, todo, target, owner, page, down, auto, sync,
                     buf, halted, seen>>
      /\ NextRequest(s, Tail(up[s]))
  BY DEF AcknowledgeDelivery, jobVars, clientVars
<1>2. /\ u \in User /\ hstep[s] = "read" /\ up[s] # <<>>
      /\ Head(up[s]).kind = "ack"
  BY RequestRead DEF AcknowledgeDelivery
<1>3. /\ \A q \in Session \ {s} : up'[q] = up[q] /\ hstep'[q] = hstep[q]
      /\ hstep'[s] # "page"
      /\ Range(up'[s]) \subseteq Range(up[s])
      /\ s \notin ended' => Range(up[s]) = Range(up'[s]) \cup {Head(up[s])}
      /\ Absent(up[s], "sync") => Absent(up'[s], "sync")
      /\ AtMostOne(up[s], "sync") => AtMostOne(up'[s], "sync")
  BY <1>1, <1>2, RequestTaken
<1>4. CASE r # s
  BY <1>1, <1>3, <1>4, OthersUndisturbed
<1>5. ASSUME r = s PROVE SessionInv(s)'
  <2>1. SessionInv(s) /\ Types
    BY DEF IInv
  <2>2. Requests(s)' \subseteq Requests(s)
    BY <1>1, <1>3 DEF Requests
  <2>3. OnlyAddressed(s)'
    BY <1>1, <2>1 DEF SessionInv, OnlyAddressed, Addressed
  <2>4. AcksAreHeld(s)'
    BY <1>1, <2>1, <2>2 DEF SessionInv, AcksAreHeld
  <2>5. WithinLog(s)'
    BY <1>1, <2>1, <2>2 DEF SessionInv, WithinLog
  <2>6. Synchronizing(s)'
    <3>1. OneSync(s) => OneSync(s)'
      BY <1>1, <1>2, <1>3 DEF OneSync
    <3>2. SyncAgrees(s) => SyncAgrees(s)'
      BY <1>1, <1>3, <2>2 DEF SyncAgrees, ValidPage
    <3> QED
      BY <1>1, <2>1, <3>1, <3>2 DEF SessionInv, Synchronizing
  <2>7. PageIsPrefix(s)'
    BY <1>3 DEF PageIsPrefix
  <2>8. ASSUME Serving(s)', NEW i \in Pending(u)' PROVE Underway(s, i)'
    <3>1. Serving(s) /\ i \in Pending(u)
      BY <1>1, <1>2, <2>8 DEF Serving, Grows, Pending
    <3>2. Underway(s, i)
      BY <2>1, <3>1 DEF SessionInv, NothingIsLost
    <3>3. \A q \in Requests(s) : Requested(q, i) => q \in Requests(s)'
      BY <1>1, <1>2, <1>3, <2>8 DEF Requests, Requested, Serving
    <3>4. ~InPage(s, i)
      BY <1>2 DEF InPage
    <3>5. (Sent(s, i) => Sent(s, i)')
          /\ (BeingRouted(u, s, i) => BeingRouted(u, s, i)')
      BY <1>1 DEF Sent, BeingRouted
    <3> QED
      BY <1>1, <3>2, <3>3, <3>4, <3>5 DEF Underway
  <2>9. NothingIsLost(s)'
    BY <1>1, <2>8 DEF NothingIsLost
  <2> QED
    BY <2>3, <2>4, <2>5, <2>6, <2>7, <2>9 DEF SessionInv
<1> QED
  BY <1>4, <1>5

\* The client of a request that failed stops.
LEMMA RequestFailsKeeps ==
  ASSUME IInv, Types', Grows, NEW s \in Session, RequestFails(s),
         NEW r \in Session
  PROVE  SessionInv(r)'
<1> PICK u : u = owner[s]
  OBVIOUS
<1>1. /\ UNCHANGED <<log, acked, msg, todo, target, owner, page, auto, sync,
                     buf, halted, seen>>
      /\ NextRequest(s, Tail(up[s]))
  BY DEF RequestFails, dbVars, jobVars, clientVars
<1>2. /\ u \in User /\ hstep[s] = "read" /\ up[s] # <<>>
  BY RequestRead DEF RequestFails
<1>3. /\ \A q \in Session \ {s} : up'[q] = up[q] /\ hstep'[q] = hstep[q]
      /\ hstep'[s] # "page"
      /\ Range(up'[s]) \subseteq Range(up[s])
      /\ Absent(up[s], "sync") => Absent(up'[s], "sync")
      /\ AtMostOne(up[s], "sync") => AtMostOne(up'[s], "sync")
  BY <1>1, <1>2, RequestTaken
<1>4. /\ \A q \in Session \ {s} : down'[q] = down[q]
      /\ \/ down'[s] = Append(down[s], Failure) /\ ~halted[s]
         \/ down'[s] = down[s] /\ (halted[s] \/ s \in ended')
  BY SendDisturbs DEF RequestFails, IInv
<1>5. CASE r # s
  BY <1>1, <1>3, <1>4, <1>5, OthersUndisturbed
<1>6. ASSUME r = s PROVE SessionInv(s)'
  <2>1. SessionInv(s) /\ Types /\ down[s] \in Seq(Frame)
    BY DEF IInv, Types, ClientTypes
  <2>2. Requests(s)' \subseteq Requests(s)
    BY <1>1, <1>3 DEF Requests
  <2>3. /\ Failure \in Frame /\ Contents(Failure) = {}
        /\ Failure.kind = "fail"
    BY ContentsOf DEF Failure
  <2>4. /\ Range(down'[s]) \subseteq Range(down[s]) \cup {Failure}
        /\ Absent(down[s], "page") => Absent(down'[s], "page")
        /\ AtMostOne(down[s], "page") => AtMostOne(down'[s], "page")
        /\ halted[s] \/ s \in ended' \/ Failure \in Range(down'[s])
    <3>1. LET d == Append(down[s], Failure)
          IN  /\ Range(d) = Range(down[s]) \cup {Failure}
              /\ Absent(down[s], "page") => Absent(d, "page")
              /\ AtMostOne(down[s], "page") => AtMostOne(d, "page")
      BY <2>1, <2>3, Appended
    <3> QED
      BY <1>4, <3>1
  <2>5. OnlyAddressed(s)'
    BY <1>1, <2>1, <2>3, <2>4 DEF SessionInv, OnlyAddressed, Addressed
  <2>6. AcksAreHeld(s)'
    BY <1>1, <2>1, <2>2 DEF SessionInv, AcksAreHeld
  <2>7. WithinLog(s)'
    BY <1>1, <2>1, <2>2, <2>3, <2>4 DEF SessionInv, WithinLog
  <2>8. Synchronizing(s)'
    <3>1. OneSync(s) => OneSync(s)'
      BY <1>1, <1>2, <1>3, <2>4 DEF OneSync
    <3>2. SyncAgrees(s) => SyncAgrees(s)'
      BY <1>1, <1>3, <2>2, <2>3, <2>4 DEF SyncAgrees, ValidPage
    <3> QED
      BY <1>1, <2>1, <3>1, <3>2 DEF SessionInv, Synchronizing
  <2>9. PageIsPrefix(s)'
    BY <1>3 DEF PageIsPrefix
  <2>10. NothingIsLost(s)'
    BY <1>1, <2>4 DEF NothingIsLost, Serving
  <2> QED
    BY <2>5, <2>6, <2>7, <2>8, <2>9, <2>10 DEF SessionInv
<1> QED
  BY <1>5, <1>6

\* A page holds the first of the rows in its range, and reports any others.
LEMMA GetPendingPageKeeps ==
  ASSUME IInv, Types', Grows, NEW s \in Session, GetPendingPage(s),
         NEW r \in Session
  PROVE  SessionInv(r)'
<1> PICK u : u = owner[s]
  OBVIOUS
<1> PICK after : after = Head(up[s]).after
  OBVIOUS
<1> PICK through : through = Head(up[s]).through
  OBVIOUS
<1> PICK watermark :
      watermark = IF through = 0 THEN Highest(Pending(u)) ELSE through
  OBVIOUS
<1> PICK rows : rows = {i \in Pending(u) : after < i /\ i <= watermark}
  OBVIOUS
<1> PICK ids : ids = First(rows, PageLimit)
  OBVIOUS
<1>1. /\ UNCHANGED <<log, acked, ended, msg, todo, target, owner, down, auto,
                     sync, buf, halted, seen>>
      /\ up' = [up EXCEPT ![s] = Tail(@)]
      /\ page' = [page EXCEPT ![s] = Rows(after, watermark, ids, rows # ids)]
      /\ hstep' = [hstep EXCEPT ![s] = "page"]
  BY DEF GetPendingPage, dirVars, dbVars, jobVars, clientVars
<1>2. /\ u \in User /\ hstep[s] = "read" /\ up[s] # <<>>
      /\ up[s] \in Seq(Request)
      /\ Head(up[s]) \in SyncRequest /\ Head(up[s]).kind = "sync"
      /\ Head(up[s]) \in Requests(s)
      /\ after \in Nat /\ through \in Nat
  BY RequestRead DEF GetPendingPage, Requests, SyncRequest
<1>3. Types /\ SessionInv(s)
  BY DEF IInv
<1>4. CASE r # s
  BY <1>1, <1>4, OthersUndisturbed DEF IInv, Types, ServerTypes, ClientTypes
<1>5. /\ hstep'[s] = "page" /\ up'[s] = Tail(up[s])
      /\ page'[s].after = after /\ page'[s].through = watermark
      /\ page'[s].ids = ids /\ page'[s].more = (rows # ids)
  BY <1>1, <1>3 DEF Rows, Types, ServerTypes, ClientTypes
<1>6. /\ Range(up[s]) = Range(up'[s]) \cup {Head(up[s])}
      /\ AtMostOne(up[s], "sync") => Absent(up'[s], "sync")
  BY <1>2, <1>5, HeadTaken
<1>7. /\ Len(log) \in Nat
      /\ Pending(u) \subseteq Addressed(u)
      /\ Pending(u) \subseteq 1..Len(log)
      /\ Highest(Pending(u)) \in Nat /\ Highest(Pending(u)) <= Len(log)
      /\ \A i \in Pending(u) : i <= Highest(Pending(u))
  BY <1>3, LogIds
<1>8. watermark \in Nat /\ watermark <= Len(log)
  <2>1. through <= Len(log)
    BY <1>2, <1>3 DEF SessionInv, WithinLog
  <2> QED
    BY <1>2, <1>7, <2>1
<1>9. /\ rows \subseteq Pending(u) /\ rows \in SUBSET Nat
      /\ ids \subseteq rows
      /\ \A i \in ids, j \in rows : j <= i => j \in ids
      /\ rows # ids => ids # {}
  <2>1. rows \subseteq Pending(u) /\ rows \subseteq 1..Len(log)
    BY <1>7
  <2>2. rows \in SUBSET Nat /\ IsFiniteSet(rows)
    BY <1>3, <2>1, LogIds
  <2>3. PageLimit \in Nat /\ PageLimit # 0
    BY BoundsAssumption
  <2>4. /\ First(rows, PageLimit) \subseteq rows
        /\ \A i \in First(rows, PageLimit) :
             \A j \in rows : j <= i => j \in First(rows, PageLimit)
        /\ rows # {} => First(rows, PageLimit) # {}
    BY <2>2, <2>3, FirstIsPrefix
  <2> QED
    BY <2>1, <2>2, <2>4
<1>10. ASSUME r = s PROVE SessionInv(s)'
  <2>1. Requests(s)' \subseteq Requests(s)
    BY <1>1, <1>6 DEF Requests
  <2>2. OnlyAddressed(s)'
    <3>1. ids \subseteq Addressed(u)
      BY <1>7, <1>9
    <3> QED
      BY <1>1, <1>3, <1>5, <3>1 DEF SessionInv, OnlyAddressed, Addressed
  <2>3. AcksAreHeld(s)'
    BY <1>1, <1>3, <2>1 DEF SessionInv, AcksAreHeld
  <2>4. WithinLog(s)'
    BY <1>1, <1>3, <1>5, <1>8, <2>1 DEF SessionInv, WithinLog
  <2>5. ASSUME ~halted[s] PROVE OneSync(s)' /\ SyncAgrees(s)'
    <3>1. OneSync(s) /\ SyncAgrees(s)
      BY <1>3, <2>5 DEF SessionInv, Synchronizing
    <3>2. ~Absent(up[s], "sync")
      BY <1>2, <1>6, AbsentByRange
    <3>3. OneSync(s)'
      BY <1>1, <1>5, <1>6, <3>1, <3>2, AbsentIsAtMostOne DEF OneSync
    <3>4. after = sync[s].after /\ through = sync[s].through
      BY <1>2, <3>1 DEF SyncAgrees
    <3>5. after <= watermark
      BY <1>2, <1>8, <3>1, <3>4 DEF SyncAgrees
    <3>6. \A i \in ids : after < i /\ i <= watermark
      BY <1>9
    <3>7. ASSUME NEW f \in Range(down'[s]), f.kind = "page"
          PROVE  ValidPage(s, f)'
      BY <1>1, <3>1, <3>7 DEF SyncAgrees, ValidPage
    <3>8. SyncAgrees(s)'
      <4>1. /\ sync'[s] = sync[s] /\ sync[s].after <= sync[s].through
            /\ \A q \in Requests(s) : q.kind = "sync" =>
                 q.after = sync[s].after /\ q.through = sync[s].through
        BY <1>1, <3>1 DEF SyncAgrees
      <4>2. /\ page'[s].after = sync'[s].after
            /\ page'[s].after <= page'[s].through
            /\ sync'[s].through # 0 => page'[s].through = sync'[s].through
            /\ \A i \in page'[s].ids :
                 page'[s].after < i /\ i <= page'[s].through
            /\ page'[s].more => page'[s].ids # {}
        BY <1>5, <1>9, <3>4, <3>5, <3>6, <4>1
      <4> QED
        BY <2>1, <3>7, <4>1, <4>2 DEF SyncAgrees
    <3> QED
      BY <3>3, <3>8
  <2>6. PageIsPrefix(s)'
    <3>1. ASSUME NEW i \in Pending(u)', i \notin ids, after < i, i <= watermark
          PROVE  rows # ids /\ \A j \in ids : j < i
      <4>1. i \in rows
        BY <1>1, <3>1 DEF Pending
      <4>2. ASSUME NEW j \in ids PROVE j < i
        <5>1. i \in Nat /\ j \in Nat /\ ~ (i <= j)
          BY <1>9, <3>1, <4>1
        <5> QED
          BY <5>1
      <4> QED
        BY <3>1, <4>1, <4>2
    <3> QED
      BY <1>1, <1>5, <3>1 DEF PageIsPrefix
  <2>7. ASSUME Serving(s)', NEW i \in Pending(u)' PROVE Underway(s, i)'
    <3>1. Serving(s) /\ i \in Pending(u)
      BY <1>1, <2>7 DEF Serving, Pending
    <3>2. Underway(s, i)
      BY <1>3, <3>1 DEF SessionInv, NothingIsLost
    <3>3. Requested(Head(up[s]), i) => InPage(s, i)'
      <4> SUFFICES ASSUME Requested(Head(up[s]), i) PROVE InPage(s, i)'
        OBVIOUS
      <4>1. after < i /\ i <= watermark
        BY <1>2, <1>7, <3>1 DEF Requested
      <4>2. i \in rows
        BY <3>1, <4>1
      <4>3. i \notin ids => rows # ids
        BY <4>2
      <4> QED
        BY <1>5, <4>1, <4>3 DEF InPage, Continued
    <3>4. \A q \in Requests(s) : q = Head(up[s]) \/ q \in Requests(s)'
      BY <1>1, <1>6 DEF Requests
    <3>5. ~InPage(s, i)
      BY <1>2 DEF InPage
    <3>6. (Sent(s, i) => Sent(s, i)')
          /\ (BeingRouted(u, s, i) => BeingRouted(u, s, i)')
      BY <1>1 DEF Sent, BeingRouted
    <3> QED
      BY <1>1, <3>2, <3>3, <3>4, <3>5, <3>6 DEF Underway
  <2>8. NothingIsLost(s)'
    BY <1>1, <2>7 DEF NothingIsLost
  <2>9. Synchronizing(s)'
    BY <1>1, <2>5 DEF Synchronizing
  <2> QED
    BY <2>2, <2>3, <2>4, <2>6, <2>8, <2>9 DEF SessionInv
<1> QED
  BY <1>4, <1>10

\* A page is written in whole or in part, and the cursor is the last row of it.
LEMMA WritePageKeeps ==
  ASSUME IInv, Types', Grows, NEW s \in Session, WritePage(s),
         NEW r \in Session
  PROVE  SessionInv(r)'
<1> PICK u : u = owner[s]
  OBVIOUS
<1> PICK p : p = page[s]
  OBVIOUS
<1>1. PICK n \in 0..Cardinality(p.ids) :
             LET kept == First(p.ids, n)
                 next == IF kept = {} THEN p.after ELSE Highest(kept)
                 more == p.more \/ kept # p.ids
             IN  /\ kept = {} => p.ids = {}
                 /\ \/ Send(s, Page(kept, next, p.through, more))
                    \/ SendFails(s)
  BY DEF WritePage
<1> PICK kept : kept = First(p.ids, n)
  OBVIOUS
<1> PICK next : next = IF kept = {} THEN p.after ELSE Highest(kept)
  OBVIOUS
<1> PICK more : more = (p.more \/ kept # p.ids)
  OBVIOUS
<1> PICK frame : frame = Page(kept, next, p.through, more)
  OBVIOUS
<1>2. /\ kept = {} => p.ids = {}
      /\ Send(s, frame) \/ SendFails(s)
  BY <1>1
<1>3. /\ UNCHANGED <<log, acked, msg, todo, target, owner, auto, sync, buf,
                     halted, seen>>
      /\ page' = [page EXCEPT ![s] = NoPage]
      /\ NextRequest(s, up[s])
      /\ hstep[s] = "page"
  BY DEF WritePage, dbVars, jobVars, clientVars
<1>4. Types /\ SessionInv(s)
  BY DEF IInv
<1>5. /\ \A q \in Session \ {s} : down'[q] = down[q]
      /\ \/ down'[s] = Append(down[s], frame) /\ ~halted[s]
         \/ down'[s] = down[s] /\ (halted[s] \/ s \in ended')
  BY <1>2, <1>4, SendDisturbs
<1>6. /\ \A q \in Session \ {s} : up'[q] = up[q] /\ hstep'[q] = hstep[q]
      /\ hstep'[s] # "page"
      /\ up'[s] = up[s] \/ (up'[s] = <<>> /\ s \in ended')
      /\ page'[s] = NoPage /\ NoPage.ids = {} /\ NoPage.through = 0
  BY <1>3, <1>4
  DEF NextRequest, NoPage, Rows, Types, ServerTypes, ClientTypes
<1>7. CASE r # s
  BY <1>3, <1>5, <1>6, <1>7, OthersUndisturbed DEF IInv, Types, ServerTypes
<1>8. u \in User
  BY <1>3, ActiveIsOwned
<1>9. /\ Len(log) \in Nat
      /\ p \in PageRows /\ p.ids \subseteq Addressed(u)
      /\ p.ids \subseteq 1..Len(log)
      /\ p.ids \in SUBSET Nat /\ IsFiniteSet(p.ids)
  <2>1. /\ Len(log) \in Nat
        /\ p \in PageRows /\ p.ids \subseteq Addressed(u)
    BY <1>4, LogIds DEF Types, ServerTypes, SessionInv, OnlyAddressed
  <2>2. p.ids \subseteq 1..Len(log)
    BY <1>4, <2>1, LogIds
  <2> QED
    BY <1>4, <2>1, <2>2, LogIds
<1>10. /\ kept \subseteq p.ids
       /\ \A i \in kept, j \in p.ids : j <= i => j \in kept
       /\ kept # {} => Highest(kept) \in kept
       /\ next \in Nat
  <2>1. n \in Nat
    BY <1>9, FS_CardinalityType
  <2>2. /\ kept \subseteq p.ids
        /\ \A i \in kept, j \in p.ids : j <= i => j \in kept
    BY <1>9, <2>1, FirstIsPrefix
  <2>3. kept \subseteq 1..Len(log)
    BY <1>9, <2>2
  <2>4. Highest(kept) \in Nat /\ (kept # {} => Highest(kept) \in kept)
    BY <1>4, <2>3, LogIds
  <2> QED
    BY <1>9, <2>2, <2>4 DEF PageRows
<1>11. /\ frame.kind = "page" /\ frame.ids = kept /\ frame.next = next
       /\ frame.through = p.through /\ frame.more = more
       /\ frame \in PageFrame /\ frame \in Frame
       /\ Contents(frame) = kept /\ frame # Failure
  <2>1. /\ kept \in SUBSET Nat /\ more \in BOOLEAN
        /\ p.through \in Nat
    BY <1>9, <1>10 DEF PageRows
  <2>2. frame \in PageFrame
    BY <1>10, <2>1 DEF PageFrame, Page
  <2> QED
    BY <2>2, ContentsOf DEF Page, Frame, PageFrame, Failure
<1>12. ASSUME r = s PROVE SessionInv(s)'
  <2>1. Requests(s)' \subseteq Requests(s)
    BY <1>3, <1>6, NothingInEmpty DEF Requests
  <2>2. /\ \/ Range(down'[s]) = Range(down[s]) \cup {frame}
           \/ Range(down'[s]) = Range(down[s]) /\ (halted[s] \/ s \in ended')
        /\ Absent(down[s], "page") => AtMostOne(down'[s], "page")
    <3>1. down[s] \in Seq(Frame)
      BY <1>4 DEF Types, ClientTypes
    <3>2. /\ Range(Append(down[s], frame)) = Range(down[s]) \cup {frame}
          /\ Absent(down[s], "page")
               => AtMostOne(Append(down[s], frame), "page")
      BY <1>11, <3>1, Appended
    <3> QED
      BY <1>5, <3>2, AbsentIsAtMostOne
  <2>3. OnlyAddressed(s)'
    <3>1. Contents(frame) \subseteq Addressed(u)
      BY <1>9, <1>10, <1>11
    <3> QED
      BY <1>3, <1>4, <1>6, <2>2, <3>1 DEF SessionInv, OnlyAddressed, Addressed
  <2>4. AcksAreHeld(s)'
    BY <1>3, <1>4, <2>1 DEF SessionInv, AcksAreHeld
  <2>5. WithinLog(s)'
    BY <1>3, <1>4, <1>6, <1>9, <1>11, <2>1, <2>2 DEF SessionInv, WithinLog
  <2>6. ASSUME ~halted[s] PROVE OneSync(s)' /\ SyncAgrees(s)'
    <3>1. OneSync(s) /\ SyncAgrees(s)
      BY <1>4, <2>6 DEF SessionInv, Synchronizing
    <3>2. /\ Absent(auto[s], "sync") /\ Absent(up[s], "sync")
          /\ Absent(down[s], "page") /\ sync[s].phase = "active"
          /\ AtMostOne(auto[s], "sync") /\ AtMostOne(up[s], "sync")
      BY <1>3, <3>1 DEF OneSync
    <3>3. Absent(up'[s], "sync")
      BY <1>6, <3>2, NothingInEmpty
    <3>4. OneSync(s)'
      BY <1>3, <1>6, <2>2, <3>2, <3>3, AbsentIsAtMostOne DEF OneSync
    <3>5. ValidPage(s, frame)
      <4>1. /\ p.after = sync[s].after /\ p.after <= p.through
            /\ sync[s].through # 0 => p.through = sync[s].through
            /\ \A i \in p.ids : p.after < i /\ i <= p.through
            /\ p.more => p.ids # {}
        BY <1>3, <3>1 DEF SyncAgrees
      <4>2. more => kept # {}
        BY <1>2, <4>1
      <4>3. \A i \in kept : sync[s].after < i /\ i <= p.through
        BY <1>10, <4>1
      <4>4. next = IF kept = {} THEN sync[s].after ELSE Highest(kept)
        BY <4>1
      <4>5. /\ sync[s].through # 0 => sync[s].through = p.through
            /\ sync[s].after <= p.through
        BY <4>1
      <4> QED
        BY <1>11, <3>2, <4>2, <4>3, <4>4, <4>5 DEF ValidPage
    <3>6. ASSUME NEW f \in Range(down'[s]), f.kind = "page"
          PROVE  ValidPage(s, f)'
      <4>1. ValidPage(s, f)
        BY <2>2, <3>1, <3>5, <3>6 DEF SyncAgrees
      <4> QED
        BY <1>3, <4>1 DEF ValidPage
    <3>7. SyncAgrees(s)'
      BY <1>3, <1>6, <2>1, <3>1, <3>6 DEF SyncAgrees
    <3> QED
      BY <3>4, <3>7
  <2>7. PageIsPrefix(s)'
    BY <1>6 DEF PageIsPrefix
  <2>8. ASSUME Serving(s)', NEW i \in Pending(u)' PROVE Underway(s, i)'
    <3>1. /\ Serving(s) /\ i \in Pending(u) /\ i \in Nat
          /\ ~halted[s] /\ s \notin ended'
      BY <1>3, <1>4, <1>8, <2>2, <2>8, LogIds DEF Serving, Grows, Pending
    <3>2. Underway(s, i)
      BY <1>4, <3>1 DEF SessionInv, NothingIsLost
    <3>3. /\ Range(down'[s]) = Range(down[s]) \cup {frame}
          /\ up'[s] = up[s]
      BY <1>6, <2>2, <3>1
    <3>4. ASSUME i \in p.ids PROVE Sent(s, i)'
      <4>1. CASE i \in kept
        BY <1>11, <3>3, <4>1 DEF Sent
      <4>2. CASE i \notin kept
        <5>1. more /\ kept # {}
          BY <1>2, <3>4, <4>2
        <5>2. next \in kept
          BY <1>10, <5>1
        <5>3. ~ (i <= next)
          BY <1>10, <3>4, <4>2, <5>2
        <5>4. next < i
          BY <1>10, <3>1, <5>3
        <5>5. i <= p.through
          BY <1>3, <1>4, <3>1, <3>4 DEF SessionInv, Synchronizing, SyncAgrees
        <5> QED
          BY <1>11, <3>3, <5>1, <5>4, <5>5 DEF Sent, Continued
      <4> QED
        BY <4>1, <4>2
    <3>5. ASSUME Continued(p.after, p.through, p.more, i), i \notin p.ids
          PROVE  Sent(s, i)'
      <4>1. p.more /\ p.after < i /\ i <= p.through
        BY <3>5 DEF Continued
      <4>2. \A j \in p.ids : j < i
        BY <1>3, <1>4, <3>1, <3>5, <4>1 DEF SessionInv, PageIsPrefix
      <4>3. next < i /\ more
        BY <1>10, <4>1, <4>2
      <4> QED
        BY <1>11, <3>3, <4>1, <4>3 DEF Sent, Continued
    <3>6. InPage(s, i) => Sent(s, i)'
      BY <3>4, <3>5 DEF InPage
    <3>7. /\ Sent(s, i) => Sent(s, i)'
          /\ BeingRouted(u, s, i) => BeingRouted(u, s, i)'
          /\ Requests(s)' = Requests(s)
      BY <1>3, <3>3 DEF Sent, BeingRouted, Requests
    <3> QED
      BY <1>3, <3>2, <3>6, <3>7 DEF Underway
  <2>9. NothingIsLost(s)'
    BY <1>3, <2>8 DEF NothingIsLost
  <2>10. Synchronizing(s)'
    BY <1>3, <2>6 DEF Synchronizing
  <2> QED
    BY <2>3, <2>4, <2>5, <2>7, <2>9, <2>10 DEF SessionInv
<1> QED
  BY <1>7, <1>12

-----------------------------------------------------------------------------
(* The client.                                                             *)

\* A client that stops drops its queues; what it had kept it keeps.
LEMMA HaltKeeps ==
  ASSUME IInv, Types', Grows, NEW s \in Session, Halt(s),
         UNCHANGED <<log, msg, todo, target, owner, hstep, page, up, sync>>,
         NEW ids \in SUBSET Nat, ids \subseteq Addressed(owner[s]),
         \/ UNCHANGED <<buf, seen>>
         \/ owner[s] # NoUser /\ Retain(s, ids),
         NEW r \in Session
  PROVE  SessionInv(r)'
<1> PICK u : u = owner[s]
  OBVIOUS
<1>1. Types /\ SessionInv(s)
  BY DEF IInv
<1>2. /\ \A q \in Session \ {s} :
           /\ down'[q] = down[q] /\ auto'[q] = auto[q]
           /\ buf'[q] = buf[q] /\ halted'[q] = halted[q]
      /\ down'[s] = <<>> /\ auto'[s] = <<>> /\ halted'[s]
  BY <1>1 DEF Halt, Retain, Types, ClientTypes
<1>3. /\ buf[s] \subseteq buf'[s]
      /\ buf'[s] \subseteq Addressed(u)
      /\ u # NoUser => buf'[s] \subseteq seen'[u]
  <2>1. /\ buf[s] \subseteq Addressed(u)
        /\ u # NoUser => buf[s] \subseteq seen[u] /\ u \in User
    BY <1>1 DEF SessionInv, OnlyAddressed, AcksAreHeld, Types, ServerTypes
  <2>2. CASE UNCHANGED <<buf, seen>>
    BY <2>1, <2>2
  <2>3. CASE u # NoUser /\ Retain(s, ids)
    <3>1. buf'[s] = buf[s] \cup ids /\ seen'[u] = seen[u] \cup ids
      BY <1>1, <2>1, <2>3 DEF Retain, Types, ClientTypes
    <3> QED
      BY <2>1, <3>1
  <2> QED
    BY <2>2, <2>3
<1>4. CASE r # s
  BY <1>2, <1>4, OthersUndisturbed
<1>5. ASSUME r = s PROVE SessionInv(s)'
  <2>1. Range(<<>>) = {} /\ Len(<<>>) = 0
    BY NothingInEmpty
  <2>2. Requests(s)' \subseteq Requests(s)
    BY <1>2, <2>1 DEF Requests
  <2>3. OnlyAddressed(s)'
    BY <1>1, <1>2, <1>3, <2>1 DEF SessionInv, OnlyAddressed, Addressed
  <2>4. AcksAreHeld(s)'
    BY <1>1, <1>2, <1>3, <2>1, <2>2, BoundsAssumption
    DEF SessionInv, AcksAreHeld
  <2>5. WithinLog(s)'
    BY <1>1, <1>2, <2>1, <2>2 DEF SessionInv, WithinLog
  <2>6. Synchronizing(s)' /\ NothingIsLost(s)'
    BY <1>2 DEF Synchronizing, NothingIsLost, Serving
  <2>7. PageIsPrefix(s)'
    <3>1. owner'[s] = u /\ Pending(u)' \subseteq Pending(u)
      <4>1. hstep[s] = "page" => u \in User
        BY ActiveIsOwned
      <4> QED
        BY <1>1 DEF Pending, Grows, Types, ServerTypes
    <3> QED
      BY <1>1, <3>1 DEF SessionInv, PageIsPrefix
  <2> QED
    BY <2>3, <2>4, <2>5, <2>6, <2>7 DEF SessionInv
<1> QED
  BY <1>4, <1>5

\* The first request covers every message there is.
LEMMA StartSynchronizationKeeps ==
  ASSUME IInv, Types', Grows, NEW s \in Session, StartSynchronization(s),
         NEW r \in Session
  PROVE  SessionInv(r)'
<1> PICK u : u = owner[s]
  OBVIOUS
<1>1. /\ UNCHANGED <<log, acked, ended, msg, todo, target, owner, hstep, page,
                     down, up, buf, halted, seen>>
      /\ sync' = [sync EXCEPT ![s] = SyncState("active", 0, 0)]
      /\ auto' = [auto EXCEPT ![s] = Append(@, Sync(0, 0))]
      /\ sync[s].phase = "unstarted" /\ ~halted[s] /\ u # NoUser
  BY DEF StartSynchronization, dirVars, dbVars, jobVars, handlerVars
<1>2. Types /\ SessionInv(s)
  BY DEF IInv
<1>3. CASE r # s
  BY <1>1, <1>3, OthersUndisturbed DEF IInv, Types, ClientTypes
<1>4. ASSUME r = s PROVE SessionInv(s)'
  <2> PICK first : first = Sync(0, 0)
    OBVIOUS
  <2>1. /\ first.kind = "sync" /\ first.after = 0 /\ first.through = 0
        /\ first \in Request
    BY DEF Sync, Request, SyncRequest
  <2>2. auto[s] = <<>>
    BY <1>1, <1>2 DEF SessionInv, AcksAreHeld
  <2>3. auto'[s] = Append(auto[s], first)
    BY <1>1, <1>2 DEF Types, ClientTypes
  <2>4. /\ Range(auto'[s]) = {first} /\ Range(auto[s]) = {}
        /\ Len(auto'[s]) = 1
        /\ AtMostOne(auto'[s], "sync")
    <3>1. /\ Range(Append(auto[s], first)) = Range(auto[s]) \cup {first}
          /\ Len(Append(auto[s], first)) = Len(auto[s]) + 1
          /\ Absent(auto[s], "sync")
               => AtMostOne(Append(auto[s], first), "sync")
      <4>1. auto[s] \in Seq(Request)
        BY <1>2 DEF Types, ClientTypes
      <4> QED
        BY <2>1, <4>1, Appended
    <3>2. Len(auto[s]) = 0
      BY <2>2
    <3>3. Range(auto[s]) = {} /\ Absent(auto[s], "sync")
      BY <2>2, NothingInEmpty
    <3> QED
      BY <2>3, <3>1, <3>2, <3>3
  <2>5. /\ sync'[s].phase = "active" /\ sync'[s].after = 0
        /\ sync'[s].through = 0
    BY <1>1, <1>2 DEF SyncState, Types, ClientTypes
  <2>6. Requests(s)' = Requests(s) \cup {first}
    BY <1>1, <2>4 DEF Requests
  <2>7. /\ OneSync(s) /\ Absent(up[s], "sync") /\ hstep[s] # "page"
        /\ Absent(down[s], "page")
    BY <1>1, <1>2 DEF SessionInv, Synchronizing, OneSync
  <2>8. OnlyAddressed(s)'
    BY <1>1, <1>2 DEF SessionInv, OnlyAddressed, Addressed
  <2>9. AcksAreHeld(s)'
    BY <1>1, <1>2, <2>1, <2>4, <2>5, <2>6, BoundsAssumption
    DEF SessionInv, AcksAreHeld
  <2>10. WithinLog(s)'
    <3>1. Len(log) \in Nat
      BY <1>2, LogIds
    <3> QED
      BY <1>1, <1>2, <2>1, <2>6, <3>1 DEF SessionInv, WithinLog
  <2>11. Synchronizing(s)'
    <3>1. OneSync(s)'
      BY <1>1, <2>4, <2>5, <2>7 DEF OneSync
    <3>2. \A q \in Requests(s)' : q.kind = "sync" => q = first
      BY <1>1, <2>4, <2>7, AbsentByRange DEF Requests
    <3>3. \A f \in Range(down'[s]) : f.kind # "page"
      BY <1>1, <2>7, AbsentByRange
    <3>4. SyncAgrees(s)'
      BY <1>1, <2>1, <2>5, <2>7, <3>2, <3>3 DEF SyncAgrees
    <3> QED
      BY <3>1, <3>4 DEF Synchronizing
  <2>12. PageIsPrefix(s)'
    BY <1>1, <2>7 DEF PageIsPrefix
  <2>13. ASSUME NEW i \in Pending(u)' PROVE Underway(s, i)'
    <3>1. i \in Nat \ {0}
      <4>1. u \in User
        BY <1>1, <1>2 DEF Types, ServerTypes
      <4> QED
        BY <1>2, <4>1, PendingGrows
    <3>2. Requested(first, i)
      BY <2>1, <3>1 DEF Requested
    <3> QED
      BY <2>6, <3>2 DEF Underway
  <2> QED
    BY <1>1, <2>8, <2>9, <2>10, <2>11, <2>12, <2>13
    DEF SessionInv, NothingIsLost
<1> QED
  BY <1>3, <1>4

\* A request moves from the queue to the wire.
LEMMA FlushRequestKeeps ==
  ASSUME IInv, Types', Grows, NEW s \in Session, FlushRequest(s),
         NEW r \in Session
  PROVE  SessionInv(r)'
<1> PICK u : u = owner[s]
  OBVIOUS
<1> PICK q : q = Head(auto[s])
  OBVIOUS
<1>1. /\ UNCHANGED <<log, acked, ended, msg, todo, target, owner, hstep, page,
                     sync, buf, seen>>
      /\ auto[s] # <<>>
  BY DEF FlushRequest, dirVars, dbVars, jobVars, handlerVars
<1>2. Types /\ SessionInv(s)
  BY DEF IInv
<1>3. CASE Halt(s) /\ UNCHANGED up
  <2>1. {} \in SUBSET Nat /\ {} \subseteq Addressed(owner[s])
    OBVIOUS
  <2> QED
    BY <1>1, <1>3, <2>1, HaltKeeps
<1>4. CASE /\ auto' = [auto EXCEPT ![s] = Tail(@)]
           /\ up' = IF hstep[s] = "out" THEN up
                    ELSE [up EXCEPT ![s] = Append(@, Head(auto[s]))]
           /\ UNCHANGED <<down, halted>>
  <2>1. CASE r # s
    BY <1>1, <1>4, <2>1, OthersUndisturbed DEF IInv, Types, ClientTypes
  <2>2. ASSUME r = s PROVE SessionInv(s)'
    <3>1. /\ auto'[s] = Tail(auto[s])
          /\ hstep[s] # "out" => up'[s] = Append(up[s], q)
          /\ hstep[s] = "out" => up'[s] = up[s] /\ s \in ended
      BY <1>2, <1>4 DEF IInv, JobFollowsStep, Types, ClientTypes
    <3>2. /\ Range(auto[s]) = Range(auto'[s]) \cup {q}
          /\ Len(auto'[s]) < Len(auto[s]) /\ Len(auto[s]) \in Nat
          /\ Len(auto'[s]) \in Nat
          /\ AtMostOne(auto[s], "sync") => AtMostOne(auto'[s], "sync")
          /\ Absent(auto[s], "sync") => Absent(auto'[s], "sync")
          /\ AtMostOne(auto[s], "sync") /\ q.kind = "sync"
               => Absent(auto'[s], "sync")
          /\ q \in Request
      <4>1. auto[s] \in Seq(Request) /\ auto[s] # <<>>
        BY <1>1, <1>2 DEF Types, ClientTypes
      <4>2. Len(auto[s]) \in Nat /\ Len(Tail(auto[s])) \in Nat
        BY <4>1, HeadTaken, LenProperties
      <4> QED
        BY <3>1, <4>1, <4>2, HeadTaken
    <3>3. /\ Range(up'[s]) \subseteq Range(up[s]) \cup {q}
          /\ s \notin ended => Range(up'[s]) = Range(up[s]) \cup {q}
          /\ Absent(up[s], "sync") => AtMostOne(up'[s], "sync")
          /\ q.kind # "sync" /\ Absent(up[s], "sync") => Absent(up'[s], "sync")
          /\ q.kind # "sync" /\ AtMostOne(up[s], "sync")
               => AtMostOne(up'[s], "sync")
      <4>1. up[s] \in Seq(Request)
        BY <1>2 DEF Types, ClientTypes
      <4>2. /\ Range(Append(up[s], q)) = Range(up[s]) \cup {q}
            /\ Absent(up[s], "sync") => AtMostOne(Append(up[s], q), "sync")
            /\ q.kind # "sync" /\ Absent(up[s], "sync")
                 => Absent(Append(up[s], q), "sync")
            /\ q.kind # "sync" /\ AtMostOne(up[s], "sync")
                 => AtMostOne(Append(up[s], q), "sync")
        BY <3>2, <4>1, Appended
      <4> QED
        BY <3>1, <4>2, AbsentIsAtMostOne
    <3>4. Requests(s)' \subseteq Requests(s)
      BY <3>2, <3>3 DEF Requests
    <3>5. OnlyAddressed(s)'
      BY <1>1, <1>2, <1>4 DEF SessionInv, OnlyAddressed, Addressed
    <3>6. AcksAreHeld(s)'
      <4>1. AcksAreHeld(s) /\ MaxAutomaticRequests \in Nat
        BY <1>2, BoundsAssumption DEF SessionInv
      <4>2. Len(auto'[s]) <= MaxAutomaticRequests
        BY <3>2, <4>1 DEF AcksAreHeld
      <4>3. sync[s].phase # "unstarted"
        BY <1>1, <4>1 DEF AcksAreHeld
      <4> QED
        BY <1>1, <3>4, <4>1, <4>2, <4>3 DEF AcksAreHeld
    <3>7. WithinLog(s)'
      BY <1>1, <1>2, <1>4, <3>4 DEF SessionInv, WithinLog
    <3>8. Synchronizing(s)'
      <4>1. OneSync(s) => OneSync(s)'
        <5>1. ASSUME OneSync(s), q.kind = "sync" PROVE OneSync(s)'
          <6>1. ~Absent(auto[s], "sync")
            BY <3>2, <5>1, AbsentByRange
          <6> QED
            BY <1>1, <1>4, <3>2, <3>3, <5>1, <6>1, AbsentIsAtMostOne
            DEF OneSync
        <5>2. ASSUME OneSync(s), q.kind # "sync" PROVE OneSync(s)'
          <6>1. Absent(auto'[s], "sync") => Absent(auto[s], "sync")
            BY <3>2, <5>2, AbsentByRange
          <6>2. Absent(up[s], "sync") => Absent(up'[s], "sync")
            BY <3>3, <5>2
          <6> QED
            BY <1>1, <1>4, <3>2, <3>3, <5>2, <6>1, <6>2 DEF OneSync
        <5> QED
          BY <5>1, <5>2
      <4>2. SyncAgrees(s) => SyncAgrees(s)'
        BY <1>1, <1>4, <3>4 DEF SyncAgrees, ValidPage
      <4> QED
        BY <1>2, <1>4, <4>1, <4>2 DEF SessionInv, Synchronizing
    <3>9. PageIsPrefix(s)'
      BY <1>1, <1>2 DEF SessionInv, PageIsPrefix, Pending
    <3>10. ASSUME Serving(s)', NEW i \in Pending(u)' PROVE Underway(s, i)'
      <4>1. Serving(s) /\ i \in Pending(u) /\ s \notin ended
        BY <1>1, <1>4, <3>10 DEF Serving, Pending
      <4>2. Underway(s, i)
        BY <1>2, <4>1 DEF SessionInv, NothingIsLost
      <4>3. Requests(s)' = Requests(s)
        BY <3>2, <3>3, <4>1 DEF Requests
      <4>4. /\ Sent(s, i) => Sent(s, i)'
            /\ InPage(s, i) => InPage(s, i)'
            /\ BeingRouted(u, s, i) => BeingRouted(u, s, i)'
        BY <1>1, <1>4 DEF Sent, BeingRouted, InPage
      <4> QED
        BY <1>1, <4>2, <4>3, <4>4 DEF Underway
    <3>11. NothingIsLost(s)'
      BY <1>1, <3>10 DEF NothingIsLost
    <3> QED
      BY <3>5, <3>6, <3>7, <3>8, <3>9, <3>11 DEF SessionInv
  <2> QED
    BY <2>1, <2>2
<1> QED
  BY <1>3, <1>4 DEF FlushRequest

\* Nothing is promised to a client that has stopped.
LEMMA ClientStopsKeeps ==
  ASSUME IInv, Types', Grows, NEW s \in Session, ClientStops(s),
         NEW r \in Session
  PROVE  SessionInv(r)'
<1>1. {} \in SUBSET Nat /\ {} \subseteq Addressed(owner[s])
  OBVIOUS
<1>2. /\ Halt(s) /\ UNCHANGED <<buf, seen>>
      /\ UNCHANGED <<log, msg, todo, target, owner, hstep, page, up, sync>>
  BY DEF ClientStops, dbVars, jobVars, handlerVars
<1> QED
  BY <1>1, <1>2, HaltKeeps

\* A client whose request failed has stopped.
LEMMA ReceiveFailureKeeps ==
  ASSUME IInv, Types', Grows, NEW s \in Session, ReceiveFailure(s),
         NEW r \in Session
  PROVE  SessionInv(r)'
<1>1. {} \in SUBSET Nat /\ {} \subseteq Addressed(owner[s])
  OBVIOUS
<1>2. /\ Halt(s) /\ UNCHANGED <<buf, seen>>
      /\ UNCHANGED <<log, msg, todo, target, owner, hstep, page, up, sync>>
  BY DEF ReceiveFailure, dbVars, jobVars, handlerVars
<1> QED
  BY <1>1, <1>2, HaltKeeps

\* What the client retains is addressed to its user, who is shown it.
LEMMA Retained ==
  ASSUME IInv, NEW s \in Session, NEW u \in User, u = owner[s], NEW ids,
         Retain(s, ids)
  PROVE  /\ \A q \in Session \ {s} : buf'[q] = buf[q]
         /\ buf'[s] = buf[s] \cup ids
         /\ seen'[u] = seen[u] \cup ids
BY DEF Retain, IInv, Types, ClientTypes

\* A message that arrives is retained, and its acknowledgement queued.
LEMMA ReceiveMessageKeeps ==
  ASSUME IInv, Types', Grows, NEW s \in Session, ReceiveMessage(s),
         NEW r \in Session
  PROVE  SessionInv(r)'
<1> PICK u : u = owner[s]
  OBVIOUS
<1> PICK f : f = Head(down[s])
  OBVIOUS
<1> PICK i : i = f.id
  OBVIOUS
<1>1. /\ UNCHANGED <<log, acked, ended, msg, todo, target, owner, hstep, page,
                     up, sync>>
      /\ Retain(s, {i})
      /\ HasFrame(s, "message")
  BY DEF ReceiveMessage, dirVars, dbVars, jobVars, handlerVars
<1>2. Types /\ SessionInv(s)
  BY DEF IInv
<1>3. /\ u \in User /\ ~halted[s] /\ sync[s].phase # "unstarted"
      /\ down[s] \in Seq(Frame) /\ down[s] # <<>>
      /\ f.kind = "message" /\ f \in Range(down[s])
      /\ f \in MessageFrame /\ Contents(f) \subseteq Addressed(u)
  BY <1>1, FrameReceived
<1>4. Contents(f) = {i} /\ i \in Nat /\ i \in Addressed(u)
  <2>1. Contents(f) = {i}
    BY <1>3, ContentsOf
  <2> QED
    BY <1>3, <2>1 DEF MessageFrame
<1>5. CASE Halt(s)
  <2>1. {i} \in SUBSET Nat /\ {i} \subseteq Addressed(owner[s])
        /\ owner[s] # NoUser
    BY <1>3, <1>4, NoUserAssumption
  <2> QED
    BY <1>1, <1>5, <2>1, HaltKeeps
<1>6. CASE /\ Fits(s, 1)
           /\ auto' = [auto EXCEPT ![s] = Append(@, Ack(i))]
           /\ TakeFrame(s)
           /\ UNCHANGED halted
  <2>1. /\ \A q \in Session \ {s} : buf'[q] = buf[q]
        /\ buf'[s] = buf[s] \cup {i}
        /\ seen'[u] = seen[u] \cup {i}
    BY <1>1, <1>3, Retained
  <2>2. /\ \A q \in Session \ {s} : auto'[q] = auto[q] /\ down'[q] = down[q]
        /\ auto'[s] = Append(auto[s], Ack(i))
        /\ down'[s] = Tail(down[s])
    BY <1>2, <1>6 DEF TakeFrame, Types, ClientTypes
  <2>3. CASE r # s
    BY <1>1, <1>6, <2>1, <2>2, <2>3, OthersUndisturbed
  <2>4. ASSUME r = s PROVE SessionInv(s)'
    <3> PICK a : a = Ack(i)
      OBVIOUS
    <3>1. a.kind = "ack" /\ a.id = i /\ a \in Request
      BY <1>4 DEF Ack, Request, AckRequest
    <3>2. /\ Range(auto'[s]) = Range(auto[s]) \cup {a}
          /\ Len(auto'[s]) = Len(auto[s]) + 1
          /\ Absent(auto[s], "sync") => Absent(auto'[s], "sync")
          /\ AtMostOne(auto[s], "sync") => AtMostOne(auto'[s], "sync")
      <4>1. auto[s] \in Seq(Request) /\ a.kind # "sync"
        BY <1>2, <3>1 DEF Types, ClientTypes
      <4> QED
        BY <2>2, <3>1, <4>1, Appended
    <3>3. /\ Range(down[s]) = Range(down'[s]) \cup {f}
          /\ Absent(down[s], "page") => Absent(down'[s], "page")
          /\ AtMostOne(down[s], "page") => AtMostOne(down'[s], "page")
      BY <1>3, <2>2, HeadTaken
    <3>4. Requests(s)' = Requests(s) \cup {a}
      BY <1>1, <3>2 DEF Requests
    <3>5. OnlyAddressed(s)'
      BY <1>1, <1>2, <1>4, <2>1, <3>3 DEF SessionInv, OnlyAddressed, Addressed
    <3>6. AcksAreHeld(s)'
      <4>1. Len(auto'[s]) <= MaxAutomaticRequests
        BY <1>6, <3>2 DEF Fits
      <4>2. \A q \in Requests(s)' : q.kind = "ack" => q.id \in buf'[s]
        BY <1>2, <2>1, <3>1, <3>4 DEF SessionInv, AcksAreHeld
      <4>3. u # NoUser => buf'[s] \subseteq seen'[u]
        BY <1>2, <2>1 DEF SessionInv, AcksAreHeld
      <4> QED
        BY <1>1, <1>3, <4>1, <4>2, <4>3 DEF AcksAreHeld
    <3>7. WithinLog(s)'
      BY <1>1, <1>2, <3>1, <3>3, <3>4 DEF SessionInv, WithinLog
    <3>8. Synchronizing(s)'
      <4>1. OneSync(s) /\ SyncAgrees(s)
        BY <1>2, <1>3 DEF SessionInv, Synchronizing
      <4>2. Absent(auto'[s], "sync") => Absent(auto[s], "sync")
        BY <3>2, AbsentByRange
      <4>3. OneSync(s)'
        BY <1>1, <3>2, <3>3, <4>1, <4>2 DEF OneSync
      <4>4. SyncAgrees(s)'
        BY <1>1, <3>1, <3>3, <3>4, <4>1 DEF SyncAgrees, ValidPage
      <4> QED
        BY <4>3, <4>4 DEF Synchronizing
    <3>9. PageIsPrefix(s)'
      BY <1>1, <1>2 DEF SessionInv, PageIsPrefix, Pending
    <3>10. ASSUME Serving(s)', NEW j \in Pending(u)' PROVE Underway(s, j)'
      <4>1. Serving(s) /\ j \in Pending(u)
        BY <1>1, <1>3, <1>6, <3>3, <3>10
        DEF Serving, Pending, MessageFrame, Failure
      <4>2. Underway(s, j)
        BY <1>2, <4>1 DEF SessionInv, NothingIsLost
      <4>3. /\ Sent(s, j) => Sent(s, j)' \/ j \in buf'[s]
            /\ InPage(s, j) => InPage(s, j)'
            /\ BeingRouted(u, s, j) => BeingRouted(u, s, j)'
        BY <1>1, <1>3, <1>4, <2>1, <3>3 DEF Sent, BeingRouted, InPage
      <4> QED
        BY <1>1, <2>1, <3>4, <4>2, <4>3 DEF Underway
    <3>11. NothingIsLost(s)'
      BY <1>1, <3>10 DEF NothingIsLost
    <3> QED
      BY <3>5, <3>6, <3>7, <3>8, <3>9, <3>11 DEF SessionInv
  <2> QED
    BY <2>3, <2>4
<1> QED
  BY <1>5, <1>6 DEF ReceiveMessage

\* A page that is taken is retained and acknowledged, and the next one is
\* asked for.
LEMMA ReceivePageKeeps ==
  ASSUME IInv, Types', Grows, NEW s \in Session, ReceivePage(s),
         NEW r \in Session
  PROVE  SessionInv(r)'
<1> PICK u : u = owner[s]
  OBVIOUS
<1> PICK p : p = Head(down[s])
  OBVIOUS
<1>1. /\ UNCHANGED <<log, acked, ended, msg, todo, target, owner, hstep, page,
                     up>>
      /\ HasFrame(s, "page")
      /\ IF ValidPage(s, p) THEN UsePage(s, p) ELSE RejectPage(s)
  BY DEF ReceivePage, dirVars, dbVars, jobVars, handlerVars
<1>2. Types /\ SessionInv(s)
  BY DEF IInv
<1>3. /\ u \in User /\ ~halted[s] /\ sync[s].phase # "unstarted"
      /\ down[s] \in Seq(Frame) /\ down[s] # <<>>
      /\ p.kind = "page" /\ p \in Range(down[s])
      /\ p \in PageFrame /\ Contents(p) \subseteq Addressed(u)
  BY <1>1, FrameReceived
<1>4. /\ Contents(p) = p.ids /\ p.ids \subseteq Addressed(u)
      /\ p.ids \subseteq 1..Len(log)
      /\ p.ids \in SUBSET Nat /\ IsFiniteSet(p.ids)
  <2>1. Contents(p) = p.ids
    BY <1>3, ContentsOf
  <2>2. p.ids \subseteq 1..Len(log)
    BY <1>2, <1>3, <2>1, LogIds
  <2> QED
    BY <1>2, <1>3, <2>1, <2>2, LogIds
<1>5. OneSync(s) /\ SyncAgrees(s) /\ ValidPage(s, p)
  BY <1>2, <1>3 DEF SessionInv, Synchronizing, SyncAgrees
<1>6. /\ Retain(s, p.ids)
      /\ PageTaken(s, p) \/ (Halt(s) /\ UNCHANGED sync)
  BY <1>1, <1>5, PageUsed
<1>7. CASE Halt(s) /\ UNCHANGED sync
  <2>1. p.ids \subseteq Addressed(owner[s]) /\ owner[s] # NoUser
    BY <1>3, <1>4, NoUserAssumption
  <2> QED
    BY <1>1, <1>4, <1>6, <1>7, <2>1, HaltKeeps
<1>8. CASE PageTaken(s, p)
  <2>1. /\ \A q \in Session \ {s} : buf'[q] = buf[q]
        /\ buf'[s] = buf[s] \cup p.ids
        /\ seen'[u] = seen[u] \cup p.ids
    BY <1>3, <1>6, Retained
  <2>2. /\ \A q \in Session \ {s} : auto'[q] = auto[q] /\ down'[q] = down[q]
             /\ sync'[q] = sync[q]
        /\ auto'[s] = Queued(auto[s], p) /\ sync'[s] = NextSync(p)
        /\ down'[s] = Tail(down[s]) /\ halted' = halted
    BY <1>2, <1>8 DEF PageTaken, TakeFrame, Types, ClientTypes
  <2>3. CASE r # s
    BY <1>1, <2>1, <2>2, <2>3, OthersUndisturbed
  <2>4. ASSUME r = s PROVE SessionInv(s)'
    <3> PICK next : next = Sync(p.next, p.through)
      OBVIOUS
    <3>1. /\ next.kind = "sync" /\ next.after = p.next
          /\ next.through = p.through /\ p.more \in BOOLEAN
          /\ p.next \in Nat /\ p.through \in Nat
      BY <1>3 DEF Sync, PageFrame
    <3>2. /\ Len(auto'[s])
               = Len(auto[s]) + (Cardinality(p.ids) + (IF p.more THEN 1 ELSE 0))
          /\ Range(auto[s]) \subseteq Range(auto'[s])
          /\ \A q \in Range(auto'[s]) \ Range(auto[s]) :
               \/ q.kind = "ack" /\ q.id \in p.ids
               \/ p.more /\ q = next
          /\ p.more => next \in Range(auto'[s])
          /\ Absent(auto[s], "sync") =>
               AtMostOne(auto'[s], "sync") /\ (p.more \/ Absent(auto'[s], "sync"))
      <4>1. auto[s] \in Seq(Request)
        BY <1>2 DEF Types, ClientTypes
      <4> QED
        BY <1>3, <1>4, <2>2, <4>1, PageIsQueued
    <3>3. ~Absent(down[s], "page")
      BY <1>3, AbsentByRange
    <3>4. /\ Absent(auto[s], "sync") /\ Absent(up[s], "sync")
          /\ hstep[s] # "page"
      BY <1>5, <3>3 DEF OneSync
    <3>5. /\ Range(down[s]) = Range(down'[s]) \cup {p}
          /\ Absent(down'[s], "page")
      <4>1. AtMostOne(down[s], "page")
        BY <1>5 DEF OneSync
      <4> QED
        BY <1>3, <2>2, <4>1, HeadTaken
    <3>6. /\ Requests(s) \subseteq Requests(s)'
          /\ \A q \in Requests(s)' \ Requests(s) :
               \/ q.kind = "ack" /\ q.id \in p.ids
               \/ p.more /\ q = next
          /\ p.more => next \in Requests(s)'
          /\ \A q \in Requests(s)' : q.kind = "sync" => p.more /\ q = next
      <4>1. \A q \in Requests(s) : q.kind # "sync"
        BY <3>4, AbsentByRange DEF Requests
      <4> QED
        BY <1>1, <3>2, <4>1 DEF Requests
    <3>7. OnlyAddressed(s)'
      BY <1>1, <1>2, <1>4, <2>1, <3>5 DEF SessionInv, OnlyAddressed, Addressed
    <3>8. /\ p.more => /\ sync'[s].phase = "active" /\ sync'[s].after = p.next
                       /\ sync'[s].through = p.through
          /\ ~p.more => /\ sync'[s].phase = "done" /\ sync'[s].after = 0
                        /\ sync'[s].through = 0
      BY <2>2 DEF NextSync, SyncState
    <3>9. AcksAreHeld(s)'
      <4>1. Len(auto'[s]) <= MaxAutomaticRequests
        BY <1>8, <3>2 DEF PageTaken
      <4>2. \A q \in Requests(s)' : q.kind = "ack" => q.id \in buf'[s]
        BY <1>2, <2>1, <3>1, <3>6 DEF SessionInv, AcksAreHeld
      <4>3. u # NoUser => buf'[s] \subseteq seen'[u]
        BY <1>2, <2>1 DEF SessionInv, AcksAreHeld
      <4>4. sync'[s].phase # "unstarted"
        BY <3>1, <3>8
      <4> QED
        BY <1>1, <4>1, <4>2, <4>3, <4>4 DEF AcksAreHeld
    <3>10. WithinLog(s)'
      <4>1. p.through <= Len(log)
        BY <1>2, <1>3 DEF SessionInv, WithinLog
      <4> QED
        BY <1>1, <1>2, <3>1, <3>5, <3>6, <4>1 DEF SessionInv, WithinLog
    <3>11. OneSync(s)'
      BY <1>1, <3>1, <3>2, <3>4, <3>5, <3>8, AbsentIsAtMostOne DEF OneSync
    <3>12. SyncAgrees(s)'
      <4>1. p.more => p.next <= p.through
        BY <1>4, <1>5, LogIds, <1>2 DEF ValidPage
      <4>2. sync'[s].after <= sync'[s].through
        BY <3>1, <3>8, <4>1
      <4>3. \A f \in Range(down'[s]) : f.kind # "page"
        BY <3>5, AbsentByRange
      <4>4. \A q \in Requests(s)' : q.kind = "sync" =>
              q.after = sync'[s].after /\ q.through = sync'[s].through
        BY <3>1, <3>6, <3>8
      <4> QED
        BY <1>1, <3>4, <4>2, <4>3, <4>4 DEF SyncAgrees
    <3>13. PageIsPrefix(s)'
      BY <1>1, <3>4 DEF PageIsPrefix
    <3>14. ASSUME Serving(s)', NEW j \in Pending(u)' PROVE Underway(s, j)'
      <4>1. Serving(s) /\ j \in Pending(u)
        BY <1>1, <1>3, <2>2, <3>5, <3>14
        DEF Serving, Pending, PageFrame, Failure
      <4>2. Underway(s, j)
        BY <1>2, <4>1 DEF SessionInv, NothingIsLost
      <4>3. Continued(p.next, p.through, p.more, j) =>
              \E q \in Requests(s)' : Requested(q, j)
        BY <3>1, <3>6 DEF Continued, Requested
      <4>4. Sent(s, j) => \/ Sent(s, j)' \/ j \in buf'[s]
                          \/ \E q \in Requests(s)' : Requested(q, j)
        BY <1>4, <2>1, <3>5, <4>3 DEF Sent
      <4>5. /\ InPage(s, j) => InPage(s, j)'
            /\ BeingRouted(u, s, j) => BeingRouted(u, s, j)'
        BY <1>1 DEF BeingRouted, InPage
      <4> QED
        BY <1>1, <1>3, <2>1, <3>6, <4>2, <4>4, <4>5 DEF Underway
    <3>15. NothingIsLost(s)'
      BY <1>1, <3>14 DEF NothingIsLost
    <3> QED
      BY <3>7, <3>9, <3>10, <3>11, <3>12, <3>13, <3>15
      DEF SessionInv, Synchronizing
  <2> QED
    BY <2>3, <2>4
<1> QED
  BY <1>6, <1>7, <1>8

-----------------------------------------------------------------------------
(* The invariant is inductive.                                             *)

\* Every step keeps the invariant of every session.
LEMMA SessionsStep == IInv /\ Next => \A r \in Session : SessionInv(r)'
<1> SUFFICES ASSUME IInv, Next PROVE \A r \in Session : SessionInv(r)'
  OBVIOUS
<1>0. Types' /\ Grows
  BY TypesStep, GrowsStep
<1>1. ASSUME Crash PROVE \A r \in Session : SessionInv(r)'
  BY <1>1, CrashKeeps, <1>0
<1>2. ASSUME NEW s \in Session, NEW u \in User, LogIn(u, s)
      PROVE  \A r \in Session : SessionInv(r)'
  BY <1>2, LogInKeeps, <1>0
<1>3. ASSUME NEW s \in Session, SessionEnds(s)
      PROVE  \A r \in Session : SessionInv(r)'
  BY <1>3, SessionEndsKeeps, <1>0
<1>4. ASSUME NEW s \in Session, Leave(s)
      PROVE  \A r \in Session : SessionInv(r)'
  BY <1>4, LeaveKeeps, <1>0
<1>5. ASSUME NEW s \in Session, NEW rs \in SUBSET (User \ {owner[s]}),
             AcceptMessage(s, rs)
      PROVE  \A r \in Session : SessionInv(r)'
  BY <1>5, AcceptMessageKeeps, <1>0
<1>6. ASSUME NEW s \in Session, AnswerSender(s)
      PROVE  \A r \in Session : SessionInv(r)'
  BY <1>6, AnswerSenderKeeps, <1>0
<1>7. ASSUME NEW s \in Session, NEW u \in User, FindReady(s, u)
      PROVE  \A r \in Session : SessionInv(r)'
  BY <1>7, FindReadyKeeps, <1>0
<1>8. ASSUME NEW s \in Session, SendDelivery(s)
      PROVE  \A r \in Session : SessionInv(r)'
  BY <1>8, SendDeliveryKeeps, <1>0
<1>9. ASSUME NEW s \in Session, FinishRoutes(s)
      PROVE  \A r \in Session : SessionInv(r)'
  BY <1>9, FinishRoutesKeeps, <1>0
<1>10. ASSUME NEW s \in Session, AcknowledgeDelivery(s)
       PROVE  \A r \in Session : SessionInv(r)'
  BY <1>10, AcknowledgeDeliveryKeeps, <1>0
<1>11. ASSUME NEW s \in Session, GetPendingPage(s)
       PROVE  \A r \in Session : SessionInv(r)'
  BY <1>11, GetPendingPageKeeps, <1>0
<1>12. ASSUME NEW s \in Session, WritePage(s)
       PROVE  \A r \in Session : SessionInv(r)'
  BY <1>12, WritePageKeeps, <1>0
<1>13. ASSUME NEW s \in Session, RequestFails(s)
       PROVE  \A r \in Session : SessionInv(r)'
  BY <1>13, RequestFailsKeeps, <1>0
<1>14. ASSUME NEW s \in Session, StartSynchronization(s)
       PROVE  \A r \in Session : SessionInv(r)'
  BY <1>14, StartSynchronizationKeeps, <1>0
<1>15. ASSUME NEW s \in Session, FlushRequest(s)
       PROVE  \A r \in Session : SessionInv(r)'
  BY <1>15, FlushRequestKeeps, <1>0
<1>16. ASSUME NEW s \in Session, ClientStops(s)
       PROVE  \A r \in Session : SessionInv(r)'
  BY <1>16, ClientStopsKeeps, <1>0
<1>17. ASSUME NEW s \in Session, ReceiveMessage(s)
       PROVE  \A r \in Session : SessionInv(r)'
  BY <1>17, ReceiveMessageKeeps, <1>0
<1>18. ASSUME NEW s \in Session, ReceivePage(s)
       PROVE  \A r \in Session : SessionInv(r)'
  BY <1>18, ReceivePageKeeps, <1>0
<1>19. ASSUME NEW s \in Session, ReceiveFailure(s)
       PROVE  \A r \in Session : SessionInv(r)'
  BY <1>19, ReceiveFailureKeeps, <1>0
<1> QED
  BY <1>1, <1>2, <1>3, <1>4, <1>5, <1>6, <1>7, <1>8, <1>9, <1>10,
     <1>11, <1>12, <1>13, <1>14, <1>15, <1>16, <1>17, <1>18, <1>19
  DEF Next, SessionStep, Route, Serve, Receive

\* The invariant holds before any session.
LEMMA InitIInv == Init => IInv
<1> SUFFICES ASSUME Init PROVE IInv
  OBVIOUS
<1> USE NoUserAssumption, NoSessionAssumption, BoundsAssumption
<1>1. /\ NoPage \in PageRows /\ SyncState("unstarted", 0, 0) \in SyncStates
      /\ NoPage.ids = {} /\ NoPage.through = 0
      /\ Len(log) = 0 /\ log \in Seq(SUBSET User) /\ DOMAIN log = {}
      /\ \A S : <<>> \in Seq(S)
  BY DEF Init, NoPage, Rows, PageRows, SyncState, SyncStates
<1>2. Types
  BY <1>1 DEF Init, DirInit, Types, ServerTypes, ClientTypes, HandlerStep
<1>3. UsedIsOwned /\ LiveIsOwner /\ JobFollowsStep /\ PagesAreValid
  BY <1>1 DEF Init, DirInit, UsedIsOwned, Unused, LiveIsOwner, JobFollowsStep,
              PagesAreValid
<1>4. ASSUME NEW s \in Session PROVE SessionInv(s)
  <2>1. /\ Range(<<>>) = {} /\ Len(<<>>) = 0
        /\ \A kind : Absent(<<>>, kind) /\ AtMostOne(<<>>, kind)
    BY NothingInEmpty
  <2>2. /\ down[s] = <<>> /\ up[s] = <<>> /\ auto[s] = <<>> /\ buf[s] = {}
        /\ page[s] = NoPage /\ owner[s] = NoUser /\ hstep[s] = "none"
        /\ sync[s].phase = "unstarted" /\ sync[s].after = 0
        /\ sync[s].through = 0
    BY DEF Init, SyncState
  <2>3. Requests(s) = {}
    BY <2>1, <2>2 DEF Requests
  <2>4. OnlyAddressed(s) /\ AcksAreHeld(s) /\ WithinLog(s)
    BY <1>1, <2>1, <2>2, <2>3 DEF OnlyAddressed, AcksAreHeld, WithinLog
  <2>5. Synchronizing(s)
    BY <2>1, <2>2, <2>3 DEF Synchronizing, OneSync, SyncAgrees
  <2> QED
    BY <2>2, <2>4, <2>5 DEF SessionInv, PageIsPrefix, NothingIsLost, Serving
<1> QED
  BY <1>2, <1>3, <1>4 DEF IInv

\* Every step, and every stutter, keeps the invariant.
LEMMA IInvStep == IInv /\ [Next]_vars => IInv'
<1> SUFFICES ASSUME IInv, [Next]_vars PROVE IInv'
  OBVIOUS
<1>1. CASE Next
  BY <1>1, TypesStep, UsedIsOwnedStep, LiveIsOwnerStep, JobFollowsStepStep,
     PagesAreValidStep, SessionsStep
  DEF IInv
<1>2. CASE UNCHANGED vars
  <2>1. UNCHANGED <<live, ended, log, acked, owner, hstep, msg, todo, target,
                    page, down, up, auto, sync, buf, halted, fault, seen>>
    BY <1>2 DEF vars, dirVars, dbVars, handlerVars, jobVars, clientVars
  <2>2. /\ Types' /\ UsedIsOwned' /\ LiveIsOwner' /\ JobFollowsStep'
        /\ PagesAreValid'
    BY <2>1 DEF IInv, Types, ServerTypes, ClientTypes, UsedIsOwned, Unused,
                LiveIsOwner, JobFollowsStep, PagesAreValid
  <2>3. Grows
    BY <2>1, LogIds DEF Grows, IInv
  <2>4. ASSUME NEW r \in Session PROVE SessionInv(r)'
    BY <2>1, <2>2, <2>3, NothingRerouted DEF Undisturbed
  <2> QED
    BY <2>2, <2>4 DEF IInv
<1> QED
  BY <1>1, <1>2

\* The invariant holds in every reachable state.
THEOREM Invariance == Spec => []IInv
BY InitIInv, IInvStep, PTL DEF Spec

-----------------------------------------------------------------------------
(* What follows.                                                           *)

\* Every variable keeps its type, of whatever length the queues are.
THEOREM DeliveryTypeCorrect == Spec => []Types
BY Invariance, PTL DEF IInv

\* The client's validation of a page never fails on this server's pages: the
\* handlers commit, fetch, shorten and write in any interleaving.
THEOREM PagesStayValid == Spec => []PagesAreValid
BY Invariance, PTL DEF IInv

\* An acknowledgement on the wire is for a message its sender has and is a
\* recipient of, and the queue of automatic requests keeps its bound.
THEOREM AcksStayDue == Spec => []AcksAreDue
<1>1. ASSUME IInv PROVE AcksAreDue
  <2> SUFFICES ASSUME NEW s \in Session
               PROVE  /\ Len(auto[s]) <= MaxAutomaticRequests
                      /\ \A n \in DOMAIN up[s] :
                           up[s][n].kind = "ack" =>
                             /\ up[s][n].id \in buf[s]
                             /\ up[s][n].id \in DOMAIN log
                             /\ owner[s] \in log[up[s][n].id]
    BY DEF AcksAreDue
  <2>1. AcksAreHeld(s) /\ OnlyAddressed(s)
    BY <1>1 DEF IInv, SessionInv
  <2>2. \A n \in DOMAIN up[s] : up[s][n] \in Requests(s)
    BY DEF Requests, Range
  <2> QED
    BY <2>1, <2>2 DEF AcksAreHeld, OnlyAddressed, Addressed
<1> QED
  BY <1>1, Invariance, PTL

\* No message falls between its delivery and the synchronization: while the
\* session of a user lasts, each pending message of the user is in the buffer,
\* on the wire, with the handler that accepted it, or still to be read.
THEOREM NothingFallsBetween == Spec => []NoLostDelivery
<1>1. ASSUME IInv PROVE NoLostDelivery
  <2> SUFFICES ASSUME NEW s \in Session,
                      owner[s] # NoUser, s \notin ended, ~Doomed(s),
                      NEW i \in Pending(owner[s])
               PROVE  \/ i \in buf[s] \/ InTransit(s, i)
                      \/ BeingRouted(owner[s], s, i) \/ ToBeRead(s, i)
    BY DEF NoLostDelivery
  <2>1. Serving(s)
    BY DEF Serving, Doomed, Range
  <2>2. Underway(s, i)
    BY <1>1, <2>1 DEF IInv, SessionInv, NothingIsLost
  <2>3. Sent(s, i) => InTransit(s, i) \/ ToBeRead(s, i)
    BY DEF Sent, InTransit, ToBeRead, Range
  <2>4. (\E r \in Requests(s) : Requested(r, i)) => ToBeRead(s, i)
    BY DEF Requests, ToBeRead, Range
  <2>5. InPage(s, i) \/ sync[s].phase = "unstarted" => ToBeRead(s, i)
    BY DEF InPage, ToBeRead
  <2> QED
    BY <2>2, <2>3, <2>4, <2>5 DEF Underway
<1> QED
  BY <1>1, Invariance, PTL

-----------------------------------------------------------------------------
(* Delivery implements Inbox.                                              *)

inbox == <<log, seen, acked>>

\* What a client retains is shown to a user it is addressed to.
LEMMA RetainShows ==
  ASSUME IInv, NEW s \in Session, owner[s] \in User,
         NEW ids, ids \subseteq Addressed(owner[s]), Retain(s, ids),
         UNCHANGED <<log, acked>>
  PROVE  Inbox!InboxNext
<1>1. Inbox!AddressedTo(owner[s]) = Addressed(owner[s])
  BY LogIds DEF IInv, Addressed, Inbox!AddressedTo
<1>2. Inbox!Show(owner[s], ids)
  BY <1>1 DEF Inbox!Show, Retain
<1> QED
  BY <1>1, <1>2 DEF Inbox!InboxNext

\* Every step accepts a message, shows some to a user, acknowledges one, or
\* changes nothing the inbox speaks of.
LEMMA StepIsInboxStep == IInv /\ Next => Inbox!InboxNext \/ UNCHANGED inbox
<1> SUFFICES ASSUME IInv, Next PROVE Inbox!InboxNext \/ UNCHANGED inbox
  OBVIOUS
<1>1. ASSUME Crash
      PROVE  Inbox!InboxNext \/ UNCHANGED inbox
  BY <1>1 DEF Crash, dbVars, clientVars, inbox
<1>2. ASSUME NEW s \in Session, NEW u \in User, LogIn(u, s)
      PROVE  Inbox!InboxNext \/ UNCHANGED inbox
  BY <1>2 DEF LogIn, dbVars, clientVars, inbox
<1>3. ASSUME NEW s \in Session, SessionEnds(s)
      PROVE  Inbox!InboxNext \/ UNCHANGED inbox
  BY <1>3 DEF SessionEnds, dbVars, clientVars, inbox
<1>4. ASSUME NEW s \in Session, Leave(s)
      PROVE  Inbox!InboxNext \/ UNCHANGED inbox
  BY <1>4 DEF Leave, dbVars, clientVars, inbox
<1>5. ASSUME NEW s \in Session, NEW rs \in SUBSET (User \ {owner[s]}), AcceptMessage(s, rs)
      PROVE  Inbox!InboxNext \/ UNCHANGED inbox
  <2>1. Inbox!Accept(rs)
    BY <1>5 DEF AcceptMessage, clientVars, Inbox!Accept
  <2> QED
    BY <2>1 DEF Inbox!InboxNext
<1>6. ASSUME NEW s \in Session, AnswerSender(s)
      PROVE  Inbox!InboxNext \/ UNCHANGED inbox
  BY <1>6 DEF AnswerSender, dbVars, clientVars, inbox
<1>7. ASSUME NEW s \in Session, NEW u \in User, FindReady(s, u)
      PROVE  Inbox!InboxNext \/ UNCHANGED inbox
  BY <1>7 DEF FindReady, dbVars, clientVars, inbox
<1>8. ASSUME NEW s \in Session, SendDelivery(s)
      PROVE  Inbox!InboxNext \/ UNCHANGED inbox
  BY <1>8 DEF SendDelivery, dbVars, clientVars, inbox
<1>9. ASSUME NEW s \in Session, FinishRoutes(s)
      PROVE  Inbox!InboxNext \/ UNCHANGED inbox
  BY <1>9 DEF FinishRoutes, dbVars, clientVars, inbox
<1>10. ASSUME NEW s \in Session, AcknowledgeDelivery(s)
      PROVE  Inbox!InboxNext \/ UNCHANGED inbox
  <2> PICK u : u = owner[s]
    OBVIOUS
  <2> PICK i : i = Head(up[s]).id
    OBVIOUS
  <2>1. /\ u \in User /\ Head(up[s]) \in Requests(s)
        /\ Head(up[s]).kind = "ack"
    BY <1>10, RequestRead DEF AcknowledgeDelivery, Requests
  <2>2. i \in buf[s]
    BY <2>1 DEF IInv, SessionInv, AcksAreHeld
  <2>3. i \in seen[u] /\ i \in Addressed(u)
    BY <2>1, <2>2, NoUserAssumption
    DEF IInv, SessionInv, AcksAreHeld, OnlyAddressed
  <2>4. i \in Inbox!AddressedTo(u)
    BY <2>3, LogIds DEF IInv, Addressed, Inbox!AddressedTo
  <2>5. Inbox!Acknowledge(u, i)
    BY <1>10, <2>3 DEF AcknowledgeDelivery, clientVars, Inbox!Acknowledge
  <2> QED
    BY <2>1, <2>4, <2>5 DEF Inbox!InboxNext
<1>11. ASSUME NEW s \in Session, GetPendingPage(s)
      PROVE  Inbox!InboxNext \/ UNCHANGED inbox
  BY <1>11 DEF GetPendingPage, dbVars, clientVars, inbox
<1>12. ASSUME NEW s \in Session, WritePage(s)
      PROVE  Inbox!InboxNext \/ UNCHANGED inbox
  BY <1>12 DEF WritePage, dbVars, clientVars, inbox
<1>13. ASSUME NEW s \in Session, RequestFails(s)
      PROVE  Inbox!InboxNext \/ UNCHANGED inbox
  BY <1>13 DEF RequestFails, dbVars, clientVars, inbox
<1>14. ASSUME NEW s \in Session, StartSynchronization(s)
      PROVE  Inbox!InboxNext \/ UNCHANGED inbox
  BY <1>14 DEF StartSynchronization, dbVars, clientVars, inbox
<1>15. ASSUME NEW s \in Session, FlushRequest(s)
      PROVE  Inbox!InboxNext \/ UNCHANGED inbox
  BY <1>15 DEF FlushRequest, dbVars, clientVars, inbox
<1>16. ASSUME NEW s \in Session, ClientStops(s)
      PROVE  Inbox!InboxNext \/ UNCHANGED inbox
  BY <1>16 DEF ClientStops, dbVars, clientVars, inbox
<1>17. ASSUME NEW s \in Session, ReceiveMessage(s)
      PROVE  Inbox!InboxNext \/ UNCHANGED inbox
  <2>1. /\ owner[s] \in User /\ Head(down[s]) \in MessageFrame
        /\ Contents(Head(down[s])) \subseteq Addressed(owner[s])
    BY <1>17, FrameReceived DEF ReceiveMessage
  <2>2. {Head(down[s]).id} \subseteq Addressed(owner[s])
    BY <2>1, ContentsOf
  <2> QED
    BY <1>17, <2>1, <2>2, RetainShows DEF ReceiveMessage, dbVars
<1>18. ASSUME NEW s \in Session, ReceivePage(s)
      PROVE  Inbox!InboxNext \/ UNCHANGED inbox
  <2>1. /\ owner[s] \in User /\ Head(down[s]) \in PageFrame
        /\ Contents(Head(down[s])) \subseteq Addressed(owner[s])
    BY <1>18, FrameReceived DEF ReceivePage
  <2>2. Head(down[s]).ids \subseteq Addressed(owner[s])
    BY <2>1, ContentsOf
  <2>3. UNCHANGED <<log, acked>>
    BY <1>18 DEF ReceivePage, dbVars
  <2>4. Retain(s, Head(down[s]).ids) \/ UNCHANGED seen
    BY <1>18, PageUsed DEF ReceivePage, RejectPage
  <2> QED
    BY <2>1, <2>2, <2>3, <2>4, RetainShows DEF inbox
<1>19. ASSUME NEW s \in Session, ReceiveFailure(s)
      PROVE  Inbox!InboxNext \/ UNCHANGED inbox
  BY <1>19 DEF ReceiveFailure, dbVars, clientVars, inbox
<1> QED
  BY <1>1, <1>2, <1>3, <1>4, <1>5, <1>6, <1>7, <1>8, <1>9, <1>10,
     <1>11, <1>12, <1>13, <1>14, <1>15, <1>16, <1>17, <1>18, <1>19
  DEF Next, SessionStep, Route, Serve, Receive

\* Delivery is a correct inbox: messages are never withdrawn, a user is shown
\* only what is addressed to him, and a message counts as delivered to him only
\* once it was shown.
THEOREM DeliveryImplementsInbox == Spec => ImplementsInbox
<1>1. Init => Inbox!InboxInit
  BY DEF Init, Inbox!InboxInit
<1>2. IInv /\ [Next]_vars => [Inbox!InboxNext]_(Inbox!inboxVars)
  <2>1. UNCHANGED vars => UNCHANGED inbox
    BY DEF vars, dbVars, clientVars, inbox
  <2>2. UNCHANGED inbox => UNCHANGED Inbox!inboxVars
    BY DEF inbox, Inbox!inboxVars
  <2> QED
    BY <2>1, <2>2, StepIsInboxStep
<1> QED
  BY <1>1, <1>2, Invariance, PTL DEF Spec, ImplementsInbox, Inbox!InboxSpec
=============================================================================
