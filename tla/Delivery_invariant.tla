-------------------------- MODULE Delivery_invariant -------------------------
(***************************************************************************)
(* The inductive invariant of Delivery, and what the operators of Delivery *)
(* do, for every set of users and sessions, every page limit and queue,    *)
(* and any number of messages, sessions and crashes.                       *)
(*                                                                         *)
(* Delivery_proofs proves the invariant and what follows from it.          *)
(***************************************************************************)
EXTENDS Delivery, FiniteSetTheorems, SequenceTheorems, WellFoundedInduction,
        TLAPS

-----------------------------------------------------------------------------
(* Types.                                                                  *)

HandlerStep == {"none", "read", "accepted", "route", "deliver", "page", "out"}

AckRequest  == [kind : {"ack"}, id : Nat]
SyncRequest == [kind : {"sync"}, after : Nat, through : Nat]
Request     == AckRequest \cup SyncRequest

MessageFrame == [kind : {"message"}, id : Nat]
PageFrame    == [kind : {"page"}, ids : SUBSET Nat, next : Nat, through : Nat,
                 more : BOOLEAN]
Frame        == MessageFrame \cup PageFrame \cup {Failure}

PageRows == [after : Nat, through : Nat, ids : SUBSET Nat, more : BOOLEAN]

SyncStates == [phase : {"unstarted", "active", "done"}, after : Nat,
               through : Nat]

ServerTypes ==
  /\ live \in [User -> Session \cup {NoSession}]
  /\ ended \subseteq Session
  /\ log \in Seq(SUBSET User)
  /\ acked \in [User -> SUBSET Nat]
  /\ owner \in [Session -> User \cup {NoUser}]
  /\ hstep \in [Session -> HandlerStep]
  /\ msg \in [Session -> Nat]
  /\ todo \in [Session -> SUBSET User]
  /\ target \in [Session -> Session \cup {NoSession}]
  /\ page \in [Session -> PageRows]

ClientTypes ==
  /\ down \in [Session -> Seq(Frame)]
  /\ up \in [Session -> Seq(Request)]
  /\ auto \in [Session -> Seq(Request)]
  /\ sync \in [Session -> SyncStates]
  /\ buf \in [Session -> SUBSET Nat]
  /\ halted \in [Session -> BOOLEAN]
  /\ fault \in [Session -> BOOLEAN]
  /\ seen \in [User -> SUBSET Nat]

Types == ServerTypes /\ ClientTypes

-----------------------------------------------------------------------------
(* The inductive invariant.                                                *)

\* A session that nobody logged in on has no traffic and no state.
Unused(s) ==
  /\ s \notin ended
  /\ hstep[s] = "none"
  /\ todo[s] = {} /\ target[s] = NoSession /\ page[s] = NoPage
  /\ down[s] = <<>> /\ up[s] = <<>> /\ auto[s] = <<>>
  /\ sync[s] = SyncState("unstarted", 0, 0)
  /\ buf[s] = {}
  /\ ~halted[s]

UsedIsOwned == \A s \in Session : IF owner[s] = NoUser THEN Unused(s)
                                                       ELSE hstep[s] # "none"

\* The directory has exactly the sessions that did not end.
LiveIsOwner ==
  /\ \A u \in User : live[u] # NoSession =>
       owner[live[u]] = u /\ live[u] \notin ended
  /\ \A s \in Session :
       owner[s] # NoUser /\ s \notin ended => live[owner[s]] = s

\* What a handler holds at its step.
JobFollowsStep ==
  \A s \in Session :
    /\ hstep[s] = "out" => s \in ended /\ up[s] = <<>>
    /\ hstep[s] \in {"accepted", "route", "deliver"} =>
         msg[s] \in DOMAIN log /\ todo[s] \subseteq log[msg[s]]
    /\ hstep[s] \notin {"accepted", "route", "deliver"} => todo[s] = {}
    /\ IF hstep[s] = "deliver"
         THEN /\ target[s] \in Session
              /\ owner[target[s]] \in log[msg[s]]
         ELSE target[s] = NoSession
    /\ hstep[s] # "page" => page[s] = NoPage

\* Whatever is on its way to a client, or has arrived, is addressed to its
\* user.
Addressed(u) == {i \in DOMAIN log : u \in log[i]}

OnlyAddressed(s) ==
  /\ page[s].ids \subseteq Addressed(owner[s])
  /\ \A f \in Range(down[s]) : Contents(f) \subseteq Addressed(owner[s])
  /\ buf[s] \subseteq Addressed(owner[s])

\* A client acknowledges what it has, and its user was shown it.
Requests(s) == Range(auto[s]) \cup Range(up[s])

AcksAreHeld(s) ==
  /\ \A r \in Requests(s) : r.kind = "ack" => r.id \in buf[s]
  /\ owner[s] # NoUser => buf[s] \subseteq seen[owner[s]]
  /\ Len(auto[s]) <= MaxAutomaticRequests
  /\ sync[s].phase = "unstarted" => auto[s] = <<>>

\* Watermarks are of messages there are: later ones lie beyond.
WithinLog(s) ==
  /\ page[s].through <= Len(log)
  /\ \A r \in Requests(s) : r.kind = "sync" => r.through <= Len(log)
  /\ \A f \in Range(down[s]) : f.kind = "page" => f.through <= Len(log)

\* Sequences of requests and frames.
Absent(q, kind) == \A n \in DOMAIN q : q[n].kind # kind

AtMostOne(q, kind) ==
  \A m, n \in DOMAIN q : q[m].kind = kind /\ q[n].kind = kind => m = n

\* The synchronization of a running client is in one place at most: queued,
\* requested, being answered, or answered; nowhere when it is not active.
OneSync(s) ==
  /\ AtMostOne(auto[s], "sync")
  /\ AtMostOne(up[s], "sync")
  /\ AtMostOne(down[s], "page")
  /\ ~Absent(auto[s], "sync") =>
       Absent(up[s], "sync") /\ hstep[s] # "page" /\ Absent(down[s], "page")
  /\ ~Absent(up[s], "sync") => hstep[s] # "page" /\ Absent(down[s], "page")
  /\ hstep[s] = "page" => Absent(down[s], "page")
  /\ sync[s].phase # "active" =>
       /\ Absent(auto[s], "sync") /\ Absent(up[s], "sync")
       /\ hstep[s] # "page" /\ Absent(down[s], "page")

\* Where it is, it agrees with what the client expects.
SyncAgrees(s) ==
  /\ sync[s].after <= sync[s].through
  /\ \A r \in Requests(s) :
       r.kind = "sync" =>
         r.after = sync[s].after /\ r.through = sync[s].through
  /\ hstep[s] = "page" =>
       /\ page[s].after = sync[s].after
       /\ page[s].after <= page[s].through
       /\ sync[s].through # 0 => page[s].through = sync[s].through
       /\ \A i \in page[s].ids : page[s].after < i /\ i <= page[s].through
       /\ page[s].more => page[s].ids # {}
  /\ \A f \in Range(down[s]) : f.kind = "page" => ValidPage(s, f)

Synchronizing(s) == ~halted[s] => OneSync(s) /\ SyncAgrees(s)

\* The rows of a page come before all others that are pending in its range.
PageIsPrefix(s) ==
  hstep[s] = "page" =>
    \A i \in Pending(owner[s]) \ page[s].ids :
      page[s].after < i /\ i <= page[s].through =>
        page[s].more /\ \A j \in page[s].ids : j < i

\* The message i is on its way to the client of s, or lies ahead of it.
Sent(s, i) ==
  \E f \in Range(down[s]) :
    \/ i \in Contents(f)
    \/ f.kind = "page" /\ Continued(f.next, f.through, f.more, i)

InPage(s, i) ==
  /\ hstep[s] = "page"
  /\ \/ i \in page[s].ids
     \/ Continued(page[s].after, page[s].through, page[s].more, i)

Underway(s, i) ==
  \/ i \in buf[s]
  \/ Sent(s, i)
  \/ BeingRouted(owner[s], s, i)
  \/ sync[s].phase = "unstarted"
  \/ \E r \in Requests(s) : Requested(r, i)
  \/ InPage(s, i)

Serving(s) ==
  /\ owner[s] # NoUser /\ s \notin ended
  /\ ~halted[s] /\ Failure \notin Range(down[s])

NothingIsLost(s) ==
  Serving(s) => \A i \in Pending(owner[s]) : Underway(s, i)

SessionInv(s) ==
  /\ OnlyAddressed(s)
  /\ AcksAreHeld(s)
  /\ WithinLog(s)
  /\ Synchronizing(s)
  /\ PageIsPrefix(s)
  /\ NothingIsLost(s)

IInv ==
  /\ Types
  /\ UsedIsOwned
  /\ LiveIsOwner
  /\ JobFollowsStep
  /\ PagesAreValid
  /\ \A s \in Session : SessionInv(s)

-----------------------------------------------------------------------------
(* Sets of ids.                                                            *)

\* A set of ids that is not empty has a least one.
LEMMA LeastId ==
  ASSUME NEW ids \in SUBSET Nat, ids # {}
  PROVE  \E i \in ids : \A j \in ids : i <= j
<1> DEFINE less == OpToRel(<, Nat)
<1>1. \A i, j \in Nat : <<j, i>> \in less <=> j < i
  BY DEF OpToRel
<1>2. IsWellFoundedOn(less, Nat)
  BY NatLessThanWellFounded
<1> HIDE DEF less
<1>3. PICK i \in ids : \A j \in ids : ~ (<<j, i>> \in less)
  BY <1>2, WFMin
<1>4. ASSUME NEW j \in ids PROVE i <= j
  <2>1. i \in Nat /\ j \in Nat
    OBVIOUS
  <2>2. ~ (j < i)
    BY <1>1, <1>3, <2>1
  <2> QED
    BY <2>1, <2>2
<1> QED
  BY <1>4

\* The greatest id of a set that n bounds is the bound nearest to it.
LEMMA HighestIsGreatest ==
  ASSUME NEW n \in Nat, NEW ids \in SUBSET Nat, \A i \in ids : i <= n
  PROVE  /\ Highest(ids) \in Nat
         /\ Highest(ids) <= n
         /\ \A i \in ids : i <= Highest(ids)
         /\ ids # {} => Highest(ids) \in ids
<1>1. CASE ids = {}
  BY <1>1 DEF Highest
<1>2. CASE ids # {}
  <2> DEFINE bounds == {k \in Nat : \A i \in ids : i <= k}
  <2>1. PICK k \in bounds : \A m \in bounds : k <= m
    <3>1. n \in bounds
      OBVIOUS
    <3> QED
      BY <3>1, LeastId
  <2>2. k \in ids
    <3> SUFFICES ASSUME k \notin ids PROVE FALSE
      OBVIOUS
    <3>1. k # 0
      <4>1. PICK i \in ids : i \in Nat
        BY <1>2
      <4> QED
        BY <4>1
    <3>2. k - 1 \in bounds
      BY <3>1
    <3> QED
      BY <2>1, <3>2
  <2>3. \E i \in ids : \A j \in ids : j <= i
    BY <2>2
  <2> QED
    BY <1>2, <2>3 DEF Highest
<1> QED
  BY <1>1, <1>2

\* The first n ids come before all others, and there is one if n is positive.
LEMMA FirstIsPrefix ==
  ASSUME NEW ids \in SUBSET Nat, IsFiniteSet(ids), NEW n \in Nat
  PROVE  /\ First(ids, n) \subseteq ids
         /\ \A i \in First(ids, n) :
              \A j \in ids : j <= i => j \in First(ids, n)
         /\ n # 0 /\ ids # {} => First(ids, n) # {}
<1> DEFINE upto(i) == {j \in ids : j <= i}
<1>1. \A i \in ids : IsFiniteSet(upto(i)) /\ Cardinality(upto(i)) \in Nat
  BY FS_Subset, FS_CardinalityType
<1>2. First(ids, n) \subseteq ids
  BY DEF First
<1>3. ASSUME NEW i \in First(ids, n), NEW j \in ids, j <= i
      PROVE  j \in First(ids, n)
  <2>1. i \in ids /\ Cardinality(upto(i)) <= n
    BY DEF First
  <2>2. upto(j) \subseteq upto(i)
    <3>1. ASSUME NEW k \in ids, k <= j PROVE k <= i
      <4>1. i \in Nat /\ j \in Nat /\ k \in Nat
        BY <2>1
      <4> QED
        BY <1>3, <3>1, <4>1
    <3> QED
      BY <3>1
  <2>3. Cardinality(upto(j)) <= Cardinality(upto(i))
    BY <1>1, <2>1, <2>2, FS_Subset
  <2>4. Cardinality(upto(j)) <= n
    BY <1>1, <2>1, <2>3
  <2> QED
    BY <2>4 DEF First
<1>4. ASSUME n # 0, ids # {}
      PROVE  First(ids, n) # {}
  <2>1. PICK i \in ids : \A j \in ids : i <= j
    BY <1>4, LeastId
  <2>2. upto(i) = {i}
    <3>1. ASSUME NEW k \in ids, k <= i PROVE k = i
      <4>1. i \in Nat /\ k \in Nat /\ i <= k
        BY <2>1
      <4> QED
        BY <3>1, <4>1
    <3>2. i <= i
      BY <2>1
    <3> QED
      BY <3>1, <3>2
  <2>3. Cardinality(upto(i)) = 1
    BY <2>2, FS_Singleton
  <2> QED
    BY <1>4, <2>3 DEF First
<1> QED
  BY <1>2, <1>3, <1>4

\* A page is acknowledged id by id: InOrder has each id of the set, no other.
LEMMA InOrderAcknowledges ==
  ASSUME NEW ids \in SUBSET Nat, IsFiniteSet(ids)
  PROVE  /\ InOrder(ids) \in Seq(AckRequest)
         /\ Len(InOrder(ids)) = Cardinality(ids)
         /\ Cardinality(ids) \in Nat
         /\ \A n \in 1..Cardinality(ids) : InOrder(ids)[n].id \in ids
<1> DEFINE upto(i) == {j \in ids : j <= i}
           size == Cardinality(ids)
           rank == [i \in ids |-> Cardinality(upto(i))]
<1>1. size \in Nat /\ IsFiniteSet(1..size) /\ Cardinality(1..size) = size
  BY FS_CardinalityType, FS_Interval
<1>2. ASSUME NEW i \in ids
      PROVE  IsFiniteSet(upto(i)) /\ Cardinality(upto(i)) \in 1..size
  <2>1. IsFiniteSet(upto(i)) /\ Cardinality(upto(i)) <= size
    BY FS_Subset
  <2>2. Cardinality(upto(i)) \in Nat
    BY <2>1, FS_CardinalityType
  <2>3. Cardinality(upto(i)) # 0
    BY <2>1, FS_EmptySet
  <2> QED
    BY <1>1, <2>1, <2>2, <2>3
<1>3. ASSUME NEW i \in ids, NEW j \in ids, i < j
      PROVE  rank[i] < rank[j]
  <2>1. upto(i) \subseteq upto(j) /\ j \notin upto(i) /\ j \in upto(j)
    <3>1. i \in Nat /\ j \in Nat /\ j <= j /\ ~ (j <= i)
      BY <1>3
    <3>2. ASSUME NEW k \in ids, k <= i PROVE k <= j
      <4>1. k \in Nat
        OBVIOUS
      <4> QED
        BY <1>3, <3>1, <3>2, <4>1
    <3> QED
      BY <3>1, <3>2
  <2>2. /\ Cardinality(upto(i)) <= Cardinality(upto(j))
        /\ Cardinality(upto(i)) # Cardinality(upto(j))
    BY <1>2, <2>1, FS_Subset
  <2> QED
    BY <1>2, <2>2
<1>4. rank \in Injection(ids, 1..size)
  <2>1. rank \in [ids -> 1..size]
    BY <1>2
  <2>2. ASSUME NEW i \in ids, NEW j \in ids, rank[i] = rank[j]
        PROVE  i = j
    <3>1. rank[i] \in Nat
      BY <1>1, <2>1
    <3> QED
      BY <1>3, <2>2, <3>1
  <2> QED
    BY <2>1, <2>2 DEF Injection, IsInjective
<1>5. rank \in Surjection(ids, 1..size)
  BY <1>1, <1>4, FS_Injection
<1>6. ASSUME NEW n \in 1..size
      PROVE  (CHOOSE i \in ids : Cardinality(upto(i)) = n) \in ids
  <2>1. \E i \in ids : rank[i] = n
    BY <1>5 DEF Surjection
  <2> QED
    BY <2>1
<1>7. /\ InOrder(ids) = [n \in 1..size |->
             Ack(CHOOSE i \in ids : Cardinality(upto(i)) = n)]
      /\ \A n \in 1..size :
           InOrder(ids)[n] \in AckRequest /\ InOrder(ids)[n].id \in ids
  BY <1>6 DEF InOrder, Ack, AckRequest
<1>8. InOrder(ids) \in [1..size -> AckRequest]
  BY <1>7
<1> HIDE DEF size
<1>9. InOrder(ids) \in Seq(AckRequest) /\ Len(InOrder(ids)) = size
  BY <1>1, <1>8
<1> QED
  BY <1>1, <1>7, <1>9 DEF size

-----------------------------------------------------------------------------
(* Sequences: what Append, Tail and concatenation keep.                    *)

\* What Append does to the elements of a queue, and to the kinds in it.
LEMMA Appended ==
  ASSUME NEW S, NEW q \in Seq(S), NEW e \in S
  PROVE  /\ Append(q, e) \in Seq(S)
         /\ Len(Append(q, e)) = Len(q) + 1
         /\ Range(Append(q, e)) = Range(q) \cup {e}
         /\ \A kind :
              /\ Absent(q, kind) => AtMostOne(Append(q, e), kind)
              /\ e.kind # kind /\ Absent(q, kind) => Absent(Append(q, e), kind)
              /\ e.kind # kind /\ AtMostOne(q, kind)
                   => AtMostOne(Append(q, e), kind)
<1> DEFINE r == Append(q, e)
<1>1. /\ r \in Seq(S) /\ Len(r) = Len(q) + 1
      /\ Len(q) \in Nat
      /\ DOMAIN q = 1..Len(q) /\ DOMAIN r = 1..(Len(q) + 1)
      /\ \A n \in DOMAIN q : r[n] = q[n]
      /\ r[Len(q) + 1] = e
  BY AppendProperties, LenProperties
<1> HIDE DEF r
<1>2. Range(r) = Range(q) \cup {e}
  BY <1>1 DEF Range
<1>3. ASSUME NEW kind
      PROVE  /\ Absent(q, kind) => AtMostOne(r, kind)
             /\ e.kind # kind /\ Absent(q, kind) => Absent(r, kind)
             /\ e.kind # kind /\ AtMostOne(q, kind) => AtMostOne(r, kind)
  BY <1>1 DEF Absent, AtMostOne
<1> QED
  BY <1>1, <1>2, <1>3 DEF r

\* What Tail leaves of a queue: all but its head.
LEMMA HeadTaken ==
  ASSUME NEW S, NEW q \in Seq(S), q # <<>>
  PROVE  /\ Head(q) \in S /\ Tail(q) \in Seq(S)
         /\ Len(Tail(q)) < Len(q)
         /\ Range(q) = Range(Tail(q)) \cup {Head(q)}
         /\ \A kind :
              /\ Absent(q, kind) => Absent(Tail(q), kind) /\ Head(q).kind # kind
              /\ AtMostOne(q, kind) => AtMostOne(Tail(q), kind)
              /\ AtMostOne(q, kind) /\ Head(q).kind = kind
                   => Absent(Tail(q), kind)
<1> DEFINE r == Tail(q)
<1>1. /\ Head(q) \in S /\ r \in Seq(S) /\ Len(r) = Len(q) - 1
      /\ Len(q) \in Nat \ {0}
      /\ DOMAIN q = 1..Len(q) /\ DOMAIN r = 1..(Len(q) - 1)
      /\ \A n \in DOMAIN r : r[n] = q[n + 1]
      /\ Head(q) = q[1]
  BY HeadTailProperties, LenProperties, EmptySeq
<1> HIDE DEF r
<1>2. Range(q) = Range(r) \cup {q[1]}
  <2>1. ASSUME NEW n \in DOMAIN q
        PROVE  n = 1 \/ (n - 1 \in DOMAIN r /\ r[n - 1] = q[n])
    BY <1>1
  <2>2. ASSUME NEW n \in DOMAIN r PROVE n + 1 \in DOMAIN q /\ r[n] = q[n + 1]
    BY <1>1
  <2>3. 1 \in DOMAIN q
    BY <1>1
  <2> QED
    BY <2>1, <2>2, <2>3 DEF Range
<1>3. ASSUME NEW kind
      PROVE  /\ Absent(q, kind) => Absent(r, kind) /\ Head(q).kind # kind
             /\ AtMostOne(q, kind) => AtMostOne(r, kind)
             /\ AtMostOne(q, kind) /\ Head(q).kind = kind => Absent(r, kind)
  <2>1. \A n \in DOMAIN r : n + 1 \in DOMAIN q /\ n + 1 # 1 /\ r[n] = q[n + 1]
    BY <1>1
  <2>2. 1 \in DOMAIN q
    BY <1>1
  <2>3. \A m, n \in DOMAIN r : m + 1 = n + 1 => m = n
    BY <1>1
  <2> QED
    BY <1>1, <2>1, <2>2, <2>3 DEF Absent, AtMostOne
<1> QED
  BY <1>1, <1>2, <1>3 DEF r

\* The empty queue has elements of no kind.
LEMMA NothingInEmpty ==
  /\ Range(<<>>) = {}
  /\ \A kind : Absent(<<>>, kind) /\ AtMostOne(<<>>, kind)
BY DEF Range, Absent, AtMostOne

\* A kind is absent if no element has it.
LEMMA AbsentByRange ==
  ASSUME NEW q, NEW kind
  PROVE  Absent(q, kind) <=> \A x \in Range(q) : x.kind # kind
BY DEF Absent, Range

\* No element of a kind is at most one of it.
LEMMA AbsentIsAtMostOne ==
  ASSUME NEW q, NEW kind, Absent(q, kind) PROVE AtMostOne(q, kind)
BY DEF Absent, AtMostOne

-----------------------------------------------------------------------------
(* What the guards of the actions say under the invariant.                 *)

\* The ids of the log are 1 to its length, so that any set of them is finite
\* and has a greatest one.
LEMMA LogIds ==
  ASSUME Types
  PROVE  /\ Len(log) \in Nat
         /\ DOMAIN log = 1..Len(log)
         /\ \A u : Addressed(u) \subseteq 1..Len(log)
         /\ \A u : Pending(u) \subseteq Addressed(u)
         /\ \A ids : ids \subseteq 1..Len(log) =>
              /\ ids \in SUBSET Nat
              /\ IsFiniteSet(ids)
              /\ Highest(ids) \in Nat /\ Highest(ids) <= Len(log)
              /\ \A i \in ids : i <= Highest(ids)
              /\ ids # {} => Highest(ids) \in ids
<1>1. Len(log) \in Nat /\ DOMAIN log = 1..Len(log)
  BY LenProperties DEF Types, ServerTypes
<1>2. ASSUME NEW ids, ids \subseteq 1..Len(log)
      PROVE  /\ ids \in SUBSET Nat
             /\ IsFiniteSet(ids)
             /\ Highest(ids) \in Nat /\ Highest(ids) <= Len(log)
             /\ \A i \in ids : i <= Highest(ids)
             /\ ids # {} => Highest(ids) \in ids
  <2>1. ids \in SUBSET Nat /\ \A i \in ids : i <= Len(log)
    BY <1>1, <1>2
  <2> QED
    BY <1>1, <2>1, HighestIsGreatest, FS_BoundedSetOfNaturals
<1> QED
  BY <1>1, <1>2 DEF Addressed, Pending

\* A session whose handler or client does anything has a user.
LEMMA ActiveIsOwned ==
  ASSUME IInv, NEW s \in Session,
         \/ hstep[s] # "none" \/ up[s] # <<>> \/ down[s] # <<>>
         \/ auto[s] # <<>> \/ sync[s].phase # "unstarted"
  PROVE  owner[s] \in User /\ hstep[s] # "none"
BY DEF IInv, Types, ServerTypes, UsedIsOwned, Unused, SyncState

\* A handler that has read a request has a user, and the request is one of the
\* client's.
LEMMA RequestRead ==
  ASSUME IInv, NEW s \in Session, NEW kind, HasRequest(s, kind)
  PROVE  /\ owner[s] \in User
         /\ hstep[s] = "read"
         /\ up[s] \in Seq(Request) /\ up[s] # <<>>
         /\ Head(up[s]) \in Request
         /\ Head(up[s]).kind = kind
         /\ Head(up[s]) \in Range(up[s])
         /\ kind = "sync" => Head(up[s]) \in SyncRequest
         /\ kind = "ack" => Head(up[s]) \in AckRequest
<1>1. up[s] \in Seq(Request) /\ up[s] # <<>> /\ hstep[s] = "read"
  BY DEF HasRequest, IInv, Types, ClientTypes
<1>2. Head(up[s]) \in Request /\ Head(up[s]) \in Range(up[s])
  BY <1>1, HeadTaken
<1>3. owner[s] \in User
  BY <1>1, ActiveIsOwned
<1> QED
  BY <1>1, <1>2, <1>3 DEF HasRequest, Request, SyncRequest, AckRequest

\* A client that has received a frame is running, and the frame is addressed
\* to its user.
LEMMA FrameReceived ==
  ASSUME IInv, NEW s \in Session, NEW kind, HasFrame(s, kind)
  PROVE  /\ owner[s] \in User
         /\ ~halted[s] /\ sync[s].phase # "unstarted"
         /\ down[s] \in Seq(Frame) /\ down[s] # <<>>
         /\ Head(down[s]) \in Frame
         /\ Head(down[s]).kind = kind
         /\ Head(down[s]) \in Range(down[s])
         /\ kind = "message" => Head(down[s]) \in MessageFrame
         /\ kind = "page" => Head(down[s]) \in PageFrame
         /\ Contents(Head(down[s])) \subseteq Addressed(owner[s])
<1>1. /\ down[s] \in Seq(Frame) /\ down[s] # <<>>
      /\ ~halted[s] /\ sync[s].phase # "unstarted"
  BY DEF HasFrame, IInv, Types, ClientTypes
<1>2. Head(down[s]) \in Frame /\ Head(down[s]) \in Range(down[s])
  BY <1>1, HeadTaken
<1>3. owner[s] \in User
  BY <1>1, ActiveIsOwned
<1>4. Contents(Head(down[s])) \subseteq Addressed(owner[s])
  BY <1>2 DEF IInv, SessionInv, OnlyAddressed
<1> QED
  BY <1>1, <1>2, <1>3, <1>4
  DEF HasFrame, Frame, MessageFrame, PageFrame, Failure

\* The messages that each kind of frame carries.
LEMMA ContentsOf ==
  /\ \A f \in MessageFrame : Contents(f) = {f.id}
  /\ \A f \in PageFrame : Contents(f) = f.ids
  /\ Contents(Failure) = {}
  /\ \A i \in Nat : Message(i) \in MessageFrame
  /\ Failure \in Frame
BY DEF Contents, MessageFrame, PageFrame, Failure, Message, Frame

-----------------------------------------------------------------------------
(* A page that the client takes.                                           *)

\* The queue of requests and the synchronization after a page that was taken.
Queued(q, p) ==
  q \o InOrder(p.ids)
    \o (IF p.more THEN <<Sync(p.next, p.through)>> ELSE <<>>)
NextSync(p) ==
  IF p.more THEN SyncState("active", p.next, p.through)
            ELSE SyncState("done", 0, 0)

PageTaken(s, p) ==
  /\ Len(auto[s]) + (Cardinality(p.ids) + (IF p.more THEN 1 ELSE 0))
       <= MaxAutomaticRequests
  /\ auto' = [auto EXCEPT ![s] = Queued(@, p)]
  /\ sync' = [sync EXCEPT ![s] = NextSync(p)]
  /\ TakeFrame(s)
  /\ UNCHANGED halted

\* A page is taken whole, or the client stops; it retains the page in either
\* case.
LEMMA PageUsed ==
  ASSUME NEW s, NEW p, UsePage(s, p)
  PROVE  /\ Retain(s, p.ids)
         /\ UNCHANGED fault
         /\ PageTaken(s, p) \/ (Halt(s) /\ UNCHANGED sync)
<1>1. CASE p.more
  BY <1>1 DEF UsePage, PageTaken, Fits, Queued, NextSync
<1>2. CASE ~p.more
  BY <1>2 DEF UsePage, PageTaken, Fits, Queued, NextSync
<1> QED
  BY <1>1, <1>2

\* What a page adds to the queue: its acknowledgements, then the request for
\* the next one.
LEMMA PageIsQueued ==
  ASSUME NEW q \in Seq(Request), NEW p \in PageFrame, IsFiniteSet(p.ids)
  PROVE  /\ Queued(q, p) \in Seq(Request)
         /\ Len(Queued(q, p))
              = Len(q) + (Cardinality(p.ids) + (IF p.more THEN 1 ELSE 0))
         /\ Range(q) \subseteq Range(Queued(q, p))
         /\ \A r \in Range(Queued(q, p)) \ Range(q) :
              \/ r.kind = "ack" /\ r.id \in p.ids
              \/ p.more /\ r = Sync(p.next, p.through)
         /\ p.more => Sync(p.next, p.through) \in Range(Queued(q, p))
         /\ Absent(q, "sync") =>
              /\ AtMostOne(Queued(q, p), "sync")
              /\ p.more \/ Absent(Queued(q, p), "sync")
<1> DEFINE acks == InOrder(p.ids)
           new  == Queued(q, p)
           mid  == q \o acks
           next == Sync(p.next, p.through)
<1>1. p.ids \in SUBSET Nat /\ next \in SyncRequest /\ p.more \in BOOLEAN
      /\ next.kind = "sync"
  BY DEF PageFrame, Sync, SyncRequest
<1>2. /\ acks \in Seq(AckRequest)
      /\ Len(acks) = Cardinality(p.ids) /\ Cardinality(p.ids) \in Nat
      /\ \A n \in 1..Cardinality(p.ids) : acks[n].id \in p.ids
  BY <1>1, InOrderAcknowledges
<1>3. \A r \in Range(acks) : r.kind = "ack" /\ r.id \in p.ids
  <2>1. DOMAIN acks = 1..Cardinality(p.ids)
    BY <1>2, LenProperties
  <2>2. \A n \in 1..Cardinality(p.ids) : acks[n] \in AckRequest
    BY <1>2, ElementOfSeq
  <2> HIDE DEF acks
  <2> QED
    BY <1>2, <2>1, <2>2 DEF Range, AckRequest
<1>4. acks \in Seq(Request) /\ next \in Request
  BY <1>1, <1>2, SeqMonotonic DEF Request
<1> HIDE DEF acks, next
<1>5. /\ mid \in Seq(Request)
      /\ Len(mid) = Len(q) + Len(acks)
      /\ Range(mid) = Range(q) \cup Range(acks)
  BY <1>4, ConcatProperties, RangeConcatenation
<1>6. Len(q) \in Nat
  BY LenProperties
<1>7. Absent(q, "sync") => Absent(mid, "sync")
  BY <1>3, <1>5, AbsentByRange
<1>8. new = q \o acks \o (IF p.more THEN <<next>> ELSE <<>>)
  BY DEF Queued, acks, next
<1> HIDE DEF mid, new
<1>9. CASE p.more
  <2>1. new = Append(mid, next)
    BY <1>4, <1>5, <1>8, <1>9, AppendIsConcat DEF mid
  <2>2. /\ Append(mid, next) \in Seq(Request)
        /\ Len(Append(mid, next)) = Len(mid) + 1
        /\ Range(Append(mid, next)) = Range(mid) \cup {next}
        /\ Absent(mid, "sync") => AtMostOne(Append(mid, next), "sync")
    <3>1. mid \in Seq(Request) /\ next \in Request
      BY <1>4, <1>5
    <3>2. /\ Append(mid, next) \in Seq(Request)
          /\ Len(Append(mid, next)) = Len(mid) + 1
          /\ Range(Append(mid, next)) = Range(mid) \cup {next}
      BY <3>1, Appended
    <3>3. Absent(mid, "sync") => AtMostOne(Append(mid, next), "sync")
      BY <3>1, Appended
    <3> QED
      BY <3>2, <3>3
  <2>3. Len(new) = Len(q) + (Cardinality(p.ids) + 1)
    <3>1. /\ Len(new) = Len(mid) + 1
          /\ Len(mid) = Len(q) + Len(acks)
          /\ Len(acks) = Cardinality(p.ids) /\ Cardinality(p.ids) \in Nat
      BY <1>2, <1>5, <2>1, <2>2
    <3> HIDE DEF acks
    <3> QED
      BY <1>6, <3>1
  <2>4. Range(new) = Range(q) \cup Range(acks) \cup {next}
    BY <1>5, <2>1, <2>2
  <2>5. /\ Range(q) \subseteq Range(new) /\ next \in Range(new)
        /\ \A r \in Range(new) \ Range(q) :
             (r.kind = "ack" /\ r.id \in p.ids) \/ r = next
    BY <1>3, <2>4
  <2>6. new \in Seq(Request)
    BY <2>1, <2>2
  <2>7. Absent(q, "sync") => AtMostOne(new, "sync")
    BY <1>7, <2>1, <2>2
  <2> QED
    BY <1>9, <2>3, <2>5, <2>6, <2>7 DEF next, new
<1>10. CASE ~p.more
  <2>1. new = mid
    BY <1>4, <1>5, <1>8, <1>10, ConcatEmptySeq DEF mid
  <2>2. Absent(mid, "sync") => AtMostOne(mid, "sync")
    BY AbsentIsAtMostOne
  <2>3. Len(new) = Len(q) + Cardinality(p.ids) /\ Cardinality(p.ids) \in Nat
    BY <1>2, <1>5, <1>6, <2>1
  <2>4. /\ Range(q) \subseteq Range(new)
        /\ \A r \in Range(new) \ Range(q) : r.kind = "ack" /\ r.id \in p.ids
    BY <1>3, <1>5, <2>1
  <2>5. new \in Seq(Request)
    BY <1>5, <2>1
  <2>6. Absent(q, "sync") => AtMostOne(new, "sync") /\ Absent(new, "sync")
    BY <1>7, <2>1, <2>2
  <2>7. Len(new) = Len(q) + (Cardinality(p.ids) + 0)
    BY <1>6, <2>3
  <2> QED
    BY <1>10, <2>4, <2>5, <2>6, <2>7 DEF new
<1> QED
  BY <1>9, <1>10
=============================================================================
