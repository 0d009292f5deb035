-------------------------- MODULE Admission_proofs --------------------------
(***************************************************************************)
(* Proofs about Admission, for every set of users and of sessions.         *)
(***************************************************************************)
EXTENDS Admission, TLAPS

-----------------------------------------------------------------------------
(* The inductive invariant: the phases of a handler tied to the registry,  *)
(* to the flags of its session and to the frames it has written.           *)

Unnamed == {"unused", "authenticate"}

Unadmitted == Unnamed \cup {"reserve", "refuse", "success"}

Ended == {"unregister", "close", "complete", "gone"}

\* A handler knows its user from the reservation until it cleans up.
Named ==
  \A s \in Session :
    pc[s] \notin Unnamed \cup Ended \cup {"cleanup"} => user[s] \in User

\* A session is ready only after its handler has published it, and from the
\* second step of the clean-up on it is stopping.
FlagsFollowPc ==
  \A s \in Session :
    /\ ready[s] => /\ pc[s] \notin Unadmitted \cup {"publish", "abandon"}
                   /\ "SUCCESS" \in sent[s]
    /\ pc[s] \in Ended => stopping[s]

\* Which verdict frames a session may have been written at each step.
VerdictFollowsPc ==
  \A s \in Session :
    /\ "SUCCESS" \in sent[s] => pc[s] \notin Unadmitted
    /\ "REJECT" \in sent[s] => /\ pc[s] \in Ended \cup {"cleanup"}
                               /\ "SUCCESS" \notin sent[s]
    /\ pc[s] = "publish" => "SUCCESS" \in sent[s]

\* A handler delivers to sessions that were ready, and evicts stopped ones.
TargetWasReady ==
  \A s \in Session :
    /\ pc[s] \in Delivering => ready[target[s]]
    /\ pc[s] = "evict" => stopping[target[s]]

\* The tracker holds exactly the sessions whose handler runs.
TrackedAreRunning ==
  /\ \A s \in Session : pc[s] \in Running => s \in tracked
  /\ mainPc = "done" => tracked = {}

IInv ==
  /\ TypeOK
  /\ Named
  /\ FlagsFollowPc
  /\ VerdictFollowsPc
  /\ TargetWasReady
  /\ TrackedAreRunning
  /\ ReadyIsRegistered
  /\ NoOrphanEntry
  /\ SuccessComesFirst
  /\ ClosedByOwner


LEMMA InitIInv == Init => IInv
BY
  DEF Init, IInv, TypeOK, Named, FlagsFollowPc, VerdictFollowsPc,
      TargetWasReady, TrackedAreRunning, ReadyIsRegistered, NoOrphanEntry,
      SuccessComesFirst, ClosedByOwner, Goto, RequestStop, Written, Failed,
      SendIgnored, RemoveIfSame, NextRoute, sessionVars, routeVars,
      serverVars, Pc, Frame, Running, Delivering, Unnamed, Unadmitted, Ended

LEMMA StepIInv == IInv /\ [Next]_vars => IInv'
<1> SUFFICES ASSUME IInv, [Next]_vars PROVE IInv'
  OBVIOUS
<1> USE NoUserAssumption, NoSessionAssumption
    DEF IInv, TypeOK, Named, FlagsFollowPc, VerdictFollowsPc, TargetWasReady,
        TrackedAreRunning, ReadyIsRegistered, NoOrphanEntry,
        SuccessComesFirst, ClosedByOwner, Goto, RequestStop, Written, Failed,
        SendIgnored, RemoveIfSame, NextRoute, sessionVars, routeVars,
        serverVars, Pc, Frame, Running, Delivering, Unnamed, Unadmitted, Ended
<1>1. ASSUME NEW s \in Session, Connect(s) PROVE IInv'
  BY <1>1 DEF Connect
<1>2. ASSUME NEW s \in Session, ThreadStartFails(s) PROVE IInv'
  BY <1>2 DEF ThreadStartFails
<1>3. ASSUME NEW s \in Session, StopOne(s) PROVE IInv'
  BY <1>3 DEF StopOne
<1>4. ASSUME NEW s \in Session, RejectCredentials(s) PROVE IInv'
  <2>1. CASE Written(s, {"REJECT"})
    BY <1>4, <2>1 DEF RejectCredentials
  <2>2. CASE Failed(s)
    BY <1>4, <2>2 DEF RejectCredentials
  <2> QED
    BY <1>4, <2>1, <2>2 DEF RejectCredentials
<1>5. ASSUME NEW s \in Session, Reserve(s) PROVE IInv'
  BY <1>5 DEF Reserve
<1>6. ASSUME NEW s \in Session, RefuseAdmission(s) PROVE IInv'
  <2>1. CASE Written(s, {"REJECT"})
    BY <1>6, <2>1 DEF RefuseAdmission
  <2>2. CASE Failed(s)
    BY <1>6, <2>2 DEF RefuseAdmission
  <2> QED
    BY <1>6, <2>1, <2>2 DEF RefuseAdmission
<1>7. ASSUME NEW s \in Session, SendSuccess(s) PROVE IInv'
  <2>1. CASE Goto(s, "success", "publish") /\ Written(s, {"SUCCESS"})
    BY <1>7, <2>1 DEF SendSuccess
  <2>2. CASE Goto(s, "success", "abandon") /\ Failed(s)
    BY <1>7, <2>2 DEF SendSuccess
  <2> QED
    BY <1>7, <2>1, <2>2 DEF SendSuccess
<1>8. ASSUME NEW s \in Session, PublishReady(s) PROVE IInv'
  <2>1. CASE registry[user[s]] = s /\ ~stopping[s]
    <3>0. /\ pc[s] = "publish"
          /\ pc' = [pc EXCEPT ![s] = "loop"]
          /\ ready' = [ready EXCEPT ![s] = TRUE]
          /\ UNCHANGED <<accounts, registry, user, stopping, closed, sent,
                         routeVars, serverVars>>
      BY <1>8, <2>1 DEF PublishReady
    <3>1. TypeOK'
      BY <3>0
    <3>2. Named'
      BY <2>1, <3>0
    <3>3. FlagsFollowPc'
      BY <2>1, <3>0
    <3>4. VerdictFollowsPc'
      BY <2>1, <3>0
    <3>5. TargetWasReady'
      BY <2>1, <3>0
    <3>6. TrackedAreRunning'
      BY <2>1, <3>0
    <3>7. ReadyIsRegistered'
      BY <2>1, <3>0
    <3>8. NoOrphanEntry'
      BY <2>1, <3>0
    <3>9. SuccessComesFirst'
      BY <2>1, <3>0
    <3>10. ClosedByOwner'
      BY <3>0
    <3> QED
      BY <3>1, <3>2, <3>3, <3>4, <3>5, <3>6, <3>7, <3>8, <3>9, <3>10
  <2>2. CASE ~(registry[user[s]] = s /\ ~stopping[s])
    BY <1>8, <2>2 DEF PublishReady
  <2> QED
    BY <1>8, <2>1, <2>2 DEF PublishReady
<1>9. ASSUME NEW s \in Session, AbandonAdmission(s) PROVE IInv'
  BY <1>9 DEF AbandonAdmission
<1>10. ASSUME NEW s \in Session, LoopTest(s) PROVE IInv'
  BY <1>10 DEF LoopTest
<1>11. ASSUME NEW s \in Session, Leave(s) PROVE IInv'
  BY <1>11 DEF Leave
<1>12. ASSUME NEW s \in Session, ServeRequest(s) PROVE IInv'
  <2>1. CASE Goto(s, "read", "loop") /\ Written(s, {})
    BY <1>12, <2>1 DEF ServeRequest
  <2>2. CASE Goto(s, "read", "cleanup") /\ Failed(s)
    BY <1>12, <2>2 DEF ServeRequest
  <2> QED
    BY <1>12, <2>1, <2>2 DEF ServeRequest
<1>13. ASSUME NEW s \in Session, SendAccepted(s) PROVE IInv'
  <2>1. CASE Written(s, {}) /\ replied' = [replied EXCEPT ![s] = TRUE]
    <3>1. sent' = sent
      BY <1>13, <2>1 DEF SendAccepted
    <3> QED
      BY <1>13, <2>1, <3>1 DEF SendAccepted
  <2>2. CASE Failed(s) /\ replied' = [replied EXCEPT ![s] = FALSE]
    BY <1>13, <2>2 DEF SendAccepted
  <2> QED
    BY <1>13, <2>1, <2>2 DEF SendAccepted
<1>14. ASSUME NEW s \in Session, SendDelivery(s) PROVE IInv'
  <2>1. CASE Written(target[s], {"DELIVERY"}) /\ pc' = NextRoute(s)
    BY <1>14, <2>1 DEF SendDelivery
  <2>2. CASE Failed(target[s]) /\ pc' = [pc EXCEPT ![s] = "stopTarget"]
    BY <1>14, <2>2 DEF SendDelivery
  <2> QED
    BY <1>14, <2>1, <2>2 DEF SendDelivery
<1>15. ASSUME NEW s \in Session, StopTarget(s) PROVE IInv'
  BY <1>15 DEF StopTarget
<1>16. ASSUME NEW s \in Session, EvictTarget(s) PROVE IInv'
  BY <1>16 DEF EvictTarget
<1>17. ASSUME NEW s \in Session, FinishRoutes(s) PROVE IInv'
  BY <1>17 DEF FinishRoutes
<1>18. ASSUME NEW s \in Session, CleanupStop(s) PROVE IInv'
  BY <1>18 DEF CleanupStop
<1>19. ASSUME NEW s \in Session, Unregister(s) PROVE IInv'
  BY <1>19 DEF Unregister
<1>20. ASSUME NEW s \in Session, Close(s) PROVE IInv'
  BY <1>20 DEF Close
<1>21. ASSUME NEW s \in Session, Complete(s) PROVE IInv'
  BY <1>21 DEF Complete
<1>22. ASSUME NEW s \in Session, NEW u \in User, SignIn(s, u) PROVE IInv'
  BY <1>22 DEF SignIn
<1>23. ASSUME NEW s \in Session, NEW u \in User, LogIn(s, u) PROVE IInv'
  BY <1>23 DEF LogIn
<1>24. ASSUME NEW s \in Session, NEW u \in User, FindReady(s, u) PROVE IInv'
  BY <1>24 DEF FindReady
<1>25. ASSUME NEW s \in Session, NEW r \in SUBSET User, AcceptMessage(s, r)
      PROVE  IInv'
  BY <1>25 DEF AcceptMessage
<1>26. CASE AcceptFails
  BY <1>26 DEF AcceptFails
<1>27. CASE AllStopped
  BY <1>27 DEF AllStopped
<1>28. CASE UNCHANGED vars
  BY <1>28 DEF vars
<1> QED
  BY <1>1, <1>2, <1>3, <1>4, <1>5, <1>6, <1>7, <1>8, <1>9, <1>10, <1>11, <1>12, <1>13, <1>14, <1>15, <1>16, <1>17, <1>18, <1>19, <1>20, <1>21, <1>22, <1>23, <1>24, <1>25, <1>26, <1>27, <1>28
  DEF Next, AcceptLoop, StopAllAndWait, HandleClient, Authenticate,
      ProcessMessages, Deliver, CleanupSession

LEMMA SpecIInv == Spec => []IInv
BY InitIInv, StepIInv, PTL DEF Spec

-----------------------------------------------------------------------------
(* The safety properties follow from the inductive invariant.              *)

\* The variables keep their types: accounts, registry, flags, handler steps.
THEOREM AdmissionTypes == Spec => []TypeOK
<1>1. IInv => TypeOK
  BY DEF IInv
<1> QED
  BY <1>1, SpecIInv, PTL

\* A session that is ready and was not stopped stays the registered one of its
\* user, however failed deliveries, late clean-ups and new logins interleave.
THEOREM ReadyStaysRegistered == Spec => []ReadyIsRegistered
<1>1. IInv => ReadyIsRegistered
  BY DEF IInv
<1> QED
  BY <1>1, SpecIInv, PTL

\* Every registry entry has a handler that will still remove it.
THEOREM EntriesAreOwned == Spec => []NoOrphanEntry
<1>1. IInv => NoOrphanEntry
  BY DEF IInv
<1> QED
  BY <1>1, SpecIInv, PTL

\* No connection is told both that it was admitted and that it was refused.
THEOREM VerdictIsFinal == Spec => []OneVerdict
<1>1. IInv => OneVerdict
  BY DEF IInv, VerdictFollowsPc, OneVerdict
<1> QED
  BY <1>1, SpecIInv, PTL

\* No message is written to a session before its SUCCESS.
THEOREM NothingBeforeSuccess == Spec => []SuccessComesFirst
<1>1. IInv => SuccessComesFirst
  BY DEF IInv
<1> QED
  BY <1>1, SpecIInv, PTL

\* The registry and the sessions agree in both directions.
THEOREM RegistryStaysExact == Spec => []RegistryIsExact
BY ReadyStaysRegistered, EntriesAreOwned, PTL DEF RegistryIsExact

\* A client reads one verdict, and nothing before it.
THEOREM AnswersStayInOrder == Spec => []AnswersInOrder
BY VerdictIsFinal, NothingBeforeSuccess, PTL DEF AnswersInOrder

\* When the shutdown is over no handler runs.
THEOREM ShutdownIsQuiet == Spec => []QuietAfterShutdown
<1>1. IInv => QuietAfterShutdown
  BY DEF IInv, TrackedAreRunning, QuietAfterShutdown
<1> QED
  BY <1>1, SpecIInv, PTL

\* Only the last steps of a session's own handler see its socket closed.
THEOREM OwnerCloses == Spec => []ClosedByOwner
<1>1. IInv => ClosedByOwner
  BY DEF IInv
<1> QED
  BY <1>1, SpecIInv, PTL

-----------------------------------------------------------------------------
(* Admission implements SessionDirectory.  Under the invariant the live    *)
(* session of a user is determined by the flags of the sessions alone, and *)
(* a step of the server changes those flags in one of three ways.          *)

LEMMA LiveByFlags ==
  ASSUME IInv, NEW u \in User
  PROVE  /\ LiveSession(u) \in Session \cup {NoSession}
         /\ \A s \in Session :
              LiveSession(u) = s <=> ready[s] /\ ~stopping[s] /\ user[s] = u
BY NoSessionAssumption
   DEF IInv, TypeOK, ReadyIsRegistered, NoOrphanEntry, LiveSession

\* The same after a step.
LEMMA LiveByFlagsNext ==
  ASSUME IInv', NEW u \in User
  PROVE  /\ LiveSession(u)' \in Session \cup {NoSession}
         /\ \A s \in Session :
              LiveSession(u)' = s <=>
                ready'[s] /\ ~stopping'[s] /\ user'[s] = u
BY NoSessionAssumption
   DEF IInv, TypeOK, ReadyIsRegistered, NoOrphanEntry, LiveSession

\* The flags and names a step may change.
KeepsFlags ==
  /\ ready' = ready /\ stopping' = stopping
  /\ \A s \in Session : ready[s] => user'[s] = user[s]

Stops(s) ==
  /\ ready' = ready /\ user' = user
  /\ stopping' = [stopping EXCEPT ![s] = TRUE]

Admits(s) ==
  /\ ~ready[s] /\ ~stopping[s]
  /\ user[s] \in User /\ registry[user[s]] = s
  /\ ready' = [ready EXCEPT ![s] = TRUE]
  /\ stopping' = stopping /\ user' = user

LEMMA FlagSteps ==
  ASSUME IInv, [Next]_vars
  PROVE  KeepsFlags \/ \E s \in Session : Stops(s) \/ Admits(s)
<1> USE DEF IInv, TypeOK, FlagsFollowPc, Unadmitted, Unnamed, Goto, RequestStop,
            Written, Failed, SendIgnored, sessionVars, KeepsFlags, Stops
<1>1. ASSUME NEW s \in Session, Authenticate(s)
      PROVE  KeepsFlags \/ Stops(s) \/ Admits(s)
  <2>1. ASSUME NEW u \in User, SignIn(s, u) \/ LogIn(s, u) PROVE KeepsFlags
    BY <2>1 DEF SignIn, LogIn
  <2>2. CASE RejectCredentials(s) \/ RefuseAdmission(s) \/ SendSuccess(s)
    BY <2>2 DEF RejectCredentials, RefuseAdmission, SendSuccess
  <2>3. CASE Reserve(s) \/ AbandonAdmission(s)
    BY <2>3 DEF Reserve, AbandonAdmission
  <2>4. CASE PublishReady(s)
    BY <2>4 DEF PublishReady, Admits, Named, Ended
  <2> QED
    BY <1>1, <2>1, <2>2, <2>3, <2>4 DEF Authenticate
<1>2. ASSUME NEW s \in Session, ProcessMessages(s)
      PROVE  KeepsFlags \/ \E t \in Session : Stops(t)
  <2>1. CASE LoopTest(s) \/ Leave(s)
    BY <2>1 DEF LoopTest, Leave
  <2>2. CASE ServeRequest(s)
    BY <2>2 DEF ServeRequest
  <2>3. ASSUME NEW r \in SUBSET User, AcceptMessage(s, r) PROVE KeepsFlags
    BY <2>3 DEF AcceptMessage
  <2>4. CASE SendAccepted(s)
    BY <2>4 DEF SendAccepted
  <2>5. ASSUME NEW u \in User, FindReady(s, u) PROVE KeepsFlags
    BY <2>5 DEF FindReady
  <2>6. CASE SendDelivery(s) \/ StopTarget(s)
    BY <2>6 DEF SendDelivery, StopTarget, Delivering
  <2>7. CASE EvictTarget(s) \/ FinishRoutes(s)
    BY <2>7 DEF EvictTarget, FinishRoutes
  <2> QED
    BY <1>2, <2>1, <2>2, <2>3, <2>4, <2>5, <2>6, <2>7
    DEF ProcessMessages, Deliver
<1>3. ASSUME NEW s \in Session, CleanupSession(s)
      PROVE  KeepsFlags \/ Stops(s)
  BY <1>3 DEF CleanupSession, CleanupStop, Unregister, Close, Complete
<1>4. ASSUME AcceptLoop \/ StopAllAndWait
      PROVE  KeepsFlags \/ \E s \in Session : Stops(s)
  BY <1>4 DEF AcceptLoop, StopAllAndWait, Connect, ThreadStartFails, StopOne,
              AcceptFails, AllStopped
<1>5. CASE UNCHANGED vars
  BY <1>5 DEF vars
<1> QED
  BY <1>1, <1>2, <1>3, <1>4, <1>5 DEF Next, HandleClient

LEMMA DirectoryInit == Init => Directory!DirInit
BY DEF Init, Directory!DirInit, LiveSession

LEMMA DirectoryStep ==
  IInv /\ IInv' /\ [Next]_vars => [Directory!DirNext]_(Directory!dirVars)
<1> SUFFICES ASSUME IInv, IInv', [Next]_vars
             PROVE  [Directory!DirNext]_(Directory!dirVars)
  OBVIOUS
<1>0. /\ ready \in [Session -> BOOLEAN] /\ stopping \in [Session -> BOOLEAN]
      /\ user \in [Session -> User \cup {NoUser}]
  BY DEF IInv, TypeOK
<1>1. CASE KeepsFlags
  <2>1. ASSUME NEW u \in User PROVE LiveSession(u)' = LiveSession(u)
    BY <1>1, NoSessionAssumption, LiveByFlags, LiveByFlagsNext DEF KeepsFlags
  <2>2. UNCHANGED Directory!dirVars
    BY <1>1, <2>1 DEF KeepsFlags, Directory!dirVars
  <2> QED
    BY <2>2
<1>2. ASSUME NEW t \in Session, Stops(t)
      PROVE  [Directory!DirNext]_(Directory!dirVars)
  <2>1. ASSUME NEW u \in User
        PROVE  LiveSession(u)' = IF LiveSession(u) = t THEN NoSession
                                                      ELSE LiveSession(u)
    BY <1>0, <1>2, NoSessionAssumption, LiveByFlags, LiveByFlagsNext DEF Stops
  <2>2. CASE stopping[t]
    <3>1. \A u \in User : LiveSession(u) # t
      BY <2>2, LiveByFlags
    <3>2. stopping' = stopping
      BY <1>0, <1>2, <2>2 DEF Stops
    <3>3. UNCHANGED Directory!dirVars
      BY <2>1, <3>1, <3>2 DEF Directory!dirVars
    <3> QED
      BY <3>3
  <2>3. CASE ~stopping[t]
    <3>1. {s \in Session : stopping'[s]} = {s \in Session : stopping[s]} \cup {t}
      BY <1>0, <1>2 DEF Stops
    <3>2. Directory!End(t)
      BY <2>1, <2>3, <3>1 DEF Directory!End
    <3> QED
      BY <3>2 DEF Directory!DirNext
  <2> QED
    BY <2>2, <2>3
<1>3. ASSUME NEW t \in Session, Admits(t)
      PROVE  Directory!DirNext
  <2> DEFINE n == user[t]
  <2>1. n \in User /\ LiveSession(n) = NoSession
    BY <1>3 DEF Admits, LiveSession
  <2>2. \A u \in User : LiveSession(u) # t
    BY <1>3, LiveByFlags DEF Admits
  <2>3. ASSUME NEW u \in User
        PROVE  LiveSession(u)' = IF u = n THEN t ELSE LiveSession(u)
    BY <1>0, <1>3, <2>1, NoSessionAssumption, LiveByFlags, LiveByFlagsNext
    DEF Admits
  <2>4. Directory!Publish(n, t)
    BY <1>3, <2>1, <2>2, <2>3 DEF Admits, Directory!Publish
  <2> QED
    BY <2>1, <2>4 DEF Directory!DirNext
<1> QED
  BY <1>1, <1>2, <1>3, FlagSteps

\* Every behaviour of the server keeps a directory of live sessions.
THEOREM AdmissionImplementsDirectory == Spec => ImplementsDirectory
BY SpecIInv, DirectoryInit, DirectoryStep, PTL
   DEF Spec, ImplementsDirectory, Directory!DirSpec
=============================================================================
