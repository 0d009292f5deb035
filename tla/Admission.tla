------------------------------ MODULE Admission -----------------------------
(***************************************************************************)
(* Sessions of the chat server: the accept loop, one handler thread per    *)
(* connection (authenticate, process messages, clean up), the session      *)
(* registry the handlers share, live delivery from one handler to the      *)
(* session of another, and the shutdown that stops every session and waits *)
(* for every handler.                                                      *)
(*                                                                         *)
(* One action is one critical section (of the registry, the handler        *)
(* tracker or the database) or one frame written.  The content of requests *)
(* and replies is left out; what a write may return is kept: any write may *)
(* fail, and a write that fails stops the session it was meant for.        *)
(***************************************************************************)
EXTENDS Naturals

CONSTANTS User, Session, NoUser, NoSession

ASSUME NoUserAssumption    == NoUser \notin User
ASSUME NoSessionAssumption == NoSession \notin Session

VARIABLES
  accounts,   \* rows of the users table
  registry,   \* SessionRegistry::sessions, NoSession where there is no entry
  pc,         \* the step each handler thread is about to take
  user,       \* ClientSession::username, NoUser while it is empty
  ready,      \* ClientSession::ready
  stopping,   \* ClientSession::stopping
  closed,     \* ClientSession::closed
  sent,       \* the kinds of frames written to each session so far
  routes,     \* recipients a handler still has to deliver its message to
  target,     \* the session findReady returned for the route in hand
  route,      \* the recipient name of the route in hand
  replied,    \* senderWritten of finishAcceptance
  tracked,    \* HandlerTracker::sessions
  mainPc,     \* where the accept loop is
  toStop      \* snapshot of stopAllAndWait not yet stopped

sessionVars == <<user, ready, stopping, closed, sent>>
routeVars   == <<routes, target, route, replied>>
serverVars  == <<tracked, mainPc, toStop>>
vars == <<accounts, registry, pc, sessionVars, routeVars, serverVars>>

Frame == {"SUCCESS", "REJECT", "DELIVERY"}

Pc == {"unused", "authenticate", "reserve", "refuse", "success", "publish",
       "abandon", "loop", "read", "reply", "route", "deliver", "stopTarget",
       "evict", "cleanup", "unregister", "close", "complete", "gone"}

Init ==
  /\ accounts = {}
  /\ registry = [u \in User |-> NoSession]
  /\ pc       = [s \in Session |-> "unused"]
  /\ user     = [s \in Session |-> NoUser]
  /\ ready    = [s \in Session |-> FALSE]
  /\ stopping = [s \in Session |-> FALSE]
  /\ closed   = [s \in Session |-> FALSE]
  /\ sent     = [s \in Session |-> {}]
  /\ routes   = [s \in Session |-> {}]
  /\ target   = [s \in Session |-> NoSession]
  /\ route    = [s \in Session |-> NoUser]
  /\ replied  = [s \in Session |-> FALSE]
  /\ tracked  = {}
  /\ mainPc   = "accept"
  /\ toStop   = {}

-----------------------------------------------------------------------------
(* The session object.                                                     *)

Goto(s, from, to) ==
  /\ pc[s] = from
  /\ pc' = [pc EXCEPT ![s] = to]

RequestStop(s) == stopping' = [stopping EXCEPT ![s] = TRUE]

\* sendJson returned Written: the frame went out whole.
Written(s, frames) ==
  /\ ~stopping[s] /\ ~closed[s]
  /\ sent' = [sent EXCEPT ![s] = @ \cup frames]
  /\ UNCHANGED stopping

\* sendJson returned Failed: the session was stopping, or it is now.
Failed(s) ==
  /\ RequestStop(s)
  /\ UNCHANGED sent

\* A frame whose outcome the handler does not look at.
SendIgnored(s, frames) == Written(s, frames) \/ Failed(s)

\* Variant: an entry is removed by its name alone.
RemoveByName(u, s) == registry' = [registry EXCEPT ![u] = NoSession]

RemoveIfSame(u, s) ==
  registry' = [registry EXCEPT ![u] = IF @ = s THEN NoSession ELSE @]

-----------------------------------------------------------------------------
(* The accept loop and the start of a handler.                             *)

Connect(s) ==
  /\ mainPc = "accept"
  /\ Goto(s, "unused", "authenticate")
  /\ tracked' = tracked \cup {s}
  /\ UNCHANGED <<accounts, registry, sessionVars, routeVars, mainPc, toStop>>

\* The thread of the handler cannot be created: no handler ever runs.
ThreadStartFails(s) ==
  /\ mainPc = "accept"
  /\ Goto(s, "unused", "gone")
  /\ RequestStop(s)
  /\ closed' = [closed EXCEPT ![s] = TRUE]
  /\ UNCHANGED <<accounts, registry, user, ready, sent, routeVars, serverVars>>

-----------------------------------------------------------------------------
(* authenticate                                                            *)

SignIn(s, u) ==
  /\ Goto(s, "authenticate", "reserve")
  /\ u \notin accounts
  /\ accounts' = accounts \cup {u}
  /\ user' = [user EXCEPT ![s] = u]
  /\ UNCHANGED <<registry, ready, stopping, closed, sent, routeVars, serverVars>>

LogIn(s, u) ==
  /\ Goto(s, "authenticate", "reserve")
  /\ u \in accounts
  /\ user' = [user EXCEPT ![s] = u]
  /\ UNCHANGED <<accounts, registry, ready, stopping, closed, sent, routeVars,
                 serverVars>>

\* An invalid request, wrong credentials, a duplicate name, a database error.
RejectCredentials(s) ==
  /\ Goto(s, "authenticate", "cleanup")
  /\ SendIgnored(s, {"REJECT"})
  /\ UNCHANGED <<accounts, registry, user, ready, closed, routeVars, serverVars>>

\* Variant: the session is ready from its reservation on.
ReserveReady(s) ==
  LET u == user[s] IN
  /\ pc[s] = "reserve"
  /\ IF registry[u] = NoSession
       THEN /\ Goto(s, "reserve", "success")
            /\ registry' = [registry EXCEPT ![u] = s]
            /\ ready' = [ready EXCEPT ![s] = TRUE]
       ELSE /\ Goto(s, "reserve", "refuse")
            /\ UNCHANGED <<registry, ready>>
  /\ UNCHANGED <<accounts, user, stopping, closed, sent, routeVars, serverVars>>

\* Variant: a new login takes the place of the old one.
ReserveAnyway(s) ==
  /\ Goto(s, "reserve", "success")
  /\ registry' = [registry EXCEPT ![user[s]] = s]
  /\ UNCHANGED <<accounts, sessionVars, routeVars, serverVars>>

Reserve(s) ==
  LET u == user[s] IN
  /\ pc[s] = "reserve"
  /\ IF registry[u] = NoSession
       THEN /\ Goto(s, "reserve", "success")
            /\ registry' = [registry EXCEPT ![u] = s]
       ELSE /\ Goto(s, "reserve", "refuse")
            /\ UNCHANGED registry
  /\ UNCHANGED <<accounts, sessionVars, routeVars, serverVars>>

RefuseAdmission(s) ==
  /\ Goto(s, "refuse", "cleanup")
  /\ SendIgnored(s, {"REJECT"})
  /\ UNCHANGED <<accounts, registry, user, ready, closed, routeVars, serverVars>>

SendSuccess(s) ==
  /\ \/ Goto(s, "success", "publish") /\ Written(s, {"SUCCESS"})
     \/ Goto(s, "success", "abandon") /\ Failed(s)
  /\ UNCHANGED <<accounts, registry, user, ready, closed, routeVars, serverVars>>

PublishReady(s) ==
  /\ pc[s] = "publish"
  /\ IF registry[user[s]] = s /\ ~stopping[s]
       THEN /\ Goto(s, "publish", "loop")
            /\ ready' = [ready EXCEPT ![s] = TRUE]
       ELSE /\ Goto(s, "publish", "abandon")
            /\ UNCHANGED ready
  /\ UNCHANGED <<accounts, registry, user, stopping, closed, sent, routeVars,
                 serverVars>>

AbandonAdmission(s) ==
  /\ Goto(s, "abandon", "cleanup")
  /\ RemoveIfSame(user[s], s)
  /\ UNCHANGED <<accounts, sessionVars, routeVars, serverVars>>

-----------------------------------------------------------------------------
(* processMessages: the loop, requests answered with one frame, and        *)
(* messages accepted and then delivered to every live recipient.           *)

LoopTest(s) ==
  /\ Goto(s, "loop", IF stopping[s] THEN "cleanup" ELSE "read")
  /\ UNCHANGED <<accounts, registry, sessionVars, routeVars, serverVars>>

\* EXIT, the end of the stream, a read failure, or an unexpected exception.
Leave(s) ==
  /\ \/ Goto(s, "authenticate", "cleanup")
     \/ Goto(s, "read", "cleanup")
  /\ UNCHANGED <<accounts, registry, sessionVars, routeVars, serverVars>>

\* A frame read before the stop may still be served after it.
ServeRequest(s) ==
  /\ \/ Goto(s, "read", "loop")    /\ Written(s, {})
     \/ Goto(s, "read", "cleanup") /\ Failed(s)
  /\ UNCHANGED <<accounts, registry, user, ready, closed, routeVars, serverVars>>

AcceptMessage(s, recipients) ==
  /\ Goto(s, "read", "reply")
  /\ recipients \subseteq accounts \ {user[s]}
  /\ routes' = [routes EXCEPT ![s] = recipients]
  /\ UNCHANGED <<accounts, registry, sessionVars, target, route, replied,
                 serverVars>>

SendAccepted(s) ==
  /\ Goto(s, "reply", "route")
  /\ \/ Written(s, {}) /\ replied' = [replied EXCEPT ![s] = TRUE]
     \/ Failed(s)      /\ replied' = [replied EXCEPT ![s] = FALSE]
  /\ UNCHANGED <<accounts, registry, user, ready, closed, routes, target, route,
                 serverVars>>

\* findReady: the session of u if it is ready, and not if it is stopping.
FindReady(s, u) ==
  LET found == registry[u]
      isReady == found # NoSession /\ ready[found]
  IN
  /\ u \in routes[s]
  /\ routes' = [routes EXCEPT ![s] = @ \ {u}]
  /\ IF isReady /\ ~stopping[found]
       THEN /\ Goto(s, "route", "deliver")
            /\ target' = [target EXCEPT ![s] = found]
            /\ route'  = [route EXCEPT ![s] = u]
            /\ UNCHANGED registry
       ELSE /\ Goto(s, "route", "route")
            /\ registry' = IF isReady THEN [registry EXCEPT ![u] = NoSession]
                                      ELSE registry
            /\ UNCHANGED <<target, route>>
  /\ UNCHANGED <<accounts, sessionVars, replied, serverVars>>

NextRoute(s) == [pc EXCEPT ![s] = "route"]

SendDelivery(s) ==
  LET t == target[s] IN
  /\ pc[s] = "deliver"
  /\ \/ /\ Written(t, {"DELIVERY"})
        /\ pc' = NextRoute(s)
        /\ target' = [target EXCEPT ![s] = NoSession]
        /\ route'  = [route EXCEPT ![s] = NoUser]
     \/ /\ Failed(t)
        /\ pc' = [pc EXCEPT ![s] = "stopTarget"]
        /\ UNCHANGED <<target, route>>
  /\ UNCHANGED <<accounts, registry, user, ready, closed, routes, replied,
                 serverVars>>

\* Variant: the sender's handler closes the socket of the recipient.
CloseTarget(s) ==
  /\ Goto(s, "stopTarget", "evict")
  /\ RequestStop(target[s])
  /\ closed' = [closed EXCEPT ![target[s]] = TRUE]
  /\ UNCHANGED <<accounts, registry, user, ready, sent, routeVars, serverVars>>

StopTarget(s) ==
  /\ Goto(s, "stopTarget", "evict")
  /\ RequestStop(target[s])
  /\ UNCHANGED <<accounts, registry, user, ready, closed, sent, routeVars,
                 serverVars>>

EvictTarget(s) ==
  /\ pc[s] = "evict"
  /\ pc' = NextRoute(s)
  /\ RemoveIfSame(route[s], target[s])
  /\ target' = [target EXCEPT ![s] = NoSession]
  /\ route'  = [route EXCEPT ![s] = NoUser]
  /\ UNCHANGED <<accounts, sessionVars, routes, replied, serverVars>>

FinishRoutes(s) ==
  /\ routes[s] = {}
  /\ Goto(s, "route", IF replied[s] THEN "loop" ELSE "cleanup")
  /\ replied' = [replied EXCEPT ![s] = FALSE]
  /\ UNCHANGED <<accounts, registry, sessionVars, routes, target, route,
                 serverVars>>

-----------------------------------------------------------------------------
(* cleanupSession                                                          *)

CleanupStop(s) ==
  /\ Goto(s, "cleanup", "unregister")
  /\ RequestStop(s)
  /\ UNCHANGED <<accounts, registry, user, ready, closed, sent, routeVars,
                 serverVars>>

\* Variant: the registry entry of a session is left to others.
UnregisterNothing(s) ==
  /\ Goto(s, "unregister", "close")
  /\ UNCHANGED <<accounts, registry, sessionVars, routeVars, serverVars>>

Unregister(s) ==
  /\ Goto(s, "unregister", "close")
  /\ IF user[s] = NoUser THEN UNCHANGED registry ELSE RemoveIfSame(user[s], s)
  /\ UNCHANGED <<accounts, sessionVars, routeVars, serverVars>>

\* Variant: the handler reports its end before it closes its session.
CompleteBeforeClose(s) ==
  /\ Goto(s, "close", "complete")
  /\ RequestStop(s)
  /\ closed' = [closed EXCEPT ![s] = TRUE]
  /\ tracked' = tracked \ {s}
  /\ UNCHANGED <<accounts, registry, user, ready, sent, routeVars, mainPc, toStop>>

Close(s) ==
  /\ Goto(s, "close", "complete")
  /\ RequestStop(s)
  /\ closed' = [closed EXCEPT ![s] = TRUE]
  /\ UNCHANGED <<accounts, registry, user, ready, sent, routeVars, serverVars>>

Complete(s) ==
  /\ Goto(s, "complete", "gone")
  /\ tracked' = tracked \ {s}
  /\ UNCHANGED <<accounts, registry, sessionVars, routeVars, mainPc, toStop>>

-----------------------------------------------------------------------------
(* stopAllAndWait, after the accept loop threw.                            *)

\* Variant: the sessions are waited for, and none is stopped.
AcceptFailsStopsNone ==
  /\ mainPc = "accept"
  /\ mainPc' = "stopAll"
  /\ toStop' = {}
  /\ UNCHANGED <<accounts, registry, pc, sessionVars, routeVars, tracked>>

AcceptFails ==
  /\ mainPc = "accept"
  /\ mainPc' = "stopAll"
  /\ toStop' = tracked
  /\ UNCHANGED <<accounts, registry, pc, sessionVars, routeVars, tracked>>

StopOne(s) ==
  /\ mainPc = "stopAll"
  /\ s \in toStop
  /\ toStop' = toStop \ {s}
  /\ RequestStop(s)
  /\ UNCHANGED <<accounts, registry, pc, user, ready, closed, sent, routeVars,
                 tracked, mainPc>>

AllStopped ==
  /\ mainPc = "stopAll" /\ toStop = {} /\ tracked = {}
  /\ mainPc' = "done"
  /\ UNCHANGED <<accounts, registry, pc, sessionVars, routeVars, tracked, toStop>>

-----------------------------------------------------------------------------

Authenticate(s) ==
  \/ \E u \in User : SignIn(s, u) \/ LogIn(s, u)
  \/ RejectCredentials(s)
  \/ Reserve(s)
  \/ RefuseAdmission(s)
  \/ SendSuccess(s)
  \/ PublishReady(s)
  \/ AbandonAdmission(s)

Deliver(s) ==
  \/ SendAccepted(s)
  \/ \E u \in User : FindReady(s, u)
  \/ SendDelivery(s)
  \/ StopTarget(s)
  \/ EvictTarget(s)
  \/ FinishRoutes(s)

ProcessMessages(s) ==
  \/ LoopTest(s)
  \/ Leave(s)
  \/ ServeRequest(s)
  \/ \E recipients \in SUBSET User : AcceptMessage(s, recipients)
  \/ Deliver(s)

CleanupSession(s) ==
  \/ CleanupStop(s)
  \/ Unregister(s)
  \/ Close(s)
  \/ Complete(s)

HandleClient(s) == Authenticate(s) \/ ProcessMessages(s) \/ CleanupSession(s)

AcceptLoop == \E s \in Session : Connect(s) \/ ThreadStartFails(s)

StopAllAndWait == AcceptFails \/ AllStopped \/ \E s \in Session : StopOne(s)

Next == AcceptLoop \/ StopAllAndWait \/ \E s \in Session : HandleClient(s)

Spec == Init /\ [][Next]_vars

-----------------------------------------------------------------------------
(* Safety.                                                                 *)

Running   == Pc \ {"unused", "gone"}
Delivering == {"deliver", "stopTarget", "evict"}

\* The types; a handler has a target exactly while it has a route in hand.
TypeOK ==
  /\ accounts \subseteq User
  /\ registry \in [User -> Session \cup {NoSession}]
  /\ pc       \in [Session -> Pc]
  /\ user     \in [Session -> User \cup {NoUser}]
  /\ ready    \in [Session -> BOOLEAN]
  /\ stopping \in [Session -> BOOLEAN]
  /\ closed   \in [Session -> BOOLEAN]
  /\ sent     \in [Session -> SUBSET Frame]
  /\ routes   \in [Session -> SUBSET User]
  /\ target   \in [Session -> Session \cup {NoSession}]
  /\ route    \in [Session -> User \cup {NoUser}]
  /\ replied  \in [Session -> BOOLEAN]
  /\ tracked  \subseteq Session
  /\ mainPc   \in {"accept", "stopAll", "done"}
  /\ toStop   \subseteq Session
  /\ \A s \in Session : pc[s] \in Delivering =>
                         target[s] \in Session /\ route[s] \in User

\* A session that is ready and was not stopped is the registered session of its
\* user.  Were it not, findReady would pass it over and a message committed
\* after its pending page was read would not reach it.  The removals that could
\* break this are made by other handlers, after a failed delivery, and by the
\* late clean-up of an earlier session of the same user.
ReadyIsRegistered ==
  \A s \in Session : ready[s] /\ ~stopping[s] =>
                         user[s] \in User /\ registry[user[s]] = s

\* Every registry entry belongs to a handler that still has its removal ahead:
\* no entry can outlive its session and keep the user from logging in again.
NoOrphanEntry ==
  \A u \in User : registry[u] # NoSession =>
    LET s == registry[u] IN
    /\ user[s] = u
    /\ pc[s] \in Running \ {"authenticate", "reserve", "refuse", "close",
                            "complete"}

\* The registry and the sessions agree, in both directions.
RegistryIsExact == ReadyIsRegistered /\ NoOrphanEntry

\* A connection gets at most one final answer to its authentication request.
OneVerdict ==
  \A s \in Session : ~({"SUCCESS", "REJECT"} \subseteq sent[s])

\* No other handler writes a message to a session before the session's own
\* handler has written its SUCCESS: a client takes the first frame it reads for
\* the answer to its authentication request.
SuccessComesFirst ==
  \A s \in Session : "DELIVERY" \in sent[s] => "SUCCESS" \in sent[s]

\* What a client reads on a connection: one verdict, and nothing before it.
AnswersInOrder == OneVerdict /\ SuccessComesFirst

\* When stopAllAndWait has returned, and runServer destroys the database and the
\* registry, no handler is left that could still use them.
QuietAfterShutdown ==
  mainPc = "done" => \A s \in Session : pc[s] \notin Running

\* A handler that is still to close its session holds it open: the socket is
\* closed by its own handler alone, after everything else it does.
ClosedByOwner ==
  \A s \in Session : closed[s] => stopping[s] /\ pc[s] \in {"complete", "gone"}

-----------------------------------------------------------------------------
(* The directory of live sessions that Delivery relies on.                 *)

LiveSession(u) ==
  LET s == registry[u] IN
  IF s # NoSession /\ ready[s] /\ ~stopping[s] THEN s ELSE NoSession

Directory == INSTANCE SessionDirectory WITH
  live  <- [u \in User |-> LiveSession(u)],
  ended <- {s \in Session : stopping[s]}

\* The registry, the session flags and the handlers together are a directory of
\* live sessions: a live session is displaced by nothing but its own end.
ImplementsDirectory == Directory!DirSpec

-----------------------------------------------------------------------------
(* Liveness.  A handler runs whenever it is not blocked on a socket.  It   *)
(* blocks in a read until its client sends or the session is stopped, and  *)
(* in a write (there is no write timeout) until the peer of the session    *)
(* written to takes the bytes or that session is stopped.                  *)

Reading(s) == pc[s] \in {"authenticate", "read"}

WriteTarget(s) == IF pc[s] = "deliver" THEN target[s] ELSE s

Writing(s) == pc[s] \in {"refuse", "success", "reply", "deliver"}

Unblocked(s) ==
  /\ Reading(s) => stopping[s]
  /\ Writing(s) => stopping[WriteTarget(s)]

HandlerFairness ==
  \A s \in Session : WF_vars(Unblocked(s) /\ HandleClient(s))

MainFairness ==
  /\ WF_vars(AllStopped)
  /\ \A s \in Session : WF_vars(StopOne(s))

PeersDrain ==
  \A s \in Session : WF_vars(Writing(s) /\ HandleClient(s))

\* Clients may stall: every write to a session that is not stopped may block
\* for good.
StallSpec == Spec /\ HandlerFairness /\ MainFairness

\* Once the accept loop has failed, the server comes to its end, whatever the
\* clients do: stopping a session releases the handlers blocked on it.
ShutdownCompletes == mainPc = "stopAll" ~> mainPc = "done"

\* The name of a session that was stopped is free again after a while, provided
\* that clients, or the transport, finish every write.
NameIsReleased ==
  PeersDrain =>
    \A u \in User, s \in Session :
      registry[u] = s /\ stopping[s] ~> registry[u] # s
=============================================================================
