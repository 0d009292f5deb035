-------------------------- MODULE SessionDirectory --------------------------
(***************************************************************************)
(* What the admission machinery of the server promises to the routing of   *)
(* messages: for every user at most one live session, a session that goes  *)
(* live once, and a live session that stays in place until it is ended.    *)
(* Nothing else may take a live session out of the directory: a message    *)
(* committed while a user is live finds that user's session.               *)
(*                                                                         *)
(* Admission implements this specification; Delivery is built on it.       *)
(***************************************************************************)
CONSTANTS User, Session, NoSession

ASSUME NoSessionAssumption == NoSession \notin Session

VARIABLES
  live,   \* the session a message for a user is delivered on, or NoSession
  ended   \* the sessions whose transport was stopped, for good

dirVars == <<live, ended>>

DirInit ==
  /\ live  = [u \in User |-> NoSession]
  /\ ended = {}

\* A session becomes the live one of a user who has none.
Publish(u, s) ==
  /\ live[u] = NoSession
  /\ s \notin ended
  /\ \A v \in User : live[v] # s
  /\ live' = [live EXCEPT ![u] = s]
  /\ UNCHANGED ended

\* A session ends, and with it its place in the directory.
End(s) ==
  /\ s \notin ended
  /\ ended' = ended \cup {s}
  /\ live'  = [u \in User |-> IF live[u] = s THEN NoSession ELSE live[u]]

DirNext == \E s \in Session : End(s) \/ \E u \in User : Publish(u, s)

DirSpec == DirInit /\ [][DirNext]_dirVars
=============================================================================
