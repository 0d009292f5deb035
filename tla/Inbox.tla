-------------------------------- MODULE Inbox -------------------------------
(***************************************************************************)
(* What the chat promises about a durable message, whatever happens to     *)
(* sessions, wires and the server process: an accepted message is never    *)
(* withdrawn, it is shown to nobody but its recipients, and it counts as   *)
(* delivered to a recipient only after that recipient was shown it.        *)
(*                                                                         *)
(* Delivery implements this specification.                                 *)
(***************************************************************************)
EXTENDS Naturals, Sequences

CONSTANT User

VARIABLES
  accepted,   \* the recipients of every accepted message, by message id
  shown,      \* the ids each user was shown
  delivered   \* the ids no longer pending for each user

inboxVars == <<accepted, shown, delivered>>

\* The messages addressed to u.
AddressedTo(u) == {i \in 1..Len(accepted) : u \in accepted[i]}

InboxInit ==
  /\ accepted  = <<>>
  /\ shown     = [u \in User |-> {}]
  /\ delivered = [u \in User |-> {}]

Accept(recipients) ==
  /\ accepted' = Append(accepted, recipients)
  /\ UNCHANGED <<shown, delivered>>

Show(u, ids) ==
  /\ ids \subseteq AddressedTo(u)
  /\ shown' = [shown EXCEPT ![u] = @ \cup ids]
  /\ UNCHANGED <<accepted, delivered>>

Acknowledge(u, i) ==
  /\ i \in shown[u]
  /\ delivered' = [delivered EXCEPT ![u] = @ \cup {i}]
  /\ UNCHANGED <<accepted, shown>>

InboxNext ==
  \/ \E recipients \in SUBSET User : Accept(recipients)
  \/ \E u \in User :
       \/ \E ids \in SUBSET AddressedTo(u) : Show(u, ids)
       \/ \E i \in AddressedTo(u) : Acknowledge(u, i)

InboxSpec == InboxInit /\ [][InboxNext]_inboxVars
=============================================================================
