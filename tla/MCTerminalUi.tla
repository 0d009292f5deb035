---------------------------- MODULE MCTerminalUi ---------------------------
(* The terminal UI with a private chat, two groups and the broadcast.      *)
EXTENDS TerminalUi, TLC

CONSTANTS ann, team, club, all

Bytes   == [k \in Key |-> IF k = ann THEN 1 ELSE 0]
OneKey  == 1 :> team
TwoKeys == (1 :> team) @@ (2 :> club)

Visiting(visited, ids) ==
  [visited |-> visited, ids |-> ids, members |-> {}, sizes |-> {"fits"},
   invalid |-> FALSE]

Chats ==
  Visiting({"Messages", "PrivateTargetInput", "Notifications"}, {1, 2})

Lookups ==
  Visiting({"Contacts", "ContactList", "UserSearchInput", "ContactAddInput",
            "History", "Notifications"}, {})

GroupWork ==
  [Visiting({"Groups", "GroupList", "GroupSearchInput", "GroupCreateInput",
             "GroupJoinInput"}, {})
     EXCEPT !.members = {2}]

\* A server that answers wrongly and a terminal that shrinks.
Trouble ==
  [Visiting({"Messages", "History", "Notifications"}, {1})
     EXCEPT !.sizes = {"fits", "small"}, !.invalid = TRUE]

NoGroups == <<>>

AllSettings  == {Chats, Lookups, GroupWork, Trouble}
OneChat      == {[Visiting({"Messages"}, {1}) EXCEPT !.members = {1}]}
HistoryOnly  == {Visiting({"History"}, {})}
=============================================================================
