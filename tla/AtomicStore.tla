----------------------------- MODULE AtomicStore ----------------------------
(***************************************************************************)
(* What the database promises: every request changes the stored tables in  *)
(* one step or not at all, whatever fails and whenever the process dies.   *)
(* Store shows how the code keeps the promise.                             *)
(*                                                                         *)
(* A table is the set of its rows.  A user or a group is known by its      *)
(* name, which identifies it; an acknowledged row of message_recipients    *)
(* is also in acknowledgements; user_version holds the one number of the   *)
(* pragma; objects are the tables and indexes that exist with the          *)
(* definition the code expects, and any other table there is.              *)
(***************************************************************************)
EXTENDS Naturals, FiniteSets

CONSTANTS User, Group, NoGroup

VARIABLE tables

\* The tables a request only ever adds rows to, and the others.
FactTable == {"users", "chat_groups", "group_members", "message_history",
              "message_recipients", "acknowledgements", "contacts"}
Table     == FactTable \cup {"user_version", "objects", "messages"}

CurrentSchemaVersion == 3

LegacyObjects == {"users", "messages"}
VersionOneObjects ==
  LegacyObjects \cup
  {"chat_groups", "message_history", "idx_message_history_sender",
   "message_recipients", "idx_message_recipients_recipient"}
VersionTwoObjects ==
  VersionOneObjects \cup {"group_members", "idx_group_members_user"}
CurrentObjects == VersionTwoObjects \cup {"contacts"}

Version(t) == CHOOSE v \in t["user_version"] : TRUE

Stored(kind, sender, group, content, id) ==
  [id |-> id, kind |-> kind, sender |-> sender, group |-> group,
   content |-> content]

NextId(t) == Cardinality(t["message_history"]) + 1

Members(t, g) == {u \in User : <<g, u>> \in t["group_members"]}

-----------------------------------------------------------------------------
Add(t, table, rows) == [t EXCEPT ![table] = @ \cup rows]

Register(u) ==
  /\ u \notin tables["users"]
  /\ tables' = Add(tables, "users", {u})

\* A group exists together with its creator's membership.
CreateGroup(u, g) ==
  /\ u \in tables["users"]
  /\ g \notin tables["chat_groups"]
  /\ tables' = Add(Add(tables, "chat_groups", {g}),
                   "group_members", {<<g, u>>})

JoinGroup(u, g) ==
  /\ u \in tables["users"]
  /\ g \in tables["chat_groups"]
  /\ tables' = Add(tables, "group_members", {<<g, u>>})

AddContact(u, v) ==
  /\ {u, v} \subseteq tables["users"]
  /\ u # v
  /\ tables' = Add(tables, "contacts", {<<u, v>>})

\* A message exists together with a row for each of its recipients.
Accept(m, recipients) ==
  tables' = Add(Add(tables, "message_history", {m}),
                "message_recipients", {m.id} \X recipients)

AcceptPrivate(u, v) ==
  /\ {u, v} \subseteq tables["users"]
  /\ u # v
  /\ Accept(Stored("PRIVATE", u, NoGroup, 0, NextId(tables)), {v})

AcceptGroup(u, g) ==
  /\ u \in Members(tables, g)
  /\ Accept(Stored("GROUP", u, g, 0, NextId(tables)),
            Members(tables, g) \ {u})

AcceptBroadcast(u) ==
  /\ u \in tables["users"]
  /\ Accept(Stored("BROADCAST", u, NoGroup, 0, NextId(tables)),
            tables["users"] \ {u})

Acknowledge(u, id) ==
  /\ <<id, u>> \in tables["message_recipients"]
  /\ tables' = Add(tables, "acknowledgements", {<<id, u>>})

-----------------------------------------------------------------------------
\* A file an earlier version of the program wrote, from an empty one on.
Upgradable(t) ==
  CASE Version(t) = 0 -> t["objects"] \in {{}, LegacyObjects}
    [] Version(t) = 1 -> /\ VersionOneObjects \subseteq t["objects"]
                         /\ {"group_members", "contacts"}
                              \cap t["objects"] = {}
    [] Version(t) = 2 -> /\ VersionTwoObjects \subseteq t["objects"]
                         /\ "contacts" \notin t["objects"]
    [] OTHER          -> FALSE

Upgrade ==
  /\ Upgradable(tables)
  /\ tables' = [tables EXCEPT !["user_version"] = {CurrentSchemaVersion},
                              !["objects"] = @ \cup CurrentObjects]

Importable(t, r) ==
  r.valid /\ {r.sender, r.receiver} \subseteq t["users"]
          /\ r.sender # r.receiver

\* The place of a legacy row in the order of the ids.
Rank(t, r) == Cardinality({q \in t["messages"] : q.id <= r.id})

Imported(t, r) ==
  Stored("PRIVATE", r.sender, NoGroup, r.id, NextId(t) + Rank(t, r) - 1)

\* Every legacy row moves at once; the rows keep their order.
Import ==
  LET moved == {<<r, Imported(tables, r)>> : r \in tables["messages"]}
  IN /\ \A r \in tables["messages"] : Importable(tables, r)
     /\ tables' =
          [tables EXCEPT
            !["messages"] = {},
            !["message_history"] = @ \cup {p[2] : p \in moved},
            !["message_recipients"] =
              @ \cup {<<p[2].id, p[1].receiver>> : p \in moved}]

-----------------------------------------------------------------------------
Next ==
  \/ \E u \in User : Register(u) \/ AcceptBroadcast(u)
  \/ \E u, v \in User : AddContact(u, v) \/ AcceptPrivate(u, v)
  \/ \E u \in User, g \in Group :
       CreateGroup(u, g) \/ JoinGroup(u, g) \/ AcceptGroup(u, g)
  \/ \E p \in tables["message_recipients"] : Acknowledge(p[2], p[1])
  \/ Upgrade
  \/ Import

\* A file holds what it held when the program first met it, and changes by
\* whole requests from then on.
Spec == [][Next]_tables
=============================================================================
