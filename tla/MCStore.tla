------------------------------- MODULE MCStore ------------------------------
(* Files and rows for the checks of Store. *)
EXTENDS Store

CONSTANTS ann, bob, club

Row(id, from, to, ok) ==
  [id |-> id, sender |-> from, receiver |-> to, valid |-> ok]

GoodRows == {Row(1, ann, bob, TRUE), Row(2, bob, ann, TRUE)}
\* A message to oneself, and text that is not valid UTF-8.
BadRows  == {Row(2, ann, ann, TRUE), Row(3, bob, ann, FALSE)}
AllRows  == GoodRows \cup BadRows

Tables(version, objects, users, rows) ==
  [t \in Atomic!Table |->
     CASE t = "user_version" -> {version}
       [] t = "objects"      -> objects
       [] t = "users"        -> users
       [] t = "messages"     -> rows
       [] OTHER              -> {}]

Both == {ann, bob}

NewFile == {Tables(0, {}, {}, {})}

OwnFiles ==
  {Tables(0, {}, {}, {}),
   Tables(0, Atomic!LegacyObjects, Both, GoodRows),
   Tables(0, Atomic!LegacyObjects, {ann}, {Row(1, ann, bob, TRUE)}),
   Tables(0, Atomic!LegacyObjects, Both, {Row(1, ann, bob, TRUE)} \cup BadRows),
   Tables(1, Atomic!VersionOneObjects, Both, GoodRows),
   Tables(2, Atomic!VersionTwoObjects \cup {"other"}, Both, {})}

ForeignFiles ==
  {Tables(0, {"users", "other"}, {ann}, {}),
   Tables(1, Atomic!VersionOneObjects \ {"idx_message_history_sender"},
          {ann}, {}),
   Tables(1, Atomic!VersionOneObjects \cup {"contacts"}, {ann}, {}),
   Tables(2, Atomic!CurrentObjects, {ann}, {}),
   Tables(4, Atomic!CurrentObjects, {ann}, {})}

AllFiles == OwnFiles \cup ForeignFiles

Users  == Both
Groups == {club}
CurrentFile == {Tables(3, Atomic!CurrentObjects, {ann}, {})}
AnyFile == AllFiles \cup CurrentFile
=============================================================================
