----------------------------- MODULE TerminalUi -----------------------------
(***************************************************************************)
(* The user interface of the client: the loop of the main thread, its      *)
(* stack of screens, the one request it may have pending, the names of     *)
(* groups it asks for by itself, and the receiver thread that hands it     *)
(* messages and responses.                                                 *)
(*                                                                         *)
(* The server is what the requests in this module get from it: one answer  *)
(* to each, and messages at any moment.  Text fields, drafts, status lines *)
(* and layout are left out: what the user types is a choice of the model.  *)
(***************************************************************************)
EXTENDS MessageBuffer, Sequences, SequencesExt

CONSTANTS
  Private,         \* the user names there are private chats with
  Group,           \* group ids, a set of positive integers
  GroupKey,        \* the ConversationKey of a group id
  Broadcast,       \* the ConversationKey of the broadcast
  Own,             \* the fate of an id accepted from this user
  Setting,         \* bound of the model: the settings explored, see below
  MaxScreenDepth,  \* 8 in the code
  MaxNameEntries,  \* 2048
  PageLimit        \* 50

ScreenKind ==
  {"Main", "Messages", "Groups", "Contacts", "ContactList", "GroupList",
   "UserSearchInput", "UserSearchResults", "UserActions",
   "GroupSearchInput", "GroupSearchResults", "GroupActions",
   "PrivateTargetInput", "ContactAddInput", "GroupCreateInput",
   "GroupJoinInput", "History", "Notifications", "Conversation"}

ASSUME UiAssumption ==
  /\ Private \subseteq Key
  /\ Group \subseteq Nat \ {0} /\ IsFiniteSet(Group)
  /\ GroupKey \in [Group -> Key]
  /\ Broadcast \in Key
  /\ Own \notin Key \cup {NoKey}
  /\ \A s \in Setting :
       /\ s.visited \subseteq ScreenKind
       /\ s.sizes \subseteq {"fits", "small"} /\ s.sizes # {}
       /\ s.invalid \in BOOLEAN
       /\ s.members \subseteq Group
       /\ s.ids \subseteq Id
  \* No way through the menus opens more than seven screens.
  /\ MaxScreenDepth \in Nat /\ MaxScreenDepth >= 7
  /\ MaxNameEntries \in Nat \ {0}
  /\ PageLimit \in Nat \ {0}

VARIABLES
  \* The main thread.
  pc,         \* its place in the loop of run
  screens,    \* the stack of screens, the current one last
  pending,    \* pendingOperation
  submitted,  \* submittedKey
  follow,     \* the conversations whose followLatest is set
  small,      \* lastScreenTooSmall
  dirty,
  exiting,    \* exitRequested
  uncertain,  \* uncertainAcceptance
  snap,       \* the snapshot taken for this turn of the loop
  names,      \* the ids in groupNames, least recently used first
  attempted,  \* attemptedGroupNames
  bootstrap,  \* bootstrapActive, bootstrapCursor, bootstrapExamined
  \* Shared with the receiver thread, besides the buffer.
  expected,   \* expectedOperation
  response,   \* pendingResponse
  changed,    \* the buffer's version is not that of the last snapshot
  work,       \* ConsoleInput has been notified of work
  reason,     \* why requestStop was called, "" while it was not
  \* The server, as far as it concerns this client.
  asked,      \* the request it has not answered yet
  member,     \* the groups the user is a member of
  fate,       \* what became of each message id
  \* History.
  presented,  \* the ids in the snapshots presented
  doubt,      \* a message was perhaps written and its outcome not learned
  refused,    \* the operation the user was told to press Enter again for
  \* The setting of this behaviour, which no step changes.
  setting

loopVars   == <<pc, dirty, small, exiting, snap>>
screenVars == <<screens, follow>>
opVars     == <<pending, submitted, uncertain, expected, response, asked>>
nameVars   == <<names, attempted, bootstrap>>
serverVars == <<member, fate>>
pastVars   == <<presented, doubt, refused, setting>>
vars == <<loopVars, screenVars, opVars, nameVars, serverVars, pastVars,
          changed, work, reason, bufferVars>>

\* The kinds of screen the user opens, the sizes the terminal takes, and
\* whether the server may send what this client refuses.  A setting also has
\* the groups the user is a member of at log-in and the ids of the messages
\* accepted in it.
Visited        == setting.visited
Sizes          == setting.sizes
InvalidAnswers == setting.invalid

ResultKinds == {"ContactList", "GroupList", "UserSearchResults",
                "GroupSearchResults", "History"}
FormKinds   == {"PrivateTargetInput", "ContactAddInput", "GroupCreateInput",
                "GroupJoinInput", "UserSearchInput", "GroupSearchInput"}
ActionKinds == {"UserActions", "GroupActions"}

\* What a page holds: the keys listed, those among them that are contacts or
\* groups of the user, and has_more.
Page(keys, mine, more) == [keys |-> keys, mine |-> mine, more |-> more]
Blank == Page({}, {}, FALSE)

\* A screen: its conversation or its selected record, whether that record is
\* a contact or a group of the user, and its page of results.
Screen(kind, k, mine) ==
  [kind |-> kind, key |-> k, mine |-> mine, hasPage |-> FALSE, page |-> Blank]
Plain(kind) == Screen(kind, NoKey, FALSE)

Top == Last(screens)
Depth == Len(screens)

Operation(purpose, name, origin, target) ==
  [purpose |-> purpose, name |-> name, origin |-> origin, target |-> target]
Foreground(name, target) == Operation("Foreground", name, Top.kind, target)
NoOperation == Operation("none", "", "Main", 0)
Reply(result, i, page) == [result |-> result, id |-> i, page |-> page]
NoResponse  == Reply("none", 0, Blank)

Waiting  == pending.purpose = "Foreground"
Naming   == pending.purpose \in {"NameBootstrap", "NameLookup"}
Stopping == reason # ""

GroupOf(k)   == CHOOSE g \in Group : GroupKey[g] = k
IsGroup(k)   == \E g \in Group : GroupKey[g] = k
Pinned       == {g \in Group : GroupKey[g] \in Open}
Named        == ToSet(names)
MessageName(k) == IF k \in Private THEN "PRIVATE"
                  ELSE IF IsGroup(k) THEN "GROUP" ELSE "BROADCAST"

Init ==
  /\ BufferInit
  /\ pc        = "consume"
  /\ screens   = <<Plain("Main")>>
  /\ pending   = NoOperation
  /\ submitted = NoKey
  /\ follow    = {}
  /\ small     = FALSE
  /\ dirty     = TRUE
  /\ exiting   = FALSE
  /\ uncertain = FALSE
  /\ snap      = [ids |-> {}, through |-> 0]
  /\ names     = <<>>
  /\ attempted = {}
  /\ bootstrap = [active |-> TRUE, cursor |-> 0, examined |-> 0]
  /\ expected  = ""
  /\ response  = NoResponse
  /\ changed   = TRUE
  /\ work      = FALSE
  /\ reason    = ""
  /\ asked     = NoOperation
  /\ setting \in Setting
  /\ member    = setting.members
  /\ fate      = [i \in Id |-> NoKey]
  /\ presented = {}
  /\ doubt     = FALSE
  /\ refused   = NoOperation

-----------------------------------------------------------------------------
(* Pieces the actions share.                                               *)

\* requestStop: the first reason counts; it wakes the main thread.
Stop(why) == reason' = IF Stopping THEN reason ELSE why

Go(place) == /\ pc' = place
             /\ UNCHANGED <<snap, small>>

\* A buffer operation that changed it also raised its version.
Touch == changed' = TRUE

\* push: the new stack, or the old one and the end of the client.
Push(s) ==
  IF Depth >= MaxScreenDepth
    THEN Stop("depth") /\ UNCHANGED screens
    ELSE screens' = Append(screens, s) /\ UNCHANGED reason

\* back, as the new stack.
Back ==
  IF Top.kind = "UserSearchResults"
    THEN [screens EXCEPT ![Depth].kind = "UserSearchInput",
                         ![Depth].hasPage = FALSE]
  ELSE IF Top.kind = "GroupSearchResults"
    THEN [screens EXCEPT ![Depth].kind = "GroupSearchInput",
                         ![Depth].hasPage = FALSE]
  ELSE IF Depth > 1 THEN Front(screens) ELSE screens

\* cacheGroupName: a name is added or used again; one that no conversation
\* needs makes room.  (The limit on the bytes of names is left out: the names
\* of the server's groups reach it after the limit on entries.)
Evictable(known, pins) == {n \in DOMAIN known : known[n] \notin pins}
Entry(known, g)        == CHOOSE n \in DOMAIN known : known[n] = g

Cached(known, g, pins) ==
  IF g \in ToSet(known) THEN Append(RemoveAt(known, Entry(known, g)), g)
  ELSE IF Len(known) < MaxNameEntries THEN Append(known, g)
  ELSE IF Evictable(known, pins) = {} THEN known
  ELSE Append(RemoveAt(known, Min(Evictable(known, pins))), g)

\* The groups of a page, by their ids, as a page has them.
CachedAll(known, gs, pins) ==
  MapThenFoldSet(LAMBDA g, sofar : Cached(sofar, g, pins), known,
                 LAMBDA g : g, LAMBDA hs : Max(hs), gs)

\* sendJson for the request of op, which is pending now: written, or the
\* client stops; a request that was cut off may have reached the server.
Written(op) == ~Stopping /\ asked' = op /\ UNCHANGED reason
WriteFails  == Stop("write") /\ UNCHANGED asked

\* beginOperation, when no request is pending and when one is.  The user is
\* told to press Enter again for a refused operation.
Begin(op) ==
  /\ pending = NoOperation
  /\ IF expected # "" \/ response # NoResponse
       THEN /\ Stop("inconsistent")
            /\ UNCHANGED <<pending, expected, asked, exiting>>
       ELSE \/ /\ Written(op)
               /\ pending' = op
               /\ expected' = op.name
               /\ UNCHANGED exiting
            \/ /\ WriteFails
               /\ exiting' = TRUE
               /\ UNCHANGED <<pending, expected>>

Refuse(op) ==
  /\ pending # NoOperation
  /\ refused' = op
  /\ UNCHANGED <<pending, expected, asked, reason, exiting>>

BeginOperation(op) == Refuse(op) \/ (Begin(op) /\ refused' = NoOperation)
-----------------------------------------------------------------------------
(* The top of the loop: a response is consumed, then the screen rendered.  *)

\* clearOperation, and the end of consumeResponse.
ClearOperation ==
  /\ pending' = NoOperation
  /\ expected' = ""
  /\ response' = NoResponse

Consuming == pc = "consume" /\ ~exiting
Applying(result) ==
  /\ Consuming
  /\ response.result = result
  /\ pending # NoOperation
  /\ ClearOperation
  /\ dirty' = TRUE
  /\ Go("look")
  /\ UNCHANGED <<exiting, follow, uncertain, asked, serverVars, presented,
                 refused, setting, work>>

\* The screen a response is for: the current one, or the one below it when
\* the user looks at the notifications.
Target == IF Top.kind = "Notifications" /\ Depth >= 2 THEN Depth - 1 ELSE Depth

LeaveLoop ==
  /\ pc = "consume"
  /\ exiting
  /\ Go("leave")
  /\ UNCHANGED <<dirty, exiting, screenVars, opVars, nameVars, serverVars,
                 pastVars, changed, work, reason, bufferVars>>

NothingToConsume ==
  /\ Consuming
  /\ response = NoResponse \/ pending = NoOperation
  /\ IF response = NoResponse THEN UNCHANGED reason ELSE Stop("context")
  /\ Go("look")
  /\ UNCHANGED <<dirty, exiting, screenVars, opVars, nameVars, serverVars,
                 pastVars, changed, work, bufferVars>>

\* Variant: the place of the refused message is kept.
ApplyFailureKeepsPlace ==
  /\ Waiting
  /\ Applying("fail")
  /\ doubt' = IF submitted = NoKey THEN doubt ELSE FALSE
  /\ submitted' = NoKey
  /\ UNCHANGED <<screens, nameVars, reason, changed, bufferVars>>

\* A FAIL: a submitted message gives its place back.
ApplyFailure ==
  /\ Waiting
  /\ Applying("fail")
  /\ IF submitted = NoKey
       THEN UNCHANGED <<bufferVars, changed, doubt>>
       ELSE CancelOutgoing /\ Touch /\ doubt' = FALSE
  /\ submitted' = NoKey
  /\ UNCHANGED <<screens, nameVars, reason>>

\* A SUCCESS that lacks what its operation promises.
ApplyMisshapen ==
  /\ Applying("misshapen")
  /\ Stop("invalid")
  /\ UNCHANGED <<screens, submitted, nameVars, doubt, changed, bufferVars>>

ApplyAcceptance ==
  /\ Waiting /\ pending.origin = "Conversation" /\ submitted # NoKey
  /\ Applying("ok")
  /\ IF MayCommit(response.id)
       THEN /\ CommitOutgoing(response.id)
            /\ Touch
            /\ submitted' = NoKey
            /\ doubt' = FALSE
            /\ UNCHANGED reason
       ELSE /\ Stop("invalid")
            /\ UNCHANGED <<bufferVars, changed, submitted, doubt>>
  /\ UNCHANGED <<screens, nameVars>>

\* The other responses: of the screen they were asked from, or invalid.
ApplyToScreen(newScreens, newNames, newAttempted) ==
  /\ Applying("ok")
  /\ IF screens[Target].kind = pending.origin
       THEN /\ screens' = newScreens
            /\ names' = newNames
            /\ attempted' = newAttempted
            /\ UNCHANGED reason
       ELSE Stop("invalid") /\ UNCHANGED <<screens, names, attempted>>
  /\ UNCHANGED <<bootstrap, submitted, doubt, changed, bufferVars>>

GroupsOn(page) == {g \in Group : GroupKey[g] \in page.keys}

AsResults(kind) == IF kind = "UserSearchInput" THEN "UserSearchResults"
                   ELSE IF kind = "GroupSearchInput" THEN "GroupSearchResults"
                   ELSE kind

ApplyPage ==
  /\ Waiting
  /\ pending.name \in {"CONTACT_LIST", "USER_SEARCH", "GROUP_LIST",
                       "GROUP_SEARCH", "HISTORY"}
  /\ ApplyToScreen([screens EXCEPT ![Target].kind = AsResults(@),
                                   ![Target].page = response.page,
                                   ![Target].hasPage = TRUE],
                   CachedAll(names, GroupsOn(response.page), Pinned),
                   attempted)

\* The screen of an action stays and shows the new state of its record; the
\* form of an action is done.
ActedOn == IF screens[Target].kind \in ActionKinds
             THEN [screens EXCEPT ![Target].mine = TRUE]
             ELSE RemoveAt(screens, Target)

ApplyContactAdd ==
  /\ Waiting /\ pending.name = "CONTACT_ADD"
  /\ ApplyToScreen(ActedOn, names, attempted)

ApplyGroupCreate ==
  /\ Waiting /\ pending.name = "GROUP_CREATE"
  /\ ApplyToScreen(RemoveAt(screens, Target),
                   Cached(names, response.id, Pinned), attempted)

ApplyGroupJoin ==
  /\ Waiting /\ pending.name = "GROUP_JOIN"
  /\ ApplyToScreen(ActedOn, names, attempted \ {response.id})

\* Variant: the walk through the user's groups goes on past the last page.
BootstrapOnAndOn(found, more) ==
  LET examined == bootstrap.examined + Cardinality(found) IN
  [active   |-> examined < MaxNameEntries,
   cursor   |-> IF found = {} THEN bootstrap.cursor ELSE Max(found),
   examined |-> examined]

\* The walk through the user's groups after a page of it.
BootstrapAfter(found, more) ==
  LET examined == bootstrap.examined + Cardinality(found) IN
  [active   |-> more /\ found # {} /\ examined < MaxNameEntries,
   cursor   |-> IF found = {} THEN bootstrap.cursor ELSE Max(found),
   examined |-> examined]

\* applyNameResponse.
ApplyNames ==
  /\ Naming
  /\ \/ /\ Applying("fail")
        /\ bootstrap' = [bootstrap EXCEPT !.active =
                           @ /\ pending.purpose # "NameBootstrap"]
        /\ UNCHANGED names
     \/ /\ Applying("ok")
        /\ LET found == GroupsOn(response.page) IN
              /\ names' = CachedAll(names, found, Pinned)
              /\ bootstrap' = IF pending.purpose = "NameLookup" THEN bootstrap
                              ELSE BootstrapAfter(found, response.page.more)
  /\ UNCHANGED <<screens, submitted, attempted, doubt, changed, reason,
                 bufferVars>>

Showing == IF Top.kind = "Conversation" THEN Top.key ELSE NoKey

\* The test for a stop, the snapshot and the size of the terminal.
Look ==
  /\ pc = "look"
  /\ IF Stopping
       THEN pc' = "leave" /\ UNCHANGED <<snap, small, changed>>
       ELSE \E size \in Sizes :
              /\ small' = (size = "small")
              /\ pc' = IF dirty \/ changed \/ small' # small
                         THEN "present" ELSE "flush"
              /\ snap' = [ids |-> MessagesOf(Showing),
                          through |-> MaximumArrival(Showing)]
              /\ changed' = FALSE
  /\ UNCHANGED <<dirty, exiting, screenVars, opVars, nameVars, serverVars,
                 pastVars, work, reason, bufferVars>>

\* What the second rendering shows once the first made messages viewed.
Rendered ==
  IF small THEN {}
  ELSE snap.ids \cup (IF bufferVars' # bufferVars THEN MessagesOf(Showing)
                                                 ELSE {})

\* Variant: what has arrived by now is viewed, whatever the snapshot held.
PresentMarksLatest ==
  /\ pc = "present"
  /\ Go("flush")
  /\ dirty' = FALSE
  /\ follow' \in {follow} \cup
       (IF Showing # NoKey /\ ~small THEN {follow \cup {Showing}} ELSE {})
  /\ IF /\ ~small
        /\ Showing \in follow'
        /\ \E n \in Unread(Showing) : n <= MaximumArrival(Showing)
       THEN MarkViewed(Showing, MaximumArrival(Showing)) /\ changed' = FALSE
       ELSE UNCHANGED <<bufferVars, changed>>
  /\ presented' = presented \cup (IF small THEN {} ELSE snap.ids)
  /\ UNCHANGED <<exiting, screens, opVars, nameVars, serverVars, doubt,
                 refused, setting, work, reason>>

\* The screen is presented; a conversation that follows its latest message,
\* or was scrolled down to it, has what the snapshot held viewed, and is
\* then rendered again.
Present ==
  /\ pc = "present"
  /\ Go("flush")
  /\ dirty' = FALSE
  /\ follow' \in {follow} \cup
       (IF Showing # NoKey /\ ~small THEN {follow \cup {Showing}} ELSE {})
  /\ IF /\ ~small
        /\ Showing \in follow'
        /\ \E n \in Unread(Showing) : n <= snap.through
       THEN MarkViewed(Showing, snap.through) /\ changed' = FALSE
       ELSE UNCHANGED <<bufferVars, changed>>
  /\ presented' = presented \cup Rendered
  /\ UNCHANGED <<exiting, screens, opVars, nameVars, serverVars, doubt,
                 refused, setting, work, reason>>

\* flushAutomaticRequests: an acknowledgement or a page request, if any.
Flush ==
  /\ pc = "flush"
  /\ \/ ~Stopping /\ Go("names") /\ UNCHANGED reason
     \/ Stop("write") /\ Go("leave")
  /\ UNCHANGED <<dirty, exiting, screenVars, opVars, nameVars, serverVars,
                 pastVars, changed, work, bufferVars>>

-----------------------------------------------------------------------------
(* Names of groups the client asks for by itself.                          *)

UnknownGroups == (Pinned \ Named) \ attempted

LookUp(g)    == Operation("NameLookup", "GROUP_LIST", Top.kind, g - 1)
NextNames    == Operation("NameBootstrap", "GROUP_LIST", Top.kind,
                          bootstrap.cursor)

ScheduleNameWork ==
  /\ pc = "names"
  /\ Go("read")
  /\ IF pending # NoOperation \/ Stopping \/
        (UnknownGroups = {} /\ ~bootstrap.active)
       THEN UNCHANGED <<opVars, attempted, exiting, reason>>
       ELSE /\ IF UnknownGroups # {}
                 THEN /\ attempted' = attempted \cup {Min(UnknownGroups)}
                      /\ Begin(LookUp(Min(UnknownGroups)))
                 ELSE /\ Begin(NextNames)
                      /\ UNCHANGED attempted
            /\ UNCHANGED <<submitted, uncertain, response>>
  /\ UNCHANGED <<dirty, screenVars, names, bootstrap, serverVars, pastVars,
                 changed, work, bufferVars>>


-----------------------------------------------------------------------------
(* Events: readEvent returns, and processEvent acts on what it returned.   *)

TakeWork ==
  /\ pc = "read"
  /\ work
  /\ work' = FALSE
  /\ dirty' = TRUE
  /\ Go("consume")
  /\ UNCHANGED <<exiting, screenVars, opVars, nameVars, serverVars, pastVars,
                 changed, reason, bufferVars>>

\* A resize, a key that edits text, and an Enter or a choice that is refused
\* with a word: the screen is drawn again.
Redraw ==
  /\ pc = "read"
  /\ dirty' = TRUE
  /\ Go("consume")
  /\ UNCHANGED <<exiting, screenVars, opVars, nameVars, serverVars, pastVars,
                 changed, work, reason, bufferVars>>

\* The interruption by requestStop, the end of the input, the exit key, and
\* the last choice of the main menu.
Exit ==
  /\ pc = "read"
  /\ exiting' = TRUE
  /\ dirty' = TRUE
  /\ Go("consume")
  /\ UNCHANGED <<screenVars, opVars, nameVars, serverVars, pastVars, changed,
                 work, reason, bufferVars>>

\* Variant: a wait for the server's answer is not interrupted.
InterruptedWhenIdle == Stopping /\ ~Waiting /\ Exit

Interrupted == Stopping /\ Exit
UserExits   == Exit

\* A key is looked at unless the screen was last shown too small.
Keyed ==
  /\ pc = "read"
  /\ ~small
  /\ dirty' = TRUE
  /\ UNCHANGED <<snap, small, work, serverVars, presented, setting, bootstrap,
                 response>>

\* What a key that asks the server nothing leaves alone.
NoRequest == UNCHANGED <<exiting, pending, submitted, uncertain, expected,
                         asked, names, attempted, doubt>>

\* Moving on a screen: whatever the user was told to repeat is gone.
Moved == pc' = "consume" /\ refused' = NoOperation

\* PageUp, PageDown and FollowLatest: renderConversation settles where the
\* conversation then is.
Scroll ==
  /\ Keyed
  /\ pc' = "consume"
  /\ Showing # NoKey
  /\ follow' \in {follow \cup {Showing}, follow \ {Showing}}
  /\ NoRequest
  /\ UNCHANGED <<screens, refused, reason, changed, bufferVars>>

\* openNotifications, from any screen and with any request pending.
OpenNotifications ==
  IF \/ Top.kind = "Notifications"
     \/ Depth >= 2 /\ screens[Depth - 1].kind = "Notifications"
    THEN screens' = Back /\ UNCHANGED reason
    ELSE Push(Plain("Notifications"))

NotificationsKey ==
  /\ "Notifications" \in Visited
  /\ Keyed
  /\ Moved
  /\ OpenNotifications
  /\ NoRequest
  /\ UNCHANGED <<follow, changed, bufferVars>>

\* Variant: the user may go back while a request of the screen is out.
GoBackWhileWaiting ==
  /\ Keyed
  /\ Moved
  /\ screens' = Back
  /\ NoRequest
  /\ UNCHANGED <<follow, reason, changed, bufferVars>>

\* Escape, and the choice 0 of the menus and lists.
GoBack ==
  /\ Keyed
  /\ Moved
  /\ ~Waiting \/ Top.kind = "Notifications"
  /\ screens' = Back
  /\ NoRequest
  /\ UNCHANGED <<follow, reason, changed, bufferVars>>

\* Variant: the conversation is left to the first message to open.
OpenConversationLater(k) ==
  /\ Push(Screen("Conversation", k, FALSE))
  /\ follow' = follow \cup {k}
  /\ UNCHANGED <<changed, bufferVars>>

\* openConversation.
OpenConversation(k) ==
  IF MayOpen(k)
    THEN /\ EnsureConversation(k)
         /\ changed' = (changed \/ k \notin Open)
         /\ Push(Screen("Conversation", k, FALSE))
         /\ follow' = follow \cup {k}
    ELSE UNCHANGED <<screens, follow, reason, changed, bufferVars>>

\* Enter does nothing while the user's own request is pending.
Enter ==
  /\ Keyed
  /\ ~Waiting

\* Menu entries that only open a screen, and those that also ask for it.
Opens(kind) ==
  CASE kind = "Main"     -> {"Messages", "Groups", "Contacts"}
    [] kind = "Messages" -> {"PrivateTargetInput"}
    [] kind = "Groups"   -> {"GroupCreateInput", "GroupSearchInput",
                             "GroupJoinInput"}
    [] kind = "Contacts" -> {"ContactAddInput", "UserSearchInput"}
    [] OTHER             -> {}

Lists(kind) ==
  CASE kind = "Main"     -> {"History"}
    [] kind = "Messages" -> {"ContactList", "GroupList"}
    [] kind = "Groups"   -> {"GroupList"}
    [] kind = "Contacts" -> {"ContactList"}
    [] OTHER             -> {}

ListName(kind) ==
  CASE kind = "History"     -> "HISTORY"
    [] kind = "ContactList" -> "CONTACT_LIST"
    [] kind = "GroupList"   -> "GROUP_LIST"
    [] kind \in {"UserSearchInput", "UserSearchResults"}   -> "USER_SEARCH"
    [] kind \in {"GroupSearchInput", "GroupSearchResults"} -> "GROUP_SEARCH"

ChooseScreen ==
  /\ Enter
  /\ Moved
  /\ \/ \E kind \in Opens(Top.kind) \cap Visited : Push(Plain(kind))
     \/ Top.kind = "Main" /\ "Notifications" \in Visited /\ OpenNotifications
  /\ NoRequest
  /\ UNCHANGED <<follow, changed, bufferVars>>

\* The screen is pushed whether or not its request can then begin.
ChooseList ==
  /\ Enter
  /\ pc' = "consume"
  /\ \E kind \in Lists(Top.kind) \cap Visited :
       IF Depth >= MaxScreenDepth
         THEN /\ Stop("depth")
              /\ UNCHANGED <<screens, pending, expected, asked, exiting, refused>>
         ELSE /\ screens' = Append(screens, Plain(kind))
              /\ BeginOperation(Operation("Foreground", ListName(kind), kind, 0))
  /\ UNCHANGED <<follow, submitted, uncertain, names, attempted, doubt, changed,
                 bufferVars>>

\* A conversation opened from a menu, a form, a list of results or a record.
Openable ==
  CASE Top.kind = "Messages"           -> {Broadcast}
    [] Top.kind = "PrivateTargetInput" -> Private
    [] Top.kind \in {"ContactList", "GroupList"} -> Top.page.keys
    [] Top.kind = "UserActions"        -> {Top.key}
    [] Top.kind = "GroupActions"       -> IF Top.mine THEN {Top.key} ELSE {}
    [] OTHER                           -> {}

ChooseConversation ==
  /\ Enter
  /\ Moved
  /\ \E k \in Openable :
       /\ OpenConversation(k)
       /\ names' = IF IsGroup(k) THEN Cached(names, GroupOf(k), Pinned)
                                 ELSE names
  /\ UNCHANGED <<exiting, pending, submitted, uncertain, expected, asked,
                 attempted, doubt>>

\* A notification is chosen by the handle of its conversation, which names
\* one conversation only (HandlesAreUnique).
ChooseNotification ==
  /\ Enter
  /\ Moved
  /\ Top.kind = "Notifications"
  /\ \E k \in Open : conversations[k].unread # {} /\ OpenConversation(k)
  /\ NoRequest

\* A record of a search result.
ChooseRecord ==
  /\ Enter
  /\ Moved
  /\ \E k \in Top.page.keys :
       \/ /\ Top.kind = "UserSearchResults"
          /\ Push(Screen("UserActions", k, k \in Top.page.mine))
       \/ /\ Top.kind = "GroupSearchResults"
          /\ Push(Screen("GroupActions", k, k \in Top.page.mine))
  /\ NoRequest
  /\ UNCHANGED <<follow, changed, bufferVars>>

\* Requests of the current screen: a form, an action on a record, the next
\* page of a list.
FormRequests ==
  CASE Top.kind = "ContactAddInput"  -> {Foreground("CONTACT_ADD", 0)}
    [] Top.kind = "GroupCreateInput" -> {Foreground("GROUP_CREATE", 0)}
    [] Top.kind = "GroupJoinInput"   -> {Foreground("GROUP_JOIN", g) : g \in Group}
    [] Top.kind \in {"UserSearchInput", "GroupSearchInput"}
         -> {Foreground(ListName(Top.kind), 0)}
    [] OTHER -> {}

RecordRequests ==
  CASE Top.kind = "UserActions" /\ ~Top.mine  -> {Foreground("CONTACT_ADD", 0)}
    [] Top.kind = "GroupActions" /\ ~Top.mine
         -> {Foreground("GROUP_JOIN", GroupOf(Top.key))}
    [] OTHER -> {}

LastOn(page) == IF GroupsOn(page) = {} THEN 0 ELSE Max(GroupsOn(page))

PageRequests ==
  IF Top.kind \in ResultKinds /\ Top.hasPage /\ Top.page.more
    THEN {Foreground(ListName(Top.kind), LastOn(Top.page))}
    ELSE {}

AskServer ==
  /\ Enter
  /\ pc' = "consume"
  /\ \E op \in FormRequests \cup RecordRequests \cup PageRequests :
       BeginOperation(op)
  /\ UNCHANGED <<screens, follow, submitted, uncertain, names, attempted, doubt,
                 changed, bufferVars>>

\* A number is entered on a history that has no page yet: reading has_more
\* of a null page throws, and the client unwinds.
ChooseOnBlankHistory ==
  /\ Enter
  /\ Top.kind = "History" /\ ~Top.hasPage
  /\ pc' = "failed"
  /\ NoRequest
  /\ UNCHANGED <<screens, follow, refused, reason, changed, bufferVars>>

\* submitConversation: the place of the message first, then its request.
SubmitConversation ==
  /\ Enter
  /\ Top.kind = "Conversation"
  /\ IF reserved # NoKey
       THEN Stop("reservation") /\ pc' = "consume"
            /\ UNCHANGED <<bufferVars, changed, submitted>>
       ELSE IF ~MayReserve(Top.key)
       THEN pc' = "consume" /\ UNCHANGED <<bufferVars, changed, submitted, reason>>
       ELSE /\ ReserveOutgoing(Top.key)
            /\ Touch
            /\ submitted' = Top.key
            /\ pc' = "submit"
            /\ UNCHANGED reason
  /\ UNCHANGED <<screens, follow, pending, uncertain, expected, asked, names,
                 attempted, exiting, doubt, refused>>

SubmitRequest ==
  /\ pc = "submit"
  /\ BeginOperation(Foreground(MessageName(submitted), 0))
  /\ IF pending' # NoOperation /\ pending = NoOperation
       THEN /\ doubt' = TRUE
            /\ UNCHANGED <<bufferVars, changed, submitted, uncertain>>
       ELSE /\ CancelOutgoing
            /\ Touch
            /\ submitted' = NoKey
            /\ doubt' = (doubt \/ exiting')
            /\ uncertain' = (uncertain \/ exiting')
  /\ Go("consume")
  /\ UNCHANGED <<dirty, screenVars, nameVars, serverVars, presented, setting,
                 response, work>>

\* Variant: the end of run takes the place back and says nothing.
LeaveRunQuietly ==
  /\ pc = "leave"
  /\ Go("done")
  /\ IF pending # NoOperation /\ submitted # NoKey
       THEN CancelOutgoing /\ Touch
       ELSE UNCHANGED <<bufferVars, changed>>
  /\ UNCHANGED <<dirty, exiting, screenVars, pending, submitted, uncertain,
                 expected, response, asked, nameVars, serverVars, pastVars, work,
                 reason>>

\* The end of run.
LeaveRun ==
  /\ pc = "leave"
  /\ Go("done")
  /\ IF pending # NoOperation /\ submitted # NoKey
       THEN uncertain' = TRUE /\ CancelOutgoing /\ Touch
       ELSE UNCHANGED <<uncertain, bufferVars, changed>>
  /\ UNCHANGED <<dirty, exiting, screenVars, pending, submitted, expected,
                 response, asked, nameVars, serverVars, pastVars, work, reason>>


-----------------------------------------------------------------------------
(* The receiver thread hands over what the server sends, until it is       *)
(* joined after run.                                                       *)

Receiving == pc \notin {"done", "failed"}

Received ==
  UNCHANGED <<loopVars, screenVars, pending, submitted, uncertain, expected,
              nameVars, pastVars>>

\* Bound of the model: ids are taken in the order they are first seen, since
\* the client never compares two of them.
Usable == {i \in setting.ids : \A j \in setting.ids : j < i => fate[j] # NoKey}

\* Variant: a stored message does not wake the main thread.
ReceiveMessageQuietly(i, k) ==
  /\ Receiving
  /\ i \in Usable
  /\ fate[i] \in {NoKey, k}
  /\ IsGroup(k) => GroupOf(k) \in member
  /\ fate' = [fate EXCEPT ![i] = k]
  /\ \/ StoreIncoming(i, k) /\ Touch
     \/ ReceiveResult(i, k) = "Duplicate" /\ UNCHANGED <<bufferVars, changed>>
  /\ Received
  /\ UNCHANGED <<response, asked, member, work, reason>>

\* handleFrame with a MESSAGE: one this user may be sent, once or again.
ReceiveMessage(i, k) ==
  /\ Receiving
  /\ i \in Usable
  /\ fate[i] \in {NoKey, k}
  /\ IsGroup(k) => GroupOf(k) \in member
  /\ fate' = [fate EXCEPT ![i] = k]
  /\ \/ /\ StoreIncoming(i, k)
        /\ Touch
        /\ work' = TRUE
        /\ UNCHANGED reason
     \/ /\ ReceiveResult(i, k) = "Duplicate"
        /\ UNCHANGED <<bufferVars, changed, work, reason>>
     \/ /\ ReceiveResult(i, k) \in {"CapacityExceeded", "Conflict"}
        /\ Stop(ReceiveResult(i, k))
        /\ work' = TRUE
        /\ UNCHANGED <<bufferVars, changed>>
  /\ Received
  /\ UNCHANGED <<response, asked, member>>

\* Variant: an answer that is kept does not wake the main thread.
AssociateQuietly(reply, matches) ==
  /\ IF expected # "" /\ response = NoResponse /\ matches
       THEN response' = reply /\ UNCHANGED reason
       ELSE Stop("association") /\ UNCHANGED response
  /\ Received
  /\ UNCHANGED <<work, changed, bufferVars>>

\* handleFrame with a response: it must be the one answer to the request
\* that is out.
Associate(reply, matches) ==
  /\ IF expected # "" /\ response = NoResponse /\ matches
       THEN response' = reply /\ UNCHANGED reason
       ELSE Stop("association") /\ UNCHANGED response
  /\ work' = TRUE
  /\ Received
  /\ UNCHANGED <<changed, bufferVars>>

\* The server's half: processMessages sends one answer to each request it
\* reads. The actions over-approximate it: any request may fail, and a page
\* may hold any rows the server could send.
Answered == Receiving /\ asked # NoOperation /\ asked' = NoOperation

Answer(reply) == Answered /\ Associate(reply, TRUE)

AnswerFail == Answer(Reply("fail", 0, Blank)) /\ UNCHANGED serverVars

AcceptMessage ==
  /\ asked.origin = "Conversation" /\ asked.purpose = "Foreground"
  /\ \E i \in Usable :
       /\ fate[i] = NoKey
       /\ fate' = [fate EXCEPT ![i] = Own]
       /\ Answer(Reply("ok", i, Blank))
  /\ UNCHANGED member

\* A page of the user's groups.
FirstGroups(gs, n) == {g \in gs : Cardinality({h \in gs : h <= g}) <= n}
GroupPage(after, limit) ==
  LET left == {g \in member : g > after}
      keys == {GroupKey[g] : g \in FirstGroups(left, limit)}
  IN Page(keys, keys, left # FirstGroups(left, limit))

ListGroups ==
  /\ asked.name = "GROUP_LIST"
  /\ Answer(Reply("ok", 0, GroupPage(asked.target,
                     IF asked.purpose = "NameLookup" THEN 1 ELSE PageLimit)))
  /\ UNCHANGED serverVars

\* A page of contacts, users, groups or history, whatever it holds.
GroupKeysOf(gs) == {GroupKey[g] : g \in gs}

OtherPages ==
  CASE asked.name \in {"CONTACT_LIST", "USER_SEARCH"} ->
         {page \in [keys : SUBSET Private, mine : SUBSET Private, more : BOOLEAN] :
            page.mine \subseteq page.keys /\ (page.more => page.keys # {})}
    [] asked.name = "GROUP_SEARCH" ->
         {Page(GroupKeysOf(gs), GroupKeysOf(gs \cap member), gs # {} /\ more) :
            gs \in SUBSET Group, more \in BOOLEAN}
    [] asked.name = "HISTORY" -> {Page({}, {}, more) : more \in BOOLEAN}
    [] OTHER -> {}

SendPage ==
  /\ \E page \in OtherPages : Answer(Reply("ok", 0, page))
  /\ UNCHANGED serverVars

AddContact ==
  /\ asked.name = "CONTACT_ADD"
  /\ Answer(Reply("ok", 0, Blank))
  /\ UNCHANGED serverVars

CreateGroup ==
  /\ asked.name = "GROUP_CREATE"
  /\ \E g \in Group \ member :
       /\ member' = member \cup {g}
       /\ Answer(Reply("ok", g, Blank))
  /\ UNCHANGED fate

JoinGroup ==
  /\ asked.name = "GROUP_JOIN"
  /\ member' = member \cup {asked.target}
  /\ Answer(Reply("ok", asked.target, Blank))
  /\ UNCHANGED fate

\* An answer of the wrong shape, or to another operation than was asked, which
\* only a faulty server sends.
AnswerInvalid ==
  /\ InvalidAnswers
  /\ Answered
  /\ \E matches \in BOOLEAN : Associate(Reply("misshapen", 0, Blank), matches)
  /\ UNCHANGED serverVars

\* The server or the wire is gone, or a frame the client ends for.
ConnectionLost ==
  /\ Receiving
  /\ Stop("lost")
  /\ Received
  /\ UNCHANGED <<response, asked, serverVars, changed, work, bufferVars>>

-----------------------------------------------------------------------------

Apply ==
  \/ ApplyFailure \/ ApplyMisshapen \/ ApplyAcceptance \/ ApplyPage
  \/ ApplyContactAdd \/ ApplyGroupCreate \/ ApplyGroupJoin \/ ApplyNames

Turn ==
  \/ LeaveLoop \/ NothingToConsume \/ Apply \/ Look \/ Present \/ Flush
  \/ ScheduleNameWork \/ TakeWork \/ Interrupted \/ SubmitRequest \/ LeaveRun

User ==
  \/ Redraw \/ UserExits \/ Scroll \/ NotificationsKey \/ GoBack
  \/ ChooseScreen \/ ChooseList \/ ChooseConversation
  \/ ChooseNotification \/ ChooseRecord \/ AskServer \/ ChooseOnBlankHistory
  \/ SubmitConversation

Serve ==
  \/ AnswerFail \/ AcceptMessage \/ ListGroups \/ SendPage \/ AddContact
  \/ CreateGroup \/ JoinGroup \/ AnswerInvalid

Next ==
  \/ Turn \/ User \/ Serve \/ ConnectionLost
  \/ \E i \in Id, k \in Key : ReceiveMessage(i, k)

Spec == Init /\ [][Next]_vars

\* The main thread runs, and the server answers what it is asked while the
\* receiver still reads.  The user and the wire owe nothing.
FairSpec == Spec /\ WF_vars(Turn) /\ WF_vars(~Stopping /\ Serve)

-----------------------------------------------------------------------------
(* Types.                                                                  *)

TypeOK ==
  /\ BufferTypeOK
  /\ pc \in {"consume", "look", "present", "flush", "names", "read", "submit",
             "leave", "done", "failed"}
  /\ \A n \in DOMAIN screens :
       /\ screens[n].kind \in ScreenKind
       /\ screens[n].key \in Key \cup {NoKey}
       /\ screens[n].page.keys \subseteq Key
  /\ pending.purpose \in {"none", "Foreground", "NameBootstrap", "NameLookup"}
  /\ submitted \in Key \cup {NoKey}
  /\ follow \subseteq Key
  /\ Named \subseteq Group /\ IsInjective(names)
  /\ attempted \subseteq Group
  /\ member \subseteq Group
  /\ fate \in [Id -> Key \cup {NoKey, Own}]
  /\ presented \subseteq Id
  /\ setting \in Setting
  /\ {dirty, small, exiting, uncertain, changed, work, doubt} \subseteq BOOLEAN


-----------------------------------------------------------------------------
(* What the user can rely on.                                              *)

\* A client whose server answers each request once and correctly is never
\* ended by its own checks: no response is found to belong to nothing or to
\* another screen, no message conflicts, no stack of screens is too deep,
\* whatever the user does while the request is out.
ChecksNeverMisfire ==
  ~InvalidAnswers =>
    reason \in {"", "lost", "write", "CapacityExceeded"}

\* The operation the main thread waits for, the one the receiver expects and
\* the request the server has are the same one, and a place in the buffer is
\* reserved exactly while the user's message waits for its answer.
OneOperation ==
  /\ expected = pending.name
  /\ response # NoResponse => pending # NoOperation /\ asked = NoOperation
  /\ asked # NoOperation => asked = pending
  /\ reserved # NoKey => reserved = submitted
  /\ pc = "read" /\ ~Stopping =>
       (reserved # NoKey <=> Waiting /\ pending.origin = "Conversation")

\* A message leaves the unread ones only after the snapshot of a presented
\* screen had it: the receiver may file one between the snapshot and
\* markViewed. Presented means in that snapshot; which of its rows fit on the
\* screen is layout, and markViewed does not ask for it either.
ViewedWasPresented ==
  \A i \in DOMAIN messagesById :
    \/ messagesById[i].outgoing
    \/ messagesById[i].arrival \in Unread(messagesById[i].key)
    \/ i \in presented

\* When the client ends without having learned what became of a message it
\* may have written, the summary says so.  (A response of the wrong shape is
\* the exception: applyForegroundResponse then clears the operation and leaves
\* the submission behind, which the end of run no longer looks at.)
UncertaintyIsReported ==
  pc = "done" /\ doubt =>
    \/ uncertain
    \/ InvalidAnswers /\ submitted # NoKey /\ pending = NoOperation

\* An operation refused because a request is finishing can be had by pressing
\* Enter again once it has finished ("A request is finishing; press Enter
\* again when ready").
Available ==
  UNION {FormRequests, RecordRequests, PageRequests}
  \cup {Operation("Foreground", ListName(kind), kind, 0) :
          kind \in Lists(Top.kind)}
  \cup (IF Top.kind = "Conversation"
          THEN {Foreground(MessageName(Top.key), 0)} ELSE {})

EnterAgainWorks ==
  pc = "read" /\ pending = NoOperation /\ refused # NoOperation
    => refused \in Available

Ended == pc \in {"done", "failed"}

\* Every request of the user is settled: answered, or the client ends.
RequestsSettle == Waiting ~> (~Waiting \/ Ended)

\* The client's own requests for names come to an end: again and again the
\* main thread waits for a key with the connection free for the user.
NamesYield == []<>((pc = "read" /\ ~Naming) \/ Ended)

\* A message filed in the conversation on the screen is viewed without any
\* key, unless the user leaves it, scrolls up, or the screen is too small.
ShownIsViewed ==
  \A k \in Key : \A n \in Id :
    (n \in Unread(k)) /\ Showing = k /\ k \in follow
      ~> \/ n \notin Unread(k) \/ Showing # k \/ k \notin follow
         \/ small \/ Ended

\* A client told to stop leaves its loop, also while the main thread waits.
StopEnds == Stopping ~> Ended
=============================================================================
