------------------------- MODULE TerminalUi_proofs --------------------------
(***************************************************************************)
(* Every safety property of the user interface, from one inductive         *)
(* invariant.  Its parts:                                                  *)
(*                                                                         *)
(*   BufferSound   the buffer is within its limits, its counters are right *)
(*   Stacked       each screen is at most as deep as its level, and only a *)
(*                 conversation lies on the notifications, at the top      *)
(*   ShownExists   what a screen shows or has selected exists              *)
(*   AskedFrom...  the user's pending request finds its screen             *)
(*   Exchange      one request is out at most, and the main thread, the    *)
(*                 receiver and the server agree on it                     *)
(*   Reservation   a place is reserved for the message under way only      *)
(*   Doubted       a doubt is one the end of run will report               *)
(*   Fated         the buffer files an id as the server decided it         *)
(*   Snapped       what arrived by the snapshot's mark is in the snapshot  *)
(*                                                                         *)
(* The depth of the stack needs MaxScreenDepth >= 7 (8 in the code): the   *)
(* deepest way is six levels and the notifications among them.             *)
(***************************************************************************)
EXTENDS TerminalUi, MessageBuffer_proofs, SequenceTheorems

PageSet == [keys : SUBSET Key, mine : SUBSET Key, more : BOOLEAN]

ScreenSet == [kind : ScreenKind, key : Key \cup {NoKey}, mine : BOOLEAN,
              hasPage : BOOLEAN, page : PageSet]

(* The screens.                                                            *)

\* How deep in the menus a kind of screen is opened at most.
Level(kind) ==
  CASE kind = "Main" -> 1
    [] kind \in {"Messages", "Groups", "Contacts"} -> 2
    [] kind \in {"History", "ContactList", "GroupList"} \cup FormKinds
                \cup {"UserSearchResults", "GroupSearchResults"} -> 3
    [] kind \in ActionKinds -> 4
    [] kind = "Conversation" -> 5
    [] OTHER -> 6

OnNotifications(n) == n > 1 /\ screens[n - 1].kind = "Notifications"

\* No way through the menus and the notifications makes the stack deeper
\* than seven: the notifications are opened once, and end in a conversation.
Stacked ==
  /\ screens \in Seq(ScreenSet)
  /\ Depth > 0
  /\ screens[1].kind = "Main"
  /\ \A n \in 1..Depth :
       IF OnNotifications(n)
         THEN n = Depth /\ n <= 7 /\ screens[n].kind = "Conversation"
         ELSE n <= Level(screens[n].kind)

\* What a screen shows or has selected exists.
ShownExists ==
  \A n \in 1..Depth :
    /\ screens[n].kind = "Conversation" => screens[n].key \in Open
    /\ screens[n].kind \in ActionKinds => screens[n].key \in Key
    /\ screens[n].kind = "GroupActions" => IsGroup(screens[n].key)
    /\ screens[n].kind = "GroupSearchResults" =>
         \A k \in screens[n].page.keys : IsGroup(k)

-----------------------------------------------------------------------------
(* The request.                                                            *)

\* The operations a screen may ask for.
NameOf(origin) ==
  CASE origin = "Conversation" -> {"PRIVATE", "GROUP", "BROADCAST"}
    [] origin \in {"ContactAddInput", "UserActions"} -> {"CONTACT_ADD"}
    [] origin \in {"GroupJoinInput", "GroupActions"} -> {"GROUP_JOIN"}
    [] origin = "GroupCreateInput" -> {"GROUP_CREATE"}
    [] origin \in {"History", "ContactList", "GroupList", "UserSearchInput",
         "UserSearchResults", "GroupSearchInput", "GroupSearchResults"}
         -> {ListName(origin)}
    [] OTHER -> {}

PendingShape ==
  \/ pending = NoOperation
  \/ /\ Waiting
     /\ pending.name \in NameOf(pending.origin)
     /\ pending.name = "GROUP_JOIN" => pending.target \in Group
  \/ Naming /\ pending.name = "GROUP_LIST"

Sending   == Waiting /\ pending.origin = "Conversation"
Abandoned == /\ pending = NoOperation /\ Stopping /\ InvalidAnswers
             /\ pc \in {"look", "leave", "done"}

\* One request is out at most: pendingOperation, expectedOperation and the
\* server agree on it, and a response waits only when it was answered.
Exchange ==
  /\ pc \in {"consume", "look", "present", "flush", "names", "read", "submit",
             "leave", "done", "failed"}
  /\ setting \in Setting
  /\ PendingShape
  /\ expected = pending.name
  /\ response # NoResponse => pending # NoOperation /\ asked = NoOperation
  /\ asked # NoOperation => asked = pending
  /\ response.result \in {"none", "ok", "fail", "misshapen"}
  /\ response.result = "none" => response = NoResponse
  /\ response.result = "misshapen" => InvalidAnswers
  /\ response.page \in PageSet
  /\ pending.name = "GROUP_SEARCH" => \A k \in response.page.keys : IsGroup(k)
  /\ member \subseteq Group

\* A place is reserved in the buffer only for the message that is on its way
\* from submitConversation to the end of its operation.
Reservation ==
  /\ submitted \in Key \cup {NoKey}
  /\ reserved # NoKey => reserved = submitted
  /\ submitted # NoKey => pc = "submit" \/ Sending \/ Abandoned
  /\ Sending /\ pc # "done" => reserved # NoKey
  /\ pc = "submit" =>
       reserved # NoKey /\ ~Waiting /\ Top.kind = "Conversation"

\* A message in doubt is reported, or its operation is still pending, or it
\* was dropped with a response of the wrong shape.
Doubted ==
  doubt => \/ uncertain
           \/ Sending /\ submitted # NoKey /\ pc # "done"
           \/ Abandoned /\ submitted # NoKey

\* The buffer files an id as the server decided it, and an accepted message
\* is not in the buffer before its place is committed.
Fated ==
  /\ fate \in [Id -> Key \cup {NoKey, Own}]
  /\ \A i \in DOMAIN messagesById :
       fate[i] = IF messagesById[i].outgoing THEN Own ELSE messagesById[i].key
  /\ response.result = "ok" /\ Sending =>
       /\ response.id \in Id
       /\ fate[response.id] = Own
       /\ ~Known(response.id)

\* The screen that asked is still where consumeResponse looks for it.
AskedFromScreen ==
  Waiting /\ pending.origin # "Conversation" =>
    screens[Target].kind = pending.origin

\* Until it is presented, a snapshot has every message of its conversation
\* that had arrived by its mark.
Snapped ==
  pc = "present" =>
    /\ snap.through \in Nat /\ snap.through < nextArrival
    /\ \A i \in MessagesOf(Showing) :
         messagesById[i].arrival > snap.through \/ i \in snap.ids

Talk  == Exchange /\ Reservation /\ Doubted /\ Fated
Place == Stacked /\ ShownExists /\ AskedFromScreen

IInv ==
  /\ BufferSound /\ Place /\ Talk /\ Snapped
  /\ ViewedWasPresented /\ ChecksNeverMisfire

-----------------------------------------------------------------------------
\* A sequence without its last element.
LEMMA FrontOf ==
  ASSUME NEW S, NEW s \in Seq(S), Len(s) > 1
  PROVE  /\ Front(s) \in Seq(S)
         /\ Len(Front(s)) = Len(s) - 1
         /\ \A n \in 1..(Len(s) - 1) : Front(s)[n] = s[n]
<1>1. Len(s) \in Nat /\ \A n \in 1..(Len(s) - 1) : s[n] \in S
  BY LenProperties, ElementOfSeq
<1>2. /\ SubSeq(s, 1, Len(s) - 1) \in Seq(S)
      /\ Len(SubSeq(s, 1, Len(s) - 1)) = Len(s) - 1
      /\ \A n \in 1..(Len(s) - 1) : SubSeq(s, 1, Len(s) - 1)[n] = s[n]
  BY <1>1, SubSeqProperties
<1> QED BY <1>2 DEF Front

\* A sequence without its k-th element.
LEMMA RemovalOf ==
  ASSUME NEW S, NEW s \in Seq(S), NEW k \in 1..Len(s)
  PROVE  /\ RemoveAt(s, k) \in Seq(S)
         /\ Len(RemoveAt(s, k)) = Len(s) - 1
         /\ \A n \in 1..(Len(s) - 1) :
              RemoveAt(s, k)[n] = IF n < k THEN s[n] ELSE s[n + 1]
<1> DEFINE a == SubSeq(s, 1, k - 1)
           b == SubSeq(s, k + 1, Len(s))
<1>1. Len(s) \in Nat /\ k \in Nat /\ k - 1 \in Int /\ k + 1 \in Int
      /\ \A n \in 1..Len(s) : s[n] \in S
  BY LenProperties, ElementOfSeq
<1>2. /\ a \in Seq(S) /\ Len(a) = k - 1
      /\ \A n \in 1..(k - 1) : a[n] = s[n]
  BY <1>1, SubSeqProperties
<1>3. /\ b \in Seq(S) /\ Len(b) = Len(s) - k
      /\ \A n \in 1..(Len(s) - k) : b[n] = s[k + n]
  <2>1. /\ b \in Seq(S) /\ Len(b) = IF k + 1 <= Len(s) THEN Len(s) - (k + 1) + 1 ELSE 0
        /\ \A n \in 1..(Len(s) - (k + 1) + 1) : b[n] = s[(k + 1) + n - 1]
    BY <1>1, SubSeqProperties
  <2>2. \A n \in Nat : (k + 1) + n - 1 = k + n
    BY <1>1
  <2> HIDE DEF b
  <2> QED BY <1>1, <2>1, <2>2
<1> HIDE DEF a, b
<1>4. /\ a \o b \in Seq(S) /\ Len(a \o b) = Len(a) + Len(b)
      /\ \A n \in 1..(Len(a) + Len(b)) :
           (a \o b)[n] = IF n <= Len(a) THEN a[n] ELSE b[n - Len(a)]
  BY <1>2, <1>3, ConcatProperties
<1>5. ASSUME NEW n \in 1..(Len(s) - 1)
      PROVE  (a \o b)[n] = IF n < k THEN s[n] ELSE s[n + 1]
  <2>1. CASE n < k
    <3>1. n \in 1..(k - 1) /\ n \in 1..(Len(a) + Len(b)) /\ n <= Len(a)
      BY <1>1, <1>2, <1>3, <2>1
    <3> QED BY <1>2, <1>4, <2>1, <3>1
  <2>2. CASE ~(n < k)
    <3>1. (a \o b)[n] = b[n - (k - 1)]
      BY <1>1, <1>2, <1>3, <1>4, <2>2
    <3>2. n - (k - 1) \in 1..(Len(s) - k) /\ k + (n - (k - 1)) = n + 1
      BY <1>1, <2>2
    <3>3. PICK m \in 1..(Len(s) - k) : m = n - (k - 1)
      BY <3>2
    <3>4. (a \o b)[n] = s[k + m] /\ k + m = n + 1
      BY <1>3, <3>1, <3>2, <3>3
    <3>5. ~(n < k)
      BY <1>1, <2>2
    <3> QED BY <3>4, <3>5
  <2> QED BY <1>1, <2>1, <2>2
<1>6. RemoveAt(s, k) = a \o b
  BY DEF RemoveAt, a, b
<1>7. Len(a) + Len(b) = Len(s) - 1
  BY <1>1, <1>2, <1>3
<1> QED BY <1>4, <1>5, <1>6, <1>7

-----------------------------------------------------------------------------
SearchKinds == {"UserSearchInput", "UserSearchResults",
                "GroupSearchInput", "GroupSearchResults"}

\* The depth of the stack, its top, and the only place of the notifications
\* below the top.
LEMMA Depths ==
  ASSUME Stacked
  PROVE  /\ Depth \in Nat \ {0} /\ Depth <= 7
         /\ Top \in ScreenSet /\ Top = screens[Depth]
         /\ ~OnNotifications(Depth) => Depth <= Level(Top.kind) /\ Depth <= 6
         /\ Target \in 1..Depth
         /\ \A n \in 1..Depth : screens[n] \in ScreenSet
         /\ \A n \in 1..Depth : screens[n].kind = "Notifications" /\ n < Depth =>
              n = Depth - 1 /\ Top.kind = "Conversation"
<1>1. Depth \in Nat \ {0} /\ \A n \in 1..Depth : screens[n] \in ScreenSet
  BY LenProperties, ElementOfSeq DEF Stacked, Depth
<1>2. Top = screens[Depth] /\ Top \in ScreenSet
  BY <1>1 DEF Top, Last, Depth
<1>3. \A kind : Level(kind) \in Nat /\ Level(kind) <= 6
  BY DEF Level
<1>4. ~OnNotifications(Depth) => Depth <= Level(Top.kind) /\ Depth <= 6
  BY <1>1, <1>2, <1>3 DEF Stacked
<1>5. Depth <= 7
  BY <1>1, <1>4 DEF Stacked
<1>6. ASSUME NEW n \in 1..Depth, screens[n].kind = "Notifications", n < Depth
      PROVE  n = Depth - 1 /\ Top.kind = "Conversation"
  <2>1. OnNotifications(n + 1) /\ n + 1 \in 1..Depth
    BY <1>1, <1>6 DEF OnNotifications
  <2>2. n + 1 = Depth /\ screens[n + 1].kind = "Conversation"
    BY <2>1 DEF Stacked
  <2> QED BY <1>2, <2>2
<1>7. Target \in 1..Depth
  BY <1>1 DEF Target
<1> QED BY <1>1, <1>2, <1>4, <1>5, <1>6, <1>7

\* A screen of a deeper level may be pushed, and there is room for it.
LEMMA PushStacks ==
  ASSUME Stacked, ~OnNotifications(Depth), NEW e \in ScreenSet,
         IF Top.kind = "Notifications" THEN e.kind = "Conversation"
                                       ELSE Level(Top.kind) < Level(e.kind)
  PROVE  /\ Depth < MaxScreenDepth
         /\ screens' = Append(screens, e) =>
              /\ Stacked' /\ Depth' = Depth + 1 /\ Top' = e
              /\ \A n \in 1..Depth : screens'[n] = screens[n]
<1>1. Depth < MaxScreenDepth
  BY Depths, UiAssumption
<1>2. SUFFICES ASSUME screens' = Append(screens, e)
               PROVE  /\ Stacked' /\ Depth' = Depth + 1 /\ Top' = e
                      /\ \A n \in 1..Depth : screens'[n] = screens[n]
  BY <1>1
<1>3. /\ screens' \in Seq(ScreenSet) /\ Depth' = Depth + 1
      /\ \A n \in 1..Depth : screens'[n] = screens[n]
      /\ screens'[Depth + 1] = e
  BY <1>2, AppendProperties DEF Stacked, Depth
<1>4. Top' = e
  BY <1>3 DEF Top, Last, Depth
<1>5. ASSUME NEW n \in 1..Depth'
      PROVE  IF OnNotifications(n)'
               THEN n = Depth' /\ n <= 7 /\ screens'[n].kind = "Conversation"
               ELSE n <= Level(screens'[n].kind)
  <2>1. CASE n = Depth + 1
    <3>1. OnNotifications(n)' <=> Top.kind = "Notifications"
      BY <1>3, <2>1, Depths DEF OnNotifications
    <3>2. CASE Top.kind = "Notifications"
      BY <1>3, <2>1, <3>1, <3>2, Depths
    <3>3. CASE Top.kind # "Notifications"
      <4>1. Depth <= Level(Top.kind) /\ Level(Top.kind) < Level(e.kind) /\ Depth \in Nat
        BY <3>3, Depths
      <4>2. \A kind : Level(kind) \in Nat
        BY DEF Level
      <4>3. Depth + 1 <= Level(e.kind)
        BY <4>1, <4>2
      <4> QED BY <1>3, <2>1, <3>1, <3>3, <4>3
    <3> QED BY <3>2, <3>3
  <2>2. CASE n # Depth + 1
    <3>1. n \in 1..Depth
      BY <1>3, <2>2, Depths
    <3>2. OnNotifications(n)' <=> OnNotifications(n)
      BY <1>3, <3>1, Depths DEF OnNotifications
    <3>3. ~OnNotifications(n)
      BY <3>1 DEF Stacked
    <3> QED BY <1>3, <3>1, <3>2, <3>3 DEF Stacked
  <2> QED BY <2>1, <2>2
<1>6. Stacked'
  <2>1. Depth' > 0 /\ screens'[1].kind = "Main"
    BY <1>3, Depths DEF Stacked
  <2> QED BY <1>3, <1>5, <2>1 DEF Stacked
<1> QED BY <1>3, <1>4, <1>6

\* A screen may change its page, or between a search and its results.
LEMMA SameStack ==
  ASSUME Stacked, screens' \in Seq(ScreenSet), Depth' = Depth,
         \A n \in 1..Depth :
           screens'[n].kind = screens[n].kind
           \/ {screens'[n].kind, screens[n].kind} \subseteq SearchKinds
  PROVE  Stacked'
<1>1. ASSUME NEW n \in 1..Depth
      PROVE  /\ Level(screens'[n].kind) = Level(screens[n].kind)
             /\ screens'[n].kind = "Main" <=> screens[n].kind = "Main"
             /\ screens'[n].kind = "Conversation" <=> screens[n].kind = "Conversation"
             /\ screens'[n].kind = "Notifications" <=> screens[n].kind = "Notifications"
  <2>1. CASE screens'[n].kind = screens[n].kind
    BY <2>1
  <2>2. CASE {screens'[n].kind, screens[n].kind} \subseteq SearchKinds
    <3>1. screens'[n].kind \in SearchKinds /\ screens[n].kind \in SearchKinds
      BY <2>2
    <3>2. \A kind \in SearchKinds :
            /\ Level(kind) = 3
            /\ kind # "Main" /\ kind # "Conversation" /\ kind # "Notifications"
      BY DEF SearchKinds, Level, FormKinds, ActionKinds
    <3> QED BY <3>1, <3>2
  <2> QED BY <2>1, <2>2
<1>2. \A n \in 1..Depth : OnNotifications(n)' <=> OnNotifications(n)
  BY <1>1, Depths DEF OnNotifications
<1>3. screens'[1].kind = "Main"
  BY <1>1, Depths DEF Stacked
<1> QED BY <1>1, <1>2, <1>3 DEF Stacked

\* The stack without its top screen.
LEMMA FrontStacks ==
  ASSUME Stacked, Depth > 1, screens' = Front(screens)
  PROVE  /\ Stacked' /\ Depth' = Depth - 1
         /\ Top' = screens[Depth - 1]
         /\ \A n \in 1..(Depth - 1) : screens'[n] = screens[n]
<1>1. /\ screens' \in Seq(ScreenSet) /\ Depth' = Depth - 1
      /\ \A n \in 1..(Depth - 1) : screens'[n] = screens[n]
  BY FrontOf DEF Stacked, Depth
<1>2. Top' = screens[Depth - 1]
  BY <1>1, Depths DEF Top, Last, Depth
<1>3. \A n \in 1..(Depth - 1) : OnNotifications(n)' <=> OnNotifications(n)
  BY <1>1, Depths DEF OnNotifications
<1>4. \A n \in 1..(Depth - 1) : ~OnNotifications(n)
  BY Depths DEF Stacked
<1>5. Depth' > 0 /\ screens'[1].kind = "Main"
  BY <1>1, Depths DEF Stacked
<1>6. \A n \in 1..(Depth - 1) : n \in 1..Depth /\ n <= Level(screens'[n].kind)
  BY <1>1, <1>4, Depths DEF Stacked
<1>7. Stacked'
  BY <1>1, <1>3, <1>4, <1>5, <1>6 DEF Stacked
<1> QED BY <1>1, <1>2, <1>7

\* The stack without the screen a response was for.
LEMMA RemovalStacks ==
  ASSUME Stacked, screens' = RemoveAt(screens, Target), Target > 1
  PROVE  /\ Stacked' /\ Depth' = Depth - 1
         /\ \A n \in 1..Depth' : \E m \in 1..Depth : screens'[n] = screens[m]
<1> DEFINE k == Target
<1>1. /\ k \in 1..Depth
      /\ \/ k = Depth
         \/ k = Depth - 1 /\ Top.kind = "Notifications"
  BY Depths DEF Target
<1>2. /\ screens' \in Seq(ScreenSet) /\ Depth' = Depth - 1
      /\ \A n \in 1..(Depth - 1) :
           screens'[n] = IF n < k THEN screens[n] ELSE screens[n + 1]
  BY <1>1, RemovalOf DEF Stacked, Depth
<1>3. Depth \in Nat \ {0} /\ Top = screens[Depth] /\ k > 1
  BY Depths
<1> HIDE DEF k
<1>4. \A n \in 1..(Depth - 1) : n < k => screens'[n] = screens[n]
  BY <1>2
<1>5. ASSUME NEW n \in 1..Depth'
      PROVE  IF OnNotifications(n)'
               THEN n = Depth' /\ n <= 7 /\ screens'[n].kind = "Conversation"
               ELSE n <= Level(screens'[n].kind)
  <2>1. CASE n < k
    <3>1. OnNotifications(n)' <=> OnNotifications(n)
      BY <1>1, <1>2, <1>3, <2>1 DEF OnNotifications
    <3>2. ~OnNotifications(n)
      BY <1>1, <1>2, <1>3, <2>1 DEF Stacked
    <3> QED BY <1>2, <1>3, <2>1, <3>1, <3>2 DEF Stacked
  <2>2. CASE ~(n < k)
    <3>1. n = Depth - 1 /\ k = Depth - 1 /\ screens'[n] = Top /\ Top.kind = "Notifications"
      BY <1>1, <1>2, <1>3, <2>2
    <3>2. n - 1 \in 1..Depth /\ screens'[n - 1] = screens[n - 1]
      BY <1>1, <1>2, <1>3, <3>1
    <3>3. screens[n - 1].kind # "Notifications"
      BY <1>3, <3>1, <3>2, Depths
    <3>4. ~OnNotifications(n)'
      BY <1>3, <3>1, <3>2, <3>3 DEF OnNotifications
    <3>5. n <= Level(screens'[n].kind)
      BY <1>3, <3>1, Depths DEF Level, FormKinds, ActionKinds
    <3> QED BY <3>4, <3>5
  <2> QED BY <2>1, <2>2
<1>6. Stacked'
  <2>1. Depth' > 0 /\ screens'[1].kind = "Main"
    BY <1>1, <1>2, <1>3 DEF Stacked
  <2> QED BY <1>2, <1>5, <2>1 DEF Stacked
<1>7. \A n \in 1..Depth' : \E m \in 1..Depth : screens'[n] = screens[m]
  BY <1>2, <1>3
<1> QED BY <1>2, <1>6, <1>7

-----------------------------------------------------------------------------
FairReason == {"", "lost", "write", "CapacityExceeded"}

Steady ==
  /\ pc' \in {"consume", "look", "present", "flush", "names", "read", "submit",
              "leave", "done", "failed"}
  /\ pc' = "submit" <=> pc = "submit"
  /\ pc' = "done" <=> pc = "done"
  /\ pc = "submit" => UNCHANGED screens
  /\ Stopping => Stopping'
  /\ Stopping /\ pc \in {"look", "leave"} => pc' \in {"look", "leave"}

\* A step that leaves the stack alone and asks, if it asks, from the top
\* screen.
LEMMA PlaceKeeps ==
  ASSUME IInv, UNCHANGED screens, Open \subseteq Open',
         \/ pending' = pending
         \/ ~Waiting'
         \/ pending'.origin = "Conversation"
         \/ pending'.origin = Top.kind /\ Top.kind # "Notifications"
  PROVE  Place'
<1>1. Stacked'
  BY DEF IInv, Place, Stacked, Depth, OnNotifications
<1>2. ShownExists'
  BY DEF IInv, Place, ShownExists, Depth
<1>3. AskedFromScreen'
  <2>1. Target' = Target /\ Top' = Top /\ Depth' = Depth
    BY DEF Target, Top, Depth
  <2>2. Top.kind # "Notifications" => Target = Depth /\ screens[Depth] = Top
    BY DEF Target, Top, Depth, Last
  <2> QED BY <2>1, <2>2 DEF IInv, Place, AskedFromScreen, Waiting
<1> QED BY <1>1, <1>2, <1>3 DEF Place

\* A step that leaves the request and the reservation alone.
LEMMA TalkKeeps ==
  ASSUME IInv, Steady,
         UNCHANGED <<pending, submitted, uncertain, expected, response, asked,
                     fate, member, doubt, setting, messagesById, reserved>>
  PROVE  Talk'
<1>1. Exchange'
  BY DEF IInv, Talk, Exchange, Steady, PendingShape, Waiting, Naming,
       InvalidAnswers
<1>2. Reservation'
  BY DEF IInv, Talk, Reservation, Steady, Sending, Abandoned, Waiting,
     Stopping,
       InvalidAnswers, Top
<1>3. Doubted'
  BY DEF IInv, Talk, Doubted, Steady, Sending, Abandoned, Waiting, Stopping,
       InvalidAnswers
<1>4. Fated'
  BY DEF IInv, Talk, Fated, Sending, Waiting, Known
<1> QED BY <1>1, <1>2, <1>3, <1>4 DEF Talk

\* A step that stops the client, if it does, for a reason from outside.
LEMMA ReasonKeeps ==
  ASSUME IInv, UNCHANGED setting, reason' \in {reason} \cup FairReason
  PROVE  ChecksNeverMisfire'
BY DEF IInv, ChecksNeverMisfire, FairReason, InvalidAnswers

\* A step that changes no conversation views no message.
LEMMA ViewedKeeps ==
  ASSUME IInv, UNCHANGED <<conversations, messagesById>>,
         presented \subseteq presented'
  PROVE  ViewedWasPresented'
BY DEF IInv, ViewedWasPresented, Unread, Open

\* A snapshot that was taken stays true of a buffer that does not change.
LEMMA SnappedKeeps ==
  ASSUME IInv, UNCHANGED <<screens, snap, conversations, messagesById,
     nextArrival>>,
         pc' = "present" => pc = "present"
  PROVE  Snapped'
BY DEF IInv, Snapped, MessagesOf, Showing, Top, Open

\* A step of the loop that touches no request, no screen and no message.
LEMMA IdleKeeps ==
  ASSUME IInv, Steady,
         UNCHANGED <<screens, pending, submitted, uncertain, expected,
            response,
                     asked, fate, member, presented, doubt, setting,
                        bufferVars>>,
         \/ pc' # "present"
         \/ pc' = pc /\ UNCHANGED snap,
         reason' \in {reason} \cup FairReason
  PROVE  IInv'
<1>1. /\ UNCHANGED <<conversations, messagesById, reserved, nextArrival>>
      /\ Open' = Open
  BY DEF bufferVars, Open
<1>2. BufferSound'
  BY IdleBuffer DEF IInv
<1>3. Place'
  BY <1>1, PlaceKeeps
<1>4. Talk'
  BY <1>1, TalkKeeps
<1>5. Snapped'
  BY <1>1, SnappedKeeps DEF Snapped
<1>6. ViewedWasPresented' /\ ChecksNeverMisfire'
  BY <1>1, ViewedKeeps, ReasonKeeps
<1> QED BY <1>2, <1>3, <1>4, <1>5, <1>6 DEF IInv

\* requestStop keeps an earlier reason.
LEMMA StopFairly ==
  ASSUME NEW why \in FairReason, Stop(why)
  PROVE  reason' \in {reason} \cup FairReason /\ (Stopping => Stopping')
BY DEF Stop, Stopping

\* The steps that only move the main thread on, or stop the client.
LEMMA IdleActions ==
  ASSUME IInv,
         \/ LeaveLoop \/ NothingToConsume \/ Flush \/ TakeWork \/ Interrupted
         \/ Redraw \/ UserExits \/ Scroll \/ ChooseOnBlankHistory
         \/ ConnectionLost
  PROVE  IInv'
<1>1. /\ UNCHANGED <<screens, pending, submitted, uncertain, expected, response,
                     asked, fate, member, presented, doubt, setting,
                        bufferVars>>
  BY DEF LeaveLoop, NothingToConsume, Flush, TakeWork, Interrupted, Redraw,
       UserExits, Exit, Scroll, ChooseOnBlankHistory, ConnectionLost, Keyed,
       Enter, NoRequest, Received, screenVars, opVars, serverVars, pastVars
<1>2. reason' \in {reason} \cup FairReason /\ (Stopping => Stopping')
  <2>1. CASE NothingToConsume
    <3>1. response = NoResponse
      BY <2>1 DEF NothingToConsume, IInv, Talk, Exchange
    <3> QED BY <2>1, <3>1 DEF NothingToConsume, Stopping
  <2>2. CASE Flush
    BY <2>2, StopFairly DEF Flush, FairReason, Stopping
  <2>3. CASE ConnectionLost
    BY <2>3, StopFairly DEF ConnectionLost, FairReason
  <2>4. CASE LeaveLoop \/ TakeWork \/ Interrupted \/ Redraw \/ UserExits \/ Scroll
             \/ ChooseOnBlankHistory
    BY <2>4 DEF LeaveLoop, TakeWork, Interrupted, Redraw, UserExits, Exit,
       Scroll,
         ChooseOnBlankHistory, Keyed, Enter, NoRequest, Stopping
  <2> QED BY <2>1, <2>2, <2>3, <2>4
<1>3. /\ pc' = "present" => UNCHANGED <<pc, snap>>
      /\ \/ UNCHANGED pc
         \/ pc = "consume" /\ pc' \in {"look", "leave"}
         \/ pc = "flush" /\ pc' \in {"names", "leave"}
         \/ pc = "read" /\ pc' \in {"consume", "failed"}
  BY DEF LeaveLoop, NothingToConsume, Consuming, Flush, TakeWork, Interrupted,
       Redraw, UserExits, Exit, Scroll, ChooseOnBlankHistory, ConnectionLost,
       Keyed, Enter, Received, Go, loopVars
<1>4. Steady
  BY <1>1, <1>2, <1>3 DEF Steady, IInv, Talk, Exchange
<1> QED BY <1>1, <1>2, <1>3, <1>4, IdleKeeps

-----------------------------------------------------------------------------
\* A bounded set of naturals has a largest element.
LEMMA LargestExists ==
  ASSUME NEW S \in SUBSET Nat, S # {}, NEW b \in Nat, \A n \in S : n <= b
  PROVE  \E m \in S : \A n \in S : n <= m
<1> DEFINE U == {n \in Nat : \A s \in S : s <= n}
<1>1. U \subseteq Nat /\ b \in U
  OBVIOUS
<1>2. PICK m \in U : \A n \in U : m <= n
  <2> HIDE DEF U
  <2> QED BY <1>1, SmallestExists
<1>3. SUFFICES ASSUME m \notin S PROVE FALSE
  BY <1>2
<1>4. m \in Nat /\ \A s \in S : s <= m /\ s # m
  BY <1>2, <1>3
<1>5. m # 0
  <2>1. PICK s \in S : TRUE
    OBVIOUS
  <2> QED BY <1>4, <2>1
<1>6. m - 1 \in U
  BY <1>4, <1>5
<1> QED BY <1>2, <1>4, <1>6

\* The arrivals a snapshot covers lie before the next one.
LEMMA MaximumArrivalIsPast ==
  ASSUME BufferSound, NEW k
  PROVE  MaximumArrival(k) \in Nat /\ MaximumArrival(k) < nextArrival
<1> DEFINE arrivals == {messagesById[i].arrival : i \in MessagesOf(k)}
<1>1. nextArrival \in Nat \ {0}
  BY DEF BufferSound, BufferShape
<1>2. \A i \in MessagesOf(k) :
        messagesById[i].arrival \in Nat /\ messagesById[i].arrival < nextArrival
  BY DEF BufferSound, BufferShape, MessagesAreFiled, ArrivalsArePast,
     MessagesOf
<1>3. \A n \in arrivals : n \in Nat /\ n < nextArrival
  BY <1>2
<1>4. MaximumArrival(k) = IF arrivals = {} THEN 0
                          ELSE CHOOSE n \in arrivals : \A m \in arrivals : m <= n
  BY DEF MaximumArrival
<1>5. arrivals # {} => \E n \in arrivals : \A m \in arrivals : m <= n
  <2> HIDE DEF arrivals
  <2>1. arrivals \in SUBSET Nat /\ \A n \in arrivals : n <= nextArrival
    BY <1>1, <1>3
  <2> QED BY <1>1, <2>1, LargestExists
<1> HIDE DEF arrivals
<1> QED BY <1>1, <1>3, <1>4, <1>5

\* The snapshot of a turn holds every message that has arrived by then.
LEMMA LookKeeps ==
  ASSUME IInv, Look
  PROVE  IInv'
<1>1. /\ UNCHANGED <<screens, pending, submitted, uncertain, expected, response,
                     asked, fate, member, presented, doubt, setting,
                        bufferVars,
                     reason>>
      /\ pc = "look"
  BY DEF Look, screenVars, opVars, serverVars, pastVars
<1>2. CASE Stopping
  <2>1. pc' = "leave"
    BY <1>2 DEF Look
  <2>2. Steady
    BY <1>1, <2>1 DEF Steady, Stopping
  <2> QED BY <1>1, <2>1, <2>2, IdleKeeps
<1>3. CASE ~Stopping
  <2>1. /\ pc' \in {"present", "flush"}
        /\ snap' = [ids |-> MessagesOf(Showing), through |-> MaximumArrival(Showing)]
    BY <1>3 DEF Look
  <2>2. Steady
    BY <1>1, <1>3, <2>1 DEF Steady, Stopping
  <2>3. /\ UNCHANGED <<conversations, messagesById, reserved, nextArrival>>
        /\ Open' = Open
    BY <1>1 DEF bufferVars, Open
  <2>4. BufferSound'
    BY <1>1, IdleBuffer DEF IInv
  <2>5. Place'
    BY <1>1, <2>3, PlaceKeeps
  <2>6. Talk'
    BY <1>1, <2>2, <2>3, TalkKeeps
  <2>7. Snapped'
    <3>1. snap'.through \in Nat /\ snap'.through < nextArrival'
      BY <2>1, <2>3, MaximumArrivalIsPast DEF IInv
    <3>2. MessagesOf(Showing)' = snap'.ids
      BY <1>1, <2>1, <2>3 DEF MessagesOf, Showing, Top
    <3> QED BY <3>1, <3>2 DEF Snapped
  <2>8. ViewedWasPresented' /\ ChecksNeverMisfire'
    BY <1>1, <2>3, ViewedKeeps, ReasonKeeps
  <2> QED BY <2>4, <2>5, <2>6, <2>7, <2>8 DEF IInv
<1> QED BY <1>2, <1>3

-----------------------------------------------------------------------------
\* A pushed screen shows something that exists, and a request asked from it
\* finds it at the top.
LEMMA PushKeeps ==
  ASSUME IInv, ~OnNotifications(Depth), NEW e \in ScreenSet,
         IF Top.kind = "Notifications" THEN e.kind = "Conversation"
                                       ELSE Level(Top.kind) < Level(e.kind),
         screens' = Append(screens, e), Open \subseteq Open',
         e.kind = "Conversation" => e.key \in Open',
         e.kind \in ActionKinds => e.key \in Key,
         e.kind = "GroupActions" => IsGroup(e.key),
         e.kind # "GroupSearchResults",
         \/ UNCHANGED pending /\ e.kind = "Notifications"
         \/ UNCHANGED pending /\ ~Waiting
         \/ ~Waiting'
         \/ pending'.origin = e.kind /\ e.kind # "Notifications"
  PROVE  Place'
<1>1. /\ Stacked' /\ Depth' = Depth + 1 /\ Top' = e
      /\ \A n \in 1..Depth : screens'[n] = screens[n]
  BY PushStacks DEF IInv, Place
<1>2. Depth \in Nat \ {0} /\ Top = screens[Depth] /\ screens'[Depth + 1] = e
  BY <1>1, Depths DEF IInv, Place, Top, Last, Depth
<1>3. ShownExists'
  <2>1. ASSUME NEW n \in 1..Depth', n # Depth + 1
        PROVE  n \in 1..Depth /\ screens'[n] = screens[n]
    <3>1. PICK d \in Nat : d = Depth
      BY <1>2
    <3>2. n \in 1..(d + 1) /\ n # d + 1
      BY <1>1, <2>1, <3>1
    <3>3. n \in 1..d
      BY <3>2
    <3> QED BY <1>1, <3>1, <3>3
  <2> QED BY <1>1, <1>2, <2>1 DEF ShownExists, IInv, Place
<1>4. AskedFromScreen'
  <2>1. CASE e.kind = "Notifications" /\ UNCHANGED pending
    <3>1. Top.kind # "Notifications"
      BY <2>1
    <3>2. Target' = Depth /\ Target = Depth
      BY <1>1, <1>2, <2>1, <3>1 DEF Target
    <3>3. screens'[Target'] = screens[Target]
      <4>1. Depth \in 1..Depth
        BY <1>2
      <4>2. screens'[Depth] = screens[Depth]
        BY <1>1, <4>1
      <4> QED BY <3>2, <4>2
    <3>4. Waiting' <=> Waiting
      BY <2>1 DEF Waiting
    <3> QED BY <2>1, <3>3, <3>4 DEF AskedFromScreen, IInv, Place
  <2>2. CASE e.kind # "Notifications" /\ pending'.origin = e.kind
    BY <1>1, <1>2, <2>2 DEF AskedFromScreen, Target
  <2>3. CASE ~Waiting' \/ (UNCHANGED pending /\ ~Waiting)
    BY <2>3 DEF AskedFromScreen, Waiting
  <2> QED BY <2>1, <2>2, <2>3
<1> QED BY <1>1, <1>3, <1>4 DEF Place

\* No request is asked from the notifications or the main menu.
LEMMA NotNotifications ==
  NameOf("Notifications") = {} /\ NameOf("Main") = {}
BY DEF NameOf

\* What a pending request may be.
LEMMA RequestShape ==
  ASSUME IInv
  PROVE  /\ Waiting => /\ pending.name \in NameOf(pending.origin)
                       /\ pending.origin # "Notifications" /\ pending.origin # "Main"
         /\ Waiting => pending # NoOperation /\ ~Naming
         /\ Naming => pending.name = "GROUP_LIST" /\ pending # NoOperation
         /\ pending # NoOperation => Waiting \/ Naming
<1>1. NoOperation.purpose = "none"
  BY DEF NoOperation, Operation
<1>2. PendingShape
  BY DEF IInv, Talk, Exchange
<1>3. /\ Waiting => pending # NoOperation /\ ~Naming
      /\ Naming => pending # NoOperation
  BY <1>1 DEF Waiting, Naming
<1>4. Waiting => pending.name \in NameOf(pending.origin)
  BY <1>2, <1>3 DEF PendingShape
<1>5. Naming => pending.name = "GROUP_LIST"
  BY <1>2, <1>3 DEF PendingShape
<1>6. pending # NoOperation => Waiting \/ Naming
  BY <1>2 DEF PendingShape
<1>7. Waiting => pending.origin # "Notifications" /\ pending.origin # "Main"
  BY <1>4, NotNotifications
<1> QED BY <1>3, <1>4, <1>5, <1>6, <1>7

\* back keeps the stack, unless the screen of a pending request is on top.
LEMMA BackKeeps ==
  ASSUME IInv, screens' = Back, UNCHANGED <<pending, conversations>>,
         \/ ~Waiting
         \/ Top.kind = "Notifications"
         \/ Depth >= 2 /\ screens[Depth - 1].kind = "Notifications"
  PROVE  Place'
<1>0. /\ Stacked /\ ShownExists /\ AskedFromScreen
      /\ Depth \in Nat \ {0} /\ Top = screens[Depth] /\ Top \in ScreenSet
      /\ screens \in Seq(ScreenSet)
      /\ Open' = Open
  BY Depths DEF IInv, Place, Stacked, Open
<1>1. CASE Top.kind \in {"UserSearchResults", "GroupSearchResults"}
  <2>1. PICK kind \in {"UserSearchInput", "GroupSearchInput"} :
          screens' = [screens EXCEPT ![Depth].kind = kind, ![Depth].hasPage = FALSE]
    BY <1>1 DEF Back
  <2>2. PICK e : e = [screens[Depth] EXCEPT !.kind = kind, !.hasPage = FALSE]
    OBVIOUS
  <2>3. e \in ScreenSet /\ e.kind = kind
    BY <1>0, <2>2 DEF ScreenSet, ScreenKind
  <2>4. screens' = [screens EXCEPT ![Depth] = e]
    BY <1>0, <2>1, <2>2
  <2>5. /\ screens' \in Seq(ScreenSet) /\ Depth' = Depth
        /\ \A n \in 1..Depth : screens'[n] = IF n = Depth THEN e ELSE screens[n]
    BY <1>0, <2>3, <2>4, ExceptSeq DEF Depth
  <2>6. Stacked'
    <3>1. {e.kind, Top.kind} \subseteq SearchKinds
      BY <1>1, <2>3 DEF SearchKinds
    <3> QED BY <1>0, <2>5, <3>1, SameStack
  <2>7. ShownExists'
    BY <1>0, <2>3, <2>5 DEF ShownExists, ActionKinds
  <2>8. ~Waiting
    BY <1>0, <1>1, Depths
  <2>9. AskedFromScreen'
    BY <2>8 DEF AskedFromScreen, Waiting
  <2> QED BY <2>6, <2>7, <2>9 DEF Place
<1>2. CASE Top.kind \notin {"UserSearchResults", "GroupSearchResults"} /\ Depth > 1
  <2>1. screens' = Front(screens)
    BY <1>2 DEF Back
  <2>2. /\ Stacked' /\ Depth' = Depth - 1 /\ Top' = screens[Depth - 1]
        /\ \A n \in 1..(Depth - 1) : screens'[n] = screens[n]
    BY <1>0, <1>2, <2>1, FrontStacks
  <2>3. ShownExists'
    BY <1>0, <2>2 DEF ShownExists
  <2>4. AskedFromScreen'
    <3>1. CASE Waiting /\ pending.origin # "Conversation"
      <4>1. screens[Target].kind = pending.origin
        BY <1>0, <3>1 DEF AskedFromScreen
      <4>2. pending.origin # "Notifications"
        BY <3>1, RequestShape
      <4>3. Top.kind = "Notifications"
        BY <1>0, <3>1, <4>1, Depths DEF Target
      <4>4. Target = Depth - 1
        BY <1>0, <1>2, <4>3 DEF Target
      <4>5. Top'.kind = pending.origin
        BY <2>2, <4>1, <4>4
      <4>6. Target' = Depth'
        BY <4>2, <4>5 DEF Target
      <4>7. screens'[Depth'] = Top'
        BY DEF Top, Last, Depth
      <4> QED BY <4>5, <4>6, <4>7 DEF AskedFromScreen
    <3>2. CASE ~(Waiting /\ pending.origin # "Conversation")
      BY <3>2 DEF AskedFromScreen, Waiting
    <3> QED BY <3>1, <3>2
  <2> QED BY <2>2, <2>3, <2>4 DEF Place
<1>3. CASE Top.kind \notin {"UserSearchResults", "GroupSearchResults"} /\ ~(Depth > 1)
  <2>1. screens' = screens
    BY <1>3 DEF Back
  <2> QED BY <1>0, <2>1, PlaceKeeps
<1> QED BY <1>1, <1>2, <1>3

\* openNotifications always finds room, from any screen.
LEMMA NotificationsKeep ==
  ASSUME IInv, OpenNotifications, UNCHANGED <<pending, conversations>>
  PROVE  Place' /\ UNCHANGED reason
<1>0. /\ Stacked /\ Depth \in Nat \ {0} /\ Top = screens[Depth] /\ Top \in ScreenSet
      /\ Open' = Open
  BY Depths DEF IInv, Place, Open
<1>1. CASE \/ Top.kind = "Notifications"
           \/ Depth >= 2 /\ screens[Depth - 1].kind = "Notifications"
  <2>1. screens' = Back /\ UNCHANGED reason
    BY <1>1 DEF OpenNotifications
  <2> QED BY <1>1, <2>1, BackKeeps
<1>2. CASE /\ Top.kind # "Notifications"
           /\ ~(Depth >= 2 /\ screens[Depth - 1].kind = "Notifications")
  <2> DEFINE e == Plain("Notifications")
  <2>1. /\ e \in ScreenSet /\ e.kind = "Notifications"
    BY DEF Plain, Screen, Blank, Page, ScreenSet, PageSet, ScreenKind
  <2>2. Push(e)
    BY <1>2 DEF OpenNotifications
  <2> HIDE DEF e
  <2>3. ~OnNotifications(Depth)
    BY <1>0, <1>2 DEF OnNotifications
  <2>4. Level(Top.kind) < Level(e.kind)
    BY <1>0, <1>2, <2>1 DEF Level, ScreenSet, ScreenKind, FormKinds,
       ActionKinds
  <2>5. Depth < MaxScreenDepth
    BY <1>0, <1>2, <2>1, <2>3, <2>4, PushStacks
  <2>6. screens' = Append(screens, e) /\ UNCHANGED reason
    BY <1>0, <2>2, <2>5, UiAssumption DEF Push
  <2>7. Place'
    BY <1>0, <1>2, <2>1, <2>3, <2>4, <2>6, PushKeeps DEF ActionKinds
  <2> QED BY <2>6, <2>7
<1> QED BY <1>1, <1>2

-----------------------------------------------------------------------------
\* Outside of a submission no place is reserved.
LEMMA NothingReserved ==
  ASSUME IInv, pc # "submit", ~Sending, ~Abandoned
  PROVE  submitted = NoKey /\ reserved = NoKey
BY DEF IInv, Talk, Reservation

\* A key that moves between screens and asks nothing.
LEMMA MovedKeeps ==
  ASSUME IInv, pc = "read", pc' = "consume", Place',
         UNCHANGED <<pending, submitted, uncertain, expected, response, asked,
                     fate, member, presented, doubt, setting, reason,
                        bufferVars>>
  PROVE  IInv'
<1>1. UNCHANGED <<conversations, messagesById, reserved>>
  BY DEF bufferVars
<1>2. Steady
  BY DEF Steady, Stopping
<1>3. BufferSound'
  BY IdleBuffer DEF IInv
<1>4. Talk'
  BY <1>1, <1>2, TalkKeeps
<1>5. Snapped' /\ ViewedWasPresented' /\ ChecksNeverMisfire'
  BY <1>1, ViewedKeeps, ReasonKeeps DEF Snapped
<1> QED BY <1>3, <1>4, <1>5 DEF IInv

\* Only a conversation is opened from the notifications.
LEMMA TopStands ==
  ASSUME IInv, Top.kind # "Conversation"
  PROVE  ~OnNotifications(Depth)
<1>1. Depth \in Nat \ {0} /\ Top = screens[Depth]
  BY Depths DEF IInv, Place
<1>2. OnNotifications(Depth) => screens[Depth].kind = "Conversation"
  BY <1>1 DEF IInv, Place, Stacked
<1> QED BY <1>1, <1>2

\* A push within the menus does not fail.
LEMMA PushFits ==
  ASSUME IInv, Top.kind # "Conversation", NEW e \in ScreenSet, Push(e),
         IF Top.kind = "Notifications" THEN e.kind = "Conversation"
                                       ELSE Level(Top.kind) < Level(e.kind)
  PROVE  screens' = Append(screens, e) /\ UNCHANGED reason
<1>1. Depth < MaxScreenDepth /\ Depth \in Nat
  BY TopStands, PushStacks, Depths DEF IInv, Place
<1> QED BY <1>1, UiAssumption DEF Push

\* Every entry of a menu leads to a deeper level.
LEMMA MenuLevels ==
  \A kind \in ScreenKind : \A e \in Opens(kind) \cup Lists(kind) :
    /\ e \in ScreenKind
    /\ Level(kind) < Level(e)
    /\ kind \notin {"Notifications", "Conversation"}
    /\ e \notin {"Notifications", "Conversation", "GroupSearchResults"}
    /\ e \notin ActionKinds
<1>1. TAKE kind \in ScreenKind
<1>2. TAKE e \in Opens(kind) \cup Lists(kind)
<1>3. kind \in {"Main", "Messages", "Groups", "Contacts"}
  BY DEF Opens, Lists
<1>4. CASE kind = "Main"
  BY <1>4 DEF Opens, Lists, Level, ScreenKind, ActionKinds, FormKinds
<1>5. CASE kind = "Messages"
  BY <1>5 DEF Opens, Lists, Level, ScreenKind, ActionKinds, FormKinds
<1>6. CASE kind = "Groups"
  BY <1>6 DEF Opens, Lists, Level, ScreenKind, ActionKinds, FormKinds
<1>7. CASE kind = "Contacts"
  BY <1>7 DEF Opens, Lists, Level, ScreenKind, ActionKinds, FormKinds
<1> QED BY <1>3, <1>4, <1>5, <1>6, <1>7

\* A screen with nothing selected is a screen.
LEMMA PlainScreen ==
  ASSUME NEW kind \in ScreenKind
  PROVE  Plain(kind) \in ScreenSet /\ Plain(kind).kind = kind
BY DEF Plain, Screen, Blank, Page, ScreenSet, PageSet

\* The key for the notifications.
LEMMA NotificationsKeyKeeps ==
  ASSUME IInv, NotificationsKey
  PROVE  IInv'
<1>1. /\ pc = "read" /\ pc' = "consume" /\ OpenNotifications
      /\ UNCHANGED <<pending, submitted, uncertain, expected, response, asked,
                     fate, member, presented, doubt, setting, bufferVars>>
  BY DEF NotificationsKey, Keyed, Moved, NoRequest, serverVars
<1>2. Place' /\ UNCHANGED reason
  BY <1>1, NotificationsKeep DEF bufferVars
<1> QED BY <1>1, <1>2, MovedKeeps

\* Escape, which waits for the answer to the user's own request.
LEMMA GoBackKeeps ==
  ASSUME IInv, GoBack
  PROVE  IInv'
<1>1. /\ pc = "read" /\ pc' = "consume" /\ screens' = Back
      /\ ~Waiting \/ Top.kind = "Notifications"
      /\ UNCHANGED <<pending, submitted, uncertain, expected, response, asked,
                     fate, member, presented, doubt, setting, reason,
                        bufferVars>>
  BY DEF GoBack, Keyed, Moved, NoRequest, serverVars
<1>2. Place'
  BY <1>1, BackKeeps DEF bufferVars
<1> QED BY <1>1, <1>2, MovedKeeps

\* A menu entry that only opens a screen.
LEMMA ChooseScreenKeeps ==
  ASSUME IInv, ChooseScreen
  PROVE  IInv'
<1>1. /\ pc = "read" /\ pc' = "consume" /\ ~Waiting
      /\ UNCHANGED <<pending, submitted, uncertain, expected, response, asked,
                     fate, member, presented, doubt, setting, bufferVars>>
  BY DEF ChooseScreen, Enter, Keyed, Moved, NoRequest, serverVars
<1>2. CASE \E kind \in Opens(Top.kind) \cap Visited : Push(Plain(kind))
  <2>1. PICK kind \in Opens(Top.kind) : Push(Plain(kind))
    BY <1>2
  <2>2. Top \in ScreenSet /\ Top.kind \in ScreenKind
    BY Depths DEF IInv, Place, ScreenSet
  <2>3. /\ kind \in ScreenKind
        /\ Level(Top.kind) < Level(kind)
        /\ Top.kind \notin {"Notifications", "Conversation"}
        /\ kind \notin {"Notifications", "Conversation", "GroupSearchResults"}
        /\ kind \notin ActionKinds
    BY <2>2, MenuLevels
  <2>4. Plain(kind) \in ScreenSet /\ Plain(kind).kind = kind
    BY <2>3, PlainScreen
  <2>5. screens' = Append(screens, Plain(kind)) /\ UNCHANGED reason
    BY <2>1, <2>3, <2>4, PushFits
  <2>6. ~OnNotifications(Depth) /\ Open' = Open /\ UNCHANGED pending
        /\ Plain(kind).kind \notin {"Conversation", "GroupActions", "GroupSearchResults"}
    BY <1>1, <2>3, <2>4, TopStands DEF bufferVars, Open, ActionKinds
  <2>7. Place'
    BY <1>1, <2>3, <2>4, <2>5, <2>6, PushKeeps
  <2> QED BY <1>1, <2>5, <2>7, MovedKeeps
<1>3. CASE OpenNotifications
  BY <1>1, <1>3, NotificationsKeep, MovedKeeps DEF bufferVars
<1> QED BY <1>2, <1>3 DEF ChooseScreen

\* A record of a search result.
LEMMA ChooseRecordKeeps ==
  ASSUME IInv, ChooseRecord
  PROVE  IInv'
<1>1. /\ pc = "read" /\ pc' = "consume" /\ ~Waiting
      /\ UNCHANGED <<pending, submitted, uncertain, expected, response, asked,
                     fate, member, presented, doubt, setting, bufferVars>>
  BY DEF ChooseRecord, Enter, Keyed, Moved, NoRequest, serverVars
<1>2. PICK k \in Top.page.keys, kind \in ActionKinds :
        /\ Push(Screen(kind, k, k \in Top.page.mine))
        /\ IF kind = "UserActions" THEN Top.kind = "UserSearchResults"
                                   ELSE Top.kind = "GroupSearchResults"
  BY DEF ChooseRecord, ActionKinds
<1>3. PICK e : e = Screen(kind, k, k \in Top.page.mine)
  OBVIOUS
<1>4. Top \in ScreenSet /\ Depth \in Nat \ {0} /\ Top = screens[Depth]
  BY Depths DEF IInv, Place
<1>5. k \in Key /\ (kind = "GroupActions" => IsGroup(k))
  BY <1>2, <1>4 DEF ScreenSet, PageSet, IInv, Place, ShownExists
<1>6. e \in ScreenSet /\ e.kind = kind /\ e.key = k
  BY <1>3, <1>5
     DEF Screen, Blank, Page, ScreenSet, PageSet, ScreenKind, ActionKinds
<1>7. Level(Top.kind) < Level(e.kind)
  BY <1>2, <1>6 DEF Level, ActionKinds, FormKinds
<1>8. Top.kind # "Conversation" /\ Top.kind # "Notifications"
  BY <1>2
<1>9. screens' = Append(screens, e) /\ UNCHANGED reason
  BY <1>2, <1>3, <1>6, <1>7, <1>8, PushFits
<1>10. ~OnNotifications(Depth) /\ Open' = Open /\ UNCHANGED pending
       /\ e.kind \notin {"Conversation", "GroupSearchResults"}
  BY <1>1, <1>6, <1>8, TopStands DEF bufferVars, Open, ActionKinds
<1>11. Place'
  BY <1>1, <1>5, <1>6, <1>7, <1>8, <1>9, <1>10, PushKeeps
<1> QED BY <1>1, <1>9, <1>11, MovedKeeps

\* openConversation, from a menu, a list, a record or a notification.
LEMMA OpeningConversation ==
  ASSUME IInv, pc = "read", pc' = "consume", ~Waiting, NEW k \in Key,
         OpenConversation(k),
         Top.kind = "Notifications" \/ Level(Top.kind) < 5,
         UNCHANGED <<pending, submitted, uncertain, expected, response, asked,
                     fate, member, presented, doubt, setting>>
  PROVE  IInv'
<1>1. CASE ~MayOpen(k)
  <2>1. UNCHANGED <<screens, reason, bufferVars>>
    BY <1>1 DEF OpenConversation
  <2>2. Place'
    BY <2>1, PlaceKeeps DEF bufferVars, Open
  <2> QED BY <2>1, <2>2, MovedKeeps
<1>2. CASE MayOpen(k)
  <2>1. EnsureConversation(k) /\ Push(Screen("Conversation", k, FALSE))
    BY <1>2 DEF OpenConversation
  <2>2. PICK e : e = Screen("Conversation", k, FALSE)
    OBVIOUS
  <2>3. e \in ScreenSet /\ e.kind = "Conversation" /\ e.key = k
    BY <2>2 DEF Screen, Blank, Page, ScreenSet, PageSet, ScreenKind
  <2>4. /\ Level("Conversation") = 5
        /\ Top.kind # "Conversation"
    BY DEF Level, FormKinds, ActionKinds
  <2>5. screens' = Append(screens, e) /\ UNCHANGED reason
    BY <2>1, <2>2, <2>3, <2>4, PushFits
  <2>6. reserved = NoKey
    BY NothingReserved DEF Sending, Abandoned
  <2>7. BufferSound'
    BY <2>1, <2>6, OpeningKeeps DEF IInv
  <2>8. /\ UNCHANGED <<messagesById, reserved, nextArrival>>
        /\ Open' = Open \cup {k}
        /\ \A l \in Open : conversations'[l] = conversations[l]
    BY <2>1 DEF EnsureConversation, bufferVars, With, Open
  <2>9. Place'
    BY <2>3, <2>4, <2>5, <2>8, TopStands, PushKeeps DEF ActionKinds
  <2>10. Steady
    BY <2>5 DEF Steady, Stopping
  <2>11. Talk'
    BY <2>8, <2>10, TalkKeeps
  <2>12. ViewedWasPresented'
    <3>1. ASSUME NEW i \in DOMAIN messagesById
          PROVE  messagesById[i].key \in Open
      BY DEF IInv, BufferSound, MessagesAreFiled, MessagesOf
    <3>2. ASSUME NEW l \in Open PROVE Unread(l)' = Unread(l)
      BY <2>8 DEF Unread
    <3>3. ASSUME NEW i \in DOMAIN messagesById', NEW l, l = messagesById[i].key
          PROVE  \/ messagesById'[i].outgoing
                 \/ messagesById'[i].arrival \in Unread(l)'
                 \/ i \in presented'
      BY <2>8, <3>1, <3>2, <3>3 DEF IInv, ViewedWasPresented
    <3> QED BY <2>8, <3>3 DEF ViewedWasPresented, Unread
  <2>13. Snapped' /\ ChecksNeverMisfire'
    BY <2>5, ReasonKeeps DEF Snapped
  <2> QED BY <2>7, <2>9, <2>11, <2>12, <2>13 DEF IInv
<1> QED BY <1>1, <1>2

\* A conversation chosen from a menu, a form, a list or a record.
LEMMA ChooseConversationKeeps ==
  ASSUME IInv, ChooseConversation
  PROVE  IInv'
<1>1. /\ pc = "read" /\ pc' = "consume" /\ ~Waiting
      /\ UNCHANGED <<pending, submitted, uncertain, expected, response, asked,
                     fate, member, presented, doubt, setting>>
  BY DEF ChooseConversation, Enter, Keyed, Moved, serverVars
<1>2. PICK k \in Openable : OpenConversation(k)
  BY DEF ChooseConversation
<1>3. /\ Top \in ScreenSet /\ Depth \in Nat \ {0} /\ Top = screens[Depth]
      /\ Depth \in 1..Depth
  BY Depths DEF IInv, Place
<1>4. Top.kind \in {"Messages", "PrivateTargetInput", "ContactList", "GroupList"}
                   \cup ActionKinds
  BY <1>2 DEF Openable, ActionKinds
<1>5. k \in Key
  <2>1. Top.page.keys \subseteq Key /\ (Top.kind \in ActionKinds => Top.key \in Key)
    BY <1>3 DEF ScreenSet, PageSet, IInv, Place, ShownExists
  <2> QED BY <1>2, <1>4, <2>1, UiAssumption DEF Openable, ActionKinds
<1>6. Level(Top.kind) < 5
  BY <1>4 DEF Level, ActionKinds, FormKinds
<1> QED BY <1>1, <1>2, <1>5, <1>6, OpeningConversation

\* A conversation chosen by its notification.
LEMMA ChooseNotificationKeeps ==
  ASSUME IInv, ChooseNotification
  PROVE  IInv'
<1>1. /\ pc = "read" /\ pc' = "consume" /\ ~Waiting
      /\ Top.kind = "Notifications"
      /\ UNCHANGED <<pending, submitted, uncertain, expected, response, asked,
                     fate, member, presented, doubt, setting>>
  BY DEF ChooseNotification, Enter, Keyed, Moved, NoRequest, serverVars
<1>2. PICK k \in Open : OpenConversation(k)
  BY DEF ChooseNotification
<1>3. k \in Key
  BY DEF IInv, BufferSound, BufferShape
<1> QED BY <1>1, <1>2, <1>3, OpeningConversation

-----------------------------------------------------------------------------
WellAsked(op) ==
  \/ /\ op.purpose = "Foreground"
     /\ op.name \in NameOf(op.origin)
     /\ op.name = "GROUP_JOIN" => op.target \in Group
  \/ /\ op.purpose \in {"NameBootstrap", "NameLookup"}
     /\ op.name = "GROUP_LIST"

\* With no operation pending nothing is asked, expected or answered.
LEMMA NothingAsked ==
  ASSUME IInv, pending = NoOperation
  PROVE  asked = NoOperation /\ response = NoResponse /\ expected = ""
         /\ ~Waiting /\ ~Sending /\ response.result = "none"
<1>1. response = NoResponse /\ asked = NoOperation /\ expected = NoOperation.name
  BY DEF IInv, Talk, Exchange
<1>2. NoOperation.name = "" /\ NoOperation.purpose = "none"
  BY DEF NoOperation, Operation
<1>3. NoResponse.result = "none"
  BY DEF NoResponse, Reply
<1> QED BY <1>1, <1>2, <1>3 DEF Waiting, Sending

\* The check of beginOperation for an inconsistent state never stops the
\* client: the request is written, or the write fails.
LEMMA BeginAsks ==
  ASSUME IInv, NEW op, Begin(op)
  PROVE  /\ pending = NoOperation
         /\ \/ /\ pending' = op /\ expected' = op.name /\ asked' = op
               /\ ~Stopping /\ UNCHANGED <<reason, exiting>>
            \/ /\ UNCHANGED <<pending, expected, asked>>
               /\ exiting' = TRUE /\ Stop("write")
BY NothingAsked DEF Begin, Written, WriteFails

\* What beginOperation leaves is one request, expected and asked.
LEMMA BeginExchange ==
  ASSUME IInv, NEW op, Begin(op), WellAsked(op),
         UNCHANGED <<response, setting, member>>,
         pc' \in {"consume", "read"}
  PROVE  Exchange'
<1>1. CASE pending' = op /\ expected' = op.name /\ asked' = op
  <2>1. response' = NoResponse /\ response'.result = "none"
    BY BeginAsks, NothingAsked
  <2>2. PendingShape'
    BY <1>1 DEF PendingShape, WellAsked, Waiting, Naming
  <2>3. response'.page \in PageSet /\ \A k \in response'.page.keys : IsGroup(k)
    BY <2>1 DEF NoResponse, Reply, Blank, Page, PageSet
  <2>4. pc' \in {"consume", "look", "present", "flush", "names", "read", "submit",
                 "leave", "done", "failed"}
    OBVIOUS
  <2>5. setting' \in Setting /\ member' \subseteq Group
    BY DEF IInv, Talk, Exchange
  <2>6. response'.result \in {"none", "ok", "fail", "misshapen"}
        /\ response'.result # "misshapen"
    BY <2>1
  <2>7. /\ expected' = pending'.name
        /\ asked' # NoOperation => asked' = pending'
        /\ response' # NoResponse => pending' # NoOperation /\ asked' = NoOperation
        /\ response'.result = "none" => response' = NoResponse
    BY <1>1, <2>1
  <2>8. response'.result = "misshapen" => InvalidAnswers'
    BY <2>6
  <2>9. response'.page \in PageSet'
    BY <2>3 DEF PageSet
  <2>10. pending'.name = "GROUP_SEARCH" => \A k \in response'.page.keys : IsGroup(k)'
    BY <2>3 DEF IsGroup
  <2> QED BY <2>2, <2>4, <2>5, <2>6, <2>7, <2>8, <2>9, <2>10 DEF Exchange
<1>2. CASE pending' = pending /\ expected' = expected /\ asked' = asked
  BY <1>2 DEF IInv, Talk, Exchange, PendingShape, Waiting, Naming,
     InvalidAnswers
<1>3. \/ pending' = op /\ expected' = op.name /\ asked' = op
      \/ pending' = pending /\ expected' = expected /\ asked' = asked
  BY DEF Begin, Written, WriteFails
<1> QED BY <1>1, <1>2, <1>3

\* A request of a screen, or of the client itself, is begun or refused.
LEMMA AskingKeeps ==
  ASSUME IInv, pc \in {"names", "read"}, pc' \in {"read", "consume"},
         NEW op, Begin(op) \/ Refuse(op), WellAsked(op),
         op.purpose = "Foreground" => op.origin # "Conversation",
         UNCHANGED <<submitted, uncertain, response, fate, member, doubt,
                     setting, messagesById, reserved>>
  PROVE  /\ Talk'
         /\ reason' \in {reason} \cup FairReason
         /\ pending' = pending \/ (pending = NoOperation /\ pending' = op)
<1>1. CASE Refuse(op)
  <2>1. UNCHANGED <<pending, expected, asked, reason>>
    BY <1>1 DEF Refuse
  <2>2. Steady
    BY <2>1 DEF Steady, Stopping
  <2> QED BY <2>1, <2>2, TalkKeeps
<1>2. CASE Begin(op)
  <2>1. /\ pending = NoOperation /\ response = NoResponse /\ response.result = "none"
        /\ ~Sending
    BY <1>2, BeginAsks, NothingAsked
  <2>2. submitted = NoKey /\ reserved = NoKey
    BY <2>1, NothingReserved DEF Abandoned
  <2>3. pending' = op \/ pending' = pending
    BY <1>2, BeginAsks
  <2>4. ~Sending'
    BY <2>1, <2>3 DEF Sending, Waiting
  <2>5. Exchange'
    BY <1>2, BeginExchange
  <2>6. Reservation'
    BY <2>2, <2>4 DEF Reservation
  <2>7. Doubted'
    BY <2>1, <2>2 DEF IInv, Talk, Doubted
  <2>8. Fated'
    BY <2>1 DEF IInv, Talk, Fated
  <2>9. reason' \in {reason} \cup FairReason
    <3>1. UNCHANGED reason \/ Stop("write")
      BY <1>2, BeginAsks
    <3> QED BY <3>1, StopFairly DEF FairReason
  <2> QED BY <2>1, <2>3, <2>5, <2>6, <2>7, <2>8, <2>9 DEF Talk
<1> QED BY <1>1, <1>2

\* Forms, actions on records and further pages.
LEMMA AskServerKeeps ==
  ASSUME IInv, AskServer
  PROVE  IInv'
<1>1. /\ pc = "read" /\ pc' = "consume" /\ ~Waiting
      /\ UNCHANGED <<screens, submitted, uncertain, response, fate, member,
                     presented, doubt, setting, bufferVars>>
  BY DEF AskServer, Enter, Keyed, serverVars
<1>2. PICK op \in FormRequests \cup RecordRequests \cup PageRequests :
        Begin(op) \/ Refuse(op)
  BY DEF AskServer, BeginOperation
<1>3. /\ op.purpose = "Foreground" /\ op.origin = Top.kind
  BY <1>2 DEF FormRequests, RecordRequests, PageRequests, Foreground, Operation
<1>4. /\ Top.kind \notin {"Notifications", "Conversation"}
      /\ op.name \in NameOf(Top.kind)
      /\ op.name = "GROUP_JOIN" =>
           \/ op.target \in Group
           \/ op.target = GroupOf(Top.key) /\ Top.kind = "GroupActions"
  <2>1. CASE op \in FormRequests
    BY <2>1 DEF FormRequests, Foreground, Operation, NameOf, ListName
  <2>2. CASE op \in RecordRequests
    BY <2>2 DEF RecordRequests, Foreground, Operation, NameOf, ListName
  <2>3. CASE op \in PageRequests
    <3>1. Top.kind \in ResultKinds /\ op.name = ListName(Top.kind)
      BY <2>3 DEF PageRequests, Foreground, Operation
    <3> QED BY <3>1 DEF ResultKinds, NameOf, ListName
  <2> QED BY <1>2, <2>1, <2>2, <2>3
<1>5. /\ Depth \in 1..Depth /\ Top = screens[Depth]
  BY Depths DEF IInv, Place
<1>6. Top.kind = "GroupActions" => GroupOf(Top.key) \in Group
  BY <1>5 DEF IInv, Place, ShownExists, IsGroup, GroupOf
<1>7. WellAsked(op)
  BY <1>3, <1>4, <1>6 DEF WellAsked
<1>8. UNCHANGED <<conversations, messagesById, reserved>> /\ Open' = Open
  BY <1>1 DEF bufferVars, Open
<1>9. /\ Talk'
      /\ reason' \in {reason} \cup FairReason
      /\ pending' = pending \/ pending' = op
  BY <1>1, <1>2, <1>3, <1>4, <1>7, <1>8, AskingKeeps
<1>10. Place'
  BY <1>1, <1>3, <1>4, <1>8, <1>9, PlaceKeeps
<1>11. BufferSound' /\ Snapped' /\ ViewedWasPresented' /\ ChecksNeverMisfire'
  BY <1>1, <1>8, <1>9, IdleBuffer, ViewedKeeps, ReasonKeeps DEF Snapped, IInv
<1> QED BY <1>9, <1>10, <1>11 DEF IInv

\* A list is opened and its first page asked for.
LEMMA ChooseListKeeps ==
  ASSUME IInv, ChooseList
  PROVE  IInv'
<1>1. /\ pc = "read" /\ pc' = "consume" /\ ~Waiting
      /\ UNCHANGED <<submitted, uncertain, response, fate, member,
                     presented, doubt, setting, bufferVars>>
  BY DEF ChooseList, Enter, Keyed, serverVars
<1>2. PICK kind \in Lists(Top.kind) :
       IF Depth >= MaxScreenDepth
         THEN /\ Stop("depth")
              /\ UNCHANGED <<screens, pending, expected, asked, exiting, refused>>
         ELSE /\ screens' = Append(screens, Plain(kind))
              /\ BeginOperation(Operation("Foreground", ListName(kind), kind, 0))
  BY DEF ChooseList
<1>3. /\ Top \in ScreenSet /\ Top.kind \in ScreenKind /\ Depth \in Nat
  BY Depths DEF IInv, Place, ScreenSet
<1>4. /\ kind \in ScreenKind
      /\ Level(Top.kind) < Level(kind)
      /\ Top.kind \notin {"Notifications", "Conversation"}
      /\ kind \notin {"Notifications", "Conversation", "GroupSearchResults"}
      /\ kind \notin ActionKinds
  BY <1>3, MenuLevels
<1>5. kind \in {"History", "ContactList", "GroupList"}
  BY DEF Lists
<1>6. Plain(kind) \in ScreenSet /\ Plain(kind).kind = kind
  BY <1>4, PlainScreen
<1>7. Depth < MaxScreenDepth
  BY <1>4, <1>6, TopStands, PushStacks DEF IInv, Place
<1>8. PICK op : op = Operation("Foreground", ListName(kind), kind, 0)
  OBVIOUS
<1>9. screens' = Append(screens, Plain(kind)) /\ (Begin(op) \/ Refuse(op))
  BY <1>2, <1>3, <1>7, <1>8, UiAssumption DEF BeginOperation
<1>10. WellAsked(op) /\ op.origin = kind /\ op.purpose = "Foreground"
  BY <1>5, <1>8 DEF WellAsked, Operation, NameOf, ListName
<1>11. UNCHANGED <<conversations, messagesById, reserved>> /\ Open' = Open
  BY <1>1 DEF bufferVars, Open
<1>12. /\ Talk'
       /\ reason' \in {reason} \cup FairReason
       /\ pending' = pending \/ pending' = op
  BY <1>1, <1>4, <1>9, <1>10, <1>11, AskingKeeps
<1>13. Place'
  <2>1. ~OnNotifications(Depth) /\ kind \notin {"GroupActions"}
    BY <1>4, TopStands DEF ActionKinds
  <2> QED BY <1>1, <1>4, <1>6, <1>9, <1>10, <1>11, <1>12, <2>1, PushKeeps
<1>14. BufferSound' /\ Snapped' /\ ViewedWasPresented' /\ ChecksNeverMisfire'
  BY <1>1, <1>11, <1>12, IdleBuffer, ViewedKeeps, ReasonKeeps DEF Snapped, IInv
<1> QED BY <1>12, <1>13, <1>14 DEF IInv

\* The client asks for names of groups.
LEMMA ScheduleNameWorkKeeps ==
  ASSUME IInv, ScheduleNameWork
  PROVE  IInv'
<1>1. /\ pc = "names" /\ pc' = "read"
      /\ UNCHANGED <<screens, fate, member, presented, doubt, setting, bufferVars>>
  BY DEF ScheduleNameWork, Go, screenVars, serverVars, pastVars
<1>2. UNCHANGED <<conversations, messagesById, reserved>> /\ Open' = Open
  BY <1>1 DEF bufferVars, Open
<1>3. CASE UNCHANGED <<opVars, reason>>
  <2>1. Steady /\ UNCHANGED <<pending, submitted, uncertain, expected, response, asked>>
    BY <1>1, <1>3 DEF Steady, Stopping, opVars
  <2> QED BY <1>1, <1>3, <2>1, IdleKeeps
<1>4. CASE ~UNCHANGED <<opVars, reason>>
  <2>1. /\ UNCHANGED <<submitted, uncertain, response>>
        /\ Begin(LookUp(Min(UnknownGroups))) \/ Begin(NextNames)
    BY <1>4 DEF ScheduleNameWork
  <2>2. PICK op : /\ op = LookUp(Min(UnknownGroups)) \/ op = NextNames
                  /\ Begin(op)
    BY <2>1
  <2>3. /\ op.purpose \in {"NameBootstrap", "NameLookup"}
        /\ WellAsked(op)
    BY <2>2 DEF WellAsked, LookUp, NextNames, Operation
  <2>4. /\ Talk'
        /\ reason' \in {reason} \cup FairReason
        /\ pending' = pending \/ pending' = op
    BY <1>1, <1>2, <2>1, <2>2, <2>3, AskingKeeps
  <2>5. Place'
    BY <1>1, <1>2, <2>3, <2>4, PlaceKeeps DEF Waiting
  <2>6. BufferSound' /\ Snapped' /\ ViewedWasPresented' /\ ChecksNeverMisfire'
    BY <1>1, <1>2, <2>4, IdleBuffer, ViewedKeeps, ReasonKeeps DEF Snapped, IInv
  <2> QED BY <2>4, <2>5, <2>6 DEF IInv
<1> QED BY <1>3, <1>4

-----------------------------------------------------------------------------
\* The place of a message is reserved before its request.
LEMMA SubmitConversationKeeps ==
  ASSUME IInv, SubmitConversation
  PROVE  IInv'
<1>1. /\ pc = "read" /\ ~Waiting /\ Top.kind = "Conversation"
      /\ UNCHANGED <<screens, pending, uncertain, expected, response, asked,
                     fate, member, presented, doubt, setting>>
  BY DEF SubmitConversation, Enter, Keyed, serverVars
<1>2. submitted = NoKey /\ reserved = NoKey
  BY <1>1, NothingReserved DEF Sending, Abandoned
<1>3. CASE ~MayReserve(Top.key)
  <2>1. pc' = "consume" /\ UNCHANGED <<bufferVars, submitted, reason>>
    BY <1>2, <1>3 DEF SubmitConversation
  <2>2. Place'
    BY <1>1, <2>1, PlaceKeeps DEF bufferVars, Open
  <2> QED BY <1>1, <2>1, <2>2, MovedKeeps
<1>4. CASE MayReserve(Top.key)
  <2>1. PICK k : k = Top.key
    OBVIOUS
  <2>2. /\ ReserveOutgoing(k) /\ submitted' = k /\ pc' = "submit"
        /\ UNCHANGED reason
    BY <1>2, <1>4, <2>1 DEF SubmitConversation
  <2>3. Depth \in 1..Depth /\ Top = screens[Depth]
    BY Depths DEF IInv, Place
  <2>4. k \in Open /\ k \in Key /\ k # NoKey
    BY <1>1, <2>1, <2>3, KeyAssumption
       DEF IInv, Place, ShownExists, BufferSound, BufferShape
  <2>5. BufferSound' /\ reserved' = k
    BY <2>2, <2>4, ReservingKeeps DEF IInv
  <2>6. UNCHANGED <<conversations, messagesById, nextArrival>> /\ Open' = Open
    BY <2>2, <2>4 DEF ReserveOutgoing, Open
  <2>7. Place'
    BY <1>1, <2>6, PlaceKeeps
  <2>8. Exchange'
    BY <1>1, <2>2 DEF IInv, Talk, Exchange, PendingShape, Waiting, Naming,
         InvalidAnswers
  <2>9. Reservation'
    <3>1. ~Waiting' /\ Top'.kind = "Conversation"
      BY <1>1 DEF Waiting, Top
    <3> QED BY <2>2, <2>4, <2>5, <3>1 DEF Reservation, Sending
  <2>10. Doubted'
    BY <1>1, <1>2 DEF IInv, Talk, Doubted
  <2>11. Fated'
    BY <1>1, <2>6 DEF IInv, Talk, Fated, Sending, Waiting, Known
  <2>12. Snapped' /\ ViewedWasPresented' /\ ChecksNeverMisfire'
    BY <1>1, <2>2, <2>6, ViewedKeeps, ReasonKeeps DEF Snapped
  <2> QED BY <2>5, <2>7, <2>8, <2>9, <2>10, <2>11, <2>12 DEF IInv, Talk
<1> QED BY <1>3, <1>4

\* The request of a message is written, or its place is taken back.
LEMMA SubmitRequestKeeps ==
  ASSUME IInv, SubmitRequest
  PROVE  IInv'
<1>1. /\ pc = "submit" /\ pc' = "consume"
      /\ UNCHANGED <<screens, response, fate, member, presented, setting>>
  BY DEF SubmitRequest, Go, screenVars, serverVars
<1>2. PICK op : op = Foreground(MessageName(submitted), 0)
  OBVIOUS
<1>3. /\ Begin(op) \/ Refuse(op)
      /\ IF pending' # NoOperation /\ pending = NoOperation
           THEN /\ doubt' = TRUE
                /\ UNCHANGED <<bufferVars, submitted, uncertain>>
           ELSE /\ CancelOutgoing
                /\ submitted' = NoKey
                /\ doubt' = (doubt \/ exiting')
                /\ uncertain' = (uncertain \/ exiting')
  BY <1>2 DEF SubmitRequest, BeginOperation
<1>4. /\ reserved # NoKey /\ reserved = submitted
      /\ ~Waiting /\ Top.kind = "Conversation"
  BY <1>1 DEF IInv, Talk, Reservation
<1>5. /\ op.purpose = "Foreground" /\ op.origin = "Conversation"
      /\ op.name \in {"PRIVATE", "GROUP", "BROADCAST"}
  BY <1>2, <1>4 DEF Foreground, Operation, MessageName
<1>6. WellAsked(op) /\ op # NoOperation
  <2>1. NameOf("Conversation") = {"PRIVATE", "GROUP", "BROADCAST"}
    BY DEF NameOf
  <2>2. WellAsked(op)
    BY <1>5, <2>1 DEF WellAsked
  <2>3. NoOperation.purpose = "none"
    BY DEF NoOperation, Operation
  <2> QED BY <1>5, <2>2, <2>3
<1>7. /\ pending' = pending \/ (pending = NoOperation /\ pending' = op)
      /\ reason' \in {reason} \cup FairReason
  <2>1. CASE Begin(op)
    BY <2>1, BeginAsks, StopFairly DEF FairReason
  <2>2. CASE Refuse(op)
    BY <2>2 DEF Refuse
  <2> QED BY <1>3, <2>1, <2>2
<1>8. Exchange'
  <2>1. CASE Begin(op)
    BY <1>1, <1>6, <2>1, BeginExchange
  <2>2. CASE Refuse(op)
    <3>1. UNCHANGED <<pending, expected, asked>>
      BY <2>2 DEF Refuse
    <3> QED BY <1>1, <3>1 DEF IInv, Talk, Exchange, PendingShape, Waiting,
              Naming, InvalidAnswers
  <2> QED BY <1>3, <2>1, <2>2
<1>9. CASE pending = NoOperation /\ pending' = op
  <2>1. /\ doubt' = TRUE
        /\ UNCHANGED <<bufferVars, submitted, uncertain>>
    BY <1>3, <1>6, <1>9
  <2>2. UNCHANGED <<conversations, messagesById, reserved>> /\ Open' = Open
    BY <2>1 DEF bufferVars, Open
  <2>3. Sending' /\ response.result = "none"
    BY <1>5, <1>9, NothingAsked DEF Sending, Waiting
  <2>4. Reservation'
    <3>1. submitted \in Key \cup {NoKey}
      BY DEF IInv, Talk, Reservation
    <3>2. submitted' = submitted /\ reserved' = reserved
      BY <2>1, <2>2
    <3> QED BY <1>1, <1>4, <2>3, <3>1, <3>2 DEF Reservation
  <2>5. Doubted'
    BY <1>1, <1>4, <2>1, <2>3 DEF Doubted
  <2>6. Fated'
    BY <1>1, <2>2, <2>3 DEF IInv, Talk, Fated
  <2>7. Place'
    BY <1>1, <1>5, <1>9, <2>2, PlaceKeeps
  <2>8. BufferSound' /\ Snapped' /\ ViewedWasPresented' /\ ChecksNeverMisfire'
    BY <1>1, <1>7, <2>1, <2>2, IdleBuffer, ViewedKeeps, ReasonKeeps
       DEF Snapped, IInv
  <2> QED BY <1>8, <2>4, <2>5, <2>6, <2>7, <2>8 DEF IInv, Talk
<1>10. CASE pending' = pending
  <2>1. /\ CancelOutgoing
        /\ submitted' = NoKey
        /\ doubt' = (doubt \/ exiting')
        /\ uncertain' = (uncertain \/ exiting')
    BY <1>3, <1>10
  <2>2. /\ BufferSound' /\ reserved' = NoKey /\ Open' = Open
        /\ UNCHANGED <<conversations, messagesById, nextArrival>>
    BY <2>1, CancellingKeeps DEF IInv, Open
  <2>3. ~Sending' /\ ~Sending
    BY <1>4, <1>10 DEF Sending, Waiting
  <2>4. Reservation'
    BY <1>1, <2>1, <2>2, <2>3 DEF Reservation
  <2>5. Doubted'
    BY <1>1, <2>1, <2>3 DEF IInv, Talk, Doubted, Abandoned
  <2>6. Fated'
    BY <1>1, <2>2, <2>3 DEF IInv, Talk, Fated
  <2>7. Place'
    BY <1>1, <1>10, <2>2, PlaceKeeps
  <2>8. Snapped' /\ ViewedWasPresented' /\ ChecksNeverMisfire'
    BY <1>1, <1>7, <2>2, ViewedKeeps, ReasonKeeps DEF Snapped
  <2> QED BY <1>8, <2>2, <2>4, <2>5, <2>6, <2>7, <2>8 DEF IInv, Talk
<1> QED BY <1>7, <1>9, <1>10

\* The end of run takes back the place of a message without an answer, and
\* records the uncertainty.
LEMMA LeaveRunKeeps ==
  ASSUME IInv, LeaveRun
  PROVE  IInv'
<1>1. /\ pc = "leave" /\ pc' = "done"
      /\ UNCHANGED <<screens, pending, submitted, expected, response, asked,
                     fate, member, presented, doubt, setting, reason>>
  BY DEF LeaveRun, Go, screenVars, serverVars, pastVars
<1>2. /\ BufferSound' /\ (reserved' = NoKey \/ UNCHANGED reserved)
      /\ UNCHANGED <<conversations, messagesById, nextArrival>> /\ Open' = Open
  <2>1. CASE CancelOutgoing
    BY <2>1, CancellingKeeps DEF IInv, Open
  <2>2. CASE UNCHANGED bufferVars
    BY <2>2, IdleBuffer DEF IInv, bufferVars, Open
  <2> QED BY <2>1, <2>2 DEF LeaveRun
<1>3. Exchange'
  BY <1>1 DEF IInv, Talk, Exchange, PendingShape, Waiting, Naming,
     InvalidAnswers
<1>4. Reservation'
  <2>1. (Sending <=> Sending') /\ (Abandoned => Abandoned')
    BY <1>1 DEF Sending, Waiting, Abandoned, Stopping, InvalidAnswers
  <2> QED BY <1>1, <1>2, <2>1 DEF IInv, Talk, Reservation
<1>5. Doubted'
  <2>1. CASE pending # NoOperation /\ submitted # NoKey
    BY <2>1 DEF LeaveRun, Doubted
  <2>2. CASE ~(pending # NoOperation /\ submitted # NoKey)
    <3>1. UNCHANGED uncertain
      BY <2>2 DEF LeaveRun
    <3>2. Sending => pending # NoOperation
      BY RequestShape DEF Sending
    <3>3. Abandoned => Abandoned'
      BY <1>1 DEF Abandoned, Stopping, InvalidAnswers
    <3> QED BY <1>1, <2>2, <3>1, <3>2, <3>3 DEF IInv, Talk, Doubted
  <2> QED BY <2>1, <2>2
<1>6. Fated'
  BY <1>1, <1>2 DEF IInv, Talk, Fated, Sending, Waiting, Known
<1>7. Place'
  BY <1>1, <1>2, PlaceKeeps
<1>8. Snapped' /\ ViewedWasPresented' /\ ChecksNeverMisfire'
  BY <1>1, <1>2, ViewedKeeps, ReasonKeeps DEF Snapped
<1> QED BY <1>2, <1>3, <1>4, <1>5, <1>6, <1>7, <1>8 DEF IInv, Talk

\* What a rendering marks as viewed was in its snapshot.
LEMMA PresentKeeps ==
  ASSUME IInv, Present
  PROVE  IInv'
<1>1. /\ pc = "present" /\ pc' = "flush"
      /\ UNCHANGED <<screens, pending, submitted, uncertain, expected, response,
                     asked, fate, member, doubt, setting, reason>>
      /\ presented' = presented \cup Rendered
  BY DEF Present, Go, opVars, serverVars
<1>2. Steady
  BY <1>1 DEF Steady, Stopping
<1>3. CASE UNCHANGED bufferVars
  <2>1. UNCHANGED <<conversations, messagesById, reserved>> /\ Open' = Open
    BY <1>3 DEF bufferVars, Open
  <2>2. BufferSound'
    BY <1>3, IdleBuffer DEF IInv
  <2>3. Place' /\ Talk'
    BY <1>1, <1>2, <2>1, PlaceKeeps, TalkKeeps
  <2>4. Snapped' /\ ViewedWasPresented' /\ ChecksNeverMisfire'
    BY <1>1, <2>1, ViewedKeeps, ReasonKeeps DEF Snapped
  <2> QED BY <2>2, <2>3, <2>4 DEF IInv
<1>4. CASE ~UNCHANGED bufferVars
  <2>1. ~small /\ MarkViewed(Showing, snap.through)
    BY <1>4 DEF Present
  <2>2. PICK k, through : k = Showing /\ through = snap.through
    OBVIOUS
  <2>3. /\ k \in Open
        /\ conversations' =
             [conversations EXCEPT ![k].unread = {n \in @ : n > through}]
    BY <2>1, <2>2 DEF MarkViewed, Unread
  <2>4. /\ k \in Key /\ through \in Nat
        /\ \A i \in MessagesOf(k) :
             messagesById[i].arrival > through \/ i \in snap.ids
    BY <1>1, <2>2, <2>3 DEF IInv, Snapped, BufferSound, BufferShape
  <2>5. /\ BufferSound'
        /\ UNCHANGED <<messagesById, reserved>> /\ Open' = Open
    BY <2>1, <2>2, <2>4, ViewingKeeps DEF IInv
  <2>6. Place' /\ Talk'
    BY <1>1, <1>2, <2>5, PlaceKeeps, TalkKeeps
  <2>7. snap.ids \subseteq presented' /\ presented \subseteq presented'
    BY <1>1, <2>1 DEF Rendered
  <2>8. /\ Unread(k)' = {n \in Unread(k) : n > through}
        /\ \A l \in Open \ {k} : Unread(l)' = Unread(l)
    BY <2>3, <2>5 DEF Unread, Open, IInv, BufferSound, BufferShape
  <2>9. ASSUME NEW i \in DOMAIN messagesById, NEW l, l = messagesById[i].key
        PROVE  \/ messagesById[i].outgoing
               \/ messagesById[i].arrival \in Unread(l)'
               \/ i \in presented'
    <3>1. /\ l \in Open /\ i \in MessagesOf(l)
      BY <2>9 DEF IInv, BufferSound, MessagesAreFiled, MessagesOf
    <3>2. \/ messagesById[i].outgoing
          \/ messagesById[i].arrival \in Unread(l)
          \/ i \in presented
      BY <2>9 DEF IInv, ViewedWasPresented
    <3>3. CASE l = k
      BY <2>4, <2>7, <2>8, <3>1, <3>2, <3>3
    <3>4. CASE l # k
      BY <2>7, <2>8, <3>1, <3>2, <3>4
    <3> QED BY <3>3, <3>4
  <2>10. ViewedWasPresented'
    BY <2>5, <2>9 DEF ViewedWasPresented, Unread
  <2>11. Snapped' /\ ChecksNeverMisfire'
    BY <1>1, ReasonKeeps DEF Snapped
  <2> QED BY <2>5, <2>6, <2>10, <2>11 DEF IInv
<1> QED BY <1>3, <1>4

-----------------------------------------------------------------------------
\* A response that is consumed ends its operation.
LEMMA Cleared ==
  ASSUME IInv, NEW result \in {"ok", "fail", "misshapen"}, Applying(result)
  PROVE  /\ Exchange' /\ pending' = NoOperation /\ response'.result = "none"
         /\ ~Waiting' /\ ~Sending'
         /\ pc = "consume" /\ pc' = "look"
         /\ UNCHANGED <<uncertain, fate, member, presented, setting>>
<1>1. /\ pc = "consume" /\ pc' = "look"
      /\ response.result = result /\ pending # NoOperation
      /\ pending' = NoOperation /\ expected' = "" /\ response' = NoResponse
      /\ UNCHANGED <<uncertain, asked, fate, member, presented, setting>>
  BY DEF Applying, Consuming, ClearOperation, Go, serverVars
<1>2. NoOperation.purpose = "none" /\ NoOperation.name = ""
  BY DEF NoOperation, Operation
<1>3. /\ NoResponse.result = "none" /\ NoResponse.page \in PageSet
      /\ NoResponse.page.keys = {}
  BY DEF NoResponse, Reply, Blank, Page, PageSet
<1>4. response # NoResponse
  BY <1>1, <1>3
<1>5. asked' = NoOperation
  BY <1>1, <1>4 DEF IInv, Talk, Exchange
<1>6. ~Waiting' /\ ~Sending'
  BY <1>1, <1>2 DEF Waiting, Sending
<1>7. Exchange'
  <2>1. PendingShape'
    BY <1>1 DEF PendingShape
  <2>2. setting' \in Setting /\ member' \subseteq Group
    BY <1>1 DEF IInv, Talk, Exchange
  <2> QED BY <1>1, <1>2, <1>3, <1>5, <2>1, <2>2 DEF Exchange
<1> QED BY <1>1, <1>3, <1>6, <1>7

\* A response that is consumed and is not for a message.
LEMMA SettledKeeps ==
  ASSUME IInv, NEW result \in {"ok", "fail"}, Applying(result),
         ~Sending, Stacked', ShownExists',
         UNCHANGED <<submitted, doubt, reason, bufferVars>>
  PROVE  IInv'
<1>1. /\ Exchange' /\ response'.result = "none"
      /\ ~Waiting' /\ ~Sending'
      /\ pc = "consume" /\ pc' = "look"
      /\ UNCHANGED <<uncertain, fate, member, presented, setting>>
  BY Cleared
<1>2. UNCHANGED <<conversations, messagesById, reserved>>
  BY DEF bufferVars
<1>3. submitted = NoKey /\ reserved = NoKey
  BY <1>1, NothingReserved DEF Abandoned
<1>4. Reservation'
  BY <1>1, <1>2, <1>3 DEF Reservation
<1>5. Doubted'
  BY <1>1, <1>3 DEF IInv, Talk, Doubted
<1>6. Fated'
  BY <1>1, <1>2 DEF IInv, Talk, Fated
<1>7. Place'
  BY <1>1 DEF Place, AskedFromScreen
<1>8. BufferSound' /\ Snapped' /\ ViewedWasPresented' /\ ChecksNeverMisfire'
  BY <1>1, <1>2, IdleBuffer, ViewedKeeps, ReasonKeeps DEF Snapped, IInv
<1> QED BY <1>1, <1>4, <1>5, <1>6, <1>7, <1>8 DEF IInv, Talk

\* A FAIL gives back the place of a message.
LEMMA ApplyFailureKeeps ==
  ASSUME IInv, ApplyFailure
  PROVE  IInv'
<1>1. /\ Applying("fail") /\ submitted' = NoKey
      /\ UNCHANGED <<screens, reason>>
      /\ IF submitted = NoKey
           THEN UNCHANGED <<bufferVars, doubt>>
           ELSE CancelOutgoing /\ doubt' = FALSE
  BY DEF ApplyFailure
<1>2. /\ Exchange' /\ response'.result = "none"
      /\ ~Waiting' /\ ~Sending'
      /\ pc = "consume" /\ pc' = "look"
      /\ UNCHANGED <<uncertain, fate, member, presented, setting>>
  BY <1>1, Cleared
<1>3. /\ BufferSound' /\ reserved' = NoKey
      /\ UNCHANGED <<conversations, messagesById, nextArrival>> /\ Open' = Open
  <2>1. CASE submitted = NoKey
    <3>1. reserved = NoKey
      BY <2>1 DEF IInv, Talk, Reservation
    <3>2. UNCHANGED bufferVars
      BY <1>1, <2>1
    <3> QED BY <3>1, <3>2, IdleBuffer DEF IInv, bufferVars, Open
  <2>2. CASE submitted # NoKey
    BY <1>1, <2>2, CancellingKeeps DEF IInv, Open
  <2> QED BY <2>1, <2>2
<1>4. Reservation'
  BY <1>1, <1>2, <1>3 DEF Reservation
<1>5. Doubted'
  BY <1>1, <1>2 DEF IInv, Talk, Doubted
<1>6. Fated'
  BY <1>2, <1>3 DEF IInv, Talk, Fated
<1>7. Place'
  BY <1>1, <1>2, <1>3, PlaceKeeps
<1>8. Snapped' /\ ViewedWasPresented' /\ ChecksNeverMisfire'
  BY <1>1, <1>2, <1>3, ViewedKeeps, ReasonKeeps DEF Snapped
<1> QED BY <1>2, <1>3, <1>4, <1>5, <1>6, <1>7, <1>8 DEF IInv, Talk

\* A response of the wrong shape stops the client.
LEMMA ApplyMisshapenKeeps ==
  ASSUME IInv, ApplyMisshapen
  PROVE  IInv'
<1>1. /\ Applying("misshapen") /\ Stop("invalid")
      /\ UNCHANGED <<screens, submitted, doubt, bufferVars>>
  BY DEF ApplyMisshapen
<1>2. /\ Exchange' /\ response'.result = "none" /\ pending' = NoOperation
      /\ ~Waiting' /\ ~Sending'
      /\ pc = "consume" /\ pc' = "look"
      /\ UNCHANGED <<uncertain, fate, member, presented, setting>>
  BY <1>1, Cleared
<1>3. UNCHANGED <<conversations, messagesById, reserved>> /\ Open' = Open
  BY <1>1 DEF bufferVars, Open
<1>4. InvalidAnswers /\ InvalidAnswers'
  BY <1>1, <1>2 DEF Applying, IInv, Talk, Exchange, InvalidAnswers
<1>5. Abandoned'
  BY <1>1, <1>2, <1>4 DEF Abandoned, Stop, Stopping
<1>6. Reservation'
  BY <1>1, <1>2, <1>3, <1>5 DEF IInv, Talk, Reservation
<1>7. Doubted'
  BY <1>1, <1>2, <1>5 DEF IInv, Talk, Doubted
<1>8. Fated'
  BY <1>2, <1>3 DEF IInv, Talk, Fated
<1>9. Place'
  BY <1>1, <1>2, <1>3, PlaceKeeps
<1>10. BufferSound' /\ Snapped' /\ ViewedWasPresented' /\ ChecksNeverMisfire'
  BY <1>1, <1>2, <1>3, <1>4, IdleBuffer, ViewedKeeps
     DEF Snapped, ChecksNeverMisfire, IInv
<1> QED BY <1>2, <1>6, <1>7, <1>8, <1>9, <1>10 DEF IInv, Talk

\* The acceptance of a message finds its place reserved and its id unused: the
\* checks of commitOutgoing do not fail.
LEMMA ApplyAcceptanceKeeps ==
  ASSUME IInv, ApplyAcceptance
  PROVE  IInv'
<1>1. /\ Applying("ok") /\ Sending /\ UNCHANGED screens
  BY DEF ApplyAcceptance, Sending
<1>2. /\ Exchange' /\ response'.result = "none"
      /\ ~Waiting' /\ ~Sending'
      /\ pc = "consume" /\ pc' = "look"
      /\ UNCHANGED <<uncertain, fate, member, presented, setting>>
  BY <1>1, Cleared
<1>3. response.result = "ok"
  BY <1>1 DEF Applying
<1>4. PICK i : i = response.id
  OBVIOUS
<1>5. i \in Id /\ fate[i] = Own /\ ~Known(i)
  BY <1>1, <1>3, <1>4 DEF IInv, Talk, Fated
<1>6. reserved # NoKey /\ reserved \in Open
  BY <1>1, <1>2 DEF IInv, Talk, Reservation, BufferSound, BufferShape
<1>7. MayCommit(i)
  BY <1>5, <1>6 DEF MayCommit
<1>8. /\ CommitOutgoing(i) /\ submitted' = NoKey /\ doubt' = FALSE
      /\ UNCHANGED reason
  BY <1>4, <1>7 DEF ApplyAcceptance
<1>9. BufferSound' /\ reserved' = NoKey
  BY <1>5, <1>8, CommittingKeeps DEF IInv, CommitOutgoing
<1>10. /\ conversations' = [conversations EXCEPT ![reserved].messages = @ \cup {i}]
       /\ messagesById' = With(messagesById, i, Message(reserved, TRUE, nextArrival))
  BY <1>8 DEF CommitOutgoing
<1>11. /\ Open' = Open
       /\ \A l \in Open : conversations'[l].unread = conversations[l].unread
  BY <1>6, <1>10 DEF Open
<1>12. /\ DOMAIN messagesById' = DOMAIN messagesById \cup {i}
       /\ messagesById'[i].outgoing = TRUE
       /\ \A j \in DOMAIN messagesById : messagesById'[j] = messagesById[j]
  BY <1>5, <1>10 DEF With, Message, Known
<1>13. Reservation' /\ Doubted'
  BY <1>2, <1>8, <1>9 DEF Reservation, Doubted
<1>14. Fated'
  BY <1>2, <1>5, <1>12 DEF IInv, Talk, Fated
<1>15. Place'
  BY <1>1, <1>2, <1>11, PlaceKeeps
<1>16. ViewedWasPresented'
  <2>1. ASSUME NEW j \in DOMAIN messagesById, NEW l, l = messagesById[j].key
        PROVE  \/ messagesById'[j].outgoing
               \/ messagesById'[j].arrival \in Unread(l)'
               \/ j \in presented'
    <3>1. l \in Open
      BY <2>1 DEF IInv, BufferSound, MessagesAreFiled, MessagesOf
    <3>2. Unread(l)' = Unread(l)
      BY <1>11, <3>1 DEF Unread
    <3> QED BY <1>2, <1>12, <2>1, <3>2 DEF IInv, ViewedWasPresented
  <2> QED BY <1>12, <2>1 DEF ViewedWasPresented, Unread
<1>17. Snapped' /\ ChecksNeverMisfire'
  BY <1>2, <1>8, ReasonKeeps DEF Snapped
<1> QED BY <1>2, <1>9, <1>13, <1>14, <1>15, <1>16, <1>17 DEF IInv, Talk

-----------------------------------------------------------------------------
\* The screen a response is for is the one that asked.
LEMMA Origins ==
  ASSUME IInv, Waiting, pending.name \notin {"PRIVATE", "GROUP", "BROADCAST"}
  PROVE  /\ ~Sending
         /\ screens[Target].kind = pending.origin
         /\ pending.origin # "Main" /\ pending.origin # "Conversation"
         /\ pending.name \in NameOf(pending.origin)
<1>1. pending.name \in NameOf(pending.origin) /\ pending.origin # "Main"
  BY RequestShape
<1>2. NameOf("Conversation") = {"PRIVATE", "GROUP", "BROADCAST"}
  BY DEF NameOf
<1>3. pending.origin # "Conversation"
  BY <1>1, <1>2
<1> QED BY <1>1, <1>3 DEF IInv, Place, AskedFromScreen, Sending

\* The form of an action is taken off the stack.
LEMMA RemovedKeeps ==
  ASSUME IInv, Applying("ok"), Waiting,
         pending.name \notin {"PRIVATE", "GROUP", "BROADCAST"},
         screens' = RemoveAt(screens, Target),
         UNCHANGED <<submitted, doubt, reason, bufferVars>>
  PROVE  IInv'
<1>1. /\ ~Sending /\ screens[Target].kind # "Main"
  BY Origins
<1>2. Target > 1
  BY <1>1, Depths DEF IInv, Place, Stacked
<1>3. Stacked' /\ \A n \in 1..Depth' : \E m \in 1..Depth : screens'[n] = screens[m]
  BY <1>2, RemovalStacks DEF IInv, Place
<1>4. Open' = Open
  BY DEF bufferVars, Open
<1>5. ShownExists'
  <2>1. SUFFICES ASSUME NEW n \in 1..Depth'
                 PROVE  /\ screens'[n].kind = "Conversation" => screens'[n].key \in Open
                        /\ screens'[n].kind \in ActionKinds => screens'[n].key \in Key
                        /\ screens'[n].kind = "GroupActions" => IsGroup(screens'[n].key)
                        /\ screens'[n].kind = "GroupSearchResults" =>
                             \A k \in screens'[n].page.keys : IsGroup(k)
    BY <1>4 DEF ShownExists
  <2>2. PICK m \in 1..Depth : screens'[n] = screens[m]
    BY <1>3
  <2> QED BY <2>2 DEF IInv, Place, ShownExists
<1> QED BY <1>1, <1>3, <1>5, SettledKeeps

\* A screen of the stack gets a page, or a new state of its record.
LEMMA ChangedKeeps ==
  ASSUME IInv, NEW e \in ScreenSet,
         screens' = [screens EXCEPT ![Target] = e],
         \/ e.kind = screens[Target].kind
         \/ {e.kind, screens[Target].kind} \subseteq SearchKinds,
         e.key = screens[Target].key,
         e.kind # "Conversation",
         e.kind = "GroupSearchResults" => \A k \in e.page.keys : IsGroup(k),
         UNCHANGED conversations
  PROVE  Stacked' /\ ShownExists'
<1>1. /\ screens \in Seq(ScreenSet) /\ Target \in 1..Depth
      /\ Stacked /\ ShownExists
  BY Depths DEF IInv, Place, Stacked
<1>2. /\ screens' \in Seq(ScreenSet) /\ Depth' = Depth
      /\ \A n \in 1..Depth : screens'[n] = IF n = Target THEN e ELSE screens[n]
  BY <1>1, ExceptSeq DEF Depth
<1>3. Stacked'
  BY <1>1, <1>2, SameStack
<1>4. Open' = Open
  BY DEF Open
<1>5. e.kind \in ActionKinds => e.kind = screens[Target].kind
  BY DEF ActionKinds, SearchKinds
<1>6. ShownExists'
  <2>1. ASSUME NEW n \in 1..Depth, n # Target
        PROVE  screens'[n] = screens[n]
    BY <1>2, <2>1
  <2>2. screens'[Target] = e
    BY <1>1, <1>2
  <2>3. e.kind \in ActionKinds => e.key \in Key
    BY <1>1, <1>5 DEF ShownExists
  <2>4. e.kind = "GroupActions" => IsGroup(e.key)
    BY <1>1, <1>5 DEF ShownExists, ActionKinds
  <2>5. ASSUME NEW n \in 1..Depth
        PROVE  /\ screens'[n].kind = "Conversation" => screens'[n].key \in Open
               /\ screens'[n].kind \in ActionKinds => screens'[n].key \in Key
               /\ screens'[n].kind = "GroupActions" => IsGroup(screens'[n].key)
               /\ screens'[n].kind = "GroupSearchResults" =>
                    \A k \in screens'[n].page.keys : IsGroup(k)
    <3>1. CASE n = Target
      BY <2>2, <2>3, <2>4, <3>1
    <3>2. CASE n # Target
      BY <1>1, <2>1, <3>2 DEF ShownExists
    <3> QED BY <3>1, <3>2
  <2> QED BY <1>2, <1>4, <2>5 DEF ShownExists
<1> QED BY <1>3, <1>6

\* A page is put on the screen that asked for it.
LEMMA ApplyPageKeeps ==
  ASSUME IInv, ApplyPage
  PROVE  IInv'
<1>1. /\ Waiting
      /\ pending.name \in {"CONTACT_LIST", "USER_SEARCH", "GROUP_LIST",
                           "GROUP_SEARCH", "HISTORY"}
      /\ Applying("ok")
      /\ UNCHANGED <<submitted, doubt, bufferVars>>
  BY DEF ApplyPage, ApplyToScreen
<1>2. /\ ~Sending /\ screens[Target].kind = pending.origin
      /\ pending.name \in NameOf(pending.origin)
  BY <1>1, Origins
<1>3. /\ UNCHANGED reason
      /\ screens' = [screens EXCEPT ![Target].kind = AsResults(@),
                                    ![Target].page = response.page,
                                    ![Target].hasPage = TRUE]
  BY <1>2 DEF ApplyPage, ApplyToScreen
<1>4. /\ screens \in Seq(ScreenSet) /\ Target \in 1..Depth
      /\ screens[Target] \in ScreenSet
  BY Depths DEF IInv, Place, Stacked
<1>5. PICK e : e = [screens[Target] EXCEPT !.kind = AsResults(@),
                                           !.page = response.page,
                                           !.hasPage = TRUE]
  OBVIOUS
<1>6. screens' = [screens EXCEPT ![Target] = e]
  BY <1>3, <1>4, <1>5
<1>7. PICK origin : origin = pending.origin
  OBVIOUS
<1>8. origin \in {"History", "ContactList", "GroupList"} \cup SearchKinds
  <2>1. pending.name \in NameOf(origin)
    BY <1>2, <1>7
  <2> QED BY <1>1, <2>1 DEF NameOf, SearchKinds
<1>9. response.page \in PageSet
  BY DEF IInv, Talk, Exchange
<1>10. /\ e \in ScreenSet
       /\ e.kind = AsResults(origin) /\ e.key = screens[Target].key
       /\ e.page = response.page
  BY <1>2, <1>4, <1>5, <1>7, <1>8, <1>9
     DEF ScreenSet, AsResults, ScreenKind, SearchKinds
<1>11. \/ AsResults(origin) = origin
       \/ {AsResults(origin), origin} \subseteq SearchKinds
  BY DEF AsResults, SearchKinds
<1>12. AsResults(origin) # "Conversation"
  BY <1>8 DEF AsResults, SearchKinds
<1>13. AsResults(origin) = "GroupSearchResults" => pending.name = "GROUP_SEARCH"
  <2>1. AsResults(origin) = "GroupSearchResults" =>
          origin \in {"GroupSearchInput", "GroupSearchResults"}
    BY DEF AsResults
  <2>2. NameOf("GroupSearchInput") = {"GROUP_SEARCH"}
    BY DEF NameOf, ListName
  <2>3. NameOf("GroupSearchResults") = {"GROUP_SEARCH"}
    BY DEF NameOf, ListName
  <2> QED BY <1>2, <1>7, <2>1, <2>2, <2>3
<1>14. e.kind = "GroupSearchResults" => \A k \in e.page.keys : IsGroup(k)
  BY <1>10, <1>13 DEF IInv, Talk, Exchange
<1>15. Stacked' /\ ShownExists'
  BY <1>1, <1>2, <1>6, <1>7, <1>10, <1>11, <1>12, <1>14, ChangedKeeps
     DEF bufferVars
<1> QED BY <1>1, <1>2, <1>3, <1>15, SettledKeeps

\* The screen of an action stays with its record, its form goes.
LEMMA ActedOnKeeps ==
  ASSUME IInv, Applying("ok"), Waiting,
         pending.name \notin {"PRIVATE", "GROUP", "BROADCAST"},
         screens' = ActedOn,
         UNCHANGED <<submitted, doubt, reason, bufferVars>>
  PROVE  IInv'
<1>1. CASE screens[Target].kind \in ActionKinds
  <2>1. /\ ~Sending
    BY Origins
  <2>2. /\ screens \in Seq(ScreenSet) /\ Target \in 1..Depth
        /\ screens[Target] \in ScreenSet
    BY Depths DEF IInv, Place, Stacked
  <2>3. PICK e : e = [screens[Target] EXCEPT !.mine = TRUE]
    OBVIOUS
  <2>4. screens' = [screens EXCEPT ![Target] = e]
    BY <1>1, <2>2, <2>3 DEF ActedOn
  <2>5. /\ e \in ScreenSet
        /\ e.kind = screens[Target].kind /\ e.key = screens[Target].key
    BY <2>2, <2>3 DEF ScreenSet
  <2>6. e.kind # "Conversation" /\ e.kind # "GroupSearchResults"
    BY <1>1, <2>5 DEF ActionKinds
  <2>7. Stacked' /\ ShownExists'
    BY <2>4, <2>5, <2>6, ChangedKeeps DEF bufferVars
  <2> QED BY <2>1, <2>7, SettledKeeps
<1>2. CASE screens[Target].kind \notin ActionKinds
  BY <1>2, RemovedKeeps DEF ActedOn
<1> QED BY <1>1, <1>2

\* The answers to CONTACT_ADD, GROUP_CREATE and GROUP_JOIN.
LEMMA ApplyActionKeeps ==
  ASSUME IInv, ApplyContactAdd \/ ApplyGroupCreate \/ ApplyGroupJoin
  PROVE  IInv'
<1>1. /\ Waiting
      /\ pending.name \in {"CONTACT_ADD", "GROUP_CREATE", "GROUP_JOIN"}
      /\ Applying("ok")
      /\ UNCHANGED <<submitted, doubt, bufferVars>>
  BY DEF ApplyContactAdd, ApplyGroupCreate, ApplyGroupJoin, ApplyToScreen
<1>2. screens[Target].kind = pending.origin
  BY <1>1, Origins
<1>3. /\ UNCHANGED reason
      /\ screens' = ActedOn \/ screens' = RemoveAt(screens, Target)
  BY <1>2 DEF ApplyContactAdd, ApplyGroupCreate, ApplyGroupJoin, ApplyToScreen
<1> QED BY <1>1, <1>3, ActedOnKeeps, RemovedKeeps

\* The answers to the client's own requests for names.
LEMMA ApplyNamesKeeps ==
  ASSUME IInv, ApplyNames
  PROVE  IInv'
<1>1. /\ Naming
      /\ Applying("fail") \/ Applying("ok")
      /\ UNCHANGED <<screens, submitted, doubt, reason, bufferVars>>
  BY DEF ApplyNames
<1>2. Stacked' /\ ShownExists'
  BY <1>1 DEF IInv, Place, Stacked, ShownExists, Depth, OnNotifications,
       bufferVars, Open
<1>3. ~Sending
  BY RequestShape DEF ApplyNames, Sending
<1> QED BY <1>1, <1>2, <1>3, SettledKeeps

\* Every way a response is consumed.
LEMMA ApplyKeeps ==
  ASSUME IInv, Apply
  PROVE  IInv'
BY ApplyFailureKeeps, ApplyMisshapenKeeps, ApplyAcceptanceKeeps,
   ApplyPageKeeps,
   ApplyActionKeeps, ApplyNamesKeeps DEF Apply

-----------------------------------------------------------------------------
\* A pending operation has a name, so that expectedOperation says whether
\* there is one.
LEMMA RequestsAreNamed ==
  ASSUME IInv, pending # NoOperation
  PROVE  pending.name # ""
<1>1. \A origin : "" \notin NameOf(origin)
  <2>1. SUFFICES ASSUME NEW origin, "" \in NameOf(origin) PROVE FALSE
    OBVIOUS
  <2>2. origin \in {"History", "ContactList", "GroupList"} \cup SearchKinds
    BY <2>1 DEF NameOf, SearchKinds
  <2>3. ListName(origin) # ""
    BY <2>2 DEF ListName, SearchKinds
  <2>4. NameOf(origin) = {ListName(origin)}
    BY <2>2 DEF NameOf, SearchKinds
  <2> QED BY <2>1, <2>3, <2>4
<1> QED BY <1>1, RequestShape

\* A request that is not answered yet is the pending one, and no response
\* waits.
LEMMA AnsweredOnce ==
  ASSUME IInv, asked # NoOperation
  PROVE  /\ asked = pending /\ pending # NoOperation
         /\ response = NoResponse /\ response.result = "none"
         /\ expected # ""
<1>1. /\ asked = pending /\ response = NoResponse /\ expected = pending.name
  BY DEF IInv, Talk, Exchange
<1>2. NoResponse.result = "none"
  BY DEF NoResponse, Reply
<1> QED BY <1>1, <1>2, RequestsAreNamed

\* A response is kept for the operation it belongs to.
LEMMA AnswerKeeps ==
  ASSUME IInv, NEW reply, NEW matches \in BOOLEAN,
         Answered, Associate(reply, matches), matches \/ InvalidAnswers,
         reply.result \in {"ok", "fail", "misshapen"},
         reply.result = "misshapen" => InvalidAnswers,
         reply.page \in PageSet,
         pending.name = "GROUP_SEARCH" => \A k \in reply.page.keys : IsGroup(k),
         member' \subseteq Group,
         \/ UNCHANGED fate /\ ~(reply.result = "ok" /\ Sending)
         \/ /\ reply.id \in Id /\ fate[reply.id] = NoKey
            /\ fate' = [fate EXCEPT ![reply.id] = Own]
  PROVE  IInv'
<1>1. /\ UNCHANGED <<pc, snap, screens, pending, submitted, uncertain, expected,
                     presented, doubt, setting, bufferVars>>
      /\ asked' = NoOperation /\ asked # NoOperation
  BY DEF Answered, Associate, Received, loopVars, screenVars, pastVars
<1>2. /\ asked = pending /\ pending # NoOperation
      /\ response = NoResponse /\ response.result = "none"
      /\ expected # ""
  BY <1>1, AnsweredOnce
<1>3. \/ response' = reply /\ UNCHANGED reason
      \/ UNCHANGED response /\ InvalidAnswers /\ reason' # ""
  BY <1>2 DEF Associate, Stop, Stopping
<1>4. UNCHANGED <<conversations, messagesById, reserved, nextArrival>> /\ Open' = Open
  BY <1>1 DEF bufferVars, Open
<1>5. Exchange'
  <2>1. PendingShape'
    BY <1>1 DEF IInv, Talk, Exchange, PendingShape, Waiting, Naming
  <2>2. InvalidAnswers' <=> InvalidAnswers
    BY <1>1 DEF InvalidAnswers
  <2>3. /\ response'.result \in {"none", "ok", "fail", "misshapen"}
        /\ response'.result = "none" => response' = NoResponse
        /\ response'.result = "misshapen" => InvalidAnswers
        /\ response'.page \in PageSet
        /\ pending.name = "GROUP_SEARCH" => \A k \in response'.page.keys : IsGroup(k)
    BY <1>2, <1>3 DEF IInv, Talk, Exchange
  <2> QED BY <1>1, <1>2, <2>1, <2>2, <2>3 DEF IInv, Talk, Exchange
<1>6. Stopping => Stopping'
  BY <1>3 DEF Stopping
<1>7. Reservation'
  BY <1>1, <1>2, <1>4 DEF IInv, Talk, Reservation, Sending, Waiting, Top,
     Abandoned
<1>8. Doubted'
  BY <1>1, <1>2, <1>4 DEF IInv, Talk, Doubted, Sending, Waiting, Abandoned
<1>9. Fated'
  <2>1. Sending' <=> Sending
    BY <1>1 DEF Sending, Waiting
  <2>2. CASE UNCHANGED fate /\ ~(reply.result = "ok" /\ Sending)
    <3>1. ~(response'.result = "ok" /\ Sending')
      BY <1>2, <1>3, <2>1, <2>2
    <3> QED BY <1>4, <2>2, <3>1 DEF IInv, Talk, Fated
  <2>3. CASE /\ reply.id \in Id /\ fate[reply.id] = NoKey
             /\ fate' = [fate EXCEPT ![reply.id] = Own]
    <3>1. fate \in [Id -> Key \cup {NoKey, Own}]
      BY DEF IInv, Talk, Fated
    <3>2. ASSUME NEW i \in DOMAIN messagesById
          PROVE  /\ i \in Id /\ i # reply.id
                 /\ fate[i] = IF messagesById[i].outgoing THEN Own
                                                          ELSE messagesById[i].key
      <4>1. i \in Id /\ messagesById[i].key \in Key
        BY DEF IInv, BufferSound, BufferShape
      <4>2. fate[i] = IF messagesById[i].outgoing THEN Own ELSE messagesById[i].key
        BY DEF IInv, Talk, Fated
      <4>3. fate[i] # NoKey
        BY <4>1, <4>2, UiAssumption, KeyAssumption
      <4> QED BY <2>3, <4>1, <4>2, <4>3
    <3>3. response'.result = "ok" => response' = reply
      BY <1>2, <1>3
    <3>4. fate' \in [Id -> Key \cup {NoKey, Own}]
      BY <2>3, <3>1
    <3>5. fate'[reply.id] = Own /\ \A i \in Id : i # reply.id => fate'[i] = fate[i]
      BY <2>3, <3>1
    <3>6. reply.id \notin DOMAIN messagesById
      BY <3>2
    <3> QED BY <1>4, <2>3, <3>2, <3>3, <3>4, <3>5, <3>6 DEF Fated, Known
  <2> QED BY <2>2, <2>3
<1>10. Place'
  BY <1>1, <1>4, PlaceKeeps
<1>11. ChecksNeverMisfire'
  BY <1>1, <1>3 DEF IInv, ChecksNeverMisfire, InvalidAnswers
<1>12. BufferSound' /\ Snapped' /\ ViewedWasPresented'
  BY <1>1, <1>4, IdleBuffer, SnappedKeeps, ViewedKeeps DEF IInv
<1> QED BY <1>5, <1>7, <1>8, <1>9, <1>10, <1>11, <1>12 DEF IInv, Talk

-----------------------------------------------------------------------------
BlankPage == Blank \in PageSet /\ \A k \in Blank.keys : IsGroup(k)

\* The empty page is a page of any kind.
LEMMA BlankIsPage == BlankPage
BY DEF BlankPage, Blank, Page, PageSet

\* A request asked from a conversation sends a message.
LEMMA OnlySendingSends ==
  ASSUME IInv, asked # NoOperation, Sending
  PROVE  asked.name \in {"PRIVATE", "GROUP", "BROADCAST"}
<1>1. asked = pending
  BY AnsweredOnce
<1>2. pending.name \in NameOf("Conversation")
  BY RequestShape DEF Sending
<1> QED BY <1>1, <1>2 DEF NameOf

\* The answers that carry no page.
LEMMA SimpleAnswersKeep ==
  ASSUME IInv, AnswerFail \/ AddContact \/ CreateGroup \/ JoinGroup \/ AcceptMessage
  PROVE  IInv'
<1>0. member \subseteq Group
  BY DEF IInv, Talk, Exchange
<1>1. CASE AnswerFail
  <2>1. PICK r : r = Reply("fail", 0, Blank)
    OBVIOUS
  <2>2. r.result = "fail" /\ r.page = Blank
    BY <2>1 DEF Reply
  <2>3. Answered /\ Associate(r, TRUE) /\ UNCHANGED <<member, fate>>
    BY <1>1, <2>1 DEF AnswerFail, Answer, Associate, serverVars
  <2> QED BY <1>0, <2>2, <2>3, BlankIsPage, AnswerKeeps DEF BlankPage
<1>2. CASE AddContact
  <2>1. PICK r : r = Reply("ok", 0, Blank)
    OBVIOUS
  <2>2. r.result = "ok" /\ r.page = Blank
    BY <2>1 DEF Reply
  <2>3. Answered /\ Associate(r, TRUE) /\ UNCHANGED <<member, fate>>
    BY <1>2, <2>1 DEF AddContact, Answer, Associate, serverVars
  <2>4. ~Sending
    BY <1>2, <2>3, OnlySendingSends DEF AddContact, Answered
  <2> QED BY <1>0, <2>2, <2>3, <2>4, BlankIsPage, AnswerKeeps DEF BlankPage
<1>3. CASE CreateGroup
  <2>1. PICK g \in Group : /\ member' = member \cup {g}
                           /\ Answer(Reply("ok", g, Blank))
    BY <1>3 DEF CreateGroup
  <2>2. PICK r : r = Reply("ok", g, Blank)
    OBVIOUS
  <2>3. r.result = "ok" /\ r.page = Blank
    BY <2>2 DEF Reply
  <2>4. Answered /\ Associate(r, TRUE) /\ UNCHANGED fate
    BY <1>3, <2>1, <2>2 DEF CreateGroup, Answer, Associate
  <2>5. ~Sending
    BY <1>3, <2>4, OnlySendingSends DEF CreateGroup, Answered
  <2>6. member' \subseteq Group
    BY <1>0, <2>1
  <2> QED BY <2>3, <2>4, <2>5, <2>6, BlankIsPage, AnswerKeeps DEF BlankPage
<1>4. CASE JoinGroup
  <2>1. PICK r : r = Reply("ok", asked.target, Blank)
    OBVIOUS
  <2>2. r.result = "ok" /\ r.page = Blank
    BY <2>1 DEF Reply
  <2>3. /\ Answered /\ Associate(r, TRUE) /\ UNCHANGED fate
        /\ asked.name = "GROUP_JOIN" /\ member' = member \cup {asked.target}
    BY <1>4, <2>1 DEF JoinGroup, Answer, Associate
  <2>4. ~Sending
    BY <2>3, OnlySendingSends DEF Answered
  <2>5. asked.target \in Group
    <3>1. pending.name = "GROUP_JOIN" /\ asked = pending /\ pending # NoOperation
      BY <2>3, AnsweredOnce DEF Answered
    <3> QED BY <3>1 DEF IInv, Talk, Exchange, PendingShape
  <2>6. member' \subseteq Group
    BY <1>0, <2>3, <2>5
  <2> QED BY <2>2, <2>3, <2>4, <2>6, BlankIsPage, AnswerKeeps DEF BlankPage
<1>5. CASE AcceptMessage
  <2>1. PICK i \in Usable : /\ fate[i] = NoKey
                            /\ fate' = [fate EXCEPT ![i] = Own]
                            /\ Answer(Reply("ok", i, Blank))
    BY <1>5 DEF AcceptMessage
  <2>2. i \in Id
    BY UiAssumption DEF Usable, IInv, Talk, Exchange
  <2>3. PICK r : r = Reply("ok", i, Blank)
    OBVIOUS
  <2>4. r.result = "ok" /\ r.page = Blank /\ r.id = i
    BY <2>3 DEF Reply
  <2>5. Answered /\ Associate(r, TRUE) /\ UNCHANGED member
    BY <1>5, <2>1, <2>3 DEF AcceptMessage, Answer, Associate
  <2> QED BY <1>0, <2>1, <2>2, <2>4, <2>5, BlankIsPage, AnswerKeeps
     DEF BlankPage
<1> QED BY <1>1, <1>2, <1>3, <1>4, <1>5

\* A page of the user's groups.
LEMMA ListGroupsKeeps ==
  ASSUME IInv, ListGroups
  PROVE  IInv'
<1>1. PICK page : page = GroupPage(asked.target,
                     IF asked.purpose = "NameLookup" THEN 1 ELSE PageLimit)
  OBVIOUS
<1>2. PICK r : r = Reply("ok", 0, page)
  OBVIOUS
<1>3. /\ Answered /\ Associate(r, TRUE) /\ UNCHANGED <<member, fate>>
      /\ asked.name = "GROUP_LIST"
  BY <1>1, <1>2 DEF ListGroups, Answer, Associate, serverVars
<1>4. ~Sending /\ pending.name = "GROUP_LIST"
  BY <1>3, OnlySendingSends, AnsweredOnce DEF Answered
<1>5. member \subseteq Group
  BY DEF IInv, Talk, Exchange
<1>6. page \in PageSet
  <2>1. \A gs \in SUBSET Group : {GroupKey[g] : g \in gs} \subseteq Key
    BY UiAssumption
  <2>2. PICK left, first : /\ left = {g \in member : g > asked.target}
                           /\ first = FirstGroups(left,
                                IF asked.purpose = "NameLookup" THEN 1 ELSE PageLimit)
    OBVIOUS
  <2>3. left \subseteq Group
    BY <1>5, <2>2
  <2>4. first \subseteq Group
    BY <2>2, <2>3 DEF FirstGroups
  <2>5. PICK keys : keys = {GroupKey[g] : g \in first}
    OBVIOUS
  <2>6. keys \subseteq Key
    BY <2>1, <2>4, <2>5
  <2>7. page = Page(keys, keys, left # first)
    BY <1>1, <2>2, <2>5 DEF GroupPage
  <2> QED BY <2>6, <2>7 DEF Page, PageSet
<1>7. r.result = "ok" /\ r.page = page
  BY <1>2 DEF Reply
<1> QED BY <1>3, <1>4, <1>5, <1>6, <1>7, AnswerKeeps

\* A page of contacts, users, groups or history.
LEMMA SendPageKeeps ==
  ASSUME IInv, SendPage
  PROVE  IInv'
<1>1. PICK page \in OtherPages : Answer(Reply("ok", 0, page))
  BY DEF SendPage
<1>2. PICK r : r = Reply("ok", 0, page)
  OBVIOUS
<1>3. Answered /\ Associate(r, TRUE) /\ UNCHANGED <<member, fate>>
  BY <1>1, <1>2 DEF SendPage, Answer, Associate, serverVars
<1>4. asked.name \in {"CONTACT_LIST", "USER_SEARCH", "GROUP_SEARCH", "HISTORY"}
  BY <1>1 DEF OtherPages
<1>5. ~Sending /\ asked = pending
  BY <1>3, <1>4, OnlySendingSends, AnsweredOnce DEF Answered
<1>6. member \subseteq Group
  BY DEF IInv, Talk, Exchange
<1>7. ASSUME NEW gs \in SUBSET Group
      PROVE  /\ GroupKeysOf(gs) \subseteq Key
             /\ \A k \in GroupKeysOf(gs) : IsGroup(k)
  BY UiAssumption DEF GroupKeysOf, IsGroup
<1>8. /\ page \in PageSet
      /\ asked.name = "GROUP_SEARCH" => \A k \in page.keys : IsGroup(k)
  <2>1. CASE asked.name \in {"CONTACT_LIST", "USER_SEARCH"}
    <3>1. page \in [keys : SUBSET Private, mine : SUBSET Private, more : BOOLEAN]
      BY <1>1, <2>1 DEF OtherPages
    <3>2. page \in PageSet
      BY <3>1, UiAssumption DEF PageSet
    <3> QED BY <2>1, <3>2
  <2>2. CASE asked.name = "GROUP_SEARCH"
    <3>1. PICK gs \in SUBSET Group, more \in BOOLEAN :
            page = Page(GroupKeysOf(gs), GroupKeysOf(gs \cap member), gs # {} /\ more)
      BY <1>1, <2>2 DEF OtherPages
    <3>2. GroupKeysOf(gs) \subseteq Key /\ GroupKeysOf(gs \cap member) \subseteq Key
          /\ \A k \in GroupKeysOf(gs) : IsGroup(k)
      BY <1>7
    <3>3. page \in PageSet /\ page.keys = GroupKeysOf(gs)
      BY <3>1, <3>2 DEF Page, PageSet
    <3> QED BY <3>2, <3>3
  <2>3. CASE asked.name = "HISTORY"
    <3>1. PICK more \in BOOLEAN : page = Page({}, {}, more)
      BY <1>1, <2>3 DEF OtherPages
    <3>2. page \in PageSet
      BY <3>1 DEF Page, PageSet
    <3> QED BY <2>3, <3>2
  <2> QED BY <1>4, <2>1, <2>2, <2>3
<1>9. r.result = "ok" /\ r.page = page
  BY <1>2 DEF Reply
<1> QED BY <1>3, <1>5, <1>6, <1>8, <1>9, AnswerKeeps

\* An answer of the wrong shape, where the server may send one.
LEMMA AnswerInvalidKeeps ==
  ASSUME IInv, AnswerInvalid
  PROVE  IInv'
<1>1. PICK matches \in BOOLEAN : Associate(Reply("misshapen", 0, Blank), matches)
  BY DEF AnswerInvalid
<1>2. PICK r : r = Reply("misshapen", 0, Blank)
  OBVIOUS
<1>3. r.result = "misshapen" /\ r.page = Blank
  BY <1>2 DEF Reply
<1>4. /\ Answered /\ Associate(r, matches) /\ InvalidAnswers
      /\ UNCHANGED <<member, fate>>
  BY <1>1, <1>2 DEF AnswerInvalid, Associate, serverVars
<1>5. member \subseteq Group
  BY DEF IInv, Talk, Exchange
<1> QED BY <1>3, <1>4, <1>5, BlankIsPage, AnswerKeeps DEF BlankPage

\* Every answer of the server.
LEMMA ServeKeeps ==
  ASSUME IInv, Serve
  PROVE  IInv'
BY SimpleAnswersKeep, ListGroupsKeeps, SendPageKeeps, AnswerInvalidKeeps
   DEF Serve

-----------------------------------------------------------------------------
\* A step that leaves the request alone, and the fates as they must be.
LEMMA TalkButFates ==
  ASSUME IInv, Steady, Fated',
         UNCHANGED <<pending, submitted, uncertain, expected, response, asked,
                     member, doubt, setting, reserved>>
  PROVE  Talk'
<1>1. Exchange'
  BY DEF IInv, Talk, Exchange, Steady, PendingShape, Waiting, Naming,
       InvalidAnswers
<1>2. Reservation'
  BY DEF IInv, Talk, Reservation, Steady, Sending, Abandoned, Waiting,
     Stopping,
       InvalidAnswers, Top
<1>3. Doubted'
  BY DEF IInv, Talk, Doubted, Steady, Sending, Abandoned, Waiting, Stopping,
       InvalidAnswers
<1> QED BY <1>1, <1>2, <1>3 DEF Talk

\* A message of another user is filed while the main thread is anywhere in its
\* loop.
LEMMA ReceiveMessageKeeps ==
  ASSUME IInv, NEW i \in Id, NEW k \in Key, ReceiveMessage(i, k)
  PROVE  IInv'
<1>1. /\ fate[i] \in {NoKey, k} /\ fate' = [fate EXCEPT ![i] = k]
      /\ UNCHANGED <<pc, snap, screens, pending, submitted, uncertain, expected,
                     presented, doubt, setting, response, asked, member>>
      /\ \/ StoreIncoming(i, k) /\ UNCHANGED reason
         \/ /\ ReceiveResult(i, k) = "Duplicate"
            /\ UNCHANGED <<bufferVars, reason>>
         \/ /\ ReceiveResult(i, k) \in {"CapacityExceeded", "Conflict"}
            /\ Stop(ReceiveResult(i, k))
            /\ UNCHANGED bufferVars
  BY DEF ReceiveMessage, Received, loopVars, screenVars, pastVars
<1>2. /\ fate \in [Id -> Key \cup {NoKey, Own}]
      /\ \A j \in DOMAIN messagesById :
           fate[j] = IF messagesById[j].outgoing THEN Own ELSE messagesById[j].key
      /\ response.result = "ok" /\ Sending =>
           /\ response.id \in Id
           /\ fate[response.id] = Own
           /\ ~Known(response.id)
  BY DEF IInv, Talk, Fated
<1>3. /\ \A j \in DOMAIN messagesById : j \in Id /\ messagesById[j].key \in Key
      /\ Own \notin Key /\ Own # NoKey /\ NoKey \notin Key
  BY UiAssumption, KeyAssumption DEF IInv, BufferSound, BufferShape
<1>4. Sending' <=> Sending
  BY <1>1 DEF Sending, Waiting
<1>5. /\ fate' \in [Id -> Key \cup {NoKey, Own}]
      /\ fate'[i] = k /\ \A j \in Id : j # i => fate'[j] = fate[j]
      /\ response.result = "ok" /\ Sending => response.id # i
  BY <1>1, <1>2, <1>3
<1>6. CASE Known(i)
  <2>1. fate[i] = k /\ SameIncoming(i, k)
    BY <1>1, <1>2, <1>3, <1>6 DEF Known, SameIncoming
  <2>2. UNCHANGED <<bufferVars, reason, fate>>
    <3>1. ReceiveResult(i, k) = "Duplicate"
      BY <1>6, <2>1 DEF ReceiveResult
    <3>2. fate' = fate
      BY <1>1, <1>2, <2>1
    <3> QED BY <1>1, <3>1, <3>2 DEF StoreIncoming
  <2>3. Steady
    BY <1>1, <2>2 DEF Steady, Stopping, IInv, Talk, Exchange
  <2> QED BY <1>1, <2>2, <2>3, IdleKeeps
<1>7. CASE ~Known(i) /\ ~MayStore(k)
  <2>1. Stop("CapacityExceeded") /\ UNCHANGED bufferVars
    BY <1>1, <1>7 DEF StoreIncoming, ReceiveResult
  <2>2. reason' \in {reason} \cup FairReason /\ (Stopping => Stopping')
    BY <2>1, StopFairly DEF FairReason
  <2>3. Steady
    BY <1>1, <2>2 DEF Steady, IInv, Talk, Exchange
  <2>4. UNCHANGED <<conversations, messagesById, reserved, nextArrival>> /\ Open' = Open
    BY <2>1 DEF bufferVars, Open
  <2>5. Fated'
    BY <1>1, <1>2, <1>3, <1>4, <1>5, <1>7, <2>4 DEF Fated, Known
  <2>6. Talk' /\ Place'
    BY <1>1, <2>3, <2>4, <2>5, TalkButFates, PlaceKeeps
  <2>7. BufferSound' /\ Snapped' /\ ViewedWasPresented' /\ ChecksNeverMisfire'
    BY <1>1, <2>1, <2>2, <2>4, IdleBuffer, SnappedKeeps, ViewedKeeps,
       ReasonKeeps
       DEF IInv
  <2> QED BY <2>6, <2>7 DEF IInv
<1>8. CASE ~Known(i) /\ MayStore(k)
  <2>1. StoreIncoming(i, k) /\ UNCHANGED reason
    BY <1>1, <1>8 DEF ReceiveResult
  <2>2. BufferSound'
    BY <2>1, StoringKeeps DEF IInv
  <2>3. /\ conversations' = With(conversations, k, Joined(k, i, {nextArrival}))
        /\ messagesById' = With(messagesById, i, Message(k, FALSE, nextArrival))
        /\ nextArrival' = nextArrival + 1
        /\ UNCHANGED reserved
    BY <2>1 DEF StoreIncoming
  <2>4. /\ DOMAIN messagesById' = DOMAIN messagesById \cup {i}
        /\ messagesById'[i] = Message(k, FALSE, nextArrival)
        /\ \A j \in DOMAIN messagesById : messagesById'[j] = messagesById[j]
        /\ i \notin DOMAIN messagesById
    BY <1>8, <2>3 DEF With, Known
  <2>5. /\ Open' = Open \cup {k}
        /\ \A l \in Open \ {k} : conversations'[l] = conversations[l]
        /\ conversations'[k] = Joined(k, i, {nextArrival})
    BY <2>3 DEF With, Open
  <2>6. /\ \A l \in Key \ {k} : /\ MessagesOf(l)' = MessagesOf(l)
                                /\ Unread(l)' = Unread(l)
        /\ MessagesOf(k)' = MessagesOf(k) \cup {i}
        /\ Unread(k)' = Unread(k) \cup {nextArrival}
    <3>1. CASE k \in Open
      <4>1. conversations[k] \in [handle : Nat, messages : SUBSET Id, unread : SUBSET Nat]
        BY <3>1 DEF IInv, BufferSound, BufferShape
      <4>2. /\ conversations'[k].messages = conversations[k].messages \cup {i}
            /\ conversations'[k].unread = conversations[k].unread \cup {nextArrival}
        BY <2>5, <3>1, <4>1 DEF Joined
      <4> QED BY <2>5, <3>1, <4>2 DEF MessagesOf, Unread
    <3>2. CASE k \notin Open
      <4>1. /\ conversations'[k].messages = {i}
            /\ conversations'[k].unread = {nextArrival}
        BY <2>5, <3>2 DEF Joined, Conversation
      <4> QED BY <2>5, <3>2, <4>1 DEF MessagesOf, Unread
    <3> QED BY <3>1, <3>2
  <2>7. Message(k, FALSE, nextArrival).key = k
        /\ Message(k, FALSE, nextArrival).outgoing = FALSE
        /\ Message(k, FALSE, nextArrival).arrival = nextArrival
    BY DEF Message
  <2>8. Steady
    BY <1>1, <2>1 DEF Steady, Stopping, IInv, Talk, Exchange
  <2>9. Fated'
    <3>1. ASSUME NEW j \in DOMAIN messagesById'
          PROVE  fate'[j] = IF messagesById'[j].outgoing THEN Own
                                                         ELSE messagesById'[j].key
      <4>1. CASE j = i
        BY <1>5, <2>4, <2>7, <4>1
      <4>2. CASE j # i
        BY <1>2, <1>3, <1>5, <2>4, <4>2
      <4> QED BY <4>1, <4>2
    <3>2. response.result = "ok" /\ Sending =>
            /\ response.id \in Id /\ response.id # i
            /\ fate'[response.id] = Own
            /\ response.id \notin DOMAIN messagesById'
      BY <1>2, <1>5, <2>4 DEF Known
    <3> QED BY <1>1, <1>4, <1>5, <3>1, <3>2 DEF Fated, Known
  <2>10. Talk' /\ Place'
    BY <1>1, <2>3, <2>5, <2>8, <2>9, TalkButFates, PlaceKeeps
  <2>11. Snapped'
    <3>1. CASE pc = "present"
      <4>1. PICK l : l = Showing
        OBVIOUS
      <4>2. /\ snap.through \in Nat /\ snap.through < nextArrival
            /\ \A j \in MessagesOf(l) :
                 messagesById[j].arrival > snap.through \/ j \in snap.ids
        BY <3>1, <4>1 DEF IInv, Snapped
      <4>3. nextArrival \in Nat /\ Open \subseteq Key
        BY DEF IInv, BufferSound, BufferShape
      <4>4. Showing' = l
        BY <1>1, <4>1 DEF Showing, Top
      <4>5. MessagesOf(l)' \subseteq MessagesOf(l) \cup {i}
        <5>1. CASE l \in Key
          BY <2>6, <5>1
        <5>2. CASE l \notin Key
          BY <2>5, <4>3, <5>2 DEF MessagesOf
        <5> QED BY <5>1, <5>2
      <4>6. MessagesOf(l) \subseteq DOMAIN messagesById
        BY DEF IInv, BufferSound, MessagesAreFiled, MessagesOf
      <4>7. ASSUME NEW j \in MessagesOf(l)'
            PROVE  messagesById'[j].arrival > snap.through \/ j \in snap.ids
        <5>1. CASE j = i
          BY <2>4, <2>7, <4>2, <4>3, <5>1
        <5>2. CASE j # i
          BY <2>4, <4>2, <4>5, <4>6, <5>2
        <5> QED BY <5>1, <5>2
      <4>8. snap.through < nextArrival'
        BY <2>3, <4>2, <4>3
      <4>9. MessagesOf(Showing)' = MessagesOf(l)'
        BY <4>4 DEF MessagesOf
      <4> QED BY <1>1, <4>2, <4>7, <4>8, <4>9 DEF Snapped
    <3>2. CASE pc # "present"
      BY <1>1, <3>2 DEF Snapped
    <3> QED BY <3>1, <3>2
  <2>12. ViewedWasPresented'
    <3>1. ASSUME NEW j \in DOMAIN messagesById', NEW l, l = messagesById'[j].key
          PROVE  \/ messagesById'[j].outgoing
                 \/ messagesById'[j].arrival \in Unread(l)'
                 \/ j \in presented'
      <4>1. CASE j = i
        BY <2>4, <2>6, <2>7, <3>1, <4>1
      <4>2. CASE j # i
        <5>1. j \in DOMAIN messagesById /\ messagesById'[j] = messagesById[j]
          BY <2>4, <4>2
        <5>2. l \in Key /\ l = messagesById[j].key
          BY <1>3, <3>1, <5>1
        <5>3. Unread(l) \subseteq Unread(l)'
          BY <2>6, <5>2
        <5> QED BY <1>1, <5>1, <5>2, <5>3 DEF IInv, ViewedWasPresented
      <4> QED BY <4>1, <4>2
    <3> QED BY <3>1 DEF ViewedWasPresented, Unread
  <2>13. ChecksNeverMisfire'
    BY <1>1, <2>1, ReasonKeeps
  <2> QED BY <2>2, <2>10, <2>11, <2>12, <2>13 DEF IInv
<1> QED BY <1>6, <1>7, <1>8

-----------------------------------------------------------------------------
\* The empty buffer is sound.
LEMMA BufferInitSound ==
  ASSUME BufferInit
  PROVE  BufferSound /\ DOMAIN messagesById = {} /\ Open = {}
<1>1. Open = {} /\ DOMAIN messagesById = {}
  BY DEF BufferInit, Open
<1>2. BufferShape
  BY <1>1, FS_EmptySet DEF BufferInit, BufferShape
<1>3. HandlesAreUsed /\ HandlesAreUnique /\ MessagesAreFiled /\ ArrivalsArePast
  BY <1>1 DEF HandlesAreUsed, HandlesAreUnique, MessagesAreFiled,
     ArrivalsArePast
<1>4. BufferLimits
  <2>1. Cardinality(DOMAIN messagesById) = 0
    BY <1>1, FS_EmptySet
  <2>2. DOMAIN MessageCost = {}
    BY <1>1 DEF MessageCost
  <2>3. SumFunctionOnSet(KeyBytes, Open) = 0
    BY <1>1, SumOfNone
  <2>4. SumFunction(MessageCost) = 0
    BY <2>2, SumOfNone DEF SumFunction
  <2>5. ReservedBytes = 0 /\ retained = 0 /\ reserved = NoKey
    BY DEF BufferInit, ReservedBytes
  <2> QED BY <2>1, <2>3, <2>4, <2>5, LimitAssumption DEF BufferLimits
<1> QED BY <1>1, <1>2, <1>3, <1>4 DEF BufferSound

\* The invariant holds at the start of run.
LEMMA InitIInv == Init => IInv
<1> SUFFICES ASSUME Init PROVE IInv
  OBVIOUS
<1>1. BufferSound /\ DOMAIN messagesById = {} /\ Open = {}
  BY BufferInitSound DEF Init
<1>2. Place
  <2>1. PICK e : e = Plain("Main")
    OBVIOUS
  <2>2. e \in ScreenSet /\ e.kind = "Main"
    BY <2>1, PlainScreen DEF ScreenKind
  <2>3. screens = <<e>> /\ screens \in Seq(ScreenSet) /\ Depth = 1 /\ screens[1] = e
    <3>1. screens = <<e>>
      BY <2>1 DEF Init
    <3> QED BY <2>2, <3>1 DEF Depth
  <2>4. Level("Main") = 1
    BY DEF Level, FormKinds, ActionKinds
  <2>5. Stacked
    BY <2>2, <2>3, <2>4 DEF Stacked, OnNotifications
  <2>6. ShownExists
    BY <2>2, <2>3 DEF ShownExists, ActionKinds
  <2>7. ~Waiting
    BY DEF Init, NoOperation, Operation, Waiting
  <2> QED BY <2>5, <2>6, <2>7 DEF Place, AskedFromScreen
<1>3. /\ NoOperation.purpose = "none" /\ NoOperation.name = ""
      /\ NoResponse.result = "none" /\ NoResponse.page \in PageSet
  BY DEF NoOperation, Operation, NoResponse, Reply, Blank, Page, PageSet
<1>4. Exchange
  <2>1. member \subseteq Group
    BY UiAssumption DEF Init
  <2> QED BY <1>3, <2>1 DEF Init, Exchange, PendingShape
<1>5. Reservation /\ Doubted /\ Fated
  <2>1. reserved = NoKey
    BY DEF Init, BufferInit
  <2>2. ~Sending
    BY <1>3 DEF Init, Sending, Waiting
  <2> QED BY <1>1, <2>1, <2>2 DEF Init, Reservation, Doubted, Fated
<1>6. Snapped /\ ViewedWasPresented /\ ChecksNeverMisfire
  BY <1>1 DEF Init, Snapped, ViewedWasPresented, ChecksNeverMisfire
<1> QED BY <1>1, <1>2, <1>4, <1>5, <1>6 DEF IInv, Talk

\* A stuttering step keeps the invariant.
LEMMA StutterKeeps ==
  ASSUME IInv, UNCHANGED vars
  PROVE  IInv'
<1>1. /\ UNCHANGED <<pc, snap, screens, pending, submitted, uncertain, expected,
                     response, asked, fate, member, presented, doubt, setting,
                     reason, bufferVars>>
  BY DEF vars, loopVars, screenVars, opVars, serverVars, pastVars
<1>2. Steady
  BY <1>1 DEF Steady, Stopping, IInv, Talk, Exchange
<1> QED BY <1>1, <1>2, IdleKeeps

\* Every step of the main thread's loop keeps the invariant.
LEMMA TurnKeeps ==
  ASSUME IInv, Turn
  PROVE  IInv'
BY IdleActions, ApplyKeeps, LookKeeps, PresentKeeps, ScheduleNameWorkKeeps,
   SubmitRequestKeeps, LeaveRunKeeps DEF Turn

\* Every key of the user keeps the invariant.
LEMMA UserKeeps ==
  ASSUME IInv, User
  PROVE  IInv'
BY IdleActions, NotificationsKeyKeeps, GoBackKeeps, ChooseScreenKeeps,
   ChooseListKeeps, ChooseConversationKeeps, ChooseNotificationKeeps,
   ChooseRecordKeeps, AskServerKeeps, SubmitConversationKeeps DEF User

\* IInv holds in every state of the interface, whatever the user, the server
\* and the receiver thread do, in any order.
THEOREM Invariance == Spec => []IInv
<1>1. Init => IInv
  BY InitIInv
<1>2. IInv /\ [Next]_vars => IInv'
  BY StutterKeeps, TurnKeeps, UserKeeps, ServeKeeps, IdleActions,
     ReceiveMessageKeeps DEF Next
<1> QED BY <1>1, <1>2, PTL DEF Spec

\* No two conversations have one notification number, whichever thread opens
\* them: the interface opens a conversation before it reserves a place in it,
\* so that cancelOutgoing has no number to take back.
THEOREM HandlesStayUnique == Spec => []HandlesAreUnique
<1>1. IInv => HandlesAreUnique
  BY DEF IInv, BufferSound
<1> QED BY <1>1, Invariance, PTL

\* The counters of the buffer say what it holds, and it holds no more than its
\* limits, over every sequence of opening, filing, reserving, committing and
\* cancelling that the interface makes.
THEOREM LimitsHold == Spec => []BufferLimits
<1>1. IInv => BufferLimits
  BY DEF IInv, BufferSound
<1> QED BY <1>1, Invariance, PTL

\* The client never stops itself for an inconsistency of its own making: the
\* stack does not overflow, no reservation is left over, each response finds
\* its operation and its screen, and what the server sends as it should is
\* never found invalid.
THEOREM ChecksStaySilent == Spec => []ChecksNeverMisfire
<1>1. IInv => ChecksNeverMisfire
  BY DEF IInv
<1> QED BY <1>1, Invariance, PTL

\* A message counts as read only if the snapshot of a presented screen had it,
\* whatever the receiver files between the snapshot and markViewed.
THEOREM ViewedStaysPresented == Spec => []ViewedWasPresented
<1>1. IInv => ViewedWasPresented
  BY DEF IInv
<1> QED BY <1>1, Invariance, PTL

\* The main thread and the receiver agree on the one request that is out, and
\* while the client reads events a place is reserved exactly while a message
\* waits for its answer.
THEOREM OneOperationAtATime == Spec => []OneOperation
<1>1. IInv => OneOperation
  <2> SUFFICES ASSUME IInv PROVE OneOperation
    OBVIOUS
  <2>1. /\ expected = pending.name
        /\ response # NoResponse => pending # NoOperation /\ asked = NoOperation
        /\ asked # NoOperation => asked = pending
        /\ reserved # NoKey => reserved = submitted
    BY DEF IInv, Talk, Exchange, Reservation
  <2>2. ASSUME pc = "read", ~Stopping
        PROVE  reserved # NoKey <=> Waiting /\ pending.origin = "Conversation"
    BY <2>2 DEF IInv, Talk, Reservation, Sending, Abandoned
  <2> QED BY <2>1, <2>2 DEF OneOperation
<1> QED BY <1>1, Invariance, PTL

\* A message that may have been accepted without the client learning it is
\* reported when the client ends.
THEOREM UncertaintyStaysReported == Spec => []UncertaintyIsReported
<1>1. IInv => UncertaintyIsReported
  BY DEF IInv, Talk, Doubted, Abandoned, UncertaintyIsReported
<1> QED BY <1>1, Invariance, PTL
-----------------------------------------------------------------------------
(* The names of groups.                                                    *)

NameSeqs == {n \in Seq(Group) : IsInjective(n)}

\* Max of a finite set of naturals is one of them.
LEMMA MaxIsIn ==
  ASSUME NEW T, IsFiniteSet(T), \A n \in T : n \in Nat, T # {}
  PROVE  Max(T) \in T
<1> DEFINE HasMax(s) == \E x \in s : \A y \in s : x >= y
           X == {s \in SUBSET T : s # {} /\ ~HasMax(s)}
<1>1. ASSUME X # {} PROVE FALSE
  <2>1. PICK s \in X : \A t \in X : t \subseteq s => t = s
    <3> DEFINE Y == X
    <3>1. Y \in SUBSET (SUBSET T) /\ Y # {}
      <4> HIDE DEF HasMax
      <4> QED BY <1>1
    <3> HIDE DEF X
    <3> HIDE DEF Y, HasMax
    <3>2. \E s \in Y : \A t \in Y : t \subseteq s => t = s
      BY <3>1, SmallestSubset
    <3> QED BY <3>2 DEF Y
  <2>2. s \in SUBSET T /\ s # {} /\ ~HasMax(s)
    BY <2>1
  <2>3. PICK x \in s : TRUE
    BY <2>2
  <2>4. s \ {x} # {} => HasMax(s \ {x})
    <3>1. s \ {x} \notin X
      BY <2>1, <2>3
    <3> HIDE DEF HasMax
    <3> QED BY <2>2, <3>1
  <2>5. CASE s \ {x} = {}
    BY <2>2, <2>3, <2>5
  <2>6. CASE s \ {x} # {}
    <3>1. PICK y \in s \ {x} : \A z \in s \ {x} : y >= z
      BY <2>4, <2>6
    <3>2. x \in Nat /\ y \in Nat /\ \A z \in s : z \in Nat
      BY <2>2, <2>3, <3>1
    <3>3. CASE x >= y
      <4>1. \A z \in s : x >= z
        BY <3>1, <3>2, <3>3
      <4> QED BY <2>2, <2>3, <4>1
    <3>4. CASE ~(x >= y)
      <4>1. \A z \in s : y >= z
        BY <3>1, <3>2, <3>4
      <4> QED BY <2>2, <3>1, <4>1
    <3> QED BY <3>3, <3>4
  <2> QED BY <2>5, <2>6
<1>2. HasMax(T)
  BY <1>1, T \in SUBSET T
<1> QED BY <1>2 DEF Max

\* Min of a set of naturals is one of them.
LEMMA MinIsIn ==
  ASSUME NEW T \in SUBSET Nat, T # {}
  PROVE  Min(T) \in T
<1>1. \E x \in T : \A y \in T : x <= y
  BY SmallestExists
<1> QED BY <1>1 DEF Min

\* A name that was not cached is cached once.
LEMMA AppendKeepsNames ==
  ASSUME NEW s \in NameSeqs, NEW g \in Group, \A n \in 1..Len(s) : s[n] # g
  PROVE  Append(s, g) \in NameSeqs
<1>1. s \in Seq(Group) /\ Len(s) \in Nat /\ DOMAIN s = 1..Len(s)
      /\ \A a, b \in 1..Len(s) : s[a] = s[b] => a = b
  BY LenProperties DEF NameSeqs, IsInjective
<1> DEFINE t == Append(s, g)
<1>2. /\ t \in Seq(Group) /\ Len(t) = Len(s) + 1
      /\ \A n \in 1..Len(s) : t[n] = s[n]
      /\ t[Len(s) + 1] = g
  BY <1>1, AppendProperties
<1>3. DOMAIN t = 1..(Len(s) + 1)
  BY <1>2, LenProperties
<1> HIDE DEF t
<1>4. ASSUME NEW a \in 1..(Len(s) + 1), NEW b \in 1..(Len(s) + 1), t[a] = t[b]
      PROVE  a = b
  <2>1. a \in 1..Len(s) \/ a = Len(s) + 1
    BY <1>1
  <2>2. b \in 1..Len(s) \/ b = Len(s) + 1
    BY <1>1
  <2> QED BY <1>1, <1>2, <1>4, <2>1, <2>2
<1>5. IsInjective(t)
  BY <1>3, <1>4 DEF IsInjective
<1>6. t \in NameSeqs
  BY <1>2, <1>5 DEF NameSeqs
<1> QED BY <1>6 DEF t

\* A name that is evicted, or moved, leaves the others once.
LEMMA RemovalKeepsNames ==
  ASSUME NEW s \in NameSeqs, NEW k \in 1..Len(s)
  PROVE  /\ RemoveAt(s, k) \in NameSeqs
         /\ \A n \in 1..Len(RemoveAt(s, k)) :
              RemoveAt(s, k)[n] # s[k] /\ \E m \in 1..Len(s) : RemoveAt(s, k)[n] = s[m]
<1>1. s \in Seq(Group) /\ Len(s) \in Nat /\ DOMAIN s = 1..Len(s) /\ k \in Nat
      /\ \A a, b \in 1..Len(s) : s[a] = s[b] => a = b
  BY LenProperties DEF NameSeqs, IsInjective
<1> DEFINE t == RemoveAt(s, k)
<1>2. /\ t \in Seq(Group) /\ Len(t) = Len(s) - 1
      /\ \A n \in 1..(Len(s) - 1) : t[n] = IF n < k THEN s[n] ELSE s[n + 1]
  BY <1>1, RemovalOf
<1>3. DOMAIN t = 1..(Len(s) - 1)
  BY <1>2, LenProperties
<1> HIDE DEF t
<1> DEFINE At(n) == IF n < k THEN n ELSE n + 1
<1>4. ASSUME NEW n \in 1..(Len(s) - 1)
      PROVE  At(n) \in 1..Len(s) /\ At(n) # k /\ t[n] = s[At(n)]
  BY <1>1, <1>2
<1>5. ASSUME NEW a \in 1..(Len(s) - 1), NEW b \in 1..(Len(s) - 1), At(a) = At(b)
      PROVE  a = b
  BY <1>1, <1>5
<1> HIDE DEF At
<1>6. IsInjective(t)
  BY <1>1, <1>3, <1>4, <1>5 DEF IsInjective
<1>7. t \in NameSeqs
  BY <1>2, <1>6 DEF NameSeqs
<1>8. \A n \in 1..Len(t) : t[n] # s[k] /\ \E m \in 1..Len(s) : t[n] = s[m]
  BY <1>1, <1>2, <1>4
<1> QED BY <1>7, <1>8 DEF t

\* cacheGroupName keeps each group in the cache at most once.
LEMMA CachedKeeps ==
  ASSUME NEW s \in NameSeqs, NEW g \in Group, NEW pins
  PROVE  Cached(s, g, pins) \in NameSeqs
<1>1. s \in Seq(Group) /\ Len(s) \in Nat /\ DOMAIN s = 1..Len(s)
  BY LenProperties DEF NameSeqs
<1>2. CASE g \in ToSet(s)
  <2>1. \E n \in 1..Len(s) : s[n] = g
    BY <1>1, <1>2 DEF ToSet
  <2>2. Entry(s, g) \in 1..Len(s) /\ s[Entry(s, g)] = g
    BY <1>1, <2>1 DEF Entry
  <2>3. PICK k \in 1..Len(s) : k = Entry(s, g) /\ s[k] = g
    BY <2>2
  <2>4. Append(RemoveAt(s, k), g) \in NameSeqs
    <3>1. RemoveAt(s, k) \in NameSeqs
          /\ \A n \in 1..Len(RemoveAt(s, k)) : RemoveAt(s, k)[n] # g
      BY <2>3, RemovalKeepsNames
    <3> QED BY <3>1, AppendKeepsNames
  <2> QED BY <1>2, <2>3, <2>4 DEF Cached
<1>3. CASE g \notin ToSet(s)
  <2>1. \A n \in 1..Len(s) : s[n] # g
    BY <1>1, <1>3 DEF ToSet
  <2>2. Append(s, g) \in NameSeqs
    BY <2>1, AppendKeepsNames
  <2>3. ASSUME Evictable(s, pins) # {}
        PROVE  Append(RemoveAt(s, Min(Evictable(s, pins))), g) \in NameSeqs
    <3>1. Evictable(s, pins) \in SUBSET (1..Len(s))
      BY <1>1 DEF Evictable
    <3>2. Min(Evictable(s, pins)) \in 1..Len(s)
      BY <2>3, <3>1, MinIsIn, 1..Len(s) \subseteq Nat
    <3>3. PICK k \in 1..Len(s) : k = Min(Evictable(s, pins))
      BY <3>2
    <3>4. RemoveAt(s, k) \in NameSeqs
          /\ \A n \in 1..Len(RemoveAt(s, k)) : RemoveAt(s, k)[n] # g
      BY <2>1, RemovalKeepsNames
    <3> QED BY <3>3, <3>4, AppendKeepsNames
  <2> QED BY <1>3, <2>2, <2>3 DEF Cached
<1> QED BY <1>2, <1>3

IsWalk(f, known, pins, U) ==
  f = [s \in SUBSET U |->
         IF s = {} THEN known ELSE Cached(f[s \ {Max(s)}], Max(s), pins)]

\* A set of groups is finite and has a last one.
LEMMA GroupsAreFinite ==
  ASSUME NEW s \in SUBSET Group
  PROVE  IsFiniteSet(s) /\ (s # {} => Max(s) \in s)
<1>1. IsFiniteSet(s) /\ s \in SUBSET Nat
  BY FS_Subset, UiAssumption
<1> QED BY <1>1, MaxIsIn

\* Two ways to cache a page's names agree on what both know.
LEMMA WalksAgree ==
  ASSUME NEW U \in SUBSET Group, NEW V \in SUBSET Group, U \subseteq V,
         NEW f, NEW g, NEW known, NEW pins,
         IsWalk(f, known, pins, U), IsWalk(g, known, pins, V)
  PROVE  \A s \in SUBSET U : f[s] = g[s]
<1> DEFINE T == {s \in SUBSET U : f[s] # g[s]}
<1> SUFFICES ASSUME T # {} PROVE FALSE
  OBVIOUS
<1>1. PICK s \in T : \A t \in T : t \subseteq s => t = s
  <2>1. T \in SUBSET (SUBSET U) /\ IsFiniteSet(U)
    BY GroupsAreFinite
  <2> HIDE DEF T
  <2> QED BY <2>1, SmallestSubset
<1>2. /\ s \in SUBSET U /\ s \in SUBSET V /\ s \in SUBSET Group
  OBVIOUS
<1>3. /\ f[s] = IF s = {} THEN known ELSE Cached(f[s \ {Max(s)}], Max(s), pins)
      /\ g[s] = IF s = {} THEN known ELSE Cached(g[s \ {Max(s)}], Max(s), pins)
  <2> HIDE DEF T
  <2> QED BY <1>2 DEF IsWalk
<1>4. s # {}
  BY <1>3
<1>5. Max(s) \in s
  BY <1>2, <1>4, GroupsAreFinite
<1>6. s \ {Max(s)} \in SUBSET U /\ s \ {Max(s)} # s
  BY <1>2, <1>5
<1>7. f[s \ {Max(s)}] = g[s \ {Max(s)}]
  BY <1>1, <1>6
<1> QED BY <1>1, <1>3, <1>7

\* The recursive equation of CachedAll has a solution.
LEMMA WalkExists ==
  ASSUME NEW U \in SUBSET Group, NEW known, NEW pins
  PROVE  \E f : IsWalk(f, known, pins, U)
<1> DEFINE T == {s \in SUBSET U : ~ \E f : IsWalk(f, known, pins, s)}
<1>0. SUFFICES ASSUME T # {} PROVE FALSE
  BY U \in SUBSET U
<1>1. PICK s \in T : \A t \in T : t \subseteq s => t = s
  <2>1. T \in SUBSET (SUBSET U) /\ IsFiniteSet(U)
    BY GroupsAreFinite
  <2> HIDE DEF T
  <2> QED BY <1>0, <2>1, SmallestSubset
<1>2. \A t \in SUBSET s : t # s => \E f : IsWalk(f, known, pins, t)
  BY <1>1
<1>a. s \in SUBSET Group /\ ~ \E f : IsWalk(f, known, pins, s)
  BY <1>1
<1> HIDE DEF T
<1> DEFINE Sol(t) == CHOOSE f : IsWalk(f, known, pins, t)
<1>3. \A t \in SUBSET s : t # s => IsWalk(Sol(t), known, pins, t)
  BY <1>2
<1> DEFINE Less1(t) == t \ {Max(t)}
           Val(t) == IF t = {} THEN known
                     ELSE Cached(Sol(Less1(t))[Less1(t)], Max(t), pins)
           F == [t \in SUBSET s |-> Val(t)]
<1> HIDE DEF Sol
<1>4. ASSUME NEW t \in SUBSET s, t # {}
      PROVE  /\ Less1(t) \in SUBSET s /\ Less1(t) # s /\ Less1(t) \subseteq t
             /\ IsWalk(Sol(Less1(t)), known, pins, Less1(t))
  <2>1. Max(t) \in t
    BY <1>4, <1>a, GroupsAreFinite
  <2>2. Less1(t) \in SUBSET s /\ Less1(t) # s /\ Less1(t) \subseteq t
    BY <2>1
  <2> HIDE DEF Less1
  <2> QED BY <2>2, <1>3
<1>5. ASSUME NEW t \in SUBSET s, t # s PROVE Val(t) = Sol(t)[t]
  <2>1. IsWalk(Sol(t), known, pins, t) /\ t \in SUBSET t
    BY <1>3, <1>5
  <2>2. Sol(t)[t] = IF t = {} THEN known ELSE Cached(Sol(t)[Less1(t)], Max(t), pins)
    BY <2>1 DEF IsWalk
  <2>3. CASE t = {}
    BY <2>2, <2>3
  <2>4. CASE t # {}
    <3>1. /\ IsWalk(Sol(Less1(t)), known, pins, Less1(t)) /\ Less1(t) \subseteq t
          /\ Less1(t) \in SUBSET Group /\ t \in SUBSET Group
          /\ Less1(t) \in SUBSET Less1(t)
      BY <1>4, <1>a, <2>4
    <3> HIDE DEF Less1
    <3>2. PICK p, f, g : p \in SUBSET Group /\
                p = Less1(t) /\ f = Sol(p) /\ g = Sol(t)
      BY <3>1
    <3>3. IsWalk(f, known, pins, p) /\ IsWalk(g, known, pins, t)
          /\ p \subseteq t /\ t \in SUBSET Group /\ p \in SUBSET p
      BY <2>1, <3>1, <3>2
    <3>4. \A r \in SUBSET p : f[r] = g[r]
      BY <3>3, WalksAgree
    <3>5. f[p] = g[p]
      BY <3>3, <3>4
    <3> QED BY <2>2, <2>4, <3>2, <3>5
  <2> QED BY <2>3, <2>4
<1>6. IsWalk(F, known, pins, s)
  <2>1. ASSUME NEW t \in SUBSET s
        PROVE  F[t] = IF t = {} THEN known ELSE Cached(F[t \ {Max(t)}], Max(t), pins)
    <3>1. CASE t = {}
      BY <3>1
    <3>2. CASE t # {}
      <4>1. F[t] = Cached(Sol(Less1(t))[Less1(t)], Max(t), pins)
        BY <3>2
      <4>2. Less1(t) \in SUBSET s /\ Less1(t) # s
        BY <1>4, <3>2
      <4>3. F[Less1(t)] = Sol(Less1(t))[Less1(t)]
        <5> HIDE DEF Less1
        <5>1. F[Less1(t)] = Val(Less1(t))
          BY <4>2
        <5> HIDE DEF Val, F
        <5> QED BY <4>2, <5>1, <1>5
      <4> QED BY <3>2, <4>1, <4>3
    <3> QED BY <3>1, <3>2
  <2>2. F = [t \in SUBSET s |-> F[t]]
    OBVIOUS
  <2> HIDE DEF F
  <2> QED BY <2>1, <2>2 DEF IsWalk
<1> HIDE DEF F
<1> QED BY <1>a, <1>6

\* Caching the names of a page keeps each group in the cache once.
LEMMA CachedAllKeeps ==
  ASSUME NEW known \in NameSeqs, NEW gs \in SUBSET Group, NEW pins
  PROVE  CachedAll(known, gs, pins) \in NameSeqs
<1> DEFINE Body(f) == [s \in SUBSET gs |->
                 IF s = {} THEN known ELSE Cached(f[s \ {Max(s)}], Max(s), pins)]
           walk == CHOOSE f : f = Body(f)
<1>1. CachedAll(known, gs, pins) = walk[gs]
  BY DEF CachedAll, MapThenFoldSet
<1>2. walk = Body(walk)
  <2>1. PICK f : IsWalk(f, known, pins, gs)
    BY WalkExists
  <2>2. f = Body(f)
    BY <2>1 DEF IsWalk
  <2> HIDE DEF Body
  <2> QED BY <2>2
<1> HIDE DEF walk
<1>3. \A s \in SUBSET gs :
        walk[s] = IF s = {} THEN known ELSE Cached(walk[s \ {Max(s)}], Max(s), pins)
  BY <1>2
<1> HIDE DEF Body
<1> DEFINE T == {s \in SUBSET gs : walk[s] \notin NameSeqs}
<1>4. T = {}
  <2> SUFFICES ASSUME T # {} PROVE FALSE
    OBVIOUS
  <2>1. PICK s \in T : \A t \in T : t \subseteq s => t = s
    <3>1. T \in SUBSET (SUBSET gs) /\ IsFiniteSet(gs)
      BY GroupsAreFinite
    <3> HIDE DEF T
    <3> QED BY <3>1, SmallestSubset
  <2>2. s # {} /\ s \in SUBSET Group /\ s \in SUBSET gs
    BY <1>3
  <2>3. Max(s) \in s
    BY <2>2, GroupsAreFinite
  <2>4. s \ {Max(s)} \in SUBSET gs /\ s \ {Max(s)} # s
    BY <2>2, <2>3
  <2>5. walk[s \ {Max(s)}] \in NameSeqs
    BY <2>1, <2>4
  <2>6. Cached(walk[s \ {Max(s)}], Max(s), pins) \in NameSeqs
    BY <2>2, <2>3, <2>5, CachedKeeps
  <2> QED BY <1>3, <2>1, <2>2, <2>6
<1> QED BY <1>1, <1>4, gs \in SUBSET gs

-----------------------------------------------------------------------------
(* The types of what the interface keeps for itself.                       *)

OwnTypes ==
  /\ follow \subseteq Key
  /\ names \in NameSeqs
  /\ attempted \subseteq Group
  /\ presented \subseteq Id
  /\ snap.ids \subseteq Id

Flags ==
  /\ dirty \in BOOLEAN /\ small \in BOOLEAN /\ exiting \in BOOLEAN
  /\ uncertain \in BOOLEAN /\ changed \in BOOLEAN /\ work \in BOOLEAN
  /\ doubt \in BOOLEAN

CreatedIsGroup ==
  pending.name = "GROUP_CREATE" /\ response.result = "ok" =>
    response.id \in Group

Types == OwnTypes /\ Flags /\ CreatedIsGroup

\* What is shown, and the messages there are, have their types.
LEMMA ShownKeys ==
  ASSUME IInv
  PROVE  /\ Showing \in Key \cup {NoKey}
         /\ Top \in ScreenSet
         /\ \A k : MessagesOf(k) \subseteq Id
         /\ Open \subseteq Key
<1>1. Top \in ScreenSet
  BY Depths DEF IInv, Place
<1>2. Showing \in Key \cup {NoKey}
  BY <1>1 DEF Showing, ScreenSet
<1>3. Open \subseteq Key /\ \A k : MessagesOf(k) \subseteq Id
  BY DEF IInv, BufferSound, BufferShape, MessagesOf
<1> QED BY <1>1, <1>2, <1>3

\* Flags of the main thread and of the receiver stay flags.
LEMMA FlagsStay ==
  ASSUME IInv, Flags, [Next]_vars
  PROVE  Flags'
<1> USE DEF Flags
<1>1. ASSUME Turn PROVE Flags'
  <2>1. CASE LeaveLoop \/ NothingToConsume \/ Look \/ Present \/ Flush
             \/ ScheduleNameWork
    BY <2>1 DEF LeaveLoop, NothingToConsume, Look, Present, Flush,
       ScheduleNameWork, Begin, opVars, pastVars, Go
  <2>2. CASE TakeWork \/ Interrupted
    BY <2>2 DEF TakeWork, Interrupted, Exit, opVars, pastVars, Go
  <2>3. CASE SubmitRequest \/ LeaveRun
    BY <2>3 DEF SubmitRequest, LeaveRun, BeginOperation, Begin, Refuse,
       Touch, Go, pastVars
  <2>4. CASE Apply
    BY <2>4 DEF Apply, ApplyFailure, ApplyMisshapen, ApplyAcceptance,
       ApplyPage,
       ApplyContactAdd, ApplyGroupCreate, ApplyGroupJoin, ApplyNames,
       ApplyToScreen, Applying, Touch, Go
  <2> QED BY <1>1, <2>1, <2>2, <2>3, <2>4 DEF Turn
<1>2. ASSUME User PROVE Flags'
  <2>1. CASE Redraw \/ UserExits \/ Scroll \/ NotificationsKey \/ GoBack
             \/ ChooseScreen \/ ChooseRecord \/ ChooseOnBlankHistory
    BY <2>1 DEF Redraw, UserExits, Exit, Scroll, NotificationsKey, GoBack,
       ChooseScreen, ChooseRecord, ChooseOnBlankHistory, Enter, Keyed,
          NoRequest,
       Go, opVars, pastVars
  <2>2. CASE ChooseList \/ AskServer
    BY <2>2 DEF ChooseList, AskServer, BeginOperation, Begin, Refuse, Enter,
       Keyed
  <2>3. CASE ChooseConversation \/ ChooseNotification \/ SubmitConversation
    BY <2>3 DEF ChooseConversation, ChooseNotification, SubmitConversation,
       OpenConversation, Enter, Keyed, NoRequest, Touch
  <2> QED BY <1>2, <2>1, <2>2, <2>3 DEF User
<1>3. ASSUME Serve PROVE Flags'
  BY <1>3 DEF Serve, AnswerFail, AcceptMessage, ListGroups, SendPage,
     AddContact,
     CreateGroup, JoinGroup, AnswerInvalid, Answer, Associate, Received,
     loopVars, pastVars
<1>4. ASSUME ConnectionLost \/ \E i \in Id, k \in Key : ReceiveMessage(i, k)
      PROVE Flags'
  <2>1. CASE ConnectionLost
    BY <2>1 DEF ConnectionLost, Received, loopVars, pastVars
  <2>2. ASSUME NEW i \in Id, NEW k \in Key, ReceiveMessage(i, k) PROVE Flags'
    BY <2>2 DEF ReceiveMessage, Received, Touch, loopVars, pastVars
  <2> QED BY <1>4, <2>1, <2>2
<1>5. ASSUME UNCHANGED vars PROVE Flags'
  BY <1>5 DEF vars, loopVars, opVars, pastVars
<1> QED BY <1>1, <1>2, <1>3, <1>4, <1>5 DEF Next

\* The answer to GROUP_CREATE names a group.
LEMMA CreatedStays ==
  ASSUME IInv, CreatedIsGroup, [Next]_vars
  PROVE  CreatedIsGroup'
<1> USE DEF CreatedIsGroup
<1>0. NoResponse.result = "none"
  BY DEF NoResponse, Reply
<1>1. ASSUME NEW op, Begin(op), UNCHANGED response PROVE CreatedIsGroup'
  BY <1>0, <1>1 DEF Begin
<1>2. ASSUME Turn PROVE CreatedIsGroup'
  <2>1. CASE LeaveLoop \/ NothingToConsume \/ Look \/ Present \/ Flush
             \/ TakeWork \/ Interrupted \/ LeaveRun
    BY <2>1 DEF LeaveLoop, NothingToConsume, Look, Present, Flush, TakeWork,
       Interrupted, Exit, LeaveRun, opVars
  <2>2. CASE ScheduleNameWork
    BY <1>1, <2>2 DEF ScheduleNameWork, opVars
  <2>3. CASE SubmitRequest
    BY <1>1, <2>3 DEF SubmitRequest, BeginOperation, Refuse
  <2>4. CASE Apply
    BY <1>0, <2>4 DEF Apply, ApplyFailure, ApplyMisshapen, ApplyAcceptance,
       ApplyPage,
       ApplyContactAdd, ApplyGroupCreate, ApplyGroupJoin, ApplyNames,
       ApplyToScreen, Applying, ClearOperation
  <2> QED BY <1>2, <2>1, <2>2, <2>3, <2>4 DEF Turn
<1>3. ASSUME User PROVE CreatedIsGroup'
  <2>1. CASE Redraw \/ UserExits \/ Scroll \/ NotificationsKey \/ GoBack
             \/ ChooseScreen \/ ChooseRecord \/ ChooseOnBlankHistory
             \/ ChooseConversation \/ ChooseNotification \/ SubmitConversation
    BY <2>1 DEF Redraw, UserExits, Exit, Scroll, NotificationsKey, GoBack,
       ChooseScreen, ChooseRecord, ChooseOnBlankHistory, ChooseConversation,
       ChooseNotification, SubmitConversation, Enter, Keyed, NoRequest, opVars
  <2>2. CASE ChooseList \/ AskServer
    BY <1>1, <2>2 DEF ChooseList, AskServer, BeginOperation, Refuse, Enter,
       Keyed
  <2> QED BY <1>3, <2>1, <2>2 DEF User
<1>4. ASSUME Serve PROVE CreatedIsGroup'
  <2>1. asked # NoOperation /\ pending' = pending
    BY <1>4 DEF Serve, AnswerFail, AcceptMessage, ListGroups, SendPage,
       AddContact,
     CreateGroup, JoinGroup, AnswerInvalid, Answer, Answered, Associate,
        Received
  <2>2. asked = pending
    BY <2>1 DEF IInv, Talk, Exchange
  <2>3. CASE AnswerFail \/ AnswerInvalid
    <3>1. /\ Reply("fail", 0, Blank).result = "fail"
          /\ Reply("misshapen", 0, Blank).result = "misshapen"
      BY DEF Reply
    <3>2. response' \in {response, Reply("fail", 0, Blank),
                        Reply("misshapen", 0, Blank)}
      BY <2>3 DEF AnswerFail, AnswerInvalid, Answer, Associate
    <3> QED BY <2>1, <3>1, <3>2
  <2>4. CASE CreateGroup
    <3>1. PICK g \in Group : Answer(Reply("ok", g, Blank))
      BY <2>4 DEF CreateGroup
    <3>2. response' \in {response, Reply("ok", g, Blank)}
      BY <3>1 DEF Answer, Associate
    <3>3. Reply("ok", g, Blank).id = g
      BY DEF Reply
    <3> QED BY <2>1, <3>2, <3>3
  <2>5. CASE JoinGroup \/ AddContact \/ ListGroups
    BY <2>1, <2>2, <2>5 DEF JoinGroup, AddContact, ListGroups
  <2>6. CASE SendPage
    BY <2>1, <2>2, <2>6 DEF SendPage, OtherPages
  <2>7. CASE AcceptMessage
    <3>1. Waiting /\ pending.origin = "Conversation" /\ ~Naming
      BY <2>2, <2>7 DEF AcceptMessage, Waiting, Naming
    <3>2. PendingShape /\ pending # NoOperation
      BY <2>1, <2>2 DEF IInv, Talk, Exchange
    <3>3. pending.name \in NameOf("Conversation")
      BY <3>1, <3>2 DEF PendingShape
    <3>4. pending.name \in {"PRIVATE", "GROUP", "BROADCAST"}
      BY <3>3 DEF NameOf
    <3> QED BY <2>1, <3>4
  <2> QED BY <1>4, <2>3, <2>4, <2>5, <2>6, <2>7 DEF Serve
<1>5. ASSUME ConnectionLost \/ \E i \in Id, k \in Key : ReceiveMessage(i, k)
      PROVE CreatedIsGroup'
  BY <1>5 DEF ConnectionLost, ReceiveMessage, Received
<1>6. ASSUME UNCHANGED vars PROVE CreatedIsGroup'
  BY <1>6 DEF vars, opVars
<1> QED BY <1>2, <1>3, <1>4, <1>5, <1>6 DEF Next

\* What the interface keeps for itself keeps its types.
LEMMA OwnTypesStay ==
  ASSUME IInv, Types, [Next]_vars
  PROVE  OwnTypes'
<1> USE DEF OwnTypes, Types
<1>0. Open \subseteq Key /\ Showing \in Key \cup {NoKey} /\ Top \in ScreenSet
      /\ \A k : MessagesOf(k) \subseteq Id
  BY ShownKeys
<1>1. ASSUME Turn PROVE OwnTypes'
  <2>1. CASE LeaveLoop \/ NothingToConsume \/ Flush \/ TakeWork \/ Interrupted
             \/ LeaveRun \/ SubmitRequest
    BY <2>1 DEF LeaveLoop, NothingToConsume, Flush, TakeWork, Interrupted,
       Exit,
       LeaveRun, SubmitRequest, screenVars, nameVars, pastVars, Go
  <2>2. CASE Look
    BY <1>0, <2>2 DEF Look, screenVars, nameVars, pastVars
  <2>3. CASE Present
    <3>1. Rendered \subseteq Id
      BY <1>0 DEF Rendered
    <3>2. follow' \subseteq Key
      BY <1>0, <2>3 DEF Present
    <3> QED BY <2>3, <3>1, <3>2 DEF Present, Go, nameVars
  <2>4. CASE ScheduleNameWork
    <3>1. UnknownGroups \in SUBSET Group
      BY DEF UnknownGroups, Pinned
    <3>2. UnknownGroups # {} => Min(UnknownGroups) \in Group
      BY <3>1, MinIsIn, UiAssumption
    <3>3. attempted' \subseteq Group
      BY <2>4, <3>2 DEF ScheduleNameWork
    <3> QED BY <2>4, <3>3 DEF ScheduleNameWork, screenVars, pastVars, Go
  <2>5. CASE Apply
    <3>1. \A page : GroupsOn(page) \in SUBSET Group
      BY DEF GroupsOn
    <3>2. UNCHANGED <<follow, presented, snap>>
      BY <2>5 DEF Apply, ApplyFailure, ApplyMisshapen, ApplyAcceptance,
         ApplyPage,
         ApplyContactAdd, ApplyGroupCreate, ApplyGroupJoin, ApplyNames,
         ApplyToScreen, Applying, Go
    <3>3. attempted' \subseteq attempted
      BY <2>5 DEF Apply, ApplyFailure, ApplyMisshapen, ApplyAcceptance,
         ApplyPage,
         ApplyContactAdd, ApplyGroupCreate, ApplyGroupJoin, ApplyNames,
         ApplyToScreen, nameVars
    <3>4. names' \in NameSeqs
      <4>1. CASE ApplyFailure \/ ApplyMisshapen \/ ApplyAcceptance
                 \/ ApplyContactAdd \/ ApplyGroupJoin
        BY <4>1 DEF ApplyFailure, ApplyMisshapen, ApplyAcceptance,
           ApplyContactAdd, ApplyGroupJoin, ApplyToScreen, nameVars
      <4>2. CASE ApplyPage
        <5>1. names' \in {names, CachedAll(names, GroupsOn(response.page), Pinned)}
          BY <4>2 DEF ApplyPage, ApplyToScreen
        <5> QED BY <3>1, <5>1, CachedAllKeeps
      <4>3. CASE ApplyGroupCreate
        <5>1. /\ names' \in {names, Cached(names, response.id, Pinned)}
              /\ response.result = "ok" /\ pending.name = "GROUP_CREATE"
          BY <4>3 DEF ApplyGroupCreate, ApplyToScreen, Applying
        <5>2. response.id \in Group
          BY <5>1 DEF CreatedIsGroup
        <5> QED BY <5>1, <5>2, CachedKeeps
      <4>4. CASE ApplyNames
        <5>1. names' \in {names, CachedAll(names, GroupsOn(response.page), Pinned)}
          BY <4>4 DEF ApplyNames
        <5> QED BY <3>1, <5>1, CachedAllKeeps
      <4> QED BY <2>5, <4>1, <4>2, <4>3, <4>4 DEF Apply
    <3> QED BY <3>2, <3>3, <3>4
  <2> QED BY <1>1, <2>1, <2>2, <2>3, <2>4, <2>5 DEF Turn
<1>2. ASSUME User PROVE OwnTypes'
  <2>1. CASE Redraw \/ UserExits \/ NotificationsKey \/ GoBack
             \/ ChooseScreen \/ ChooseRecord \/ ChooseOnBlankHistory
             \/ SubmitConversation \/ ChooseList \/ AskServer
    BY <2>1 DEF Redraw, UserExits, Exit, NotificationsKey, GoBack,
       ChooseScreen, ChooseRecord, ChooseOnBlankHistory, SubmitConversation,
       ChooseList, AskServer, Enter, Keyed, NoRequest, Go,
       screenVars, nameVars, pastVars
  <2>2. CASE Scroll
    BY <1>0, <2>2 DEF Scroll, Keyed, NoRequest
  <2>3. ASSUME NEW k \in Key, OpenConversation(k) PROVE follow' \subseteq Key
    BY <2>3 DEF OpenConversation
  <2>4. CASE ChooseConversation
    <3>1. PICK k \in Openable :
            /\ OpenConversation(k)
            /\ names' = IF IsGroup(k) THEN Cached(names, GroupOf(k), Pinned)
                                      ELSE names
      BY <2>4 DEF ChooseConversation
    <3>2. k \in Key
      <4>1. Top.kind \in ActionKinds => Top.key \in Key
        BY Depths DEF IInv, Place, ShownExists
      <4> QED BY <1>0, <3>1, <4>1, UiAssumption
              DEF Openable, ScreenSet, PageSet, ActionKinds
    <3>3. IsGroup(k) => GroupOf(k) \in Group
      BY DEF IsGroup, GroupOf
    <3>4. names' \in NameSeqs
      BY <3>1, <3>3, CachedKeeps
    <3> QED BY <2>3, <2>4, <3>1, <3>2, <3>4
            DEF ChooseConversation, Enter, Keyed
  <2>5. CASE ChooseNotification
    <3>1. follow' \subseteq Key
      BY <1>0, <2>3, <2>5 DEF ChooseNotification
    <3> QED BY <2>5, <3>1 DEF ChooseNotification, Enter, Keyed, NoRequest
  <2> QED BY <1>2, <2>1, <2>2, <2>4, <2>5 DEF User
<1>3. ASSUME Serve \/ ConnectionLost
             \/ \E i \in Id, k \in Key : ReceiveMessage(i, k)
      PROVE  OwnTypes'
  BY <1>3 DEF Serve, AnswerFail, AcceptMessage, ListGroups, SendPage,
     AddContact,
     CreateGroup, JoinGroup, AnswerInvalid, Answer, Associate, ConnectionLost,
     ReceiveMessage, Received, loopVars, screenVars, nameVars, pastVars
<1>4. ASSUME UNCHANGED vars PROVE OwnTypes'
  BY <1>4 DEF vars, loopVars, screenVars, nameVars, pastVars
<1> QED BY <1>1, <1>2, <1>3, <1>4 DEF Next

\* The types hold at the start of run.
LEMMA InitTypes == Init => Types
<1> SUFFICES ASSUME Init PROVE Types
  OBVIOUS
<1>1. names \in NameSeqs
  <2>1. names = <<>>
    BY DEF Init
  <2>2. <<>> \in Seq(Group) /\ DOMAIN <<>> = {}
    BY EmptySeq, LenProperties
  <2> QED BY <2>1, <2>2 DEF NameSeqs, IsInjective
<1>2. NoResponse.result = "none"
  BY DEF NoResponse, Reply
<1> QED BY <1>1, <1>2 DEF Init, Types, OwnTypes, Flags, CreatedIsGroup

\* The types of the interface and of the buffer it shares with the receiver,
\* for any keys, groups, limits and sizes: among them that a name is cached
\* once, that the screens show keys there are, and that the buffer holds ids
\* below its limit.
THEOREM UiTypeCorrect == Spec => []TypeOK
<1>1. Init => Types
  BY InitTypes
<1>2. IInv /\ Types /\ [Next]_vars => Types'
  BY OwnTypesStay, FlagsStay, CreatedStays DEF Types
<1>3. IInv /\ Types => TypeOK
  <2> SUFFICES ASSUME IInv, Types PROVE TypeOK
    OBVIOUS
  <2>1. BufferTypeOK
    BY DEF IInv, BufferSound, BufferShape, BufferTypeOK
  <2>2. \A n \in DOMAIN screens :
          /\ screens[n].kind \in ScreenKind
          /\ screens[n].key \in Key \cup {NoKey}
          /\ screens[n].page.keys \subseteq Key
    <3>1. screens \in Seq(ScreenSet)
      BY DEF IInv, Place, Stacked
    <3>2. \A n \in DOMAIN screens : screens[n] \in ScreenSet
      BY <3>1, LenProperties, ElementOfSeq
    <3> QED BY <3>2 DEF ScreenSet, PageSet
  <2>3. pending.purpose \in {"none", "Foreground", "NameBootstrap", "NameLookup"}
    <3>1. NoOperation.purpose = "none"
      BY DEF NoOperation, Operation
    <3>2. PendingShape
      BY DEF IInv, Talk, Exchange
    <3> QED BY <3>1, <3>2 DEF PendingShape, Waiting, Naming
  <2>4. Named \subseteq Group /\ IsInjective(names)
    <3>1. \A n \in DOMAIN names : names[n] \in Group
      BY LenProperties, ElementOfSeq DEF Types, OwnTypes, NameSeqs
    <3> QED BY <3>1 DEF Named, ToSet, Types, OwnTypes, NameSeqs
  <2> QED BY <2>1, <2>2, <2>3, <2>4
          DEF TypeOK, Types, OwnTypes, Flags, IInv, Talk, Exchange,
             Reservation,
              Fated
<1> QED BY <1>1, <1>2, <1>3, Invariance, PTL DEF Spec
=============================================================================
