------------------------------- MODULE Paging -------------------------------
(***************************************************************************)
(* Walking a listing page by page: the client asks for the rows after a    *)
(* cursor, the database reads one row more than a page holds, the server   *)
(* puts as many of them in its response as fit a frame, and the client     *)
(* checks the response before it shows it and takes its next cursor from   *)
(* it.  Between two pages, and while a request is on its way, rows are     *)
(* added: other users register, found groups and write messages, and the   *)
(* user joins groups himself.                                              *)
(*                                                                         *)
(* A listing shows the rows of one table.  A row is its size in a          *)
(* response, and its id is its position (AUTOINCREMENT; nothing deletes a  *)
(* row).  The pages of a synchronization, which the receiver asks for      *)
(* itself, are those of Delivery; what bounds the names the client keeps   *)
(* is in TerminalUi.                                                       *)
(***************************************************************************)
EXTENDS Naturals, Sequences, FiniteSets, FiniteSetsExt, SequencesExt

CONSTANTS
  Listing,      \* the listings walked, out of Listings
  NoBound,      \* the absent through_message_id
  Size,         \* bound of the model: sizes of a row
  Room,         \* bytes a response has for its rows, has_more written "true"
  PageLimit,    \* rows a client asks for at a time (50 in the code)
  MaxRows       \* bound of the model: rows of the table

Listings ==
  {"CONTACT_LIST", "USER_SEARCH", "GROUP_LIST", "GROUP_SEARCH", "HISTORY",
   "NAMES"}

ASSUME ListingAssumption == Listing \subseteq Listings
ASSUME NoBoundAssumption == NoBound \notin Nat
ASSUME SizeAssumption == Size \subseteq Nat \ {0}
ASSUME BoundsAssumption ==
  /\ Room \in Nat /\ MaxRows \in Nat /\ PageLimit \in Nat \ {0}

VARIABLES
  listing,     \* the listing this client walks
  rows,        \* the sizes of the rows of its table, in the order of ids
  listed,      \* the ids of the rows it shows to the user
  request,     \* the request on its way
  response,    \* the response on its way
  screen,      \* the page the client has
  watermark,   \* the bound the walk took from its first page
  stopped,     \* the client stopped over an invalid response
  \* History.
  start,       \* what the listing showed when the first page was read
  shown,       \* the ids shown since, in order
  lost         \* groups whose name a lookup did not find

tableVars == <<rows, listed>>
walkVars  == <<screen, watermark, start, shown>>
vars == <<listing, tableVars, request, response, walkVars, stopped, lost>>

Id == 1..MaxRows

Ask(after, through, limit, target) ==
  [after |-> after, through |-> through, limit |-> limit, target |-> target]
NoRequest == Ask(0, NoBound, 0, 0)

Page(ids, next, through, more) ==
  [kind |-> "page", ids |-> ids, next |-> next, through |-> through,
   more |-> more]
Refusal    == [kind |-> "RECORD_UNREPRESENTABLE"]
Error      == [kind |-> "DATABASE_ERROR"]
NoResponse == [kind |-> "none"]
NoPage     == [kind |-> "none"]
GivenUp    == [kind |-> "given up"]

-----------------------------------------------------------------------------
(* The server.                                                             *)

\* The watermark of a history: the last message of the user's.
Highest == IF listed = {} THEN 0 ELSE Max(listed)

\* Variant: the watermark is not in the query.
MatchUnbounded(q) == {i \in listed : i > q.after}

\* The rows a query finds.
Match(q) ==
  {i \in listed : i > q.after /\ (q.through = NoBound \/ i <= q.through)}

Ascending(ids) == \A i, j \in DOMAIN ids : i < j => ids[i] < ids[j]

\* ORDER BY id.
InOrder(set) ==
  CHOOSE ids \in [1..Cardinality(set) -> set] :
    Ascending(ids) /\ ToSet(ids) = set

\* What the database returns: a page of rows, and whether there are more.
Read(q) ==
  LET found == InOrder(Match(q))
  IN [ids  |-> SubSeq(found, 1, Min({Len(found), q.limit})),
      more |-> Len(found) > q.limit]

\* The bytes of a response beyond its fixed part: "false" is longer than
\* "true".
Bytes(ids, more) ==
  SumFunctionOnSet(rows, ToSet(ids)) + (IF more THEN 0 ELSE 1)

Prefix(ids, n) == SubSeq(ids, 1, n)

\* How many rows the loop keeps, whose candidates carry the has_more they
\* would be sent with (the discovery requests, GROUP_LIST).
Kept(read) ==
  Max({n \in 0..Len(read.ids) : \A k \in 1..n :
         Bytes(Prefix(read.ids, k), k < Len(read.ids) \/ read.more) <= Room})

\* Variant: has_more of the query alone.
BuildPageUncut(q, read) ==
  LET n   == Kept(read)
      ids == Prefix(read.ids, n)
  IN IF read.ids # <<>> /\ n = 0
     THEN Refusal
     ELSE Page(ids, IF n = 0 THEN q.after ELSE Last(ids), NoBound, read.more)

\* Variant: all or nothing.
BuildPageWhole(q, read) ==
  LET ids == read.ids
  IN IF Kept(read) < Len(ids)
     THEN Refusal
     ELSE Page(ids, IF ids = <<>> THEN q.after ELSE Last(ids), NoBound,
               read.more)

BuildPage(q, read) ==
  LET n   == Kept(read)
      ids == Prefix(read.ids, n)
  IN IF read.ids # <<>> /\ n = 0
     THEN Refusal
     ELSE Page(ids, IF n = 0 THEN q.after ELSE Last(ids), NoBound,
               read.more \/ n < Len(read.ids))

\* Candidates are measured with has_more set, and the response once more as
\* it is sent.
WritePage(q, read, through) ==
  LET n    == Max({k \in 0..Len(read.ids) :
                     Bytes(Prefix(read.ids, k), TRUE) <= Room})
      ids  == Prefix(read.ids, n)
      more == read.more \/ n < Len(read.ids)
  IN IF (read.ids # <<>> /\ n = 0) \/ Bytes(ids, more) > Room
     THEN Refusal
     ELSE Page(ids, IF n = 0 THEN q.after ELSE Last(ids), through, more)

\* getHistoryDeliveryPage takes the watermark and the page in one transaction.
HistoryPage(q) ==
  LET through == IF q.through = NoBound THEN Highest ELSE q.through
  IN WritePage(q, Read([q EXCEPT !.through = through]), through)

Serve ==
  /\ request # NoRequest
  /\ response = NoResponse
  /\ \/ response' = IF listing = "HISTORY"
                    THEN HistoryPage(request)
                    ELSE BuildPage(request, Read(request))
     \/ response' = Error
  /\ start' = IF screen = NoPage /\ request.target = 0 THEN listed ELSE start
  /\ UNCHANGED <<listing, tableVars, request, screen, watermark, stopped,
                 shown, lost>>

-----------------------------------------------------------------------------
(* The client's checks of a page.                                          *)

\* validDiscoveryResponse and the checks of applyForegroundResponse.
ValidDiscovery(p, q) ==
  /\ Ascending(p.ids)
  /\ p.ids # <<>> => p.next = Last(p.ids)
  /\ Len(p.ids) <= q.limit
  /\ p.next >= q.after

ValidGroupList(p, q) ==
  /\ Len(p.ids) <= q.limit
  /\ Ascending(<<q.after>> \o p.ids)
  /\ p.next = Last(<<q.after>> \o p.ids)
  /\ p.more => p.ids # <<>>

\* validHistoryPage and the checks of applyForegroundResponse.
ValidHistory(p, q) ==
  /\ Ascending(p.ids)
  /\ \A i \in DOMAIN p.ids : p.ids[i] <= p.through
  /\ p.ids # <<>> => p.next = Last(p.ids)
  /\ Len(p.ids) <= q.limit
  /\ p.next \in q.after..p.through
  /\ watermark \in {NoBound, p.through}

Valid(p, q) ==
  CASE listing = "HISTORY"                   -> ValidHistory(p, q)
    [] listing \in {"GROUP_LIST", "NAMES"} -> ValidGroupList(p, q)
    [] OTHER                                 -> ValidDiscovery(p, q)

-----------------------------------------------------------------------------
(* The client.                                                             *)

Init ==
  /\ listing \in Listing
  /\ rows \in SeqOf(Size, MaxRows)
  /\ listed \in SUBSET DOMAIN rows
  /\ request = NoRequest
  /\ response = NoResponse
  /\ screen = NoPage
  /\ watermark = NoBound
  /\ stopped = FALSE
  /\ start = {}
  /\ shown = <<>>
  /\ lost = {}

Send(q) ==
  /\ request = NoRequest
  /\ ~ stopped
  /\ request' = q
  /\ UNCHANGED <<listing, tableVars, response, walkVars, stopped, lost>>

\* The choice or the form that opens the listing, and again after a failure;
\* the program itself for the names.
FirstPage ==
  screen = NoPage /\ Send(Ask(0, NoBound, PageLimit, 0))

NextPage ==
  /\ screen.kind = "page"
  /\ screen.more
  /\ Send(Ask(screen.next, watermark, PageLimit, 0))

\* The name of a group the user has a conversation of: its messages go to
\* members only.
LookUpName(g) ==
  /\ listing = "NAMES"
  /\ g \in listed
  /\ Send(Ask(g - 1, NoBound, 1, g))

Answered ==
  /\ request' = NoRequest
  /\ response' = NoResponse
  /\ UNCHANGED <<listing, tableVars, start>>

\* A page that fails the checks stops the client (stopForInvalidResponse).
TakePage ==
  /\ response.kind = "page"
  /\ request.target = 0
  /\ IF Valid(response, request)
     THEN /\ screen' = response
          /\ watermark' = response.through
          /\ shown' = shown \o response.ids
          /\ UNCHANGED stopped
     ELSE /\ stopped' = TRUE
          /\ UNCHANGED <<screen, watermark, shown>>
  /\ Answered
  /\ UNCHANGED lost

TakeName ==
  /\ response.kind = "page"
  /\ request.target # 0
  /\ IF Valid(response, request)
     THEN /\ lost' = lost \cup ({request.target} \ ToSet(response.ids))
          /\ UNCHANGED stopped
     ELSE stopped' = TRUE /\ UNCHANGED lost
  /\ Answered
  /\ UNCHANGED <<screen, watermark, shown>>

\* A failure leaves the page as it is; the program gives up on the names.
TakeFailure ==
  /\ response \in {Refusal, Error}
  /\ screen' = IF listing = "NAMES" /\ request.target = 0
               THEN GivenUp ELSE screen
  /\ Answered
  /\ UNCHANGED <<watermark, shown, stopped, lost>>

-----------------------------------------------------------------------------
(* What changes under the walk.                                            *)

\* Another user registers, founds a group or writes a message, which the
\* listing may show.
Insert(size, shows) ==
  /\ Len(rows) < MaxRows
  /\ shows => listing \in {"USER_SEARCH", "GROUP_SEARCH", "HISTORY"}
  /\ rows' = Append(rows, size)
  /\ listed' = IF shows THEN listed \cup {Len(rows')} ELSE listed
  /\ UNCHANGED <<listing, request, response, walkVars, stopped, lost>>

\* The user's client has one operation at a time, and a contact is not added
\* from the screen of a list; while the names are walked he may join.
JoinGroup(g) ==
  /\ listing = "NAMES"
  /\ request = NoRequest
  /\ listed' = listed \cup {g}
  /\ UNCHANGED <<listing, rows, request, response, walkVars, stopped, lost>>

Next ==
  \/ FirstPage \/ NextPage \/ \E g \in DOMAIN rows : LookUpName(g)
  \/ Serve
  \/ TakePage \/ TakeName \/ TakeFailure
  \/ \E size \in Size, shows \in BOOLEAN : Insert(size, shows)
  \/ \E g \in DOMAIN rows : JoinGroup(g)

Spec == Init /\ [][Next]_vars

-----------------------------------------------------------------------------
\* No row is shown twice or out of order; no row that was there when the walk
\* began is left behind by the cursor, whatever was added meanwhile; and a
\* history that has been walked to its end is the one at its watermark.  The
\* LIMIT of one more row, the cut to a frame and the next cursor together.
WalkIsComplete ==
  /\ Ascending(shown)
  /\ screen.kind = "page" =>
       /\ start \cap 0..screen.next \subseteq ToSet(shown)
       /\ ~ screen.more => start \subseteq ToSet(shown)
       /\ ~ screen.more /\ listing = "HISTORY" => start = ToSet(shown)

\* The client takes every page the server builds, a page with has_more moves
\* the cursor, and a lookup that asks for the one group after g - 1 gets g.
\* What the server builds (BuildPage, WritePage) against what three validators
\* of the client require.
PagesAreTaken ==
  /\ ~ stopped
  /\ lost = {}
  /\ response.kind = "page" /\ response.more => response.next > request.after

\* The first row to send is too large for a response of its own.
Oversized(q) ==
  LET found == InOrder(Match(q))
  IN found # <<>> /\ Bytes(Prefix(found, 1), Len(found) > 1) > Room

Refused == response = NoResponse /\ response' = Refusal

\* RECORD_UNREPRESENTABLE, "Stored record cannot be represented within
\* response limits", is said of a record that cannot be sent, and not when
\* records that fit would have to be cut to a smaller page.
RefusedForARecord ==
  [][Refused /\ listing # "HISTORY" => Oversized(request)]_vars

\* The same of "Stored message cannot be represented", for the messages.
RefusedForAMessage == [][Refused => Oversized(request)]_vars
=============================================================================
