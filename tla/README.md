# Specifications of the protected chat

TLA+ specifications of the chat server (`server.cpp`, `serverf/`, `databasef/`)
and of its terminal client (`user.cpp`, `clientf/`): what is modelled, what TLC
checks, what TLAPS proves, and what is left. File and line references are to the
sources beside this directory.

## 1. Inventory

One server process keeps a thread per connection and one SQLite connection behind
one mutex. A client process has a receiver thread and a main thread that owns the
terminal. They exchange newline-delimited JSON over TCP.

| Component | State | Operations | Interacts with | What makes it correct |
|---|---|---|---|---|
| Accept loop, handlers, shutdown (`server.cpp`) | `HandlerTracker`, thread per connection | accept, authenticate, process, clean up, stop all | registry, sessions, database | one final answer per login; every handler ends; nothing runs after the shutdown |
| Session registry (`session_registry.cpp`) | user name to session | reserve, publishReady, findReady, removeIfSame | called by every handler | at most one live session per user; removal by identity; no orphan entry |
| Session object (`client_session.cpp`) | ready, stopping, closed, write mutex, receive buffer | readFrame, sendJson, requestStop, close | its handler reads; every handler writes and stops | whole frames; stop never waits for a writer; closed once, by its handler |
| Durable routing (`durable_routing.cpp`) | none of its own | accept private, group, broadcast; acknowledge; pages | database, then registry, then sessions | every committed message reaches its recipients at least once |
| Message store (`database_messaging.cpp`) | message_history, message_recipients | accept, acknowledge, pending page, history page, import | one mutex, one transaction per call | a message and its rows are one unit; a row is cleared by its own acknowledgement only |
| Database core (`database_core.cpp`, `database_internal.h`) | the SQLite file and connection, schema version, `connectionUsable` | open, create and upgrade the schema, transactions | every request of a handler | tables change by whole requests; nothing of a failed one is left; every own file is served |
| Groups and discovery (`database_groups.cpp`, `database_discovery.cpp`, `discovery_protocol.cpp`) | groups, members, contacts | create, join, add, list, search | handlers, the client's screens | a walk of a listing skips and repeats nothing |
| Client connection (`client_connection.cpp`) | authentication state, automatic requests, synchronization cursor, stop flag | send, flush, start synchronization, receive, stop, join, close | receiver and main thread, the server | acknowledge only what is retained; pages in order; stop releases every wait |
| Message buffer (`message_buffer.cpp`) | conversations, retained messages, reservation | receive, reserve, commit, cancel, snapshot | both client threads | no duplicate, limits kept, stable handles |
| Terminal UI (`terminal_ui.cpp`) | screens, foreground operation | submit, consume response, flush, exit | connection, buffer, input | a response goes with its request; uncertain submissions are reported |
| Console input (`console_input_posix.cpp`) | wake-up pipe, interrupt flag | readEvent, notifyWork, interrupt | every thread wakes the main one | no lost wake-up; input decoded whole whatever its split |
| Rendering (`terminal_ui_render.cpp`, `terminal_screen*.cpp`) | none | layout | - | not modelled |

Hard behaviours: interleavings of handlers over the registry, the database and each
other's sessions; writes that fail or block without a timeout; a session replaced
by its user's next one while work for it goes on; the hand-over from offline to
live delivery; a server crash between commit and delivery, or between two statements
of a transaction; failing statements and roll-backs; answers that race the user's next
key; pages cut by their frame; bounded queues and buffers. The list with lines is under `hazards` in `PROJECT.json`.

## 2. Modules

| Module | Models | State and actions |
|---|---|---|
| `SessionDirectory` | the promise of the admission machinery | `live`, `ended`; `Publish`, `End` |
| `Admission` | accept loop, handlers, registry, session flags, live delivery between handlers, shutdown | one `pc` per handler; one action per critical section or frame |
| `Inbox` | the promise of message delivery | `accepted`, `shown`, `delivered` |
| `Delivery` | routing, pending pages, acknowledgements, client synchronization, crash; extends `SessionDirectory` | rows, handler steps, wires in both directions, client queue and buffer |
| `AtomicStore` | the promise of the database | `tables`; one action per request |
| `Store` | `Database` over SQLite: schema, accounts, groups, contacts, messages, the legacy import | the file, the connection's view of it, the transaction; one action per SQLite call |
| `Paging` | the listings of the discovery requests and of the history, from the query to the client's check of a page | the rows, a request and a response on their way, the page on the screen |
| `ConsoleInput` | the client's main thread, from its first prompt to its end, and all that wakes it | flags, pipe, input buffer, `pc` of the main thread, `rpc` of the receiver; one action per atomic operation, read or critical section |
| `MessageBuffer` | the calls of the client's message buffer, each under its mutex | conversations, messages, handles, the reserved place, retained bytes |
| `TerminalUi` | the loop of the main thread, the screens, the one operation, the names of groups, the receiver; extends `MessageBuffer` | `pc`, stack of screens, `pending` against `expected` and `asked`; one action per step of the loop, key, or frame received |
| `MCDelivery`, `MCStore`, `MCPaging`, `MCConsoleInput`, `MCTerminalUi` | the above for TLC: files, settings, symmetry | |
| `Admission_proofs`, `ConsoleInput_proofs`, `Store_proofs`, `Paging_proofs` | theorems about the modules they are named after | |
| `Delivery_invariant`, `Delivery_proofs` | the inductive invariant of `Delivery`; that it is one, and what follows | |
| `MessageBuffer_proofs`, `TerminalUi_proofs` | what each call of the buffer keeps; the invariants of the interface over it | |

How they fit together: `Admission` implements `SessionDirectory` (checked by
`admission`, proved by `AdmissionImplementsDirectory`); `Delivery` is built
on the actions of `SessionDirectory` and implements `Inbox`. The two detailed
modules meet in `live` and `ended`: a session is live from `publishReady` until
`requestStop`, and only in between can `findReady` return it. `Delivery` takes every
database call as one atomic action; `Store` shows that this is what a call is: it
implements `AtomicStore` (proved by `StoreImplementsAtomicStore`), over every failing
statement and every crash. That `Delivery` implements `Inbox` is proved by
`DeliveryImplementsInbox`. `Paging` is
the same listing code seen from the client that walks it.

`ConsoleInput` and `TerminalUi` are two views of the client's main thread. `ConsoleInput`
has every way the thread may wait and be woken, and one step for what the UI does
with the news; `TerminalUi` has what the UI does, and waits at `read` until a key or
work comes. What the first shows (`WorkIsTaken`, no lost wake-up) is what entitles the
second to hand the thread its work (`TakeWork`) whenever there is some, and both what
entitles `Delivery` to let the thread write a queued request whenever there is one.

### Admission and the code

- The user's entry in `registry` is `SessionRegistry::sessions`; `user`, `ready`,
  `stopping` and `closed` are the fields of `ClientSession`; `tracked` is the set of
  `HandlerTracker`; `pc` is the place in `handleClient` and what it calls. `toStop` is
  the snapshot of `stopAllAndWait`.
- Every call that takes the registry mutex, the tracker mutex or the database mutex is
  one action, and so is every frame written. Two of them are never merged, so every
  order of two handlers is explored. Contents of frames are left out: `sent` keeps the
  kinds that matter to the client, the two final answers and messages of others.
- A write either goes out whole (`Written`) or fails and stops its session
  (`Failed`); a session that is stopping or closed is never written to. The lock
  of one write is not a variable: of two concurrent writers one comes first.
- A frame that was read before the stop may still be served after it.
- `FindReady` includes the removal of a ready session that is stopping. The
  recipients of a message are looked up in any order (the code's is by id).

### Delivery and the code

- `log` is `message_history` with the recipients of `message_recipients`: a message's
  id is its position (SQLite counts the ids up, and rows are never deleted). `acked[u]` are the rows
  of `u` whose `acknowledged_at` is set. Every database call is one action, as each
  holds the mutex and is one transaction.
- `down` and `up` are the two directions of a connection, FIFO. `auto`, `sync`,
  `halted` are `automaticRequests`, the synchronization fields and `stopping` of
  `ClientConnection`; `buf` the ids of the `MessageBuffer`. An absent watermark is 0,
  which no request for a further page can carry.
- A page is a set of ids in ascending order, cut to any non-empty prefix for its size.
- A session stands for the connection and the client process at its other end:
  `user.cpp` connects once per process, so a returning user is a new session
  with an empty buffer.
- What is buffered and what is queued for it are two critical sections of the
  receiver; only the removal of the head of the queue can come in between, so they are one action.
- The database survives `Crash` and no handler does; a client finds out as for any end
  of its session. That a committed transaction survives is SQLite's promise.
- Every user of the model has an account; groups only matter as sets of recipients,
  which are any set without the sender (also the empty one).

### ConsoleInput and the code

- `pc` is the place of the main thread in `readConsoleLine`/`readLine` (until `enabled`,
  which is `postAuthenticationEnabled`) and then in `TerminalUi::run`,
  `flushAutomaticRequests` and `readPosixEvent`. The loops of `readLine` and `readEvent`
  are alike up to the rules named `...Line`, and share `Top`, `Poll`, `Drain`, `Input`.
- `pipe` holds the bytes W, I and R; it never blocks and drops what it has no room
  for. Draining it, judging the flags and reading the terminal are three actions:
  between them the receiver may set a flag or write a byte. `notifyWork` and
  `interrupt` of the receiver are two actions each, the exchange of the flag and the
  write; the same calls by the main thread are one, as only that thread reads the pipe.
- Keys stand for bytes: `lead` begins a UTF-8 character that none of the others
  completes, `csi` is `ESC [`, `paste` and `done` are the marks around a paste, `escape`
  any other ESC. So a character, a sequence or a paste may be cut off
  anywhere, and that is what a poll, a deadline or the end of the input meets. The marks
  arrive whole; in a paste the last key is kept back, as the code keeps the last six bytes. The
  content and the size limit of a paste are left out.
- A deadline may pass whenever its ESC is looked at (`EscapeExpires`) or while the thread
  polls (`PollTimesOut`).
- `work` is the kinds of news the receiver left (messages in the buffer, a response, a
  diagnostic), `requests` the length of `automaticRequests`. A message is taken when it
  is drawn, a response by `consumeResponse`, a request by its write.
- The wait for the authentication is one step that the server, or a stop, ends; the
  EXIT frame at the end is part of `Finish`. A read of the terminal that fails in the
  same round in which a wake-up was drained is left out; failing otherwise, it is `PollFails`.

`NoLostWakeup` has an exception, which the code has too. When a resize and a notification
are drained together, `fillEventInput` reports the resize and leaves `workPending` set
with the pipe empty, so later notifications write no byte. That does no harm as long as
the next round takes the pending work; but a wake-up sets `preferBufferedInput`, and with
a partial character, sequence or paste in the buffer the round decodes nothing, does
not take the work, and polls. News then waits until the rest is typed, or until
the deadline for an escape sequence. Without `buf # <<>>` in the property TLC finds this.
Similarly, input that ends (not only pauses) within a character or a paste is never
reported as ended: `HangUpEndsClient` allows a client that waits with such a rest.

### TerminalUi, MessageBuffer and the code

- `pc` is the place of the main thread in `TerminalUi::run`: consume a response, look at
  the size and take a snapshot, present and mark as viewed, flush one automatic
  request, schedule work on names, read an event. The keys are actions enabled at
  `read`; what was typed into a field is a choice of the model. The receiver
  (`ReceiveMessage`, and the answers in `Serve`) may act between any two of them.
- An operation is out in three places: `pending` is what the main thread waits for,
  `expected` what the receiver will accept, `asked` what the server has not answered.
- The actions of `Serve` are the server's handlers (`processMessages` and what it
  calls) as the client meets them. They over-approximate the server: any request may
  fail, and a page may hold any rows. `AnswerInvalid` is a server other than this one.
- `names`, `attempted` and `bootstrap` are `groupNames` with its order of use,
  `attemptedGroupNames` and the walk over the user's groups at the start.
- The buffer's calls are operators of `MessageBuffer`, one per public method; sizes are
  one byte for a message and `KeyBytes` for the name in a key. Subtractions of sizes
  are modulo `SizeRange`, which stands for 2^64.
- A conversation always exists when a message is submitted (the screen it is
  submitted from opened it), so that `CancelOutgoing` never takes back a
  conversation: two conversations with one handle, which its code would allow, are
  not reached, and `HandlesAreUnique` holds.
- `doubt`, `presented` and `refused` are history. `presented` holds the ids in the
  snapshots presented, whether or not their rows were in the visible part. `UncertaintyIsReported` names the one
  exception the code has: after a response of the right operation and the wrong
  shape, `applyForegroundResponse` clears the operation first, and the end of `run`
  does not find it any more (`terminal_ui.cpp:1005`).

### Store and the code

- `disk` is the committed file, `work` what the connection sees, `inTxn` SQLite's own
  transaction state, `usable` is `connectionUsable`. `step` is the place in a request:
  begin, its writes, the guard's roll-back and that of its destructor, the answer.
  `databaseMutex` admits one request at a time, so one is all the module has.
- Any call may fail. A failing statement may leave the transaction open or take it
  along, as some errors make SQLite do (`StatementFails`). In the second case the
  explicit ROLLBACK then fails for want of a transaction, and a connection that is
  clean is marked unusable; the model has this (`RollBackFails`).
- `PlanOf` is what a request writes on the tables it finds, translated request by
  request; where the code throws after it began to write (a row that cannot be
  imported, a schema that does not fit) the plan ends in `refused`.
- `Start` opens the file, then runs `initializeSchema` and `importLegacyMessages`, and
  only then serves. A table's expected columns, keys and indexes are one name in
  `objects`, present exactly when all of them are as the code checks them.
- `origin` and `promised` are history: the file at first, and every row a caller was
  ever told is stored. The content of a message is its source: the id of the
  legacy row it was imported from, or 0.
- `IsFile` is what is taken for granted of the file at first: one schema version,
  distinct ids in a table (both SQLite's), recipients of messages that exist (a foreign
  key of the schema), and ids of messages that count up from 1, as nothing deletes one.
- `OwnFilesAreServed` names its exception: one legacy row that the import
  refuses (to oneself, not UTF-8) fails every start.

### Paging and the code

- A row is its size in a response, its id its position. `Read` is the query with its
  LIMIT of one more row, in the order of the ids (`InOrder`); `BuildPage` the loop of the discovery requests that keeps
  a row while the response still fits; `WritePage` that of the message pages. `Room`
  is what a frame has for rows when `has_more` is written `true`; `false` is one byte more.
- `Valid` are the client's checks of a page, per listing; a page that fails them
  stops the client. The walk for the names of groups (`NAMES`) and the lookup of a
  single one are a listing of their own, as they check differently and give up.
- Rows are added under the walk by other users; the user's own additions cannot
  happen while he looks at a list (one operation, and no such key on its screens)
  except that he may join a group while names are walked.

## 3. Runs

| Run | Bounds | Checks | Shows |
|---|---|---|---|
| `admission` | 2 users, 2 sessions, clients that stall | `RegistryIsExact`, `AnswersInOrder`, `ClosedByOwner`, `QuietAfterShutdown`, `ImplementsDirectory`, `ShutdownCompletes`, `NameIsReleased` | registry and sessions agree through races of two logins, failed writes, late clean-ups and the shutdown, which ends; a name is free again |
| `delivery_safety` | 2 users, 3 sessions, 2 messages, 4 of both together, 1 session ended by itself, pages of 2, queue of 2 | `PagesAreValid`, `NoLostDelivery`, `AcksAreDue` | nothing falls between live delivery and synchronization, nor between two sessions of one user |
| `delivery_live` | 2 sessions, 1 message, pages of 1 | `ImplementsInbox`, `EventuallyDelivered` | messages are delivered at least once, and everything arrives |
| `delivery_removal` | 2 sessions, 1 message | `RemovedAfterDelivery`, violated | README.md's "removed from the database" is not what the code does |
| `console` | 8 keys, 3 typed, 3 pieces of news, 1 resize, 3 of all together; sequences of 3, a line of 1 byte, a pipe of 2 | `TypeOK`, `DeadlineHasEscape`, `NoLostWakeup`, `InterruptIsDue` | decoding in every split; the main thread never sleeps over news or an interrupt |
| `console_live` | newline, ESC and an open paste, 2 typed, 1 piece of news or request | `StopEndsClient`, `HangUpEndsClient`, `WorkIsTaken` | a stop ends the client wherever it waits; news is taken, requests are written, the end of the input ends the client |
| `ui` | a private chat, 2 groups, the broadcast; 2 ids, 2 conversations, 2 messages, 4 bytes of text, a page of 1, 1 name kept; four settings | `TypeOK`, `HandlesAreUnique`, `BufferLimits`, `ChecksNeverMisfire`, `OneOperation`, `ViewedWasPresented`, `UncertaintyIsReported` | an answer finds its screen, the client's own checks do not end it, the buffer's limits and counts hold |
| `ui_live` | one chat with the broadcast, one group | `RequestsSettle`, `NamesYield`, `ShownIsViewed`, `StopEnds` | requests settle, the walk for names ends, what is shown becomes viewed |
| `ui_enter_again` | the history screen only | `EnterAgainWorks`, violated | "press Enter again when ready" does not work on a list |
| `store` | 2 users, 1 group, 1 message, files of every version and foreign ones, 2 failing calls, 1 crash | `TypeOK`, `StartsClean`, `PromisesAreDurable`, `LegacyOnce`, `ImplementsAtomicStore`, `OwnFilesAreServed` | tables change by whole requests; what was promised stays; each legacy message is imported once; the program's own files are served |
| `paging` | 6 listings, 4 rows of 1, 2 or 4 bytes, 4 bytes of room, pages of 2 | `WalkIsComplete`, `PagesAreTaken`, `RefusedForARecord` | no row is skipped or repeated; the client takes every page; a request is refused for a record that does not fit only |
| `paging_refusal` | the history | `RefusedForAMessage`, violated | two messages that fit are refused as one that does not |

Why the bounds are enough. A race over a name needs two sessions of one user; that
two sessions of two users also deliver to each other is the same two. In
`delivery_safety` a handler may still hold the first session of its recipient as the
target of a delivery while he comes back: that takes three sessions and two users. Two
messages and pages of two rows give an empty page, a cut page followed by another, a
message committed between two pages and an acknowledged row in an earlier page; a
queue of two overflows. `MaxMessages`, `MaxLoad` (messages and logins together)
and `MaxEnds` (sessions that end by themselves; a crash ends any number) are
bounds of the model; `PageLimit` (50) and `MaxAutomaticRequests` (256) are constants
of the code made small.

In `ConsoleInput` `MaxTyped`, `MaxPosts`, `MaxResizes` and `MaxEvents`, which bounds
the three together, are bounds of the model; `MaxLineBytes` (1 MiB), `MaxSequence` (32)
and `PipeCapacity` are made small. Two W or a W and an R fill the pipe while a third
byte is on its way; three pieces of news give one that is taken, one whose
notification is under way and one coalesced with it; three keys give a sequence with
what follows it. The liveness run has no resize, which costs nothing there:
whether work is announced is a question of safety, which `console` answers with one.

In `TerminalUi` a behaviour keeps to one `setting`: the screens the user visits, the
groups he is in, the ids that arrive, the sizes of the terminal and whether the server
may answer wrongly. The four of `ui` are chats, looking things up, groups, and trouble
(a faulty server, a shrinking terminal); together they open every screen and fire
every action, and the screens of one setting are those whose steps share state. Two
conversations and two messages fill the buffer, a second name evicts the first,
and a page of one row makes every listing end before it is complete. In
`ui_live` all limits are wide enough for the one chat.

In `Store`, `MaxFaults` is 2 because the deepest recovery has two: a statement fails,
and so does its roll-back (that the second try in the destructor fails as well counts no
further). One crash at any step is followed by a start on what it left. `Busy`
restricts the users' requests to a current file: how a file came to be current
makes no difference to them, as every file that is served is one (`Own`). In `Paging`
a row of 4 fills the room by itself, a row of 4 with `false` does not fit, two of 2 fill it to the
last byte, and four rows give a third page.

Where deadlock is not looked for, the program may stop: the server returns after a
failed accept, every session and the client may end, a listing may be at its end, and
an unusable connection answers nothing.

Each property has a mutant in `PROJECT.json`, a variant of one definition that TLC must
refute; variants stand before the definition they vary and are marked as such.

### What the violated runs show

- `delivery_removal`: acknowledged messages keep their row in `message_history` for
  good; `message_recipients` gets `acknowledged_at` (`database_messaging.cpp:793`).
- `ui_enter_again`: `submitMenu` pushes the screen of a list before `beginOperation`
  refuses the request because one for names is out. The user is told to press Enter
  again, but on the new screen without a page Enter asks for nothing. He has to
  go back and open the list again; on the history a number typed there ends in an exception
  (`terminal_ui.cpp:893`).
- `paging_refusal`: `writePage` measures its candidates with `has_more` true and sends the
  last page with false, one byte longer. A last page that fits to the byte is refused as
  "Stored message cannot be represented" (`durable_routing.cpp:471`). A history cannot be
  read past it, and a pending synchronization that meets it stops the client
  (`client_connection.cpp:844`). The discovery requests measure what they send.

## 4. Fairness

- `HandlerFairness`: the operating system runs every thread that is not blocked. A
  handler blocks in a read until its client sends something or its session is
  stopped, and in a write until the peer takes the bytes or the session written to is
  stopped (`requestStop` shuts the socket down, which ends both). No fairness is
  assumed of a blocked handler, and a client need never send.
- `MainFairness`: the thread that shuts the server down runs. `StallSpec` has these two.
- `PeersDrain` (a premise of `NameIsReleased` only): peers take what is written to
  them. The code has no write timeout, and `NameIsReleased` does not hold without it: a
  recipient that stalls keeps the sender's handler in its write, and when the sender
  is gone meanwhile his name stays taken until the recipient's connection breaks.
- `FairSpec` of `Delivery`: handlers, the client's two threads and the database make
  progress and writes end. Nothing makes a user log in, send, or stay.
- `FairSpec` of `ConsoleInput`: both threads run; once the connection is stopped, the
  waits for the server end (`requestStop` completes the authentication and shuts the
  socket down). Strong fairness of `EscapeExpires` says that a deadline looked at again
  and again passes, that of `Poll` and `PollTimesOut` that a poll is not interrupted by
  signals for ever. `ServerDrains`, a premise of `HangUpEndsClient` and `WorkIsTaken`, adds that
  the server takes what is written to it, without which a client blocked in a write
  takes no news.
- `FairSpec` of `TerminalUi`: the main thread runs (it is woken for news by
  `ConsoleInput`), and the server answers while the receiver reads: its handler writes one
  response to each request. User and wire owe nothing.
- `FairSpec` of `Store`: a request that runs goes on to its end, and whoever operates
  the server starts it again after a failed start or a crash. Failures are bounded,
  as a disk that fails for ever serves nobody.

## 5. Proofs

`Admission_proofs` proves, for every set of users and sessions and for `Spec` with the
shutdown, the types, the invariants of `admission` and the refinement of
`SessionDirectory`. The assumptions are the two named in `Admission` (the null values are
none of the users and sessions). None of the invariants except `TypeOK` is
inductive by itself; the inductive one, `IInv`, adds what a handler at each `pc` holds: where the session
has a user; from which places on the entry is its own; that `ready` needs a
published admission and `SUCCESS` sent before; that a handler in a delivery has a
route; that a running handler is tracked; and that a closed session is at its end.
TLC checked `IInv` on the small instance before it was proved; `InitIInv`, `StepIInv`
(one step per action) and `SpecIInv` establish it. The refinement uses `IInv` to show that
a session is the live one of at most one user (`LiveByFlags`) and then maps every
action to `Publish`, `End` or a stutter.

`ConsoleInput_proofs` proves for any set of keys, any limits and capacities and any
number of notifications the four invariants of `console`, from
the assumptions named in the module (limits are positive, keys are of `Key`). The
inductive invariant, `Control`, says who will notice what: an interrupt the test at the top
has missed has its byte in the pipe or under way (`InterruptAnnounced`); what is left for the UI
was announced by `workPending`, is about to be, or lies ahead of the
main thread on its way round the loop (`WorkAnnounced`, finer for a diagnostic, which is drawn only
on a dirty screen); and a poll with `workPending` set and an empty pipe has a byte
coming or a partial input in the buffer (`PendingHasByte`), from which `NoLostWakeup` follows.
The proof has one lemma per group of actions and half of the invariant (`...KeepControl`,
`...KeepTypes`), and a few on sequences (`AfterIsShorter`, `WakeByteArrives`).

`Store_proofs` proves for any users, groups, legacy rows and files and any number of
failures and crashes `TypeOK`, `StartsClean`, `PromisesAreDurable`, `LegacyOnce` and the
refinement of `AtomicStore`, from the assumptions of `Store` (users and legacy rows are
finite, and `IsFile` of the files).
`PromisesAreDurable` needs what a request that has not answered yet will have
stored. So the inductive `IInv` follows a promise from its plan to the disk: outside a
transaction the connection shows the file, and in one no stored fact has gone from its view
(`WorkFollowsDisk`); the transaction is open exactly where the guard holds it, or
the connection is given up (`TransactionFollowsStep`, from which `StartsClean` follows); what
the request will report is in the tables or among the writes still to come
(`WritesCoverReport`), and on disk when it answers (`ReportIsStored`). A first group of
lemmas is about the plans alone: every one makes what it reports and takes back no
fact (`...IsSound`); a second has one lemma per group of steps.

The refinement asks where a half-written request will end. `Final(t, ws)` is the tables that
the writes `ws` make of `t`, row by row: a row is there if the last write about it adds
it, or if there is none and it was there before. One write moves the tables and shortens the rest
without changing their end (`FinalAdvances`), so while a request writes, its view with what it has
still to write ends where its whole plan ends on the file (`PlanIsCarriedOut`); at the
COMMIT nothing is left to write, and the file becomes that end. The lemmas `...Makes`
then compute the end of every plan and find the step of `AtomicStore` in it: for the upgrade, that
the stages add up to the current objects; for the import, that the ranks of the legacy
rows number them without a gap, so that the three writes of each row are all there.
`LegacyOnce` is proved over the steps of `AtomicStore`, with `FileIsSound`: a new message
has an id that no row for a recipient has yet.

`Delivery_proofs` proves for any users, sessions and messages and any sizes of pages and
queue the types, `PagesAreValid`, `AcksAreDue`, `NoLostDelivery` and the refinement of
`Inbox`. The inductive invariant is in `Delivery_invariant`: who owns a session
(`UsedIsOwned`, `LiveIsOwner`), what a handler holds at its step (`JobFollowsStep`), and per session
what is on its two wires: messages addressed to its user and in the log (`OnlyAddressed`,
`WithinLog`), acknowledgements of what the client holds (`AcksAreHeld`), and at most one
synchronization, whose request or page fits its cursor (`Synchronizing`). The heart is
`NothingIsLost`: a row not acknowledged is in the client's hands, on its way, in the hands of a
handler that has committed and not yet looked the recipient up, or still ahead
of a synchronization that will be asked for it; `PageIsPrefix` says that the rows of
a page come before all others pending in its range, so that the next page can start after them.

`MessageBuffer_proofs` proves what each call of the buffer keeps, `TerminalUi_proofs` for any
groups (finitely many), limits and settings the seven invariants of `ui`. The
parts of `IInv` are the buffer's (`BufferSound`: the counts and the retained bytes are sums over
what is held, handles are distinct and below the next one), the stack of screens
(`Stacked`, `ShownExists`, `AskedFromScreen`: the screen that asked is still there), the agreement of the three
places an operation is out in (`Exchange`), the place reserved for an outgoing message
(`Reservation`), the reports of uncertain ones (`Doubted`), the conversation the server
decided for an id (`Fated`) and the snapshot drawn (`Snapped`). Sums over finite sets are handled by the well-foundedness of their
subsets, as the library's induction takes an operator. The one assumption on a
bound is that the stack has room for seven screens (`MaxScreenDepth` is 8 in the code), the
deepest the screens can nest.

`Paging_proofs` proves for any rows, limits and room `WalkIsComplete`, `PagesAreTaken` and
`RefusedForARecord`; `RefusedForAMessage` is false (section 3). `IInv` follows one page
on its way round: what was asked names the last row shown (`Asked`); an answer starts after
it, is bounded by the watermark, and leaves nothing out before its last row (`Answer`, with
`Follows`, `Bounded`, `Covers`); what is shown is every row up to it (`Walked`). The lemmas
below show that the code's three ways to cut a page keep a prefix of the rows in
order (`OrderLeads`, `ReadLeads`, `PrefixLeads`, `CutFollows`); that rows can be put in
order at all is by their least element, again without induction over operators.

TLC checked every inductive invariant as an invariant of the component's run before it was
proved. No theorem assumes more of the constants than their module names.

Only model-checked: the liveness properties, `OwnFilesAreServed` among them (fairness and
ENABLED are out of the proof system's reach).

## 6. Plan

1. `SessionIo`: the write mutex of a session against `requestStop` and `close`, and the
   lifetime of the session object against the end of `runServer`.
2. `Backpressure`: bounded socket buffers, the receiver that never writes.
3. `FrameReader`: frames split over reads, limits at the boundary.

## 7. Not modelled

- Rendering, the editing of text fields, drafts, scrolling by line, the validation of
  a request's fields and the wording of replies: no concurrency and no state that
  others depend on. How a query matches a name is a set of rows.
- Windows console input and output: the POSIX files are the reference.
- The store, get and clear operations of the old message table and the registry
  snapshot, which nothing in the program calls.
- Connecting, and the limit on the size of a paste.
- The lifetime of the session object, bounded socket buffers and the frame reader,
  which are in the plan.
- That SQLite keeps a committed transaction, and TCP its order, are taken as given.
