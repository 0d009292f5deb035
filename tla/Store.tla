-------------------------------- MODULE Store -------------------------------
(***************************************************************************)
(* The class Database over SQLite: the file, the connection with its one   *)
(* transaction, and the requests, each a transaction of several            *)
(* statements.  Any statement may fail, with or without SQLite giving up   *)
(* the transaction on its own; the roll-back may fail too; and the process *)
(* may die between any two steps and be started again on the file it left, *)
(* which it first upgrades and clears of legacy messages.                  *)
(*                                                                         *)
(* databaseMutex lets one request run at a time, so the model has one.     *)
(* Left out: text and what is checked of it, timestamps and passwords, and *)
(* the pages of the listings (Paging).                                     *)
(***************************************************************************)
EXTENDS Naturals, Sequences, FiniteSets, SequencesExt

CONSTANTS
  User, Group, LegacyRow, NoGroup,
  File,                 \* the files the program may first be started on
  Busy,                 \* bound of the model: the files users send requests to
  MaxMessages,          \* bound of the model: rows of message_history
  MaxFaults,            \* bound of the model: failing SQLite calls
  MaxCrashes            \* bound of the model: ends of a process that serves

ASSUME NoGroupAssumption == NoGroup \notin Group
ASSUME FiniteAssumption == IsFiniteSet(User) /\ IsFiniteSet(LegacyRow)
ASSUME LegacyRowAssumption ==
  LegacyRow \subseteq
    [id : Nat \ {0}, sender : User, receiver : User, valid : BOOLEAN]
ASSUME BoundsAssumption ==
  MaxMessages \in Nat /\ MaxFaults \in Nat /\ MaxCrashes \in Nat

VARIABLES
  disk,      \* the committed tables
  work,      \* the tables as the connection sees them
  inTxn,     \* SQLite has a transaction open
  usable,    \* connectionUsable
  phase,     \* "down", "opening", "serving"
  step,      \* the step of the running request
  request,   \* the running request
  left,      \* the writes it has still to make
  shown,     \* the rows it tells its caller are stored
  result,    \* "done", "refused" (it throws on what it read), "error"
  faults, crashes,
  \* History.
  origin,    \* the file the program was first started on
  promised   \* every row a caller was ever told is stored

txnVars  == <<disk, work, inTxn, usable>>
jobVars  == <<request, left, shown, result>>
pastVars == <<origin, promised>>
vars == <<txnVars, phase, step, jobVars, faults, crashes, pastVars>>

Atomic == INSTANCE AtomicStore WITH tables <- disk

\* A file has every table; one that is missing in it is empty here.
IsTables(t) ==
  /\ t = [table \in Atomic!Table |-> t[table]]
  /\ t["users"] \subseteq User
  /\ t["messages"] \subseteq LegacyRow

\* What is taken for granted of a file.  SQLite keeps one number in the pragma
\* and distinct ids in a table; the program's schema makes a row for a
\* recipient name a message, whose ids count up from 1 since none was ever
\* deleted.  The content of a message stands for its source: the id of the
\* legacy row it was imported from here, else 0.
IsFile(t) ==
  /\ IsTables(t)
  /\ \E v \in t["user_version"] : t["user_version"] = {v}
  /\ \A q, r \in t["messages"] : q.id = r.id => q = r
  /\ IsFiniteSet(t["message_history"])
  /\ \A m \in t["message_history"] :
       m.content = 0 /\ m.id \in 1..Cardinality(t["message_history"])
  /\ \A p \in t["message_recipients"] :
       \E m \in t["message_history"] : m.id = p[1]

ASSUME FileAssumption == \A file \in File : IsFile(file)

FactTable == Atomic!FactTable
Version(t) == Atomic!Version(t)
Objects(t) == t["objects"]

\* The rows of tables t, each with its table.
Facts(t) == UNION {{table} \X t[table] : table \in FactTable}

-----------------------------------------------------------------------------
(* A write is what one statement does to one table.                        *)

Insert(table, row) == [table |-> table, add |-> {row}, remove |-> {}]
\* Variant: the deletion is never executed.
DeleteNothing(table, row) == [table |-> table, add |-> {}, remove |-> {}]

Delete(table, row) == [table |-> table, add |-> {}, remove |-> {row}]

Apply(write, t) ==
  [t EXCEPT ![write.table] = (@ \ write.remove) \cup write.add]

\* What a request does on the tables it finds: its writes, the rows it
\* reports, and whether it throws when the writes are made.
Plan(writes, rows) == [writes |-> writes, shown |-> rows, result |-> "done"]
Answer(rows)       == Plan(<<>>, rows)
Refuse(writes) == [writes |-> writes, shown |-> {}, result |-> "refused"]

CreateGroup(u, g, t) ==
  IF u \notin t["users"] \/ g \in t["chat_groups"]
  THEN Answer({})
  ELSE Plan(<<Insert("chat_groups", g), Insert("group_members", <<g, u>>)>>,
            {<<"chat_groups", g>>, <<"group_members", <<g, u>>>>})

JoinGroup(u, g, t) ==
  CASE u \notin t["users"] \/ g \notin t["chat_groups"] -> Answer({})
    [] <<g, u>> \in t["group_members"] ->
         Answer({<<"group_members", <<g, u>>>>})
    [] OTHER -> Plan(<<Insert("group_members", <<g, u>>)>>,
                     {<<"group_members", <<g, u>>>>})

ListGroups(u, t) ==
  Answer({<<"group_members", row>> : row \in
            {r \in t["group_members"] : r[2] = u}})

AddContact(u, v, t) ==
  CASE ~ {u, v} \subseteq t["users"] \/ u = v -> Answer({})
    [] <<u, v>> \in t["contacts"] -> Answer({<<"contacts", <<u, v>>>>})
    [] OTHER -> Plan(<<Insert("contacts", <<u, v>>)>>,
                     {<<"contacts", <<u, v>>>>})

\* insertDurableMessageCallerLocked and buildAcceptedMessageCallerLocked:
\* the history row, then a row per recipient.
Accept(kind, u, g, audience, t) ==
  LET id == Atomic!NextId(t)
      m  == Atomic!Stored(kind, u, g, 0, id)
      to == SetToSeq(audience)
      Row(i) == <<id, to[i]>>
  IN Plan([i \in 1..Len(to) + 1 |->
             IF i = 1 THEN Insert("message_history", m)
                      ELSE Insert("message_recipients", Row(i - 1))],
          {<<"message_history", m>>} \cup
            {<<"message_recipients", Row(i)>> : i \in 1..Len(to)})

AcceptPrivate(u, v, t) ==
  IF ~ {u, v} \subseteq t["users"] \/ u = v
  THEN Answer({}) ELSE Accept("PRIVATE", u, NoGroup, {v}, t)

AcceptGroup(u, g, t) ==
  IF u \notin t["users"] \/ u \notin Atomic!Members(t, g)
  THEN Answer({})
  ELSE Accept("GROUP", u, g, Atomic!Members(t, g) \ {u}, t)

AcceptBroadcast(u, t) ==
  IF u \notin t["users"]
  THEN Answer({}) ELSE Accept("BROADCAST", u, NoGroup, t["users"] \ {u}, t)

Acknowledge(u, id, t) ==
  CASE <<id, u>> \notin t["message_recipients"] -> Answer({})
    [] <<id, u>> \in t["acknowledgements"] ->
         Answer({<<"acknowledgements", <<id, u>>>>})
    [] OTHER -> Plan(<<Insert("acknowledgements", <<id, u>>)>>,
                     {<<"acknowledgements", <<id, u>>>>})

-----------------------------------------------------------------------------
(* What a start does before the server accepts connections.                *)

Create(names) == [i \in 1..Len(names) |-> Insert("objects", names[i])]
SetVersion(v) == [table |-> "user_version", add |-> {v}, remove |-> 0..2]

FromEmpty == Create(<<"users", "messages">>)
ToVersionOne ==
  Create(<<"chat_groups", "message_history", "message_recipients",
           "idx_message_history_sender", "idx_message_recipients_recipient">>)
ToVersionTwo ==
  Create(<<"group_members", "idx_group_members_user">>) \o <<SetVersion(2)>>
ToCurrent == Create(<<"contacts">>) \o <<SetVersion(3)>>

\* requireVersionOneSchema and its successors.
Has(objects, t) == objects \subseteq Objects(t)

InitializeSchema(t) ==
  CASE Version(t) = 0 /\ Objects(t) = {} ->
         Plan(FromEmpty \o ToVersionOne \o ToVersionTwo \o ToCurrent, {})
    [] Version(t) = 0 /\ Objects(t) = Atomic!LegacyObjects ->
         Plan(ToVersionOne \o ToVersionTwo \o ToCurrent, {})
    [] /\ Version(t) = 1
       /\ Has(Atomic!VersionOneObjects, t)
       /\ "group_members" \notin Objects(t) ->
         IF "contacts" \in Objects(t)
         THEN Refuse(ToVersionTwo)
         ELSE Plan(ToVersionTwo \o ToCurrent, {})
    [] /\ Version(t) = 2
       /\ Has(Atomic!VersionTwoObjects, t)
       /\ "contacts" \notin Objects(t) ->
         Plan(ToCurrent, {})
    [] Version(t) = 3 /\ Has(Atomic!CurrentObjects, t) -> Answer({})
    [] OTHER -> Refuse(<<>>)

\* The rows in the order of their ids: each becomes a Private message and is
\* deleted, up to the first that cannot be imported.
ImportLegacyMessages(t) ==
  LET rows   == t["messages"]
      good   == {r \in rows : \A q \in rows :
                   q.id <= r.id => Atomic!Importable(t, q)}
      Row(i) == CHOOSE r \in good : Atomic!Rank(t, r) = i
      To(i)  == <<Atomic!Imported(t, Row(i)).id, Row(i).receiver>>
      writes ==
        [k \in 1..3 * Cardinality(good) |->
           LET i == (k + 2) \div 3
           IN CASE k % 3 = 1 ->
                     Insert("message_history", Atomic!Imported(t, Row(i)))
                [] k % 3 = 2 -> Insert("message_recipients", To(i))
                [] OTHER     -> Delete("messages", Row(i))]
  IN IF good = rows THEN Plan(writes, {}) ELSE Refuse(writes)

-----------------------------------------------------------------------------
Id == 1..MaxMessages

Request ==
  [kind : {"insertUser", "verifyLogin", "listGroupsForUser",
           "acceptBroadcastMessage"}, user : User, subject : {0}]
    \cup
  [kind : {"addContact", "acceptPrivateMessage"}, user : User, subject : User]
    \cup
  [kind : {"createGroup", "joinGroup", "acceptGroupMessage"},
   user : User, subject : Group]
    \cup
  [kind : {"acknowledgeMessage"}, user : User, subject : Id]

NoRequest == [kind |-> "none"]
Startup   == {[kind |-> "initializeSchema"], [kind |-> "importLegacyMessages"]}

\* The requests that run outside a transaction.
Autocommit(r) == r.kind \in {"insertUser", "verifyLogin"}

Accepting(r) ==
  r.kind \in {"acceptPrivateMessage", "acceptGroupMessage",
              "acceptBroadcastMessage"}

PlanOf(r, t) ==
  CASE r.kind = "initializeSchema"     -> InitializeSchema(t)
    [] r.kind = "importLegacyMessages" -> ImportLegacyMessages(t)
    [] r.kind = "createGroup"       -> CreateGroup(r.user, r.subject, t)
    [] r.kind = "joinGroup"         -> JoinGroup(r.user, r.subject, t)
    [] r.kind = "listGroupsForUser" -> ListGroups(r.user, t)
    [] r.kind = "addContact"        -> AddContact(r.user, r.subject, t)
    [] r.kind = "acceptPrivateMessage" ->
         AcceptPrivate(r.user, r.subject, t)
    [] r.kind = "acceptGroupMessage" -> AcceptGroup(r.user, r.subject, t)
    [] r.kind = "acceptBroadcastMessage" -> AcceptBroadcast(r.user, t)
    [] r.kind = "acknowledgeMessage" -> Acknowledge(r.user, r.subject, t)

\* The process is gone, and with it the connection and its transaction.
Gone ==
  /\ phase' = "down"
  /\ step' = "idle"
  /\ request' = NoRequest
  /\ left' = <<>>
  /\ shown' = {}
  /\ result' = "done"
  /\ work' = disk
  /\ inTxn' = FALSE
  /\ usable' = TRUE

Fault == faults < MaxFaults /\ faults' = faults + 1

Init ==
  /\ disk \in File
  /\ origin = disk
  /\ work = disk
  /\ inTxn = FALSE
  /\ usable = TRUE
  /\ phase = "down"
  /\ step = "idle"
  /\ request = NoRequest
  /\ left = <<>>
  /\ shown = {}
  /\ result = "done"
  /\ faults = 0
  /\ crashes = 0
  /\ promised = {}

-----------------------------------------------------------------------------
(* The database object.                                                    *)

Start ==
  /\ phase = "down"
  /\ phase' = "opening"
  /\ step' = "begin"
  /\ request' = [kind |-> "initializeSchema"]
  /\ UNCHANGED <<txnVars, left, shown, result, faults, crashes, pastVars>>

\* A request arrives and passes ensureUsableCallerLocked.
Ask(r) ==
  /\ phase = "serving"
  /\ step = "idle"
  /\ usable
  /\ origin \in Busy
  /\ Accepting(r) => Cardinality(work["message_history"]) < MaxMessages
  /\ request' = r
  /\ step' = IF Autocommit(r) THEN "single" ELSE "begin"
  /\ UNCHANGED <<txnVars, phase, left, shown, result, faults, crashes,
                 pastVars>>

\* The constructor of TransactionGuard.  A connection that is in a
\* transaction cannot begin another.
Begin ==
  /\ step = "begin"
  /\ ~ inTxn
  /\ inTxn' = TRUE
  /\ LET plan == PlanOf(request, work)
     IN /\ left' = plan.writes
        /\ shown' = plan.shown
        /\ result' = plan.result
  /\ step' = "write"
  /\ UNCHANGED <<disk, work, usable, phase, request, faults, crashes,
                 pastVars>>

\* It throws before there is a guard to roll back.
BeginFails ==
  /\ step = "begin"
  /\ IF inTxn THEN UNCHANGED faults ELSE Fault
  /\ result' = "error"
  /\ step' = "answer"
  /\ UNCHANGED <<txnVars, phase, request, left, shown, crashes, pastVars>>

\* Variant: without BEGIN, every statement commits by itself.
UnguardedWrite ==
  /\ step = "write"
  /\ left # <<>>
  /\ work' = Apply(Head(left), work)
  /\ disk' = work'
  /\ left' = Tail(left)
  /\ UNCHANGED <<inTxn, usable, phase, step, request, shown, result,
                 faults, crashes, pastVars>>

Write ==
  /\ step = "write"
  /\ left # <<>>
  /\ work' = Apply(Head(left), work)
  /\ left' = Tail(left)
  /\ UNCHANGED <<disk, inTxn, usable, phase, step, request, shown, result,
                 faults, crashes, pastVars>>

Commit ==
  /\ step = "write"
  /\ left = <<>>
  /\ result = "done"
  /\ disk' = work
  /\ inTxn' = FALSE
  /\ step' = "answer"
  /\ UNCHANGED <<work, usable, phase, jobVars, faults, crashes, pastVars>>

\* Variant: nobody rolls back after a failure.
StatementFailsUnnoticed ==
  /\ step = "write"
  /\ Fault
  /\ result' = "error"
  /\ step' = "answer"
  /\ \/ UNCHANGED <<work, inTxn>>
     \/ work' = disk /\ inTxn' = FALSE
  /\ UNCHANGED <<disk, usable, phase, request, left, shown, crashes, pastVars>>

\* A lookup, a write or the COMMIT fails.  After some errors (a full disk, an
\* I/O error) SQLite has already rolled the transaction back.
StatementFails ==
  /\ step = "write"
  /\ Fault
  /\ result' = "error"
  /\ step' = "rollback"
  /\ \/ UNCHANGED <<work, inTxn>>
     \/ work' = disk /\ inTxn' = FALSE
  /\ UNCHANGED <<disk, usable, phase, request, left, shown, crashes, pastVars>>

\* The request throws on what it read.
Throw ==
  /\ step = "write"
  /\ left = <<>>
  /\ result = "refused"
  /\ step' = "rollback"
  /\ UNCHANGED <<txnVars, phase, jobVars, faults, crashes, pastVars>>

RollBack ==
  /\ step = "rollback"
  /\ inTxn
  /\ work' = disk
  /\ inTxn' = FALSE
  /\ step' = "answer"
  /\ UNCHANGED <<disk, usable, phase, jobVars, faults, crashes, pastVars>>

\* Variant: the connection stays in use.
RollBackFailsSilently ==
  /\ step = "rollback"
  /\ IF inTxn THEN Fault ELSE UNCHANGED faults
  /\ step' = "destroy"
  /\ UNCHANGED <<disk, work, inTxn, usable, phase, jobVars, crashes, pastVars>>

\* ROLLBACK fails, which it always does without a transaction.
\* initializeSchema leaves the flag alone: its caller closes the connection.
RollBackFails ==
  /\ step = "rollback"
  /\ IF inTxn THEN Fault ELSE UNCHANGED faults
  /\ usable' = (usable /\ request.kind = "initializeSchema")
  /\ step' = "destroy"
  /\ UNCHANGED <<disk, work, inTxn, phase, jobVars, crashes, pastVars>>

\* The destructor of the guard tries once more and ignores the outcome.  What
\* made the first try fail may still hold, and counts as no further fault.
Destroy ==
  /\ step = "destroy"
  /\ step' = "answer"
  /\ \/ work' = disk /\ inTxn' = FALSE
     \/ UNCHANGED <<work, inTxn>>
  /\ UNCHANGED <<disk, usable, phase, jobVars, faults, crashes, pastVars>>

\* Variant: the statement is bound to another parameter of the request.
SingleMisbound ==
  /\ step = "single"
  /\ work' = Apply(Insert("users", request.subject), work)
  /\ disk' = work'
  /\ shown' = {}
  /\ result' = "done"
  /\ step' = "answer"
  /\ UNCHANGED <<inTxn, usable, phase, request, left, faults, crashes,
                 pastVars>>

\* insertUser and verifyLogin are one statement each.  Outside a transaction
\* it commits by itself.
Single ==
  /\ step = "single"
  /\ LET u == request.user
     IN IF request.kind = "insertUser" /\ u \notin work["users"]
        THEN /\ work' = Apply(Insert("users", u), work)
             /\ disk' = IF inTxn THEN disk ELSE work'
             /\ shown' = {<<"users", u>>}
        ELSE /\ UNCHANGED <<work, disk>>
             /\ shown' = {<<"users", u>>} \cap Facts(work)
  /\ result' = "done"
  /\ step' = "answer"
  /\ UNCHANGED <<inTxn, usable, phase, request, left, faults, crashes,
                 pastVars>>

SingleFails ==
  /\ step = "single"
  /\ Fault
  /\ result' = "error"
  /\ step' = "answer"
  /\ UNCHANGED <<txnVars, phase, request, left, shown, crashes, pastVars>>

-----------------------------------------------------------------------------
(* The caller.                                                             *)

Idle ==
  /\ step' = "idle"
  /\ request' = NoRequest
  /\ left' = <<>>
  /\ shown' = {}
  /\ result' = "done"

\* A request of a session: what it tells the client is a promise.
Reply ==
  /\ step = "answer"
  /\ phase = "serving"
  /\ promised' = IF result = "done" THEN promised \cup shown ELSE promised
  /\ Idle
  /\ UNCHANGED <<txnVars, phase, faults, crashes, origin>>

\* runServer goes on to the import, and from there to its sessions.
Proceed ==
  /\ step = "answer"
  /\ phase = "opening"
  /\ result = "done"
  /\ IF request.kind = "initializeSchema"
     THEN /\ request' = [kind |-> "importLegacyMessages"]
          /\ step' = "begin"
          /\ UNCHANGED <<phase, left, shown, result>>
     ELSE Idle /\ phase' = "serving"
  /\ UNCHANGED <<txnVars, faults, crashes, pastVars>>

\* An exception ends runServer; closing the connection ends its transaction.
GiveUp ==
  /\ step = "answer"
  /\ phase = "opening"
  /\ result # "done"
  /\ Gone
  /\ UNCHANGED <<disk, faults, crashes, pastVars>>

\* The process dies, or stops between two requests.
Crash ==
  /\ phase # "down"
  /\ crashes < MaxCrashes
  /\ crashes' = crashes + 1
  /\ Gone
  /\ UNCHANGED <<disk, faults, pastVars>>

-----------------------------------------------------------------------------
Run ==
  \/ Begin \/ BeginFails
  \/ Write \/ Commit \/ StatementFails \/ Throw
  \/ RollBack \/ RollBackFails \/ Destroy
  \/ Single \/ SingleFails
  \/ Reply \/ Proceed \/ GiveUp

Next ==
  \/ Start
  \/ \E r \in Request : Ask(r)
  \/ Run
  \/ Crash

Spec == Init /\ [][Next]_vars

\* The program runs on, and whoever operates the server starts it again.
FairSpec == Spec /\ WF_vars(Run) /\ WF_vars(Start)

-----------------------------------------------------------------------------
TypeOK ==
  /\ IsTables(disk)
  /\ IsTables(work)
  /\ inTxn \in BOOLEAN
  /\ usable \in BOOLEAN
  /\ phase \in {"down", "opening", "serving"}
  /\ step \in {"idle", "begin", "write", "rollback", "destroy", "single",
               "answer"}
  /\ request \in Request \cup Startup \cup {NoRequest}
  /\ result \in {"done", "refused", "error"}

\* A request starts on a connection without a transaction, which shows what
\* is on disk: nothing an earlier request failed to take back is left in it.
\* TransactionGuard and connectionUsable, whatever call failed before.
StartsClean ==
  step \in {"begin", "single"} => ~ inTxn /\ work = disk

\* A row whose storing a client was ever told of is on disk: also a row that
\* was read by a request after another failed, and after every restart.
PromisesAreDurable == promised \subseteq Facts(disk)

\* Every legacy message of the first file is in exactly one place: still in
\* messages, or once in message_history, to its receiver and nobody else.
\* importLegacyMessages, over every crash and failure.
LegacyOnce ==
  \A r \in origin["messages"] :
    LET copies == {m \in disk["message_history"] : m.content = r.id}
    IN IF r \in disk["messages"]
       THEN copies = {}
       ELSE \E m \in copies :
              /\ copies = {m}
              /\ m.sender = r.sender
              /\ {v \in User : <<m.id, v>> \in disk["message_recipients"]}
                   = {r.receiver}

\* The tables change by whole requests: Database implements AtomicStore.
ImplementsAtomicStore == Atomic!Spec

\* A file some version of the program left behind.
Own(t) == Atomic!Upgradable(t) \/ (Version(t) = 3 /\ Has(Atomic!CurrentObjects, t))

\* A start on a file of the program whose legacy messages are all fit to
\* import ends with the server serving, whatever an earlier start that failed
\* or died half-way left there.
OwnFilesAreServed ==
  Own(origin) /\ (\A r \in origin["messages"] : Atomic!Importable(origin, r))
    => []<>(phase = "serving")
=============================================================================
