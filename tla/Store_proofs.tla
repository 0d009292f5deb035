---------------------------- MODULE Store_proofs ----------------------------
(***************************************************************************)
(* Proofs about Store, for every set of accounts, groups, legacy rows and  *)
(* files, and every number of failures and crashes: the invariants first,  *)
(* then that whatever is written, statement by statement, is a step of     *)
(* AtomicStore, and what follows for the legacy messages.                  *)
(***************************************************************************)
EXTENDS Store, FiniteSetTheorems, SequenceTheorems, TLAPS

-----------------------------------------------------------------------------
(* Plans.  A plan never takes back a fact, never adds a legacy message or  *)
(* an account, and makes every row it reports.                             *)

SoundWrite(w) ==
  /\ w.table \in Atomic!Table \ {"users"}
  /\ w.table \in FactTable => w.remove = {}
  /\ w.table = "messages" => w.add = {}

SoundWrites(ws) ==
  /\ \E S : ws \in Seq(S)
  /\ \A i \in 1..Len(ws) : SoundWrite(ws[i])

Made(table, row, ws) ==
  \E i \in 1..Len(ws) : ws[i].table = table /\ row \in ws[i].add

Covered(rows, ws, t) ==
  \A f \in rows :
    \E table \in FactTable :
      \E row : f = <<table, row>> /\ (row \in t[table] \/ Made(table, row, ws))

SoundPlan(p, t) ==
  /\ SoundWrites(p.writes)
  /\ p.result \in {"done", "refused"}
  /\ Covered(p.shown, p.writes, t)

LEMMA FactsAre ==
  ASSUME NEW t, NEW table \in FactTable, NEW row
  PROVE  <<table, row>> \in Facts(t) <=> row \in t[table]
BY DEF Facts

LEMMA SetToSeqType ==
  ASSUME NEW S, IsFiniteSet(S)
  PROVE  /\ Cardinality(S) \in Nat
         /\ SetToSeq(S) \in [1..Cardinality(S) -> S]
<1> DEFINE n == Cardinality(S)
<1>1. n \in Nat /\ ExistsBijection(1..n, S)
  BY FS_CardinalityType
<1>2. \E f \in [1..n -> S] : IsInjective(f)
  BY <1>1 DEF ExistsBijection, Bijection, Injection, IsInjective
<1> QED
  BY <1>1, <1>2 DEF SetToSeq

\* Carrying out the first write keeps the rest of the promise.
LEMMA CoveredAdvances ==
  ASSUME NEW rows, NEW ws, NEW t, DOMAIN t = Atomic!Table,
         SoundWrites(ws), ws # <<>>, Covered(rows, ws, t)
  PROVE  /\ SoundWrites(Tail(ws))
         /\ Covered(rows, Tail(ws), Apply(Head(ws), t))
<1>1. PICK S : ws \in Seq(S)
  BY DEF SoundWrites
<1>2. /\ Len(ws) \in Nat \ {0}
      /\ Tail(ws) \in Seq(S)
      /\ Len(Tail(ws)) = Len(ws) - 1
      /\ Head(ws) = ws[1]
      /\ \A i \in 1..Len(Tail(ws)) : Tail(ws)[i] = ws[i + 1]
  BY <1>1, HeadTailProperties, LenProperties
<1>3. SoundWrites(Tail(ws))
  BY <1>2 DEF SoundWrites
<1>4. SoundWrite(Head(ws))
  BY <1>2 DEF SoundWrites
<1>5. ASSUME NEW f \in rows, NEW table \in FactTable, NEW row,
             row \in t[table] \/ Made(table, row, ws)
      PROVE  row \in Apply(Head(ws), t)[table] \/ Made(table, row, Tail(ws))
  <2>1. CASE row \in t[table]
    BY <1>4, <2>1 DEF SoundWrite, Apply, FactTable, Atomic!Table,
                      Atomic!FactTable
  <2>2. CASE Made(table, row, ws)
    <3>1. PICK i \in 1..Len(ws) : ws[i].table = table /\ row \in ws[i].add
      BY <2>2 DEF Made
    <3>2. CASE i = 1
      BY <1>2, <1>4, <3>1, <3>2
      DEF SoundWrite, Apply, FactTable, Atomic!Table, Atomic!FactTable
    <3>3. CASE i # 1
      <4>1. i - 1 \in 1..Len(Tail(ws)) /\ Tail(ws)[i - 1] = ws[i]
        BY <1>2, <3>3
      <4> QED
        BY <3>1, <4>1 DEF Made
    <3> QED
      BY <3>2, <3>3
  <2> QED
    BY <1>5, <2>1, <2>2
<1> QED
  BY <1>3, <1>5 DEF Covered

LEMMA CoveredAtEnd ==
  ASSUME NEW rows, NEW t, Covered(rows, <<>>, t)
  PROVE  rows \subseteq Facts(t)
<1>1. ASSUME NEW table, NEW row PROVE ~ Made(table, row, <<>>)
  BY DEF Made
<1> QED
  BY <1>1, FactsAre DEF Covered

LEMMA ApplyKeepsTables ==
  ASSUME NEW t, IsTables(t), NEW w, SoundWrite(w)
  PROVE  /\ IsTables(Apply(w, t))
         /\ \A table \in FactTable : t[table] \subseteq Apply(w, t)[table]
BY DEF IsTables, Apply, SoundWrite, FactTable, Atomic!Table, Atomic!FactTable

\* A write of one row to a table of facts or of schema objects.
Inserts(w) ==
  \E table \in (FactTable \cup {"objects"}) \ {"users"} :
    \E row : w = Insert(table, row)

LEMMA InsertIsSound ==
  ASSUME NEW w, Inserts(w) PROVE SoundWrite(w)
BY DEF Inserts, Insert, SoundWrite, Atomic!Table, FactTable, Atomic!FactTable

LEMMA AnswerIsSound ==
  ASSUME NEW rows, NEW t, rows \subseteq Facts(t)
  PROVE  SoundPlan(Answer(rows), t)
<1>1. SoundWrites(<<>>)
  BY EmptySeq DEF SoundWrites
<1>2. Covered(rows, <<>>, t)
  BY DEF Covered, Facts
<1> QED
  BY <1>1, <1>2 DEF SoundPlan, Answer, Plan

LEMMA OneWriteIsSound ==
  ASSUME NEW w, SoundWrite(w) PROVE SoundWrites(<<w>>)
<1> DEFINE ws == <<w>>
<1>1. ws \in Seq({w}) /\ Len(ws) = 1
  OBVIOUS
<1>2. \A i \in 1..Len(ws) : ws[i] = w
  BY <1>1
<1> HIDE DEF ws
<1>3. SoundWrites(ws)
  BY <1>1, <1>2 DEF SoundWrites
<1> QED
  BY <1>3 DEF ws

\* The plan of one insertion.
LEMMA OneInsertIsSound ==
  ASSUME NEW table \in FactTable \ {"users"}, NEW row, NEW t
  PROVE  SoundPlan(Plan(<<Insert(table, row)>>, {<<table, row>>}), t)
<1> DEFINE ws == <<Insert(table, row)>>
<1>1. ws \in Seq({Insert(table, row)}) /\ Len(ws) = 1
  OBVIOUS
<1>2. SoundWrites(ws)
  BY InsertIsSound, OneWriteIsSound DEF Inserts
<1>3. Made(table, row, ws)
  BY <1>1 DEF Made, Insert
<1>4. Covered({<<table, row>>}, ws, t)
  BY <1>3 DEF Covered
<1> QED
  BY <1>2, <1>4 DEF SoundPlan, Plan

LEMMA CreateGroupIsSound ==
  ASSUME NEW u, NEW g, NEW t PROVE SoundPlan(CreateGroup(u, g, t), t)
<1> DEFINE a == Insert("chat_groups", g)
           b == Insert("group_members", <<g, u>>)
           ws == <<a, b>>
           rows == {<<"chat_groups", g>>, <<"group_members", <<g, u>>>>}
<1>1. ws \in Seq({a, b}) /\ Len(ws) = 2 /\ ws[1] = a /\ ws[2] = b
  OBVIOUS
<1>2. SoundWrite(a) /\ SoundWrite(b)
  BY InsertIsSound DEF Inserts, FactTable, Atomic!FactTable
<1>3. SoundWrites(ws)
  <2> HIDE DEF a, b, ws
  <2> QED
    BY <1>1, <1>2 DEF SoundWrites
<1>4. Made("chat_groups", g, ws) /\ Made("group_members", <<g, u>>, ws)
  BY <1>1 DEF Made, Insert
<1>5. Covered(rows, ws, t)
  BY <1>4 DEF Covered, FactTable, Atomic!FactTable
<1>6. SoundPlan(Plan(ws, rows), t)
  BY <1>3, <1>5 DEF SoundPlan, Plan
<1>7. SoundPlan(Answer({}), t)
  BY AnswerIsSound
<1> QED
  BY <1>6, <1>7 DEF CreateGroup

LEMMA AcceptIsSound ==
  ASSUME NEW kind, NEW u, NEW g, NEW t, NEW audience, IsFiniteSet(audience)
  PROVE  SoundPlan(Accept(kind, u, g, audience, t), t)
<1> DEFINE id == Atomic!NextId(t)
           m == Atomic!Stored(kind, u, g, 0, id)
           to == SetToSeq(audience)
           n == Cardinality(audience)
           Row(i) == <<id, to[i]>>
           W(i) == IF i = 1 THEN Insert("message_history", m)
                   ELSE Insert("message_recipients", Row(i - 1))
           ws == [i \in 1..Len(to) + 1 |-> W(i)]
           told == {<<"message_recipients", Row(i)>> : i \in 1..Len(to)}
           rows == {<<"message_history", m>>} \cup told
<1>1. n \in Nat /\ Len(to) = n
  BY SetToSeqType
<1>2. ws \in Seq({W(i) : i \in 1..n + 1}) /\ Len(ws) = n + 1
  <2>1. n + 1 \in Nat /\ ws = [i \in 1..n + 1 |-> W(i)]
    BY <1>1
  <2> HIDE DEF W
  <2> QED
    BY <2>1, IsASeq, LenProperties
<1>3. ASSUME NEW i \in 1..n + 1 PROVE SoundWrite(ws[i])
  <2>1. Inserts(W(i))
    BY DEF Inserts, FactTable, Atomic!FactTable
  <2> QED
    BY <1>1, <2>1, InsertIsSound
<1>4. SoundWrites(ws)
  BY <1>2, <1>3 DEF SoundWrites
<1>5. Made("message_history", m, ws)
  <2>1. 1 \in 1..n + 1 /\ ws[1] = Insert("message_history", m)
    BY <1>1
  <2> QED
    BY <1>2, <2>1 DEF Made, Insert
<1>6. ASSUME NEW i \in 1..Len(to) PROVE Made("message_recipients", Row(i), ws)
  <2>1. i + 1 \in 1..n + 1 /\ ws[i + 1] = Insert("message_recipients", Row(i))
    BY <1>1
  <2> QED
    BY <1>2, <2>1 DEF Made, Insert
<1>7. Covered(rows, ws, t)
  <2> HIDE DEF ws, m, Row
  <2> QED
    BY <1>5, <1>6 DEF Covered, FactTable, Atomic!FactTable
<1> QED
  BY <1>4, <1>7 DEF SoundPlan, Accept, Plan

LEMMA NoRowsAreSound ==
  ASSUME NEW ws, NEW t, SoundWrites(ws)
  PROVE  SoundPlan(Plan(ws, {}), t) /\ SoundPlan(Refuse(ws), t)
BY DEF SoundPlan, Plan, Refuse, Covered

LEMMA ImportIsSound ==
  ASSUME NEW t, IsTables(t) PROVE SoundPlan(ImportLegacyMessages(t), t)
<1> DEFINE rows == t["messages"]
           good == {r \in rows : \A q \in rows :
                      q.id <= r.id => Atomic!Importable(t, q)}
           Row(i) == CHOOSE r \in good : Atomic!Rank(t, r) = i
           To(i) == <<Atomic!Imported(t, Row(i)).id, Row(i).receiver>>
           Third(k) == (k + 2) \div 3
           W(k) == CASE k % 3 = 1 -> Insert("message_history",
                                       Atomic!Imported(t, Row(Third(k))))
                     [] k % 3 = 2 -> Insert("message_recipients", To(Third(k)))
                     [] OTHER     -> Delete("messages", Row(Third(k)))
           n == 3 * Cardinality(good)
           ws == [k \in 1..n |-> W(k)]
<1>1. n \in Nat
  <2>1. good \in SUBSET LegacyRow
    BY DEF IsTables
  <2>2. Cardinality(good) \in Nat
    BY <2>1, FiniteAssumption, FS_Subset, FS_CardinalityType
  <2> QED
    BY <2>2
<1>2. ASSUME NEW k \in 1..n PROVE SoundWrite(W(k))
  <2> DEFINE m == Atomic!Imported(t, Row(Third(k)))
             to == To(Third(k))
             gone == Row(Third(k))
  <2>1. \/ W(k) = Insert("message_history", m)
        \/ W(k) = Insert("message_recipients", to)
        \/ W(k) = Delete("messages", gone)
    <3> DEFINE a == Insert("message_history", m)
               b == Insert("message_recipients", to)
               c == Delete("messages", gone)
    <3>1. W(k) = CASE k % 3 = 1 -> a [] k % 3 = 2 -> b [] OTHER -> c
      OBVIOUS
    <3> HIDE DEF a, b, c, W
    <3>2. W(k) = a \/ W(k) = b \/ W(k) = c
      BY <3>1
    <3> QED
      BY <3>2 DEF a, b, c
  <2>2. /\ SoundWrite(Insert("message_history", m))
        /\ SoundWrite(Insert("message_recipients", to))
    BY InsertIsSound DEF Inserts, FactTable, Atomic!FactTable
  <2>3. SoundWrite(Delete("messages", gone))
    BY DEF SoundWrite, Delete, FactTable, Atomic!Table, Atomic!FactTable
  <2> QED
    BY <2>1, <2>2, <2>3
<1>3. SoundWrites(ws)
  <2> HIDE DEF W, n
  <2>1. ws \in Seq({W(k) : k \in 1..n}) /\ Len(ws) = n
    BY <1>1, IsASeq, LenProperties
  <2>2. \A k \in 1..n : ws[k] = W(k)
    OBVIOUS
  <2> HIDE DEF ws
  <2> QED
    BY <1>2, <2>1, <2>2 DEF SoundWrites
<1>4. ImportLegacyMessages(t) = IF good = rows THEN Plan(ws, {}) ELSE Refuse(ws)
  BY DEF ImportLegacyMessages
<1>5. SoundPlan(Plan(ws, {}), t) /\ SoundPlan(Refuse(ws), t)
  <2> HIDE DEF ws
  <2> QED
    BY <1>3, NoRowsAreSound
<1> QED
  <2> HIDE DEF ws, good
  <2> QED
    BY <1>4, <1>5

LEMMA JoinedWritesAreSound ==
  ASSUME NEW a, NEW b, SoundWrites(a), SoundWrites(b)
  PROVE  SoundWrites(a \o b)
<1>1. PICK S, T : a \in Seq(S) /\ b \in Seq(T)
  BY DEF SoundWrites
<1>2. a \in Seq(S \cup T) /\ b \in Seq(S \cup T)
  BY <1>1, SeqMonotonic
<1>3. /\ a \o b \in Seq(S \cup T)
      /\ Len(a) \in Nat /\ Len(b) \in Nat
      /\ Len(a \o b) = Len(a) + Len(b)
      /\ \A i \in 1..Len(a) + Len(b) :
           (a \o b)[i] = IF i <= Len(a) THEN a[i] ELSE b[i - Len(a)]
  BY <1>2, ConcatProperties, LenProperties
<1> QED
  BY <1>3 DEF SoundWrites

LEMMA CreateIsSound ==
  ASSUME NEW names, Len(names) \in Nat PROVE SoundWrites(Create(names))
<1> DEFINE n == Len(names)
           W(i) == Insert("objects", names[i])
<1>1. n \in Nat
  OBVIOUS
<1>2. ASSUME NEW i \in 1..n PROVE SoundWrite(W(i))
  BY InsertIsSound DEF Inserts
<1>3. /\ Create(names) \in Seq({W(i) : i \in 1..n})
      /\ Len(Create(names)) = n
      /\ \A i \in 1..n : Create(names)[i] = W(i)
  <2>1. Create(names) = [i \in 1..n |-> W(i)]
    BY DEF Create
  <2> HIDE DEF W
  <2> QED
    BY <1>1, <2>1, IsASeq, LenProperties
<1> QED
  BY <1>2, <1>3 DEF SoundWrites

LEMMA InitializeSchemaIsSound ==
  ASSUME NEW t PROVE SoundPlan(InitializeSchema(t), t)
<1>1. \A v : SoundWrites(<<SetVersion(v)>>)
  <2> TAKE v
  <2>1. SoundWrite(SetVersion(v))
    BY DEF SoundWrite, SetVersion, FactTable, Atomic!Table, Atomic!FactTable
  <2> QED
    BY <2>1, OneWriteIsSound
<1>2. SoundWrites(FromEmpty) /\ SoundWrites(ToVersionOne)
  <2>1. /\ Len(<<"users", "messages">>) = 2
        /\ Len(<<"chat_groups", "message_history", "message_recipients",
                 "idx_message_history_sender",
                 "idx_message_recipients_recipient">>) = 5
    OBVIOUS
  <2> QED
    BY <2>1, CreateIsSound DEF FromEmpty, ToVersionOne
<1>3. SoundWrites(ToVersionTwo) /\ SoundWrites(ToCurrent)
  <2>1. /\ Len(<<"group_members", "idx_group_members_user">>) = 2
        /\ Len(<<"contacts">>) = 1
    OBVIOUS
  <2> QED
    BY <1>1, <2>1, CreateIsSound, JoinedWritesAreSound
    DEF ToVersionTwo, ToCurrent
<1>4. SoundWrites(<<>>)
  BY EmptySeq DEF SoundWrites
<1>5. /\ SoundWrites(ToVersionTwo \o ToCurrent)
      /\ SoundWrites(ToVersionOne \o ToVersionTwo \o ToCurrent)
      /\ SoundWrites(FromEmpty \o ToVersionOne \o ToVersionTwo \o ToCurrent)
  BY <1>2, <1>3, JoinedWritesAreSound
<1> QED
  BY <1>2, <1>3, <1>4, <1>5, NoRowsAreSound DEF InitializeSchema, Answer

\* Whatever is asked of the tables, the plan is sound.
LEMMA PlanIsSound ==
  ASSUME NEW t, IsTables(t), NEW r \in Request \cup Startup,
         ~ Autocommit(r)
  PROVE  SoundPlan(PlanOf(r, t), t)
<1> DEFINE u == r.user
           x == r.subject
<1>1. \A g : SoundPlan(CreateGroup(u, g, t), t)
  BY CreateGroupIsSound
<1>2. \A g : SoundPlan(JoinGroup(u, g, t), t)
  <2> TAKE g
  <2>1. SoundPlan(Answer({}), t)
    BY AnswerIsSound
  <2>2. <<g, u>> \in t["group_members"] =>
          SoundPlan(Answer({<<"group_members", <<g, u>>>>}), t)
    BY AnswerIsSound, FactsAre DEF FactTable, Atomic!FactTable
  <2>3. SoundPlan(Plan(<<Insert("group_members", <<g, u>>)>>,
                       {<<"group_members", <<g, u>>>>}), t)
    BY OneInsertIsSound DEF FactTable, Atomic!FactTable
  <2> QED
    BY <2>1, <2>2, <2>3 DEF JoinGroup
<1>3. SoundPlan(ListGroups(u, t), t)
  BY AnswerIsSound, FactsAre DEF ListGroups, FactTable, Atomic!FactTable
<1>4. \A v : SoundPlan(AddContact(u, v, t), t)
  <2> TAKE v
  <2>1. SoundPlan(Answer({}), t)
    BY AnswerIsSound
  <2>2. <<u, v>> \in t["contacts"] =>
          SoundPlan(Answer({<<"contacts", <<u, v>>>>}), t)
    BY AnswerIsSound, FactsAre DEF FactTable, Atomic!FactTable
  <2>3. SoundPlan(Plan(<<Insert("contacts", <<u, v>>)>>,
                       {<<"contacts", <<u, v>>>>}), t)
    BY OneInsertIsSound DEF FactTable, Atomic!FactTable
  <2> QED
    BY <2>1, <2>2, <2>3 DEF AddContact
<1>5. \A v : SoundPlan(AcceptPrivate(u, v, t), t)
  BY AnswerIsSound, AcceptIsSound, FS_Singleton DEF AcceptPrivate
<1>6. \A g : SoundPlan(AcceptGroup(u, g, t), t)
  <2> TAKE g
  <2>1. IsFiniteSet(Atomic!Members(t, g) \ {u})
    BY FiniteAssumption, FS_Subset DEF Atomic!Members
  <2> QED
    BY <2>1, AnswerIsSound, AcceptIsSound DEF AcceptGroup
<1>7. SoundPlan(AcceptBroadcast(u, t), t)
  <2>1. IsFiniteSet(t["users"] \ {u})
    BY FiniteAssumption, FS_Subset DEF IsTables
  <2> QED
    BY <2>1, AnswerIsSound, AcceptIsSound DEF AcceptBroadcast
<1>8. \A id : SoundPlan(Acknowledge(u, id, t), t)
  <2> TAKE id
  <2>1. SoundPlan(Answer({}), t)
    BY AnswerIsSound
  <2>2. <<id, u>> \in t["acknowledgements"] =>
          SoundPlan(Answer({<<"acknowledgements", <<id, u>>>>}), t)
    BY AnswerIsSound, FactsAre DEF FactTable, Atomic!FactTable
  <2>3. SoundPlan(Plan(<<Insert("acknowledgements", <<id, u>>)>>,
                       {<<"acknowledgements", <<id, u>>>>}), t)
    BY OneInsertIsSound DEF FactTable, Atomic!FactTable
  <2> QED
    BY <2>1, <2>2, <2>3 DEF Acknowledge
<1>9. r.kind \in {"initializeSchema", "importLegacyMessages", "createGroup",
                 "joinGroup", "listGroupsForUser", "addContact",
                 "acceptPrivateMessage", "acceptGroupMessage",
                 "acceptBroadcastMessage", "acknowledgeMessage"}
  BY DEF Request, Startup, Autocommit
<1> HIDE DEF u, x
<1> QED
  BY <1>1, <1>2, <1>3, <1>4, <1>5, <1>6, <1>7, <1>8, <1>9, ImportIsSound,
     InitializeSchemaIsSound DEF PlanOf, u, x

-----------------------------------------------------------------------------
(* The inductive invariant.                                                *)

\* Outside a transaction the connection shows the file; in one, no stored
\* fact has gone from its view.
WorkFollowsDisk ==
  /\ ~ inTxn => work = disk
  /\ \A table \in FactTable : disk[table] \subseteq work[table]

\* The transaction is open exactly where the guard of the running request
\* holds it, unless a roll-back has failed: then the connection is given up,
\* by the flag or, while the schema is initialized, by its caller.
TransactionFollowsStep ==
  /\ step \in {"begin", "single"} => ~ inTxn
  /\ step = "write" => inTxn
  /\ step = "idle" /\ usable => ~ inTxn
  /\ step = "answer" /\ result = "done" => ~ inTxn
  /\ step = "answer" /\ usable /\ request.kind # "initializeSchema" => ~ inTxn
  /\ step \in {"rollback", "destroy"} => result # "done"
  /\ step = "destroy" /\ usable => request.kind = "initializeSchema"

RequestFollowsPhase ==
  /\ phase = "down" => step = "idle" /\ usable
  /\ phase = "opening" => step \notin {"idle", "single"} /\ request \in Startup
  /\ phase = "serving" /\ step # "idle" => request \in Request
  /\ step = "begin" => ~ Autocommit(request)

\* What the running request will have stored when its writes are made.
WritesCoverReport ==
  step = "write" =>
    /\ SoundWrites(left)
    /\ result = "done" => Covered(shown, left, work)

ReportIsStored ==
  step = "answer" /\ result = "done" => shown \subseteq Facts(disk)

IInv ==
  /\ TypeOK
  /\ WorkFollowsDisk
  /\ TransactionFollowsStep
  /\ RequestFollowsPhase
  /\ WritesCoverReport
  /\ ReportIsStored
  /\ PromisesAreDurable

LEMMA InitIInv == Init => IInv
<1> SUFFICES ASSUME Init PROVE IInv
  OBVIOUS
<1>1. TypeOK
  BY FileAssumption DEF Init, TypeOK, IsFile
<1> QED
  BY <1>1 DEF Init, IInv, WorkFollowsDisk, TransactionFollowsStep,
     RequestFollowsPhase, WritesCoverReport, ReportIsStored,
     PromisesAreDurable

\* Every action but Begin, Write, Commit and Single.
LEMMA ControlSteps ==
  ASSUME IInv,
         \/ Start \/ \E r \in Request : Ask(r)
         \/ BeginFails \/ StatementFails \/ Throw \/ RollBack \/ RollBackFails
         \/ Destroy \/ SingleFails \/ Reply \/ Proceed \/ GiveUp \/ Crash
         \/ UNCHANGED vars
  PROVE  IInv'
<1> USE DEF IInv, TypeOK, IsTables, WorkFollowsDisk, TransactionFollowsStep,
            RequestFollowsPhase, WritesCoverReport, ReportIsStored,
            PromisesAreDurable, txnVars, jobVars, pastVars
<1>1. CASE Start
  BY <1>1 DEF Start, Startup, Autocommit
<1>2. ASSUME NEW r \in Request, Ask(r) PROVE IInv'
  BY <1>2 DEF Ask
<1>3. CASE BeginFails
  BY <1>3 DEF BeginFails
<1>4. CASE StatementFails
  <2>1. TypeOK'
    BY <1>4 DEF StatementFails
  <2>2. WorkFollowsDisk'
    <3>1. CASE UNCHANGED work /\ UNCHANGED inTxn
      BY <1>4, <3>1 DEF StatementFails
    <3>2. CASE work' = disk /\ inTxn' = FALSE
      BY <1>4, <3>2 DEF StatementFails
    <3> QED
      BY <1>4, <3>1, <3>2 DEF StatementFails
  <2>3. /\ TransactionFollowsStep' /\ RequestFollowsPhase'
        /\ WritesCoverReport' /\ ReportIsStored' /\ PromisesAreDurable'
    BY <1>4 DEF StatementFails
  <2> QED
    BY <2>1, <2>2, <2>3
<1>5. CASE Throw
  BY <1>5 DEF Throw
<1>6. CASE RollBack
  BY <1>6 DEF RollBack
<1>7. CASE RollBackFails
  BY <1>7 DEF RollBackFails
<1>8. CASE Destroy
  BY <1>8 DEF Destroy
<1>9. CASE SingleFails
  BY <1>9 DEF SingleFails
<1>10. CASE Reply
  <2>1. PromisesAreDurable'
    BY <1>10 DEF Reply
  <2>2. request.kind # "initializeSchema"
    BY <1>10 DEF Reply, Request
  <2>3. TransactionFollowsStep'
    BY <1>10, <2>2 DEF Reply, Idle
  <2>4. /\ TypeOK' /\ WorkFollowsDisk' /\ RequestFollowsPhase'
        /\ WritesCoverReport' /\ ReportIsStored'
    BY <1>10 DEF Reply, Idle
  <2> QED
    BY <2>1, <2>3, <2>4
<1>11. CASE Proceed
  BY <1>11 DEF Proceed, Idle, Startup, Autocommit
<1>12. CASE GiveUp
  BY <1>12 DEF GiveUp, Gone
<1>13. CASE Crash
  BY <1>13 DEF Crash, Gone
<1>14. CASE UNCHANGED vars
  BY <1>14 DEF vars
<1> QED
  BY <1>1, <1>2, <1>3, <1>4, <1>5, <1>6, <1>7, <1>8, <1>9, <1>10, <1>11,
     <1>12, <1>13, <1>14

LEMMA BeginStep == IInv /\ Begin => IInv'
<1> SUFFICES ASSUME IInv, Begin PROVE IInv'
  OBVIOUS
<1> USE DEF IInv, TypeOK
<1> DEFINE plan == PlanOf(request, work)
<1>1. request \in Request \cup Startup /\ ~ Autocommit(request)
  BY DEF Begin, RequestFollowsPhase
<1>2. SoundPlan(plan, work)
  BY <1>1, PlanIsSound
<1>3. /\ left' = plan.writes /\ shown' = plan.shown /\ result' = plan.result
      /\ work' = work /\ disk' = disk /\ step' = "write" /\ inTxn' = TRUE
      /\ UNCHANGED <<usable, phase, request, origin, promised>>
  BY DEF Begin, pastVars
<1> HIDE DEF plan
<1>4. WritesCoverReport'
  BY <1>2, <1>3 DEF WritesCoverReport, SoundPlan
<1>5. TypeOK'
  BY <1>2, <1>3 DEF SoundPlan, IsTables
<1>6. /\ WorkFollowsDisk' /\ TransactionFollowsStep' /\ RequestFollowsPhase'
      /\ ReportIsStored' /\ PromisesAreDurable'
  BY <1>3 DEF Begin, WorkFollowsDisk, TransactionFollowsStep,
     RequestFollowsPhase, ReportIsStored, PromisesAreDurable
<1> QED
  BY <1>4, <1>5, <1>6

LEMMA WriteStep == IInv /\ Write => IInv'
<1> SUFFICES ASSUME IInv, Write PROVE IInv'
  OBVIOUS
<1> USE DEF IInv
<1>1. /\ step = "write" /\ inTxn /\ left # <<>> /\ SoundWrites(left)
      /\ result = "done" => Covered(shown, left, work)
      /\ work' = Apply(Head(left), work) /\ left' = Tail(left)
      /\ UNCHANGED <<disk, inTxn, usable, phase, step, request, shown, result,
                     origin, promised>>
  BY DEF Write, WritesCoverReport, TransactionFollowsStep, pastVars
<1>2. SoundWrite(Head(left))
  <2>1. PICK S : left \in Seq(S)
    BY <1>1 DEF SoundWrites
  <2>2. Len(left) \in Nat \ {0} /\ Head(left) = left[1]
    BY <1>1, <2>1, EmptySeq
  <2> QED
    BY <1>1, <2>2 DEF SoundWrites
<1>3. SoundWrites(left')
  <2>1. Covered({}, left, work)
    BY DEF Covered
  <2> QED
    BY <1>1, <2>1, CoveredAdvances DEF TypeOK, IsTables
<1>4. result = "done" => Covered(shown, left', work')
  BY <1>1, CoveredAdvances DEF TypeOK, IsTables
<1>5. /\ IsTables(work')
      /\ \A table \in FactTable : work[table] \subseteq work'[table]
  BY <1>1, <1>2, ApplyKeepsTables DEF TypeOK
<1>6. WorkFollowsDisk'
  BY <1>1, <1>5 DEF WorkFollowsDisk
<1>7. WritesCoverReport'
  BY <1>1, <1>3, <1>4 DEF WritesCoverReport
<1>8. TypeOK'
  BY <1>1, <1>5 DEF TypeOK
<1>9. /\ TransactionFollowsStep' /\ RequestFollowsPhase' /\ ReportIsStored'
      /\ PromisesAreDurable'
  BY <1>1 DEF TransactionFollowsStep, RequestFollowsPhase, ReportIsStored,
              PromisesAreDurable
<1> QED
  BY <1>6, <1>7, <1>8, <1>9

LEMMA CommitStep == IInv /\ Commit => IInv'
<1> SUFFICES ASSUME IInv, Commit PROVE IInv'
  OBVIOUS
<1> USE DEF IInv
<1>1. /\ step = "write" /\ left = <<>> /\ Covered(shown, left, work)
      /\ disk' = work /\ inTxn' = FALSE /\ step' = "answer"
      /\ UNCHANGED <<work, usable, phase, request, shown, result, origin,
                     promised>>
  BY DEF Commit, WritesCoverReport, jobVars, pastVars
<1>2. ReportIsStored'
  BY <1>1, CoveredAtEnd DEF ReportIsStored
<1>3. PromisesAreDurable'
  <2>1. Facts(disk) \subseteq Facts(disk')
    BY <1>1 DEF WorkFollowsDisk, Facts
  <2> QED
    BY <1>1, <2>1 DEF PromisesAreDurable
<1>4. /\ TypeOK' /\ WorkFollowsDisk' /\ TransactionFollowsStep'
      /\ RequestFollowsPhase' /\ WritesCoverReport'
  BY <1>1 DEF Commit, TypeOK, IsTables, WorkFollowsDisk,
     TransactionFollowsStep, RequestFollowsPhase, WritesCoverReport
<1> QED
  BY <1>2, <1>3, <1>4

LEMMA SingleStep == IInv /\ Single => IInv'
<1> SUFFICES ASSUME IInv, Single PROVE IInv'
  OBVIOUS
<1> USE DEF IInv
<1> DEFINE u == request.user
<1>1. /\ step = "single" /\ ~ inTxn /\ work = disk /\ step' = "answer"
      /\ result' = "done"
      /\ UNCHANGED <<inTxn, usable, phase, request, left, origin, promised>>
  BY DEF Single, TransactionFollowsStep, WorkFollowsDisk, pastVars
<1>2. request \in Request /\ u \in User
  <2>1. request \in Request
    BY <1>1 DEF RequestFollowsPhase, TypeOK
  <2> QED
    BY <2>1 DEF Request
<1>3. /\ disk' = work' /\ IsTables(disk')
      /\ \A table \in FactTable : disk[table] \subseteq disk'[table]
      /\ shown' \subseteq Facts(disk')
  <2>1. CASE request.kind = "insertUser" /\ u \notin work["users"]
    <3>1. /\ work' = Apply(Insert("users", u), work)
          /\ disk' = work' /\ shown' = {<<"users", u>>}
      BY <1>1, <2>1 DEF Single
    <3>2. /\ IsTables(work') /\ u \in work'["users"]
          /\ \A table \in FactTable : work[table] \subseteq work'[table]
      BY <1>2, <3>1 DEF TypeOK, IsTables, Apply, Insert, FactTable,
                        Atomic!Table, Atomic!FactTable
    <3>3. <<"users", u>> \in Facts(work')
      BY <3>2, FactsAre DEF FactTable, Atomic!FactTable
    <3> QED
      BY <1>1, <3>1, <3>2, <3>3
  <2>2. CASE ~ (request.kind = "insertUser" /\ u \notin work["users"])
    BY <1>1, <2>2 DEF Single, TypeOK
  <2> QED
    BY <2>1, <2>2
<1>4. PromisesAreDurable' /\ ReportIsStored'
  <2>1. Facts(disk) \subseteq Facts(disk')
    BY <1>3 DEF Facts
  <2> QED
    BY <1>1, <1>3, <2>1 DEF PromisesAreDurable, ReportIsStored
<1>5. TypeOK'
  BY <1>1, <1>3 DEF TypeOK
<1>6. /\ WorkFollowsDisk' /\ TransactionFollowsStep' /\ RequestFollowsPhase'
      /\ WritesCoverReport'
  BY <1>1, <1>3 DEF WorkFollowsDisk, TransactionFollowsStep,
     RequestFollowsPhase, WritesCoverReport
<1> QED
  BY <1>4, <1>5, <1>6

LEMMA NextIInv == IInv /\ [Next]_vars => IInv'
BY BeginStep, WriteStep, CommitStep, SingleStep, ControlSteps DEF Next, Run

LEMMA SpecIInv == Spec => []IInv
BY InitIInv, NextIInv, PTL DEF Spec

-----------------------------------------------------------------------------
\* The variables of Database and of its connection keep their types.
THEOREM StoreTypeCorrect == Spec => []TypeOK
<1>1. IInv => TypeOK
  BY DEF IInv
<1> QED
  BY <1>1, SpecIInv, PTL

\* No request ever meets what an earlier one failed to take back: the flag
\* connectionUsable closes every way to a connection left in a transaction.
THEOREM StoreStartsClean == Spec => []StartsClean
<1>1. IInv => StartsClean
  BY DEF IInv, StartsClean, TransactionFollowsStep, WorkFollowsDisk
<1> QED
  BY <1>1, SpecIInv, PTL

\* What a client was told is stored stays stored, whatever calls of SQLite
\* fail and however often the process ends.
THEOREM StorePromisesAreDurable == Spec => []PromisesAreDurable
<1>1. IInv => PromisesAreDurable
  BY DEF IInv
<1> QED
  BY <1>1, SpecIInv, PTL

-----------------------------------------------------------------------------
(* The tables a sequence of writes ends in.                                *)

Adds(table, row, w)    == w.table = table /\ row \in w.add
Removes(table, row, w) == w.table = table /\ row \in w.remove

\* The row is there after the writes: the last write about it adds it, or
\* there is none and it was there before.
Ends(table, row, t, ws) ==
  \/ \E i \in 1..Len(ws) :
       /\ Adds(table, row, ws[i])
       /\ \A j \in i + 1..Len(ws) : ~ Removes(table, row, ws[j])
  \/ /\ row \in t[table]
     /\ \A i \in 1..Len(ws) : ~ Removes(table, row, ws[i])

Added(table, ws) ==
  UNION {ws[i].add : i \in {j \in 1..Len(ws) : ws[j].table = table}}

Final(t, ws) ==
  [table \in Atomic!Table |->
     {row \in t[table] \cup Added(table, ws) : Ends(table, row, t, ws)}]

\* The running request is on its way to the tables its plan makes of the
\* file, and will throw exactly if its plan does.
PlanIsCarriedOut ==
  step = "write" =>
    /\ request \in Request \cup Startup /\ ~ Autocommit(request)
    /\ result = PlanOf(request, disk).result
    /\ Final(work, left) = Final(disk, PlanOf(request, disk).writes)

\* The file, as the program leaves it after any request: no legacy row is new,
\* and what SQLite keeps of a file still holds.
FileIsSound ==
  /\ origin \in File
  /\ disk["messages"] \subseteq origin["messages"]
  /\ \E v \in disk["user_version"] : disk["user_version"] = {v}
  /\ IsFiniteSet(disk["message_history"])
  /\ \A m \in disk["message_history"] :
       m.id \in 1..Cardinality(disk["message_history"])
  /\ \A p \in disk["message_recipients"] :
       \E m \in disk["message_history"] : m.id = p[1]

LEMMA FinalIsWhereRowsEnd ==
  ASSUME NEW t, NEW ws, NEW table \in Atomic!Table, NEW row
  PROVE  row \in Final(t, ws)[table] <=> Ends(table, row, t, ws)
<1>1. ASSUME NEW i \in 1..Len(ws), Adds(table, row, ws[i])
      PROVE  row \in Added(table, ws)
  BY <1>1 DEF Adds, Added
<1>2. Ends(table, row, t, ws) => row \in t[table] \cup Added(table, ws)
  BY <1>1 DEF Ends
<1> QED
  BY <1>2 DEF Final

LEMMA FinalsAreEqual ==
  ASSUME NEW t, NEW ws, NEW t2, NEW ws2,
         \A table \in Atomic!Table : \A row :
           Ends(table, row, t, ws) <=> Ends(table, row, t2, ws2)
  PROVE  Final(t, ws) = Final(t2, ws2)
<1>1. ASSUME NEW table \in Atomic!Table
      PROVE  {row \in t[table] \cup Added(table, ws) :
                Ends(table, row, t, ws)}
               = {row \in t2[table] \cup Added(table, ws2) :
                    Ends(table, row, t2, ws2)}
  <2>1. \A row : row \in Final(t, ws)[table] <=> row \in Final(t2, ws2)[table]
    BY FinalIsWhereRowsEnd
  <2> QED
    BY <2>1 DEF Final
<1> QED
  BY <1>1 DEF Final

\* A sequence of writes is carried out one after the other.
LEMMA FinalAdvances ==
  ASSUME NEW t, IsTables(t), NEW ws, SoundWrites(ws), ws # <<>>
  PROVE  Final(Apply(Head(ws), t), Tail(ws)) = Final(t, ws)
<1>1. PICK S : ws \in Seq(S)
  BY DEF SoundWrites
<1> DEFINE w == Head(ws)
           rest == Tail(ws)
           n == Len(ws)
<1>2. /\ n \in Nat \ {0}
      /\ Len(rest) = n - 1
      /\ w = ws[1]
      /\ \A i \in 1..n - 1 : rest[i] = ws[i + 1]
  BY <1>1, HeadTailProperties, LenProperties
<1>3. w.table \in Atomic!Table
  BY <1>2 DEF SoundWrites, SoundWrite
<1>4. ASSUME NEW table \in Atomic!Table, NEW row
      PROVE  row \in Apply(w, t)[table]
               <=> \/ Adds(table, row, w)
                   \/ row \in t[table] /\ ~ Removes(table, row, w)
  BY <1>3 DEF IsTables, Apply, Adds, Removes
<1> HIDE DEF w, rest, n
<1>5. ASSUME NEW table \in Atomic!Table, NEW row
      PROVE  Ends(table, row, Apply(w, t), rest) <=> Ends(table, row, t, ws)
  <2>1. ASSUME Ends(table, row, Apply(w, t), rest)
        PROVE  Ends(table, row, t, ws)
    <3>1. CASE \E i \in 1..n - 1 :
                 /\ Adds(table, row, rest[i])
                 /\ \A j \in i + 1..n - 1 : ~ Removes(table, row, rest[j])
      <4>1. PICK i \in 1..n - 1 :
                   /\ Adds(table, row, rest[i])
                   /\ \A j \in i + 1..n - 1 : ~ Removes(table, row, rest[j])
        BY <3>1
      <4>2. i + 1 \in 1..n /\ Adds(table, row, ws[i + 1])
        BY <1>2, <4>1
      <4>3. ASSUME NEW j \in i + 1 + 1..n PROVE ~ Removes(table, row, ws[j])
        <5>1. j - 1 \in i + 1..n - 1 /\ j - 1 \in 1..n - 1 /\ j - 1 + 1 = j
          BY <1>2, <4>1
        <5> QED
          BY <1>2, <4>1, <5>1
      <4> QED
        BY <1>2, <4>2, <4>3 DEF Ends, n
    <3>2. CASE /\ row \in Apply(w, t)[table]
               /\ \A i \in 1..n - 1 : ~ Removes(table, row, rest[i])
      <4>1. ASSUME NEW j \in 2..n PROVE ~ Removes(table, row, ws[j])
        <5>1. j - 1 \in 1..n - 1 /\ j - 1 + 1 = j
          BY <1>2
        <5> QED
          BY <1>2, <3>2, <5>1
      <4>2. CASE Adds(table, row, w)
        BY <1>2, <4>1, <4>2 DEF Ends, n
      <4>3. CASE row \in t[table] /\ ~ Removes(table, row, w)
        <5>1. ASSUME NEW j \in 1..n PROVE ~ Removes(table, row, ws[j])
          BY <1>2, <4>1, <4>3
        <5> QED
          BY <4>3, <5>1 DEF Ends, n
      <4> QED
        BY <1>4, <3>2, <4>2, <4>3
    <3> QED
      BY <1>2, <2>1, <3>1, <3>2 DEF Ends
  <2>2. ASSUME Ends(table, row, t, ws)
        PROVE  Ends(table, row, Apply(w, t), rest)
    <3>1. CASE \E i \in 1..n :
                 /\ Adds(table, row, ws[i])
                 /\ \A j \in i + 1..n : ~ Removes(table, row, ws[j])
      <4>1. PICK i \in 1..n :
                   /\ Adds(table, row, ws[i])
                   /\ \A j \in i + 1..n : ~ Removes(table, row, ws[j])
        BY <3>1
      <4>2. CASE i = 1
        <5>1. row \in Apply(w, t)[table]
          BY <1>2, <1>4, <4>1, <4>2
        <5>2. ASSUME NEW j \in 1..n - 1 PROVE ~ Removes(table, row, rest[j])
          <6>1. j + 1 \in i + 1..n
            BY <1>2, <4>2
          <6> QED
            BY <1>2, <4>1, <6>1
        <5> QED
          BY <1>2, <5>1, <5>2 DEF Ends
      <4>3. CASE i # 1
        <5>1. i - 1 \in 1..n - 1 /\ i - 1 + 1 = i
          BY <1>2, <4>3
        <5>2. Adds(table, row, rest[i - 1])
          BY <1>2, <4>1, <5>1
        <5>3. ASSUME NEW j \in i - 1 + 1..n - 1
              PROVE  ~ Removes(table, row, rest[j])
          <6>1. j + 1 \in i + 1..n /\ j \in 1..n - 1
            BY <1>2, <5>1
          <6> QED
            BY <1>2, <4>1, <6>1
        <5> QED
          BY <1>2, <5>1, <5>2, <5>3 DEF Ends
      <4> QED
        BY <4>2, <4>3
    <3>2. CASE row \in t[table] /\ \A i \in 1..n : ~ Removes(table, row, ws[i])
      <4>1. row \in Apply(w, t)[table]
        BY <1>2, <1>4, <3>2
      <4>2. ASSUME NEW j \in 1..n - 1 PROVE ~ Removes(table, row, rest[j])
        <5>1. j + 1 \in 1..n
          BY <1>2
        <5> QED
          BY <1>2, <3>2, <5>1
      <4> QED
        BY <1>2, <4>1, <4>2 DEF Ends
    <3> QED
      BY <2>2, <3>1, <3>2 DEF Ends, n
  <2> QED
    BY <2>1, <2>2
<1>6. Final(Apply(w, t), rest) = Final(t, ws)
  BY <1>5, FinalsAreEqual
<1> QED
  BY <1>6 DEF w, rest

LEMMA FinalOfNothing ==
  ASSUME NEW t, IsTables(t) PROVE Final(t, <<>>) = t
<1>1. ASSUME NEW table \in Atomic!Table, NEW row
      PROVE  Ends(table, row, t, <<>>) <=> row \in t[table]
  BY DEF Ends
<1>2. ASSUME NEW table \in Atomic!Table PROVE Final(t, <<>>)[table] = t[table]
  <2>1. \A row : row \in Final(t, <<>>)[table] <=> row \in t[table]
    BY <1>1, FinalIsWhereRowsEnd
  <2> QED
    BY <2>1 DEF Final
<1>3. Final(t, <<>>) = [table \in Atomic!Table |-> Final(t, <<>>)[table]]
  BY DEF Final
<1> QED
  BY <1>2, <1>3 DEF IsTables

\* A table nothing is removed from gains what is added to it.
LEMMA FinalGains ==
  ASSUME NEW t, NEW ws, NEW table \in Atomic!Table,
         \A i \in 1..Len(ws) : ws[i].table = table => ws[i].remove = {}
  PROVE  Final(t, ws)[table] = t[table] \cup Added(table, ws)
<1>1. \A row : \A i \in 1..Len(ws) : ~ Removes(table, row, ws[i])
  BY DEF Removes
<1>2. ASSUME NEW row \in Added(table, ws)
      PROVE  \E i \in 1..Len(ws) : Adds(table, row, ws[i])
  BY DEF Added, Adds
<1>3. ASSUME NEW row \in Added(table, ws) PROVE Ends(table, row, t, ws)
  <2>1. PICK i \in 1..Len(ws) : Adds(table, row, ws[i])
    BY <1>2
  <2>2. ASSUME NEW j \in i + 1..Len(ws) PROVE ~ Removes(table, row, ws[j])
    <3>1. CASE j \in 1..Len(ws)
      BY <1>1, <3>1
    <3>2. CASE j \notin 1..Len(ws)
      BY <2>1, <3>2
    <3> QED
      BY <3>1, <3>2
  <2> QED
    BY <2>1, <2>2 DEF Ends
<1>4. ASSUME NEW row \in t[table] PROVE Ends(table, row, t, ws)
  BY <1>1 DEF Ends
<1>5. \A row \in t[table] \cup Added(table, ws) : Ends(table, row, t, ws)
  BY <1>3, <1>4
<1> HIDE DEF Ends, Added
<1> QED
  BY <1>5 DEF Final

LEMMA FinalOfInserts ==
  ASSUME NEW t, NEW ws, \A i \in 1..Len(ws) : ws[i].remove = {}
  PROVE  Final(t, ws) =
           [table \in Atomic!Table |-> t[table] \cup Added(table, ws)]
<1>1. \A table \in Atomic!Table :
        Final(t, ws)[table] = t[table] \cup Added(table, ws)
  BY FinalGains
<1>2. Final(t, ws) = [table \in Atomic!Table |-> Final(t, ws)[table]]
  BY DEF Final
<1> QED
  BY <1>1, <1>2

LEMMA AddedByOne ==
  ASSUME NEW w, NEW table
  PROVE  Added(table, <<w>>) = IF w.table = table THEN w.add ELSE {}
<1> DEFINE ws == <<w>>
<1>1. Len(ws) = 1 /\ ws[1] = w
  OBVIOUS
<1> HIDE DEF ws
<1>2. Added(table, ws) = IF w.table = table THEN w.add ELSE {}
  BY <1>1 DEF Added
<1> QED
  BY <1>2 DEF ws

LEMMA AddedByBoth ==
  ASSUME NEW a, NEW b, SoundWrites(a), SoundWrites(b), NEW table
  PROVE  Added(table, a \o b) = Added(table, a) \cup Added(table, b)
<1>1. PICK S, T : a \in Seq(S) /\ b \in Seq(T)
  BY DEF SoundWrites
<1>2. a \in Seq(S \cup T) /\ b \in Seq(S \cup T)
  BY <1>1, SeqMonotonic
<1> DEFINE c == a \o b
           m == Len(a)
           n == Len(b)
<1>3. /\ m \in Nat /\ n \in Nat
      /\ Len(c) = m + n
      /\ \A i \in 1..m + n : c[i] = IF i <= m THEN a[i] ELSE b[i - m]
  BY <1>2, ConcatProperties, LenProperties
<1> HIDE DEF c
<1>4. ASSUME NEW row
      PROVE  row \in Added(table, c)
               <=> \E i \in 1..m + n : c[i].table = table /\ row \in c[i].add
  BY <1>3 DEF Added
<1>5. ASSUME NEW row
      PROVE  row \in Added(table, a)
               <=> \E i \in 1..m : a[i].table = table /\ row \in a[i].add
  BY DEF Added
<1>6. ASSUME NEW row
      PROVE  row \in Added(table, b)
               <=> \E i \in 1..n : b[i].table = table /\ row \in b[i].add
  BY DEF Added
<1>7. ASSUME NEW row, row \in Added(table, c)
      PROVE  row \in Added(table, a) \/ row \in Added(table, b)
  <2>1. PICK i \in 1..m + n : c[i].table = table /\ row \in c[i].add
    BY <1>4, <1>7
  <2>2. CASE i <= m
    BY <1>3, <1>5, <2>1, <2>2
  <2>3. CASE i > m
    <3>1. i - m \in 1..n /\ c[i] = b[i - m]
      BY <1>3, <2>3
    <3> QED
      BY <1>6, <2>1, <3>1
  <2> QED
    BY <1>3, <2>2, <2>3
<1>8. ASSUME NEW row, row \in Added(table, a) PROVE row \in Added(table, c)
  <2>1. PICK i \in 1..m : a[i].table = table /\ row \in a[i].add
    BY <1>5, <1>8
  <2>2. i \in 1..m + n /\ c[i] = a[i]
    BY <1>3
  <2> QED
    BY <1>4, <2>1, <2>2
<1>9. ASSUME NEW row, row \in Added(table, b) PROVE row \in Added(table, c)
  <2>1. PICK i \in 1..n : b[i].table = table /\ row \in b[i].add
    BY <1>6, <1>9
  <2>2. i + m \in 1..m + n /\ c[i + m] = b[i]
    <3>1. i + m \in 1..m + n /\ ~ (i + m <= m) /\ i + m - m = i
      BY <1>3
    <3> QED
      BY <1>3, <3>1
  <2> QED
    BY <1>4, <2>1, <2>2
<1>10. Added(table, c) = Added(table, a) \cup Added(table, b)
  BY <1>7, <1>8, <1>9
<1> QED
  BY <1>10 DEF c

-----------------------------------------------------------------------------
(* What each request makes of the tables.                                  *)

LEMMA OneInsertAdds ==
  ASSUME NEW t, IsTables(t), NEW table \in Atomic!Table, NEW row
  PROVE  Final(t, <<Insert(table, row)>>) = Atomic!Add(t, table, {row})
<1> DEFINE w == Insert(table, row)
           ws == <<w>>
<1>1. \A i \in 1..Len(ws) : ws[i].remove = {}
  BY DEF Insert
<1>2. \A x : Added(x, ws) = IF x = table THEN {row} ELSE {}
  <2>1. w.table = table /\ w.add = {row}
    BY DEF Insert
  <2> HIDE DEF w
  <2> QED
    BY <2>1, AddedByOne
<1> HIDE DEF ws
<1>3. Final(t, ws) = [x \in Atomic!Table |-> t[x] \cup Added(x, ws)]
  BY <1>1, FinalOfInserts
<1>4. Final(t, ws) = Atomic!Add(t, table, {row})
  BY <1>2, <1>3 DEF Atomic!Add, IsTables
<1> QED
  BY <1>4 DEF ws

LEMMA CreateGroupMakes ==
  ASSUME NEW t, IsTables(t), NEW u, NEW g
  PROVE  \/ Final(t, CreateGroup(u, g, t).writes) = t
         \/ /\ u \in t["users"] /\ g \notin t["chat_groups"]
            /\ Final(t, CreateGroup(u, g, t).writes)
                 = Atomic!Add(Atomic!Add(t, "chat_groups", {g}),
                              "group_members", {<<g, u>>})
<1>1. CASE u \notin t["users"] \/ g \in t["chat_groups"]
  BY <1>1, FinalOfNothing DEF CreateGroup, Answer, Plan
<1>2. CASE u \in t["users"] /\ g \notin t["chat_groups"]
  <2> DEFINE ws == <<Insert("chat_groups", g), Insert("group_members", <<g, u>>)>>
  <2>1. CreateGroup(u, g, t).writes = ws
    BY <1>2 DEF CreateGroup, Plan
  <2>2. /\ Len(ws) = 2 /\ ws[1] = Insert("chat_groups", g)
        /\ ws[2] = Insert("group_members", <<g, u>>)
    OBVIOUS
  <2> HIDE DEF ws
  <2>3. \A i \in 1..Len(ws) : ws[i].remove = {}
    BY <2>2 DEF Insert
  <2>4. /\ Added("chat_groups", ws) = {g}
        /\ Added("group_members", ws) = {<<g, u>>}
        /\ \A x : x \notin {"chat_groups", "group_members"} =>
                    Added(x, ws) = {}
    BY <2>2 DEF Added, Insert
  <2>5. Final(t, ws) = [x \in Atomic!Table |-> t[x] \cup Added(x, ws)]
    BY <2>3, FinalOfInserts
  <2>6. Final(t, ws) = Atomic!Add(Atomic!Add(t, "chat_groups", {g}),
                                  "group_members", {<<g, u>>})
    BY <2>4, <2>5 DEF Atomic!Add, IsTables, Atomic!Table, Atomic!FactTable
  <2> QED
    BY <1>2, <2>1, <2>6
<1> QED
  BY <1>1, <1>2

LEMMA JoinGroupMakes ==
  ASSUME NEW t, IsTables(t), NEW u, NEW g
  PROVE  \/ Final(t, JoinGroup(u, g, t).writes) = t
         \/ /\ u \in t["users"] /\ g \in t["chat_groups"]
            /\ Final(t, JoinGroup(u, g, t).writes)
                 = Atomic!Add(t, "group_members", {<<g, u>>})
<1>1. CASE u \notin t["users"] \/ g \notin t["chat_groups"]
           \/ <<g, u>> \in t["group_members"]
  BY <1>1, FinalOfNothing DEF JoinGroup, Answer, Plan
<1>2. CASE ~ (u \notin t["users"] \/ g \notin t["chat_groups"]
              \/ <<g, u>> \in t["group_members"])
  <2>1. JoinGroup(u, g, t).writes = <<Insert("group_members", <<g, u>>)>>
    BY <1>2 DEF JoinGroup, Plan
  <2> QED
    BY <1>2, <2>1, OneInsertAdds DEF Atomic!Table, Atomic!FactTable
<1> QED
  BY <1>1, <1>2

LEMMA AddContactMakes ==
  ASSUME NEW t, IsTables(t), NEW u, NEW v
  PROVE  \/ Final(t, AddContact(u, v, t).writes) = t
         \/ /\ {u, v} \subseteq t["users"] /\ u # v
            /\ Final(t, AddContact(u, v, t).writes)
                 = Atomic!Add(t, "contacts", {<<u, v>>})
<1>1. CASE ~ {u, v} \subseteq t["users"] \/ u = v
           \/ <<u, v>> \in t["contacts"]
  BY <1>1, FinalOfNothing DEF AddContact, Answer, Plan
<1>2. CASE ~ (~ {u, v} \subseteq t["users"] \/ u = v
              \/ <<u, v>> \in t["contacts"])
  <2>1. AddContact(u, v, t).writes = <<Insert("contacts", <<u, v>>)>>
    BY <1>2 DEF AddContact, Plan
  <2> QED
    BY <1>2, <2>1, OneInsertAdds DEF Atomic!Table, Atomic!FactTable
<1> QED
  BY <1>1, <1>2

LEMMA AcknowledgeMakes ==
  ASSUME NEW t, IsTables(t), NEW u, NEW id
  PROVE  \/ Final(t, Acknowledge(u, id, t).writes) = t
         \/ /\ <<id, u>> \in t["message_recipients"]
            /\ Final(t, Acknowledge(u, id, t).writes)
                 = Atomic!Add(t, "acknowledgements", {<<id, u>>})
<1>1. CASE <<id, u>> \notin t["message_recipients"]
           \/ <<id, u>> \in t["acknowledgements"]
  BY <1>1, FinalOfNothing DEF Acknowledge, Answer, Plan
<1>2. CASE ~ (<<id, u>> \notin t["message_recipients"]
              \/ <<id, u>> \in t["acknowledgements"])
  <2>1. Acknowledge(u, id, t).writes
          = <<Insert("acknowledgements", <<id, u>>)>>
    BY <1>2 DEF Acknowledge, Plan
  <2> QED
    BY <1>2, <2>1, OneInsertAdds DEF Atomic!Table, Atomic!FactTable
<1> QED
  BY <1>1, <1>2

\* SetToSeq names every element.
LEMMA SetToSeqIsOnto ==
  ASSUME NEW S, IsFiniteSet(S)
  PROVE  /\ Cardinality(S) \in Nat
         /\ SetToSeq(S) \in [1..Cardinality(S) -> S]
         /\ \A x \in S : \E i \in 1..Cardinality(S) : SetToSeq(S)[i] = x
<1> DEFINE n == Cardinality(S)
           f == SetToSeq(S)
<1>1. n \in Nat /\ ExistsBijection(1..n, S)
  BY FS_CardinalityType
<1>2. \E g \in [1..n -> S] : IsInjective(g)
  BY <1>1 DEF ExistsBijection, Bijection, Injection, IsInjective
<1>3. f \in [1..n -> S] /\ IsInjective(f)
  BY <1>1, <1>2 DEF SetToSeq
<1>4. f \in Injection(1..n, S)
  BY <1>3 DEF Injection
<1>5. IsFiniteSet(1..n) /\ Cardinality(1..n) = n
  BY <1>1, FS_Interval
<1>6. f \in Surjection(1..n, S)
  BY <1>4, <1>5, FS_Injection
<1> QED
  BY <1>1, <1>3, <1>6 DEF Surjection

LEMMA AcceptMakes ==
  ASSUME NEW t, IsTables(t), NEW kind, NEW u, NEW g,
         NEW audience, IsFiniteSet(audience)
  PROVE  LET m == Atomic!Stored(kind, u, g, 0, Atomic!NextId(t))
         IN Final(t, Accept(kind, u, g, audience, t).writes)
              = Atomic!Add(Atomic!Add(t, "message_history", {m}),
                           "message_recipients", {m.id} \X audience)
<1> DEFINE id == Atomic!NextId(t)
           m == Atomic!Stored(kind, u, g, 0, id)
           to == SetToSeq(audience)
           n == Cardinality(audience)
           Row(i) == <<id, to[i]>>
           W(i) == IF i = 1 THEN Insert("message_history", m)
                   ELSE Insert("message_recipients", Row(i - 1))
           ws == [i \in 1..Len(to) + 1 |-> W(i)]
<1>1. /\ n \in Nat /\ Len(to) = n
      /\ \A x \in audience : \E i \in 1..n : to[i] = x
      /\ \A i \in 1..n : to[i] \in audience
  BY SetToSeqIsOnto
<1>2. m.id = id
  BY DEF Atomic!Stored
<1>3. Len(ws) = n + 1 /\ \A i \in 1..n + 1 : ws[i] = W(i)
  <2>1. n + 1 \in Nat /\ ws = [i \in 1..n + 1 |-> W(i)]
    BY <1>1
  <2> HIDE DEF W
  <2> QED
    BY <2>1
<1>4. Accept(kind, u, g, audience, t).writes = ws
  BY DEF Accept, Plan
<1> HIDE DEF ws, m, to, n, id
<1>5. /\ W(1) = Insert("message_history", m)
      /\ \A i \in 2..n + 1 : W(i) = Insert("message_recipients", Row(i - 1))
  BY <1>1
<1> HIDE DEF W
<1>6. \A i \in 1..Len(ws) : ws[i].remove = {}
  <2> TAKE i \in 1..Len(ws)
  <2>1. CASE i = 1
    BY <1>1, <1>3, <1>5, <2>1 DEF Insert
  <2>2. CASE i # 1
    <3>1. i \in 2..n + 1
      BY <1>1, <1>3, <2>2
    <3> QED
      BY <1>1, <1>3, <1>5, <3>1 DEF Insert
  <2> QED
    BY <2>1, <2>2
<1>7. Added("message_history", ws) = {m}
  <2>1. ASSUME NEW i \in 1..n + 1, ws[i].table = "message_history"
        PROVE  ws[i].add = {m}
    <3>1. CASE i = 1
      BY <1>3, <1>5, <3>1 DEF Insert
    <3>2. CASE i # 1
      <4>1. i \in 2..n + 1
        BY <1>1, <3>2
      <4>2. ws[i].table = "message_recipients"
        BY <1>3, <1>5, <4>1 DEF Insert
      <4> QED
        BY <2>1, <4>2
    <3> QED
      BY <3>1, <3>2
  <2>2. 1 \in 1..n + 1 /\ ws[1].table = "message_history" /\ ws[1].add = {m}
    BY <1>1, <1>3, <1>5 DEF Insert
  <2> QED
    BY <1>3, <2>1, <2>2 DEF Added
<1>8. Added("message_recipients", ws) = {id} \X audience
  <2>1. ASSUME NEW i \in 1..n + 1, ws[i].table = "message_recipients"
        PROVE  \E x \in audience : ws[i].add = {<<id, x>>}
    <3>1. CASE i = 1
      <4>1. ws[i].table = "message_history"
        BY <1>1, <1>3, <1>5, <3>1 DEF Insert
      <4> QED
        BY <2>1, <4>1
    <3>2. CASE i # 1
      <4>1. i \in 2..n + 1 /\ i - 1 \in 1..n
        BY <1>1, <3>2
      <4>2. ws[i].add = {Row(i - 1)}
        BY <1>3, <1>5, <4>1 DEF Insert
      <4> QED
        BY <1>1, <4>1, <4>2
    <3> QED
      BY <3>1, <3>2
  <2>2. ASSUME NEW x \in audience
        PROVE  \E i \in 1..n + 1 : /\ ws[i].table = "message_recipients"
                                   /\ ws[i].add = {<<id, x>>}
    <3>1. PICK i \in 1..n : to[i] = x
      BY <1>1
    <3>2. i + 1 \in 2..n + 1 /\ i + 1 \in 1..n + 1 /\ i + 1 - 1 = i
      BY <1>1
    <3>3. ws[i + 1] = Insert("message_recipients", Row(i))
      BY <1>3, <1>5, <3>2
    <3>4. /\ ws[i + 1].table = "message_recipients"
          /\ ws[i + 1].add = {<<id, x>>}
      BY <3>1, <3>3 DEF Insert
    <3> QED
      BY <3>2, <3>4
  <2>3. ASSUME NEW p \in Added("message_recipients", ws)
        PROVE  p \in {id} \X audience
    <3>1. PICK i \in 1..n + 1 : /\ ws[i].table = "message_recipients"
                                /\ p \in ws[i].add
      BY <1>3 DEF Added
    <3> QED
      BY <2>1, <3>1
  <2>4. ASSUME NEW p \in {id} \X audience
        PROVE  p \in Added("message_recipients", ws)
    <3>1. PICK x \in audience : p = <<id, x>>
      OBVIOUS
    <3>2. PICK i \in 1..n + 1 : /\ ws[i].table = "message_recipients"
                                /\ ws[i].add = {<<id, x>>}
      BY <2>2
    <3> QED
      BY <1>3, <3>1, <3>2 DEF Added
  <2> QED
    BY <2>3, <2>4
<1>9. ASSUME NEW x, x # "message_history", x # "message_recipients"
      PROVE  Added(x, ws) = {}
  <2>1. ASSUME NEW i \in 1..n + 1 PROVE ws[i].table # x
    <3>1. CASE i = 1
      BY <1>1, <1>3, <1>5, <1>9, <3>1 DEF Insert
    <3>2. CASE i # 1
      <4>1. i \in 2..n + 1
        BY <1>1, <3>2
      <4> QED
        BY <1>3, <1>5, <1>9, <4>1 DEF Insert
    <3> QED
      BY <3>1, <3>2
  <2> QED
    BY <1>3, <2>1 DEF Added
<1>10. Final(t, ws) = [x \in Atomic!Table |-> t[x] \cup Added(x, ws)]
  BY <1>6, FinalOfInserts
<1>11. Final(t, ws) = Atomic!Add(Atomic!Add(t, "message_history", {m}),
                                 "message_recipients", {m.id} \X audience)
  BY <1>2, <1>7, <1>8, <1>9, <1>10
  DEF Atomic!Add, IsTables, Atomic!Table, Atomic!FactTable
<1> QED
  BY <1>4, <1>11 DEF m, id

-----------------------------------------------------------------------------
(* The upgrade of the schema.                                              *)

SchemaWrite(w) ==
  \/ w.table = "objects" /\ w.remove = {}
  \/ w \in {SetVersion(2), SetVersion(3)}

SchemaWrites(ws) ==
  /\ SoundWrites(ws)
  /\ \A i \in 1..Len(ws) : SchemaWrite(ws[i])

\* Writes that end with the current version.
UpgradeWrites(ws) ==
  /\ SchemaWrites(ws)
  /\ Len(ws) \in Nat \ {0}
  /\ ws[Len(ws)] = SetVersion(3)

LEMMA JoinedSchemaWrites ==
  ASSUME NEW a, NEW b, SchemaWrites(a), SchemaWrites(b)
  PROVE  /\ SchemaWrites(a \o b)
         /\ UpgradeWrites(b) => UpgradeWrites(a \o b)
<1>1. SoundWrites(a \o b)
  BY JoinedWritesAreSound DEF SchemaWrites
<1>2. PICK S, T : a \in Seq(S) /\ b \in Seq(T)
  BY DEF SchemaWrites, SoundWrites
<1>3. a \in Seq(S \cup T) /\ b \in Seq(S \cup T)
  BY <1>2, SeqMonotonic
<1> DEFINE c == a \o b
<1>4. /\ Len(a) \in Nat /\ Len(b) \in Nat
      /\ Len(c) = Len(a) + Len(b)
      /\ \A i \in 1..Len(a) + Len(b) :
           c[i] = IF i <= Len(a) THEN a[i] ELSE b[i - Len(a)]
  BY <1>3, ConcatProperties, LenProperties
<1> HIDE DEF c
<1>5. \A i \in 1..Len(c) : SchemaWrite(c[i])
  <2> TAKE i \in 1..Len(c)
  <2>1. CASE i <= Len(a)
    BY <1>4, <2>1 DEF SchemaWrites
  <2>2. CASE i > Len(a)
    <3>1. i - Len(a) \in 1..Len(b) /\ c[i] = b[i - Len(a)]
      BY <1>4, <2>2
    <3> QED
      BY <3>1 DEF SchemaWrites
  <2> QED
    BY <1>4, <2>1, <2>2
<1>6. ASSUME UpgradeWrites(b)
      PROVE  Len(c) \in Nat \ {0} /\ c[Len(c)] = SetVersion(3)
  <2>1. /\ Len(c) \in 1..Len(a) + Len(b) /\ ~ (Len(c) <= Len(a))
        /\ Len(c) - Len(a) = Len(b)
    BY <1>4, <1>6 DEF UpgradeWrites
  <2> QED
    BY <1>4, <1>6, <2>1 DEF UpgradeWrites
<1>7. SchemaWrites(c)
  BY <1>1, <1>5 DEF SchemaWrites, c
<1> QED
  BY <1>6, <1>7 DEF UpgradeWrites, c

LEMMA UpgradeWritesMake ==
  ASSUME NEW t, IsTables(t), NEW ws, UpgradeWrites(ws),
         NEW v \in 0..2, t["user_version"] = {v}
  PROVE  Final(t, ws)
           = [t EXCEPT !["user_version"] = {3},
                       !["objects"] = @ \cup Added("objects", ws)]
<1> DEFINE n == Len(ws)
<1>1. /\ n \in Nat \ {0} /\ ws[n] = SetVersion(3)
      /\ \A i \in 1..n : SchemaWrite(ws[i])
  BY DEF UpgradeWrites, SchemaWrites
<1>2. \A i \in 1..n :
        \/ ws[i].table = "objects" /\ ws[i].remove = {}
        \/ ws[i].table = "user_version" /\ ws[i].add \subseteq {2, 3}
  BY <1>1 DEF SchemaWrite, SetVersion
<1>3. /\ ws[n].table = "user_version" /\ ws[n].add = {3}
      /\ ws[n].remove = 0..2
  BY <1>1 DEF SetVersion
<1> HIDE DEF n
<1>4. Final(t, ws)["user_version"] = {3}
  <2>1. Ends("user_version", 3, t, ws)
    <3>1. n \in 1..n /\ Adds("user_version", 3, ws[n]) /\ n + 1..n = {}
      BY <1>1, <1>3 DEF Adds
    <3> QED
      BY <3>1 DEF Ends, n
  <2>2. ASSUME NEW row, Ends("user_version", row, t, ws), row # 3
        PROVE  FALSE
    <3>1. n \in 1..n
      BY <1>1
    <3>2. ASSUME NEW i \in 1..n, Adds("user_version", row, ws[i])
          PROVE  n \in i + 1..n /\ Removes("user_version", row, ws[n])
      <4>1. row \in {2, 3}
        BY <1>2, <3>2 DEF Adds
      <4>2. i # n
        BY <1>3, <2>2, <3>2 DEF Adds
      <4> QED
        BY <1>1, <1>3, <2>2, <4>1, <4>2 DEF Removes
    <3>3. row \in t["user_version"] => Removes("user_version", row, ws[n])
      BY <1>3 DEF Removes
    <3> QED
      BY <2>2, <3>1, <3>2, <3>3 DEF Ends, n
  <2>3. \A row : row \in Final(t, ws)["user_version"] <=> row = 3
    BY <2>1, <2>2, FinalIsWhereRowsEnd DEF Atomic!Table
  <2> QED
    BY <2>3
<1>5. ASSUME NEW table \in Atomic!Table, table # "user_version"
      PROVE  Final(t, ws)[table] = t[table] \cup Added(table, ws)
  BY <1>2, <1>5, FinalGains DEF n
<1>6. ASSUME NEW table, table \notin {"user_version", "objects"}
      PROVE  Added(table, ws) = {}
  BY <1>2, <1>6 DEF Added, n
<1>7. Final(t, ws) = [table \in Atomic!Table |-> Final(t, ws)[table]]
  BY DEF Final
<1> DEFINE objects == t["objects"] \cup Added("objects", ws)
           made == [t EXCEPT !["user_version"] = {3}, !["objects"] = objects]
<1>8. made = [table \in Atomic!Table |->
                CASE table = "objects"      -> objects
                  [] table = "user_version" -> {3}
                  [] OTHER                  -> t[table]]
  <2> HIDE DEF objects
  <2> QED
    BY DEF IsTables, Atomic!Table
<1>9. ASSUME NEW table \in Atomic!Table
      PROVE  Final(t, ws)[table]
               = CASE table = "objects"      -> objects
                   [] table = "user_version" -> {3}
                   [] OTHER                  -> t[table]
  BY <1>4, <1>5, <1>6
<1> HIDE DEF objects, made
<1>10. Final(t, ws) = made
  BY <1>7, <1>8, <1>9
<1> QED
  BY <1>10 DEF made, objects

LEMMA CreateAdds ==
  ASSUME NEW names, Len(names) \in Nat
  PROVE  /\ SchemaWrites(Create(names))
         /\ Added("objects", Create(names)) = {names[i] : i \in 1..Len(names)}
<1> DEFINE n == Len(names)
           ws == Create(names)
<1>1. SoundWrites(ws)
  BY CreateIsSound
<1>2. Len(ws) = n /\ \A i \in 1..n : ws[i] = Insert("objects", names[i])
  BY DEF Create
<1> HIDE DEF ws
<1>3. ASSUME NEW i \in 1..n
      PROVE  /\ ws[i].table = "objects" /\ ws[i].remove = {}
             /\ ws[i].add = {names[i]}
  <2>1. ws[i] = Insert("objects", names[i])
    BY <1>2
  <2> QED
    BY <2>1 DEF Insert
<1>4. SchemaWrites(ws)
  BY <1>1, <1>2, <1>3 DEF SchemaWrites, SchemaWrite
<1>5. Added("objects", ws) = {names[i] : i \in 1..n}
  BY <1>2, <1>3 DEF Added
<1> QED
  BY <1>4, <1>5 DEF ws

LEMMA SetVersionAdds ==
  ASSUME NEW v \in {2, 3}
  PROVE  /\ SchemaWrites(<<SetVersion(v)>>)
         /\ Added("objects", <<SetVersion(v)>>) = {}
         /\ v = 3 => UpgradeWrites(<<SetVersion(v)>>)
<1> DEFINE w == SetVersion(v)
           ws == <<w>>
<1>1. SoundWrite(w) /\ w.table = "user_version"
  BY DEF SoundWrite, SetVersion, FactTable, Atomic!Table, Atomic!FactTable
<1>2. SoundWrites(ws)
  BY <1>1, OneWriteIsSound
<1>3. Added("objects", ws) = {}
  <2> HIDE DEF w
  <2> QED
    BY <1>1, AddedByOne
<1>4. Len(ws) = 1 /\ ws[1] = w
  OBVIOUS
<1> HIDE DEF ws
<1>5. SchemaWrites(ws)
  BY <1>2, <1>4 DEF SchemaWrites, SchemaWrite
<1>6. v = 3 => UpgradeWrites(ws)
  BY <1>4, <1>5 DEF UpgradeWrites
<1> QED
  BY <1>3, <1>5, <1>6 DEF ws

LEMMA SchemaStages ==
  /\ SchemaWrites(FromEmpty)
  /\ Added("objects", FromEmpty) = Atomic!LegacyObjects
  /\ SchemaWrites(ToVersionOne)
  /\ Atomic!LegacyObjects \cup Added("objects", ToVersionOne)
       = Atomic!VersionOneObjects
  /\ SchemaWrites(ToVersionTwo)
  /\ Atomic!VersionOneObjects \cup Added("objects", ToVersionTwo)
       = Atomic!VersionTwoObjects
  /\ UpgradeWrites(ToCurrent)
  /\ Added("objects", ToCurrent) = {"contacts"}
<1>1. /\ SchemaWrites(FromEmpty)
      /\ Added("objects", FromEmpty) = {"users", "messages"}
  <2> DEFINE names == <<"users", "messages">>
  <2>1. Len(names) = 2 /\ names[1] = "users" /\ names[2] = "messages"
    OBVIOUS
  <2> HIDE DEF names
  <2>2. {names[i] : i \in 1..Len(names)} = {"users", "messages"}
    BY <2>1
  <2>3. FromEmpty = Create(names)
    BY DEF FromEmpty, names
  <2> QED
    BY <2>1, <2>2, <2>3, CreateAdds
<1>2. /\ SchemaWrites(ToVersionOne)
      /\ Added("objects", ToVersionOne)
           = {"chat_groups", "message_history", "message_recipients",
              "idx_message_history_sender",
              "idx_message_recipients_recipient"}
  <2> DEFINE names == <<"chat_groups", "message_history",
                        "message_recipients", "idx_message_history_sender",
                        "idx_message_recipients_recipient">>
  <2>1. /\ Len(names) = 5 /\ names[1] = "chat_groups"
        /\ names[2] = "message_history" /\ names[3] = "message_recipients"
        /\ names[4] = "idx_message_history_sender"
        /\ names[5] = "idx_message_recipients_recipient"
    OBVIOUS
  <2> HIDE DEF names
  <2>2. {names[i] : i \in 1..Len(names)}
          = {"chat_groups", "message_history", "message_recipients",
             "idx_message_history_sender", "idx_message_recipients_recipient"}
    <3>1. 1..5 = {1, 2, 3, 4, 5}
      OBVIOUS
    <3> QED
      BY <2>1, <3>1
  <2>3. ToVersionOne = Create(names)
    BY DEF ToVersionOne, names
  <2> QED
    BY <2>1, <2>2, <2>3, CreateAdds
<1>3. /\ SchemaWrites(ToVersionTwo)
      /\ Added("objects", ToVersionTwo)
           = {"group_members", "idx_group_members_user"}
  <2> DEFINE names == <<"group_members", "idx_group_members_user">>
  <2>1. /\ Len(names) = 2 /\ names[1] = "group_members"
        /\ names[2] = "idx_group_members_user"
    OBVIOUS
  <2> HIDE DEF names
  <2>2. {names[i] : i \in 1..Len(names)}
          = {"group_members", "idx_group_members_user"}
    BY <2>1
  <2>3. ToVersionTwo = Create(names) \o <<SetVersion(2)>>
    BY DEF ToVersionTwo, names
  <2>4. /\ SchemaWrites(Create(names))
        /\ Added("objects", Create(names))
             = {"group_members", "idx_group_members_user"}
    BY <2>1, <2>2, CreateAdds
  <2>5. /\ SchemaWrites(<<SetVersion(2)>>)
        /\ Added("objects", <<SetVersion(2)>>) = {}
    BY SetVersionAdds
  <2>6. /\ SchemaWrites(ToVersionTwo)
        /\ Added("objects", ToVersionTwo)
             = Added("objects", Create(names))
                 \cup Added("objects", <<SetVersion(2)>>)
    BY <2>3, <2>4, <2>5, JoinedSchemaWrites, AddedByBoth DEF SchemaWrites
  <2> QED
    BY <2>4, <2>5, <2>6
<1>4. /\ UpgradeWrites(ToCurrent)
      /\ Added("objects", ToCurrent) = {"contacts"}
  <2> DEFINE names == <<"contacts">>
  <2>1. Len(names) = 1 /\ names[1] = "contacts"
    OBVIOUS
  <2> HIDE DEF names
  <2>2. {names[i] : i \in 1..Len(names)} = {"contacts"}
    BY <2>1
  <2>3. ToCurrent = Create(names) \o <<SetVersion(3)>>
    BY DEF ToCurrent, names
  <2>4. /\ SchemaWrites(Create(names))
        /\ Added("objects", Create(names)) = {"contacts"}
    BY <2>1, <2>2, CreateAdds
  <2>5. /\ UpgradeWrites(<<SetVersion(3)>>)
        /\ SchemaWrites(<<SetVersion(3)>>)
        /\ Added("objects", <<SetVersion(3)>>) = {}
    BY SetVersionAdds
  <2>6. /\ UpgradeWrites(ToCurrent)
        /\ Added("objects", ToCurrent)
             = Added("objects", Create(names))
                 \cup Added("objects", <<SetVersion(3)>>)
    BY <2>3, <2>4, <2>5, JoinedSchemaWrites, AddedByBoth DEF SchemaWrites
  <2> QED
    BY <2>4, <2>5, <2>6
<1> QED
  BY <1>1, <1>2, <1>3, <1>4
  DEF Atomic!LegacyObjects, Atomic!VersionOneObjects, Atomic!VersionTwoObjects

LEMMA InitializeSchemaMakes ==
  ASSUME NEW t, IsTables(t), NEW v, t["user_version"] = {v},
         InitializeSchema(t).result = "done"
  PROVE  \/ Final(t, InitializeSchema(t).writes) = t
         \/ /\ Atomic!Upgradable(t)
            /\ Final(t, InitializeSchema(t).writes)
                 = [t EXCEPT !["user_version"] = {Atomic!CurrentSchemaVersion},
                             !["objects"] = @ \cup Atomic!CurrentObjects]
<1> DEFINE ob == Objects(t)
           three == ToVersionTwo \o ToCurrent
           two == ToVersionOne \o ToVersionTwo \o ToCurrent
           all == FromEmpty \o ToVersionOne \o ToVersionTwo \o ToCurrent
           Upgraded(ws) ==
             /\ Atomic!Upgradable(t)
             /\ Final(t, ws)
                  = [t EXCEPT
                      !["user_version"] = {Atomic!CurrentSchemaVersion},
                      !["objects"] = @ \cup Atomic!CurrentObjects]
<1>1. Version(t) = v
  BY DEF Version, Atomic!Version
<1>2. /\ UpgradeWrites(three)
      /\ Added("objects", three)
           = Added("objects", ToVersionTwo) \cup Added("objects", ToCurrent)
  BY SchemaStages, JoinedSchemaWrites, AddedByBoth
  DEF SchemaWrites, UpgradeWrites
<1>3. /\ UpgradeWrites(two)
      /\ Added("objects", two)
           = Added("objects", ToVersionOne)
               \cup Added("objects", ToVersionTwo)
               \cup Added("objects", ToCurrent)
  <2> DEFINE a == ToVersionOne \o ToVersionTwo
  <2>1. /\ SchemaWrites(a)
        /\ Added("objects", a)
             = Added("objects", ToVersionOne)
                 \cup Added("objects", ToVersionTwo)
    BY SchemaStages, JoinedSchemaWrites, AddedByBoth DEF SchemaWrites
  <2>2. two = a \o ToCurrent
    OBVIOUS
  <2> HIDE DEF a, two
  <2>3. /\ UpgradeWrites(two)
        /\ Added("objects", two)
             = Added("objects", a) \cup Added("objects", ToCurrent)
    BY <2>1, <2>2, SchemaStages, JoinedSchemaWrites, AddedByBoth
    DEF SchemaWrites, UpgradeWrites
  <2> QED
    BY <2>1, <2>3
<1>4. /\ UpgradeWrites(all)
      /\ Added("objects", all)
           = Added("objects", FromEmpty)
               \cup Added("objects", ToVersionOne)
               \cup Added("objects", ToVersionTwo)
               \cup Added("objects", ToCurrent)
  <2> DEFINE a == FromEmpty \o ToVersionOne
             b == a \o ToVersionTwo
  <2>1. /\ SchemaWrites(a)
        /\ Added("objects", a)
             = Added("objects", FromEmpty) \cup Added("objects", ToVersionOne)
    BY SchemaStages, JoinedSchemaWrites, AddedByBoth DEF SchemaWrites
  <2>2. all = b \o ToCurrent
    OBVIOUS
  <2> HIDE DEF a, all
  <2>3. /\ SchemaWrites(b)
        /\ Added("objects", b)
             = Added("objects", a) \cup Added("objects", ToVersionTwo)
    BY <2>1, SchemaStages, JoinedSchemaWrites, AddedByBoth DEF SchemaWrites
  <2> HIDE DEF b
  <2>4. /\ UpgradeWrites(all)
        /\ Added("objects", all)
             = Added("objects", b) \cup Added("objects", ToCurrent)
    BY <2>2, <2>3, SchemaStages, JoinedSchemaWrites, AddedByBoth
    DEF SchemaWrites, UpgradeWrites
  <2> QED
    BY <2>1, <2>3, <2>4
<1>5. Atomic!CurrentObjects = Atomic!VersionTwoObjects \cup {"contacts"}
  BY DEF Atomic!CurrentObjects
<1>6. Atomic!LegacyObjects \subseteq Atomic!VersionOneObjects
  BY DEF Atomic!VersionOneObjects
<1>7. Atomic!VersionOneObjects \subseteq Atomic!VersionTwoObjects
  BY DEF Atomic!VersionTwoObjects
<1> HIDE DEF three, two, all
<1>8. ASSUME NEW ws, UpgradeWrites(ws), v \in 0..2, Atomic!Upgradable(t),
             ob \cup Added("objects", ws) = ob \cup Atomic!CurrentObjects
      PROVE  Upgraded(ws)
  <2>1. Final(t, ws)
          = [t EXCEPT !["user_version"] = {3},
                      !["objects"] = @ \cup Added("objects", ws)]
    BY <1>8, UpgradeWritesMake
  <2> QED
    BY <1>8, <2>1 DEF Objects, Atomic!CurrentSchemaVersion
<1> HIDE DEF Upgraded
<1>9. CASE Version(t) = 0 /\ ob = {}
  <2>1. InitializeSchema(t).writes = all
    <3>1. ob # Atomic!LegacyObjects
      BY <1>9 DEF Atomic!LegacyObjects
    <3> QED
      BY <1>9, <3>1 DEF InitializeSchema, Plan, Objects, all
  <2>2. Atomic!Upgradable(t)
    BY <1>9 DEF Atomic!Upgradable, Version, Objects
  <2>3. Upgraded(all)
    BY <1>1, <1>4, <1>5, <1>6, <1>7, <1>8, <1>9, <2>2, SchemaStages
  <2> QED
    BY <2>1, <2>3 DEF Upgraded
<1>10. CASE Version(t) = 0 /\ ob = Atomic!LegacyObjects
  <2>1. InitializeSchema(t).writes = two
    <3>1. ob # {}
      BY <1>10 DEF Atomic!LegacyObjects
    <3> QED
      BY <1>10, <3>1 DEF InitializeSchema, Plan, Objects, two
  <2>2. Atomic!Upgradable(t)
    BY <1>10 DEF Atomic!Upgradable, Version, Objects
  <2>3. Upgraded(two)
    BY <1>1, <1>3, <1>5, <1>6, <1>7, <1>8, <1>10, <2>2, SchemaStages
  <2> QED
    BY <2>1, <2>3 DEF Upgraded
<1>11. CASE /\ Version(t) = 1 /\ Has(Atomic!VersionOneObjects, t)
            /\ "group_members" \notin ob /\ "contacts" \notin ob
  <2>1. InitializeSchema(t).writes = three
    BY <1>11 DEF InitializeSchema, Plan, Objects, three
  <2>2. Atomic!Upgradable(t)
    BY <1>11 DEF Atomic!Upgradable, Version, Objects, Has
  <2>3. Upgraded(three)
    BY <1>1, <1>2, <1>5, <1>6, <1>7, <1>8, <1>11, <2>2, SchemaStages DEF Has
  <2> QED
    BY <2>1, <2>3 DEF Upgraded
<1>12. CASE /\ Version(t) = 2 /\ Has(Atomic!VersionTwoObjects, t)
            /\ "contacts" \notin ob
  <2>1. InitializeSchema(t).writes = ToCurrent
    BY <1>12 DEF InitializeSchema, Plan, Objects
  <2>2. Atomic!Upgradable(t)
    BY <1>12 DEF Atomic!Upgradable, Version, Objects, Has
  <2>3. Upgraded(ToCurrent)
    BY <1>1, <1>5, <1>8, <1>12, <2>2, SchemaStages DEF Has
  <2> QED
    BY <2>1, <2>3 DEF Upgraded
<1>13. CASE Version(t) = 3 /\ Has(Atomic!CurrentObjects, t)
  BY <1>13, FinalOfNothing DEF InitializeSchema, Answer, Plan
<1>14. \/ Version(t) = 0 /\ ob = {}
       \/ Version(t) = 0 /\ ob = Atomic!LegacyObjects
       \/ /\ Version(t) = 1 /\ Has(Atomic!VersionOneObjects, t)
          /\ "group_members" \notin ob /\ "contacts" \notin ob
       \/ /\ Version(t) = 2 /\ Has(Atomic!VersionTwoObjects, t)
          /\ "contacts" \notin ob
       \/ Version(t) = 3 /\ Has(Atomic!CurrentObjects, t)
  BY DEF InitializeSchema, Refuse
<1> QED
  BY <1>9, <1>10, <1>11, <1>12, <1>13, <1>14

-----------------------------------------------------------------------------
(* The import of the legacy messages.                                      *)

LEMMA SameCardinality ==
  ASSUME NEW S PROVE Atomic!Cardinality(S) = Cardinality(S)
BY DEF Cardinality, Atomic!Cardinality

DistinctIds(rows) == \A q, r \in rows : q.id = r.id => q = r

LEMMA LegacyRowsAreFinite ==
  ASSUME NEW t, IsTables(t)
  PROVE  /\ IsFiniteSet(t["messages"])
         /\ \A r \in t["messages"] : r.id \in Nat \ {0} /\ r.receiver \in User
<1>1. t["messages"] \in SUBSET LegacyRow
  BY DEF IsTables
<1> QED
  BY <1>1, FiniteAssumption, LegacyRowAssumption, FS_Subset

\* The ranks number the rows in the order of their ids.
LEMMA RanksNumberTheRows ==
  ASSUME NEW t, IsTables(t), DistinctIds(t["messages"])
  PROVE  LET rows == t["messages"]
             n == Cardinality(rows)
         IN /\ n \in Nat
            /\ \A r \in rows : Atomic!Rank(t, r) \in 1..n
            /\ \A q, r \in rows : Atomic!Rank(t, q) = Atomic!Rank(t, r) => q = r
            /\ \A i \in 1..n : \E r \in rows : Atomic!Rank(t, r) = i
<1> DEFINE rows == t["messages"]
           n == Cardinality(rows)
           Upto(r) == {q \in rows : q.id <= r.id}
           rank == [r \in rows |-> Cardinality(Upto(r))]
<1>1. IsFiniteSet(rows) /\ n \in Nat /\ \A r \in rows : r.id \in Nat
  BY LegacyRowsAreFinite, FS_CardinalityType
<1>2. \A q, r \in rows : q.id = r.id => q = r
  BY DEF DistinctIds
<1>3. ASSUME NEW r \in rows PROVE Atomic!Rank(t, r) = rank[r]
  <2>1. Atomic!Rank(t, r) = Cardinality(Upto(r))
    BY SameCardinality DEF Atomic!Rank
  <2> HIDE DEF Upto
  <2> QED
    BY <2>1
<1>4. ASSUME NEW r \in rows
      PROVE  /\ IsFiniteSet(Upto(r)) /\ Upto(r) \subseteq rows /\ r \in Upto(r)
             /\ rank[r] = Cardinality(Upto(r)) /\ rank[r] \in 1..n
  <2>1. Upto(r) \in SUBSET rows /\ r \in Upto(r)
    BY <1>1
  <2>2. IsFiniteSet(Upto(r)) /\ Cardinality(Upto(r)) <= n
    BY <1>1, <2>1, FS_Subset
  <2>3. Cardinality(Upto(r)) \in Nat /\ Cardinality(Upto(r)) # 0
    BY <2>1, <2>2, FS_CardinalityType, FS_EmptySet
  <2> QED
    BY <1>1, <2>1, <2>2, <2>3
<1> HIDE DEF rows, n
<1>5. ASSUME NEW q \in rows, NEW r \in rows, q.id < r.id
      PROVE  rank[q] # rank[r]
  <2>1. Upto(q) \in SUBSET Upto(r)
    BY <1>1, <1>5
  <2>2. r \notin Upto(q)
    BY <1>1, <1>5
  <2>3. Cardinality(Upto(r)) # Cardinality(Upto(q))
    BY <1>4, <2>1, <2>2, FS_Subset
  <2> QED
    BY <1>4, <2>3
<1>6. \A q, r \in rows : rank[q] = rank[r] => q = r
  BY <1>1, <1>2, <1>5
<1>7. rank \in [rows -> 1..n]
  BY <1>4
<1> HIDE DEF rank
<1>8. rank \in Injection(rows, 1..n)
  BY <1>6, <1>7 DEF Injection, IsInjective
<1>9. IsFiniteSet(1..n) /\ Cardinality(1..n) = n
  BY <1>1, FS_Interval
<1>10. rank \in Surjection(rows, 1..n)
  BY <1>8, <1>9, FS_Injection DEF n
<1>11. \A i \in 1..n : \E r \in rows : rank[r] = i
  BY <1>10 DEF Surjection
<1> QED
  BY <1>1, <1>3, <1>6, <1>7, <1>11 DEF rows, n

LEMMA ImportMakes ==
  ASSUME NEW t, IsTables(t), DistinctIds(t["messages"]),
         ImportLegacyMessages(t).result = "done"
  PROVE  LET moved == {<<r, Atomic!Imported(t, r)>> : r \in t["messages"]}
         IN /\ \A r \in t["messages"] : Atomic!Importable(t, r)
            /\ Final(t, ImportLegacyMessages(t).writes)
                 = [t EXCEPT
                     !["messages"] = {},
                     !["message_history"] = @ \cup {p[2] : p \in moved},
                     !["message_recipients"] =
                       @ \cup {<<p[2].id, p[1].receiver>> : p \in moved}]
<1> DEFINE rows == t["messages"]
           n == Cardinality(rows)
           good == {r \in rows : \A q \in rows :
                      q.id <= r.id => Atomic!Importable(t, q)}
           Row(i) == CHOOSE r \in good : Atomic!Rank(t, r) = i
           Copy(r) == Atomic!Imported(t, r)
           To(r) == <<Copy(r).id, r.receiver>>
           Third(k) == (k + 2) \div 3
           W(k) == CASE k % 3 = 1 -> Insert("message_history", Copy(Row(Third(k))))
                     [] k % 3 = 2 -> Insert("message_recipients", To(Row(Third(k))))
                     [] OTHER     -> Delete("messages", Row(Third(k)))
           ws == [k \in 1..3 * Cardinality(good) |-> W(k)]
<1>1. ImportLegacyMessages(t) = IF good = rows THEN Plan(ws, {}) ELSE Refuse(ws)
  BY DEF ImportLegacyMessages
<1>2. good = rows /\ ImportLegacyMessages(t).writes = ws
  <2> HIDE DEF good, ws
  <2> QED
    BY <1>1 DEF Plan, Refuse
<1>3. \A r \in rows : Atomic!Importable(t, r)
  <2>1. \A r \in rows : r.id \in Nat
    BY LegacyRowsAreFinite
  <2>2. \A r \in rows : r.id <= r.id
    BY <2>1
  <2> QED
    BY <1>2, <2>2
<1>4. /\ n \in Nat
      /\ \A r \in rows : Atomic!Rank(t, r) \in 1..n
      /\ \A q, r \in rows : Atomic!Rank(t, q) = Atomic!Rank(t, r) => q = r
      /\ \A i \in 1..n : \E r \in rows : Atomic!Rank(t, r) = i
  BY RanksNumberTheRows
<1> HIDE DEF good
<1>5. /\ \A i \in 1..n : Row(i) \in rows
      /\ \A r \in rows : \E i \in 1..n : Row(i) = r
  <2>1. ASSUME NEW i \in 1..n
        PROVE  Row(i) \in rows /\ Atomic!Rank(t, Row(i)) = i
    BY <1>2, <1>4
  <2> HIDE DEF Row
  <2> QED
    BY <1>4, <2>1
<1>6. Len(ws) = 3 * n /\ \A k \in 1..3 * n : ws[k] = W(k)
  <2>1. ws = [k \in 1..3 * n |-> W(k)]
    BY <1>2
  <2>2. 3 * n \in Nat
    BY <1>4
  <2> HIDE DEF ws, W
  <2> QED
    BY <2>1, <2>2
<1> HIDE DEF ws, rows, n, Row, Copy, To, Third
<1>7. ASSUME NEW i \in 1..n
      PROVE  /\ 3 * i - 2 \in 1..3 * n
             /\ W(3 * i - 2) = Insert("message_history", Copy(Row(i)))
             /\ 3 * i - 1 \in 1..3 * n
             /\ W(3 * i - 1) = Insert("message_recipients", To(Row(i)))
             /\ 3 * i \in 1..3 * n
             /\ W(3 * i) = Delete("messages", Row(i))
  <2>1. /\ (3 * i - 2) % 3 = 1 /\ (3 * i - 1) % 3 = 2 /\ (3 * i) % 3 = 0
        /\ 3 * i - 2 \in 1..3 * n /\ 3 * i - 1 \in 1..3 * n
        /\ 3 * i \in 1..3 * n
    BY <1>4
  <2>2. /\ Third(3 * i - 2) = i /\ Third(3 * i - 1) = i /\ Third(3 * i) = i
    BY <1>4 DEF Third
  <2>3. W(3 * i - 2) = Insert("message_history", Copy(Row(i)))
    BY <2>1, <2>2
  <2>4. W(3 * i - 1) = Insert("message_recipients", To(Row(i)))
    BY <2>1, <2>2
  <2>5. W(3 * i) = Delete("messages", Row(i))
    BY <2>1, <2>2
  <2> QED
    BY <2>1, <2>3, <2>4, <2>5
<1>8. ASSUME NEW k \in 1..3 * n
      PROVE  \E i \in 1..n : k \in {3 * i - 2, 3 * i - 1, 3 * i}
  <2> DEFINE i == (k + 2) \div 3
  <2>1. i \in 1..n /\ k \in {3 * i - 2, 3 * i - 1, 3 * i}
    BY <1>4
  <2> QED
    BY <2>1
<1> HIDE DEF W
\* The three kinds of writes, by the rows they are about.
<1>9. ASSUME NEW r \in rows
      PROVE  /\ \E k \in 1..3 * n : ws[k] = Insert("message_history", Copy(r))
             /\ \E k \in 1..3 * n : ws[k] = Insert("message_recipients", To(r))
             /\ \E k \in 1..3 * n : ws[k] = Delete("messages", r)
  <2>1. PICK i \in 1..n : Row(i) = r
    BY <1>5
  <2> QED
    BY <1>6, <1>7, <2>1
<1>10. ASSUME NEW k \in 1..3 * n
       PROVE  \E r \in rows : ws[k] \in {Insert("message_history", Copy(r)),
                                         Insert("message_recipients", To(r)),
                                         Delete("messages", r)}
  <2>1. PICK i \in 1..n : k \in {3 * i - 2, 3 * i - 1, 3 * i}
    BY <1>8
  <2>2. Row(i) \in rows
    BY <1>5
  <2> QED
    BY <1>6, <1>7, <2>1, <2>2
<1>11. ASSUME NEW r
       PROVE  /\ Insert("message_history", Copy(r))
                   = [table |-> "message_history", add |-> {Copy(r)},
                      remove |-> {}]
              /\ Insert("message_recipients", To(r))
                   = [table |-> "message_recipients", add |-> {To(r)},
                      remove |-> {}]
              /\ Delete("messages", r)
                   = [table |-> "messages", add |-> {}, remove |-> {r}]
  BY DEF Insert, Delete
<1>12. Added("message_history", ws) = {Copy(r) : r \in rows}
  <2>1. ASSUME NEW k \in 1..3 * n, ws[k].table = "message_history"
        PROVE  \E r \in rows : ws[k].add = {Copy(r)}
    <3>1. PICK r \in rows : ws[k] \in {Insert("message_history", Copy(r)),
                                       Insert("message_recipients", To(r)),
                                       Delete("messages", r)}
      BY <1>10
    <3> QED
      BY <1>11, <2>1, <3>1
  <2>2. ASSUME NEW r \in rows
        PROVE  \E k \in 1..3 * n : /\ ws[k].table = "message_history"
                                   /\ ws[k].add = {Copy(r)}
    BY <1>9, <1>11
  <2>3. ASSUME NEW x \in Added("message_history", ws)
        PROVE  x \in {Copy(r) : r \in rows}
    <3>1. PICK k \in 1..3 * n : ws[k].table = "message_history" /\ x \in ws[k].add
      BY <1>6 DEF Added
    <3> QED
      BY <2>1, <3>1
  <2>4. ASSUME NEW r \in rows PROVE Copy(r) \in Added("message_history", ws)
    BY <1>6, <2>2 DEF Added
  <2> QED
    BY <2>3, <2>4
<1>13. Added("message_recipients", ws) = {To(r) : r \in rows}
  <2>1. ASSUME NEW k \in 1..3 * n, ws[k].table = "message_recipients"
        PROVE  \E r \in rows : ws[k].add = {To(r)}
    <3>1. PICK r \in rows : ws[k] \in {Insert("message_history", Copy(r)),
                                       Insert("message_recipients", To(r)),
                                       Delete("messages", r)}
      BY <1>10
    <3> QED
      BY <1>11, <2>1, <3>1
  <2>2. ASSUME NEW r \in rows
        PROVE  \E k \in 1..3 * n : /\ ws[k].table = "message_recipients"
                                   /\ ws[k].add = {To(r)}
    BY <1>9, <1>11
  <2>3. ASSUME NEW x \in Added("message_recipients", ws)
        PROVE  x \in {To(r) : r \in rows}
    <3>1. PICK k \in 1..3 * n :
            ws[k].table = "message_recipients" /\ x \in ws[k].add
      BY <1>6 DEF Added
    <3> QED
      BY <2>1, <3>1
  <2>4. ASSUME NEW r \in rows PROVE To(r) \in Added("message_recipients", ws)
    BY <1>6, <2>2 DEF Added
  <2> QED
    BY <2>3, <2>4
<1>14. Final(t, ws)["messages"] = {}
  <2>1. ASSUME NEW row PROVE ~ Ends("messages", row, t, ws)
    <3>1. ASSUME NEW k \in 1..3 * n PROVE ~ Adds("messages", row, ws[k])
      <4>1. PICK r \in rows : ws[k] \in {Insert("message_history", Copy(r)),
                                         Insert("message_recipients", To(r)),
                                         Delete("messages", r)}
        BY <1>10
      <4> QED
        BY <1>11, <4>1 DEF Adds
    <3>2. ASSUME row \in rows
          PROVE  \E k \in 1..3 * n : Removes("messages", row, ws[k])
      BY <1>9, <1>11, <3>2 DEF Removes
    <3> QED
      BY <1>6, <3>1, <3>2 DEF Ends, rows
  <2> QED
    BY <2>1, FinalIsWhereRowsEnd DEF Atomic!Table
<1>15. ASSUME NEW table \in Atomic!Table, table # "messages"
       PROVE  Final(t, ws)[table] = t[table] \cup Added(table, ws)
  <2>1. ASSUME NEW k \in 1..3 * n, ws[k].table = table PROVE ws[k].remove = {}
    <3>1. PICK r \in rows : ws[k] \in {Insert("message_history", Copy(r)),
                                       Insert("message_recipients", To(r)),
                                       Delete("messages", r)}
      BY <1>10
    <3> QED
      BY <1>11, <1>15, <2>1, <3>1
  <2> QED
    BY <1>6, <2>1, FinalGains
<1>16. ASSUME NEW table,
              table \notin {"messages", "message_history", "message_recipients"}
       PROVE  Added(table, ws) = {}
  <2>1. ASSUME NEW k \in 1..3 * n PROVE ws[k].table # table
    <3>1. PICK r \in rows : ws[k] \in {Insert("message_history", Copy(r)),
                                       Insert("message_recipients", To(r)),
                                       Delete("messages", r)}
      BY <1>10
    <3> QED
      BY <1>11, <1>16, <3>1
  <2> QED
    BY <1>6, <2>1 DEF Added
<1>17. Final(t, ws) = [table \in Atomic!Table |-> Final(t, ws)[table]]
  BY DEF Final
<1> DEFINE history == t["message_history"] \cup {Copy(r) : r \in rows}
           recipients == t["message_recipients"] \cup {To(r) : r \in rows}
           made == [t EXCEPT !["messages"] = {},
                             !["message_history"] = history,
                             !["message_recipients"] = recipients]
<1>18. made = [table \in Atomic!Table |->
                 CASE table = "messages"           -> {}
                   [] table = "message_history"    -> history
                   [] table = "message_recipients" -> recipients
                   [] OTHER                        -> t[table]]
  <2> HIDE DEF history, recipients
  <2> QED
    BY DEF IsTables, Atomic!Table, Atomic!FactTable
<1>19. ASSUME NEW table \in Atomic!Table
       PROVE  Final(t, ws)[table]
                = CASE table = "messages"           -> {}
                    [] table = "message_history"    -> history
                    [] table = "message_recipients" -> recipients
                    [] OTHER                        -> t[table]
  BY <1>12, <1>13, <1>14, <1>15, <1>16
<1>20. Final(t, ws) = made
  <2> HIDE DEF history, recipients, made
  <2> QED
    BY <1>17, <1>18, <1>19
<1> DEFINE moved == {<<r, Copy(r)>> : r \in rows}
<1>21. /\ {p[2] : p \in moved} = {Copy(r) : r \in rows}
       /\ {<<p[2].id, p[1].receiver>> : p \in moved} = {To(r) : r \in rows}
  <2>1. \A r : <<r, Copy(r)>>[1] = r /\ <<r, Copy(r)>>[2] = Copy(r)
    OBVIOUS
  <2>2. \A p \in moved : \E r \in rows : p[1] = r /\ p[2] = Copy(r)
    BY <2>1
  <2>3. \A r \in rows : \E p \in moved : p[1] = r /\ p[2] = Copy(r)
    BY <2>1
  <2> HIDE DEF moved
  <2>4. {p[2] : p \in moved} = {Copy(r) : r \in rows}
    BY <2>2, <2>3
  <2>5. {<<p[2].id, p[1].receiver>> : p \in moved}
          = {<<Copy(r).id, r.receiver>> : r \in rows}
    BY <2>2, <2>3
  <2> QED
    BY <2>4, <2>5 DEF To
<1>22. made = [t EXCEPT
                !["messages"] = {},
                !["message_history"] = @ \cup {p[2] : p \in moved},
                !["message_recipients"] =
                  @ \cup {<<p[2].id, p[1].receiver>> : p \in moved}]
  BY <1>21
<1> QED
  BY <1>2, <1>3, <1>20, <1>22 DEF rows, Copy

-----------------------------------------------------------------------------
(* Every request is a step of AtomicStore.                                 *)

LEMMA FileHasDistinctIds ==
  FileIsSound => DistinctIds(disk["messages"])
BY FileAssumption DEF FileIsSound, IsFile, DistinctIds

LEMMA PlanIsAtomic ==
  ASSUME TypeOK, FileIsSound, request \in Request \cup Startup,
         ~ Autocommit(request), PlanOf(request, disk).result = "done",
         disk' = Final(disk, PlanOf(request, disk).writes)
  PROVE  Atomic!Next \/ disk' = disk
<1> DEFINE u == request.user
           x == request.subject
<1>1. IsTables(disk)
  BY DEF TypeOK
<1>2. /\ request.kind = "createGroup" => u \in User /\ x \in Group
      /\ request.kind = "joinGroup" => u \in User /\ x \in Group
      /\ request.kind = "acceptGroupMessage" => u \in User /\ x \in Group
      /\ request.kind = "addContact" => u \in User /\ x \in User
      /\ request.kind = "acceptPrivateMessage" => u \in User /\ x \in User
      /\ request.kind = "acceptBroadcastMessage" => u \in User
  BY DEF Request, Startup
<1>3. request.kind \in {"initializeSchema", "importLegacyMessages",
        "createGroup", "joinGroup", "listGroupsForUser", "addContact",
        "acceptPrivateMessage", "acceptGroupMessage",
        "acceptBroadcastMessage", "acknowledgeMessage"}
  BY DEF Request, Startup, Autocommit
<1> HIDE DEF u, x
<1>4. CASE request.kind = "initializeSchema"
  <2>1. PlanOf(request, disk) = InitializeSchema(disk)
    BY <1>4 DEF PlanOf
  <2>2. PICK v : disk["user_version"] = {v}
    BY DEF FileIsSound
  <2>3. disk' = disk \/ Atomic!Upgrade
    BY <1>1, <2>1, <2>2, InitializeSchemaMakes DEF Atomic!Upgrade
  <2> QED
    BY <2>3 DEF Atomic!Next
<1>5. CASE request.kind = "importLegacyMessages"
  <2>1. PlanOf(request, disk) = ImportLegacyMessages(disk)
    BY <1>5 DEF PlanOf
  <2>2. Atomic!Import
    BY <1>1, <2>1, ImportMakes, FileHasDistinctIds DEF Atomic!Import
  <2> QED
    BY <2>2 DEF Atomic!Next
<1>6. CASE request.kind = "createGroup"
  <2>1. PlanOf(request, disk) = CreateGroup(u, x, disk)
    BY <1>6 DEF PlanOf, u, x
  <2>2. disk' = disk \/ Atomic!CreateGroup(u, x)
    BY <1>1, <2>1, CreateGroupMakes DEF Atomic!CreateGroup
  <2> QED
    BY <1>2, <1>6, <2>2 DEF Atomic!Next
<1>7. CASE request.kind = "joinGroup"
  <2>1. PlanOf(request, disk) = JoinGroup(u, x, disk)
    BY <1>7 DEF PlanOf, u, x
  <2>2. disk' = disk \/ Atomic!JoinGroup(u, x)
    BY <1>1, <2>1, JoinGroupMakes DEF Atomic!JoinGroup
  <2> QED
    BY <1>2, <1>7, <2>2 DEF Atomic!Next
<1>8. CASE request.kind = "listGroupsForUser"
  <2>1. PlanOf(request, disk).writes = <<>>
    BY <1>8 DEF PlanOf, ListGroups, Answer, Plan
  <2> QED
    BY <1>1, <2>1, FinalOfNothing
<1>9. CASE request.kind = "addContact"
  <2>1. PlanOf(request, disk) = AddContact(u, x, disk)
    BY <1>9 DEF PlanOf, u, x
  <2>2. disk' = disk \/ Atomic!AddContact(u, x)
    BY <1>1, <2>1, AddContactMakes DEF Atomic!AddContact
  <2> QED
    BY <1>2, <1>9, <2>2 DEF Atomic!Next
<1>10. CASE request.kind = "acceptPrivateMessage"
  <2>1. PlanOf(request, disk) = AcceptPrivate(u, x, disk)
    BY <1>10 DEF PlanOf, u, x
  <2>2. CASE ~ {u, x} \subseteq disk["users"] \/ u = x
    BY <1>1, <2>1, <2>2, FinalOfNothing DEF AcceptPrivate, Answer, Plan
  <2>3. CASE {u, x} \subseteq disk["users"] /\ u # x
    <3>1. AcceptPrivate(u, x, disk)
            = Accept("PRIVATE", u, NoGroup, {x}, disk)
      BY <2>3 DEF AcceptPrivate
    <3>2. IsFiniteSet({x})
      BY FS_Singleton
    <3>3. Atomic!AcceptPrivate(u, x)
      BY <1>1, <2>1, <2>3, <3>1, <3>2, AcceptMakes
      DEF Atomic!AcceptPrivate, Atomic!Accept
    <3> QED
      BY <1>2, <1>10, <3>3 DEF Atomic!Next
  <2> QED
    BY <2>2, <2>3
<1>11. CASE request.kind = "acceptGroupMessage"
  <2>1. PlanOf(request, disk) = AcceptGroup(u, x, disk)
    BY <1>11 DEF PlanOf, u, x
  <2>2. CASE u \notin disk["users"] \/ u \notin Atomic!Members(disk, x)
    BY <1>1, <2>1, <2>2, FinalOfNothing DEF AcceptGroup, Answer, Plan
  <2>3. CASE u \in disk["users"] /\ u \in Atomic!Members(disk, x)
    <3>1. AcceptGroup(u, x, disk)
            = Accept("GROUP", u, x, Atomic!Members(disk, x) \ {u}, disk)
      BY <2>3 DEF AcceptGroup
    <3>2. IsFiniteSet(Atomic!Members(disk, x) \ {u})
      BY FiniteAssumption, FS_Subset DEF Atomic!Members
    <3>3. Atomic!AcceptGroup(u, x)
      BY <1>1, <2>1, <2>3, <3>1, <3>2, AcceptMakes
      DEF Atomic!AcceptGroup, Atomic!Accept
    <3> QED
      BY <1>2, <1>11, <3>3 DEF Atomic!Next
  <2> QED
    BY <2>2, <2>3
<1>12. CASE request.kind = "acceptBroadcastMessage"
  <2>1. PlanOf(request, disk) = AcceptBroadcast(u, disk)
    BY <1>12 DEF PlanOf, u
  <2>2. CASE u \notin disk["users"]
    BY <1>1, <2>1, <2>2, FinalOfNothing DEF AcceptBroadcast, Answer, Plan
  <2>3. CASE u \in disk["users"]
    <3>1. AcceptBroadcast(u, disk)
            = Accept("BROADCAST", u, NoGroup, disk["users"] \ {u}, disk)
      BY <2>3 DEF AcceptBroadcast
    <3>2. IsFiniteSet(disk["users"] \ {u})
      BY <1>1, FiniteAssumption, FS_Subset DEF IsTables
    <3>3. Atomic!AcceptBroadcast(u)
      BY <1>1, <2>1, <2>3, <3>1, <3>2, AcceptMakes
      DEF Atomic!AcceptBroadcast, Atomic!Accept
    <3> QED
      BY <1>2, <1>12, <3>3 DEF Atomic!Next
  <2> QED
    BY <2>2, <2>3
<1>13. CASE request.kind = "acknowledgeMessage"
  <2>1. PlanOf(request, disk) = Acknowledge(u, x, disk)
    BY <1>13 DEF PlanOf, u, x
  <2>2. \/ disk' = disk
        \/ /\ <<x, u>> \in disk["message_recipients"]
           /\ Atomic!Acknowledge(u, x)
    BY <1>1, <2>1, AcknowledgeMakes DEF Atomic!Acknowledge
  <2>3. ASSUME <<x, u>> \in disk["message_recipients"],
               Atomic!Acknowledge(u, x)
        PROVE  \E p \in disk["message_recipients"] :
                 Atomic!Acknowledge(p[2], p[1])
    <3>1. <<x, u>>[1] = x /\ <<x, u>>[2] = u
      OBVIOUS
    <3> HIDE DEF Atomic!Acknowledge
    <3> QED
      BY <2>3, <3>1
  <2> QED
    BY <2>2, <2>3 DEF Atomic!Next
<1> QED
  BY <1>3, <1>4, <1>5, <1>6, <1>7, <1>8, <1>9, <1>10, <1>11, <1>12, <1>13

LEMMA StepIsAtomic ==
  ASSUME IInv, PlanIsCarriedOut, FileIsSound, [Next]_vars
  PROVE  Atomic!Next \/ disk' = disk
<1> USE DEF txnVars, jobVars, pastVars
<1>1. CASE Commit
  <2>1. /\ request \in Request \cup Startup /\ ~ Autocommit(request)
        /\ PlanOf(request, disk).result = "done"
        /\ Final(work, <<>>) = Final(disk, PlanOf(request, disk).writes)
        /\ disk' = work
    BY <1>1 DEF Commit, PlanIsCarriedOut
  <2>2. Final(work, <<>>) = work
    BY FinalOfNothing DEF IInv, TypeOK
  <2>3. TypeOK
    BY DEF IInv
  <2> QED
    BY <2>1, <2>2, <2>3, PlanIsAtomic
<1>2. CASE Single
  <2> DEFINE u == request.user
  <2>1. work = disk /\ ~ inTxn /\ IsTables(disk)
    BY <1>2 DEF Single, IInv, TransactionFollowsStep, WorkFollowsDisk, TypeOK
  <2>2. request \in Request
    BY <1>2 DEF Single, IInv, RequestFollowsPhase, TypeOK
  <2>3. CASE request.kind = "insertUser" /\ u \notin disk["users"]
    <3>1. u \in User
      BY <2>2, <2>3 DEF Request
    <3>2. disk' = Apply(Insert("users", u), disk)
      BY <1>2, <2>1, <2>3 DEF Single
    <3>3. Atomic!Register(u)
      BY <2>1, <2>3, <3>2
      DEF Apply, Insert, Atomic!Register, Atomic!Add, IsTables, Atomic!Table,
          Atomic!FactTable
    <3> QED
      BY <3>1, <3>3 DEF Atomic!Next
  <2>4. CASE ~ (request.kind = "insertUser" /\ u \notin disk["users"])
    BY <1>2, <2>1, <2>4 DEF Single
  <2> QED
    BY <2>3, <2>4
<1>3. CASE \/ Start \/ \E r \in Request : Ask(r)
           \/ Begin \/ BeginFails \/ Write \/ StatementFails \/ Throw
           \/ RollBack \/ RollBackFails \/ Destroy \/ SingleFails
           \/ Reply \/ Proceed \/ GiveUp \/ Crash
  BY <1>3 DEF Start, Ask, Begin, BeginFails, Write, StatementFails, Throw,
     RollBack, RollBackFails, Destroy, SingleFails, Reply, Proceed, GiveUp,
     Crash
<1>4. CASE UNCHANGED vars
  BY <1>4 DEF vars
<1> QED
  BY <1>1, <1>2, <1>3, <1>4 DEF Next, Run

LEMMA PlanStaysCarriedOut ==
  ASSUME IInv, PlanIsCarriedOut, [Next]_vars
  PROVE  PlanIsCarriedOut'
<1> USE DEF txnVars, jobVars, pastVars
<1>1. CASE Begin
  <2>1. request \in Request \cup Startup /\ ~ Autocommit(request)
    BY <1>1 DEF Begin, IInv, TypeOK, RequestFollowsPhase
  <2>2. work = disk
    BY <1>1 DEF Begin, IInv, WorkFollowsDisk
  <2> DEFINE plan == PlanOf(request, disk)
  <2>3. /\ left' = plan.writes /\ result' = plan.result /\ work' = disk
        /\ UNCHANGED <<disk, request>>
    BY <1>1, <2>2 DEF Begin
  <2>4. PlanOf(request, disk)' = plan
    BY <2>3
  <2> HIDE DEF plan
  <2> QED
    BY <2>1, <2>3, <2>4 DEF PlanIsCarriedOut
<1>2. CASE Write
  <2>1. /\ step = "write" /\ left # <<>> /\ SoundWrites(left) /\ IsTables(work)
        /\ work' = Apply(Head(left), work) /\ left' = Tail(left)
        /\ UNCHANGED <<disk, step, request, result>>
    BY <1>2 DEF Write, IInv, WritesCoverReport, TypeOK
  <2>2. Final(work', left') = Final(work, left)
    BY <2>1, FinalAdvances
  <2> DEFINE plan == PlanOf(request, disk)
  <2>3. PlanOf(request, disk)' = plan
    BY <2>1
  <2>4. Final(work, left)' = Final(disk, plan.writes)
    BY <2>1, <2>2 DEF PlanIsCarriedOut
  <2>5. Final(disk, PlanOf(request, disk).writes)' = Final(disk, plan.writes)
    BY <2>1
  <2> HIDE DEF plan
  <2> QED
    BY <2>1, <2>3, <2>4, <2>5 DEF PlanIsCarriedOut, plan
<1>3. CASE \/ Start \/ \E r \in Request : Ask(r)
           \/ BeginFails \/ Commit \/ StatementFails \/ Throw
           \/ RollBack \/ RollBackFails \/ Destroy \/ Single \/ SingleFails
           \/ Reply \/ Proceed \/ GiveUp \/ Crash
  <2>1. step' # "write"
    BY <1>3 DEF Start, Ask, BeginFails, Commit, StatementFails, Throw,
       RollBack, RollBackFails, Destroy, Single, SingleFails, Reply, Proceed,
       GiveUp, Crash, Idle, Gone
  <2> QED
    BY <2>1 DEF PlanIsCarriedOut
<1>4. CASE UNCHANGED vars
  BY <1>4 DEF vars, PlanIsCarriedOut
<1> QED
  BY <1>1, <1>2, <1>3, <1>4 DEF Next, Run

-----------------------------------------------------------------------------
(* The legacy messages, over the steps of AtomicStore.                     *)

LEMMA LegacyRows ==
  ASSUME FileIsSound, TypeOK
  PROVE  /\ \A r \in origin["messages"] :
              r.id \in Nat \ {0} /\ r.receiver \in User
         /\ \A q, r \in origin["messages"] : q.id = r.id => q = r
         /\ IsFiniteSet(disk["messages"])
<1>1. IsFile(origin)
  BY FileAssumption DEF FileIsSound
<1>2. IsTables(origin) /\ IsTables(disk)
  BY <1>1 DEF IsFile, TypeOK
<1> QED
  BY <1>1, <1>2, LegacyRowsAreFinite DEF IsFile

\* Steps that leave every message alone.
LEMMA OtherTablesChange ==
  ASSUME FileIsSound, LegacyOnce, UNCHANGED origin,
         \/ disk'["user_version"] = disk["user_version"]
         \/ disk'["user_version"] = {3},
         disk'["messages"] = disk["messages"],
         disk'["message_history"] = disk["message_history"],
         disk'["message_recipients"] = disk["message_recipients"]
  PROVE  FileIsSound' /\ LegacyOnce'
<1>1. FileIsSound'
  BY DEF FileIsSound
<1>2. LegacyOnce'
  BY DEF LegacyOnce
<1> QED
  BY <1>1, <1>2

\* A new message has an id of its own.
LEMMA MessageIsAccepted ==
  ASSUME FileIsSound, TypeOK, LegacyOnce, UNCHANGED origin,
         NEW kind, NEW u, NEW g, NEW audience,
         Atomic!Accept(Atomic!Stored(kind, u, g, 0, Atomic!NextId(disk)),
                       audience)
  PROVE  FileIsSound' /\ LegacyOnce'
<1> DEFINE history == disk["message_history"]
           n == Cardinality(history)
           m == Atomic!Stored(kind, u, g, 0, Atomic!NextId(disk))
<1>1. IsTables(disk)
  BY DEF TypeOK
<1>2. n \in Nat /\ \A x \in history : x.id \in 1..n
  BY FS_CardinalityType DEF FileIsSound
<1>3. m.id = n + 1 /\ m.content = 0
  BY SameCardinality DEF Atomic!Stored, Atomic!NextId
<1>4. /\ disk'["message_history"] = history \cup {m}
      /\ disk'["message_recipients"]
           = disk["message_recipients"] \cup ({m.id} \X audience)
      /\ disk'["messages"] = disk["messages"]
      /\ disk'["user_version"] = disk["user_version"]
  <2>1. disk' = Atomic!Add(Atomic!Add(disk, "message_history", {m}),
                           "message_recipients", {m.id} \X audience)
    BY DEF Atomic!Accept
  <2> HIDE DEF m
  <2> QED
    BY <1>1, <2>1 DEF Atomic!Add, IsTables, Atomic!Table, Atomic!FactTable
<1> HIDE DEF m
<1>5. m \notin history
  BY <1>2, <1>3
<1>6. /\ IsFiniteSet(history \cup {m})
      /\ Cardinality(history \cup {m}) = n + 1
  BY <1>5, FS_AddElement DEF FileIsSound
<1>7. FileIsSound'
  <2>1. \A x \in disk'["message_history"] :
          x.id \in 1..Cardinality(disk'["message_history"])
    BY <1>2, <1>3, <1>4, <1>6
  <2>2. ASSUME NEW p \in disk'["message_recipients"]
        PROVE  \E x \in disk'["message_history"] : x.id = p[1]
    BY <1>4 DEF FileIsSound
  <2> QED
    BY <1>4, <1>6, <2>1, <2>2 DEF FileIsSound
<1>8. LegacyOnce'
  <2>1. ASSUME NEW r \in origin["messages"]
        PROVE  {x \in disk'["message_history"] : x.content = r.id}
                 = {x \in history : x.content = r.id}
    <3>1. r.id # 0
      BY LegacyRows
    <3> QED
      BY <1>3, <1>4, <3>1
  <2>2. ASSUME NEW x \in history
        PROVE  {v \in User : <<x.id, v>> \in disk'["message_recipients"]}
                 = {v \in User : <<x.id, v>> \in disk["message_recipients"]}
    <3>1. x.id # m.id
      BY <1>2, <1>3
    <3> QED
      BY <1>4, <3>1
  <2>3. ASSUME NEW r \in origin["messages"]
        PROVE  LET copies == {x \in disk'["message_history"] :
                                x.content = r.id}
               IN IF r \in disk'["messages"]
                  THEN copies = {}
                  ELSE \E x \in copies :
                         /\ copies = {x}
                         /\ x.sender = r.sender
                         /\ {v \in User : <<x.id, v>> \in
                                            disk'["message_recipients"]}
                              = {r.receiver}
    <3> DEFINE copies == {x \in history : x.content = r.id}
    <3>1. CASE r \in disk["messages"]
      BY <1>4, <2>1, <3>1 DEF LegacyOnce
    <3>2. CASE r \notin disk["messages"]
      <4>1. PICK x \in copies :
              /\ copies = {x} /\ x.sender = r.sender
              /\ {v \in User : <<x.id, v>> \in disk["message_recipients"]}
                   = {r.receiver}
        BY <3>2 DEF LegacyOnce
      <4> QED
        BY <1>4, <2>1, <2>2, <3>2, <4>1
    <3> QED
      BY <3>1, <3>2
  <2> QED
    BY <2>3 DEF LegacyOnce
<1> QED
  BY <1>7, <1>8

LEMMA LegacyRowsAreImported ==
  ASSUME FileIsSound, TypeOK, LegacyOnce, UNCHANGED origin, Atomic!Import
  PROVE  FileIsSound' /\ LegacyOnce'
<1> DEFINE rows == disk["messages"]
           history == disk["message_history"]
           n == Cardinality(history)
           Copy(r) == Atomic!Imported(disk, r)
           Rk(r) == Atomic!Rank(disk, r)
           copied == {Copy(r) : r \in rows}
           sent == {<<Copy(r).id, r.receiver>> : r \in rows}
           moved == {<<r, Copy(r)>> : r \in rows}
<1>1. IsTables(disk) /\ DistinctIds(rows)
  BY FileHasDistinctIds DEF TypeOK
<1>2. n \in Nat /\ \A x \in history : x.id \in 1..n
  BY FS_CardinalityType DEF FileIsSound
<1>3. /\ Cardinality(rows) \in Nat
      /\ \A r \in rows : Rk(r) \in 1..Cardinality(rows)
      /\ \A q, r \in rows : Rk(q) = Rk(r) => q = r
  BY <1>1, RanksNumberTheRows
<1>4. ASSUME NEW r \in rows
      PROVE  /\ Copy(r).id = n + Rk(r) /\ Copy(r).content = r.id
             /\ Copy(r).sender = r.sender
  <2>1. Atomic!NextId(disk) + Rk(r) - 1 = n + Rk(r)
    <3>1. Atomic!NextId(disk) = n + 1
      BY SameCardinality DEF Atomic!NextId
    <3> HIDE DEF Rk, n
    <3> QED
      BY <1>2, <1>3, <3>1
  <2> QED
    BY <2>1 DEF Atomic!Imported, Atomic!Stored
<1>5. /\ {p[2] : p \in moved} = copied
      /\ {<<p[2].id, p[1].receiver>> : p \in moved} = sent
  <2>1. \A r : <<r, Copy(r)>>[1] = r /\ <<r, Copy(r)>>[2] = Copy(r)
    OBVIOUS
  <2>2. \A p \in moved : \E r \in rows : p[1] = r /\ p[2] = Copy(r)
    BY <2>1
  <2>3. \A r \in rows : \E p \in moved : p[1] = r /\ p[2] = Copy(r)
    BY <2>1
  <2> HIDE DEF moved
  <2>4. {p[2] : p \in moved} = {Copy(r) : r \in rows}
    BY <2>2, <2>3
  <2>5. {<<p[2].id, p[1].receiver>> : p \in moved}
          = {<<Copy(r).id, r.receiver>> : r \in rows}
    BY <2>2, <2>3
  <2> QED
    BY <2>4, <2>5
<1>6. /\ disk'["message_history"] = history \cup copied
      /\ disk'["message_recipients"] = disk["message_recipients"] \cup sent
      /\ disk'["messages"] = {}
      /\ disk'["user_version"] = disk["user_version"]
  <2> HIDE DEF copied, sent, moved
  <2>1. disk' = [disk EXCEPT
                  !["messages"] = {},
                  !["message_history"] = @ \cup copied,
                  !["message_recipients"] = @ \cup sent]
    BY <1>5 DEF Atomic!Import, moved
  <2> QED
    BY <1>1, <2>1 DEF IsTables, Atomic!Table, Atomic!FactTable
<1> HIDE DEF Copy, Rk
<1>7. \A q, r \in rows : Copy(q).id = Copy(r).id => q = r
  <2> TAKE q, r \in rows
  <2>1. Rk(q) \in Nat /\ Rk(r) \in Nat
    BY <1>3
  <2>2. Copy(q).id = n + Rk(q) /\ Copy(r).id = n + Rk(r)
    BY <1>4
  <2> HIDE DEF rows, n
  <2> QED
    BY <1>2, <1>3, <2>1, <2>2
<1>8. ASSUME NEW r \in rows
      PROVE  Copy(r).id \in n + 1..n + Cardinality(rows)
  <2>1. Rk(r) \in 1..Cardinality(rows) /\ Copy(r).id = n + Rk(r)
    BY <1>3, <1>4
  <2> HIDE DEF rows, n
  <2> QED
    BY <1>2, <1>3, <2>1
<1>9. /\ IsFiniteSet(history \cup copied)
      /\ Cardinality(history \cup copied) = n + Cardinality(rows)
  <2> DEFINE f == [r \in rows |-> Copy(r)]
  <2>1. f \in Bijection(rows, copied)
    <3>1. f \in [rows -> copied]
      OBVIOUS
    <3>2. \A q, r \in rows : f[q] = f[r] => q = r
      BY <1>7
    <3>3. \A x \in copied : \E r \in rows : f[r] = x
      OBVIOUS
    <3> HIDE DEF f, copied
    <3> QED
      BY <3>1, <3>2, <3>3 DEF Bijection, Injection, Surjection, IsInjective
  <2>2. ExistsBijection(rows, copied)
    BY <2>1 DEF ExistsBijection
  <2>3. IsFiniteSet(rows)
    BY LegacyRows
  <2>4. IsFiniteSet(copied) /\ Cardinality(copied) = Cardinality(rows)
    BY <2>2, <2>3, FS_Bijection
  <2>5. history \cap copied = {}
    <3>1. ASSUME NEW x \in history, NEW r \in rows PROVE x # Copy(r)
      <4>1. x.id \in 1..n /\ Copy(r).id \in n + 1..n + Cardinality(rows)
        BY <1>2, <1>8
      <4> QED
        BY <1>2, <4>1
    <3> QED
      BY <3>1
  <2>6. IsFiniteSet(history)
    BY DEF FileIsSound
  <2> HIDE DEF copied, rows, history
  <2>7. /\ IsFiniteSet(history \cup copied)
        /\ Cardinality(history \cup copied)
             = Cardinality(history) + Cardinality(copied) - Cardinality({})
    BY <2>4, <2>5, <2>6, FS_Union
  <2>8. Cardinality({}) = 0
    BY FS_EmptySet
  <2> QED
    BY <1>2, <1>3, <2>4, <2>7, <2>8
<1>10. FileIsSound'
  <2>1. \A x \in disk'["message_history"] :
          x.id \in 1..Cardinality(disk'["message_history"])
    <3> TAKE x \in disk'["message_history"]
    <3>1. CASE x \in history
      <4>1. x.id \in 1..n
        BY <1>2, <3>1
      <4> QED
        BY <1>2, <1>3, <1>6, <1>9, <4>1
    <3>2. CASE x \in copied
      <4>1. PICK r \in rows : x = Copy(r)
        BY <3>2
      <4>2. x.id \in n + 1..n + Cardinality(rows)
        BY <1>8, <4>1
      <4> QED
        BY <1>2, <1>3, <1>6, <1>9, <4>2
    <3> QED
      BY <1>6, <3>1, <3>2
  <2>2. ASSUME NEW p \in disk'["message_recipients"]
        PROVE  \E x \in disk'["message_history"] : x.id = p[1]
    <3>1. CASE p \in disk["message_recipients"]
      BY <1>6, <3>1 DEF FileIsSound
    <3>2. CASE p \in sent
      <4>1. PICK r \in rows : p = <<Copy(r).id, r.receiver>>
        BY <3>2
      <4>2. Copy(r) \in disk'["message_history"] /\ p[1] = Copy(r).id
        BY <1>6, <4>1
      <4> QED
        BY <4>2
    <3> QED
      BY <1>6, <3>1, <3>2
  <2> HIDE DEF copied, sent
  <2> QED
    BY <1>6, <1>9, <2>1, <2>2 DEF FileIsSound
<1>11. LegacyOnce'
  <2>1. \A q, r \in origin["messages"] : q.id = r.id => q = r
    BY LegacyRows
  <2>2. rows \subseteq origin["messages"]
    BY DEF FileIsSound
  <2>3. ASSUME NEW r \in origin["messages"]
        PROVE  \E x \in disk'["message_history"] :
                 /\ \A y \in disk'["message_history"] :
                      y.content = r.id <=> y = x
                 /\ x.sender = r.sender
                 /\ \A v \in User :
                      <<x.id, v>> \in disk'["message_recipients"]
                        <=> v = r.receiver
    <3>1. CASE r \in rows
      <4>1. \A y \in history : y.content # r.id
        BY <3>1 DEF LegacyOnce
      <4>2. \A y \in copied : y.content = r.id <=> y = Copy(r)
        BY <1>4, <2>1, <2>2, <3>1
      <4>3. Copy(r) \in disk'["message_history"] /\ Copy(r) \in copied
        BY <1>6, <3>1
      <4>4. \A y \in disk'["message_history"] : y.content = r.id <=> y = Copy(r)
        BY <1>6, <4>1, <4>2, <4>3
      <4>5. Copy(r).sender = r.sender
        BY <1>4, <3>1
      <4>6. ASSUME NEW v \in User
            PROVE  <<Copy(r).id, v>> \in disk'["message_recipients"]
                     <=> v = r.receiver
        <5>1. <<Copy(r).id, v>> \notin disk["message_recipients"]
          <6>1. SUFFICES ASSUME <<Copy(r).id, v>> \in disk["message_recipients"]
                         PROVE  FALSE
            OBVIOUS
          <6>2. PICK x \in history : x.id = Copy(r).id
            BY <6>1 DEF FileIsSound
          <6>3. x.id \in 1..n /\ x.id \in n + 1..n + Cardinality(rows)
            BY <1>2, <1>8, <3>1, <6>2
          <6> QED
            BY <1>2, <6>3
        <5>2. <<Copy(r).id, v>> \in sent <=> v = r.receiver
          BY <1>7, <3>1
        <5> QED
          BY <1>6, <5>1, <5>2
      <4> QED
        BY <4>3, <4>4, <4>5, <4>6
    <3>2. CASE r \notin rows
      <4>1. PICK x \in history :
              /\ {y \in history : y.content = r.id} = {x}
              /\ x.sender = r.sender
              /\ {v \in User : <<x.id, v>> \in disk["message_recipients"]}
                   = {r.receiver}
        BY <3>2 DEF LegacyOnce
      <4>2. \A y \in copied : y.content # r.id
        BY <1>4, <2>1, <2>2, <3>2
      <4>3. \A y \in disk'["message_history"] : y.content = r.id <=> y = x
        BY <1>6, <4>1, <4>2
      <4>4. ASSUME NEW v \in User
            PROVE  <<x.id, v>> \in disk'["message_recipients"]
                     <=> v = r.receiver
        <5>1. <<x.id, v>> \in disk["message_recipients"] <=> v = r.receiver
          BY <4>1
        <5>2. <<x.id, v>> \notin sent
          <6>1. ASSUME NEW q \in rows PROVE Copy(q).id # x.id
            <7>1. x.id \in 1..n /\ Copy(q).id \in n + 1..n + Cardinality(rows)
              BY <1>2, <1>8
            <7> QED
              BY <1>2, <7>1
          <6> QED
            BY <6>1
        <5> QED
          BY <1>6, <5>1, <5>2
      <4> QED
        BY <1>6, <4>1, <4>3, <4>4
    <3> QED
      BY <3>1, <3>2
  <2>4. ASSUME NEW r \in origin["messages"]
        PROVE  LET copies == {x \in disk'["message_history"] :
                                x.content = r.id}
               IN \E x \in copies :
                    /\ copies = {x}
                    /\ x.sender = r.sender
                    /\ {v \in User : <<x.id, v>> \in
                                       disk'["message_recipients"]}
                         = {r.receiver}
    <3>1. PICK x \in disk'["message_history"] :
                 /\ \A y \in disk'["message_history"] :
                      y.content = r.id <=> y = x
                 /\ x.sender = r.sender
                 /\ \A v \in User :
                      <<x.id, v>> \in disk'["message_recipients"]
                        <=> v = r.receiver
      BY <2>3
    <3>2. r.receiver \in User
      BY LegacyRows
    <3>3. {y \in disk'["message_history"] : y.content = r.id} = {x}
      BY <3>1
    <3>4. {v \in User : <<x.id, v>> \in disk'["message_recipients"]}
            = {r.receiver}
      BY <3>1, <3>2
    <3> QED
      BY <3>1, <3>3, <3>4
  <2> QED
    BY <1>6, <2>4 DEF LegacyOnce
<1> QED
  BY <1>10, <1>11

LEMMA LegacyStep ==
  ASSUME FileIsSound, TypeOK, LegacyOnce, UNCHANGED origin,
         Atomic!Next \/ disk' = disk
  PROVE  FileIsSound' /\ LegacyOnce'
<1> USE DEF Atomic!Add, IsTables, Atomic!Table, Atomic!FactTable
<1>1. IsTables(disk)
  BY DEF TypeOK
<1>2. ASSUME NEW u, Atomic!Register(u) PROVE FileIsSound' /\ LegacyOnce'
  <2>1. /\ disk'["user_version"] = disk["user_version"]
        /\ disk'["messages"] = disk["messages"]
        /\ disk'["message_history"] = disk["message_history"]
        /\ disk'["message_recipients"] = disk["message_recipients"]
    BY <1>1, <1>2 DEF Atomic!Register
  <2> QED
    BY <2>1, OtherTablesChange
<1>3. ASSUME NEW u, NEW v, Atomic!AddContact(u, v)
      PROVE  FileIsSound' /\ LegacyOnce'
  <2>1. /\ disk'["user_version"] = disk["user_version"]
        /\ disk'["messages"] = disk["messages"]
        /\ disk'["message_history"] = disk["message_history"]
        /\ disk'["message_recipients"] = disk["message_recipients"]
    BY <1>1, <1>3 DEF Atomic!AddContact
  <2> QED
    BY <2>1, OtherTablesChange
<1>4. ASSUME NEW u, NEW g, Atomic!CreateGroup(u, g)
      PROVE  FileIsSound' /\ LegacyOnce'
  <2>1. /\ disk'["user_version"] = disk["user_version"]
        /\ disk'["messages"] = disk["messages"]
        /\ disk'["message_history"] = disk["message_history"]
        /\ disk'["message_recipients"] = disk["message_recipients"]
    BY <1>1, <1>4 DEF Atomic!CreateGroup
  <2> QED
    BY <2>1, OtherTablesChange
<1>5. ASSUME NEW u, NEW g, Atomic!JoinGroup(u, g)
      PROVE  FileIsSound' /\ LegacyOnce'
  <2>1. /\ disk'["user_version"] = disk["user_version"]
        /\ disk'["messages"] = disk["messages"]
        /\ disk'["message_history"] = disk["message_history"]
        /\ disk'["message_recipients"] = disk["message_recipients"]
    BY <1>1, <1>5 DEF Atomic!JoinGroup
  <2> QED
    BY <2>1, OtherTablesChange
<1>6. ASSUME NEW u, NEW id, Atomic!Acknowledge(u, id)
      PROVE  FileIsSound' /\ LegacyOnce'
  <2>1. /\ disk'["user_version"] = disk["user_version"]
        /\ disk'["messages"] = disk["messages"]
        /\ disk'["message_history"] = disk["message_history"]
        /\ disk'["message_recipients"] = disk["message_recipients"]
    BY <1>1, <1>6 DEF Atomic!Acknowledge
  <2> QED
    BY <2>1, OtherTablesChange
<1>7. CASE Atomic!Upgrade
  <2>1. /\ disk'["user_version"] = {3}
        /\ disk'["messages"] = disk["messages"]
        /\ disk'["message_history"] = disk["message_history"]
        /\ disk'["message_recipients"] = disk["message_recipients"]
    BY <1>1, <1>7 DEF Atomic!Upgrade, Atomic!CurrentSchemaVersion
  <2> QED
    BY <2>1, OtherTablesChange
<1>8. ASSUME NEW u, NEW v, Atomic!AcceptPrivate(u, v)
      PROVE  FileIsSound' /\ LegacyOnce'
  BY <1>8, MessageIsAccepted DEF Atomic!AcceptPrivate
<1>9. ASSUME NEW u, NEW g, Atomic!AcceptGroup(u, g)
      PROVE  FileIsSound' /\ LegacyOnce'
  BY <1>9, MessageIsAccepted DEF Atomic!AcceptGroup
<1>10. ASSUME NEW u, Atomic!AcceptBroadcast(u)
       PROVE  FileIsSound' /\ LegacyOnce'
  BY <1>10, MessageIsAccepted DEF Atomic!AcceptBroadcast
<1>11. CASE Atomic!Import
  BY <1>11, LegacyRowsAreImported
<1>12. CASE disk' = disk
  BY <1>12, OtherTablesChange
<1> QED
  BY <1>2, <1>3, <1>4, <1>5, <1>6, <1>7, <1>8, <1>9, <1>10, <1>11, <1>12
  DEF Atomic!Next

-----------------------------------------------------------------------------
\* What the steps of AtomicStore need and keep, beside IInv.
FileInv ==
  /\ PlanIsCarriedOut
  /\ FileIsSound
  /\ LegacyOnce

LEMMA InitFileInv == Init => FileInv
<1> SUFFICES ASSUME Init PROVE FileInv
  OBVIOUS
<1>1. PlanIsCarriedOut
  BY DEF Init, PlanIsCarriedOut
<1>2. FileIsSound
  BY FileAssumption DEF Init, FileIsSound, IsFile
<1>3. LegacyOnce
  <2>1. IsFile(origin) /\ disk = origin
    BY FileAssumption DEF Init
  <2>2. \A m \in disk["message_history"] : m.content = 0
    BY <2>1 DEF IsFile
  <2>3. \A r \in origin["messages"] : r.id # 0
    BY <2>1, LegacyRowsAreFinite DEF IsFile
  <2> QED
    BY <2>1, <2>2, <2>3 DEF LegacyOnce
<1> QED
  BY <1>1, <1>2, <1>3 DEF FileInv

LEMMA NextFileInv == IInv /\ FileInv /\ [Next]_vars => FileInv'
<1> SUFFICES ASSUME IInv, FileInv, [Next]_vars PROVE FileInv'
  OBVIOUS
<1>1. Atomic!Next \/ disk' = disk
  BY StepIsAtomic DEF FileInv
<1>2. UNCHANGED origin
  BY DEF Next, Run, vars, pastVars, Start, Ask, Begin, BeginFails, Write,
     Commit, StatementFails, Throw, RollBack, RollBackFails, Destroy, Single,
     SingleFails, Reply, Proceed, GiveUp, Crash
<1>3. FileIsSound' /\ LegacyOnce'
  BY <1>1, <1>2, LegacyStep DEF FileInv, IInv
<1>4. PlanIsCarriedOut'
  BY PlanStaysCarriedOut DEF FileInv
<1> QED
  BY <1>3, <1>4 DEF FileInv

LEMMA SpecFileInv == Spec => []FileInv
BY InitFileInv, NextFileInv, SpecIInv, PTL DEF Spec

\* Every legacy message of the file the program was first started on is in
\* one place: importLegacyMessages moves each once, to its receiver alone,
\* whatever calls of SQLite fail and however often the process ends.
THEOREM StoreImportsLegacyOnce == Spec => []LegacyOnce
<1>1. FileInv => LegacyOnce
  BY DEF FileInv
<1> QED
  BY <1>1, SpecFileInv, PTL

\* The tables change by whole requests: what TransactionGuard, the requests
\* of Database and its start-up make of the file, statement by statement, is
\* one step of AtomicStore or none.
THEOREM StoreImplementsAtomicStore == Spec => ImplementsAtomicStore
<1>1. IInv /\ FileInv /\ [Next]_vars => [Atomic!Next]_disk
  BY StepIsAtomic DEF FileInv
<1> QED
  BY <1>1, SpecIInv, SpecFileInv, PTL
  DEF Spec, ImplementsAtomicStore, Atomic!Spec
=============================================================================
