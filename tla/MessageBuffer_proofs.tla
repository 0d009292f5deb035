------------------------ MODULE MessageBuffer_proofs ------------------------
(***************************************************************************)
(* The message buffer keeps its counters, its limits and its files of      *)
(* messages sound over each of its operations.  TerminalUi_proofs uses     *)
(* these lemmas: the invariant of the buffer needs what the interface does *)
(* with it, and so it is proved there.                                     *)
(*                                                                         *)
(* retained is compared with a sum over the conversations and one over     *)
(* the messages.  The first part shows that the folds of the community     *)
(* modules compute sums: their recursive equation has a solution and, as   *)
(* every smaller set has one, only one.                                    *)
(***************************************************************************)
EXTENDS MessageBuffer, Integers, FiniteSetTheorems, NaturalsInduction,
        WellFoundedInduction, TLAPS

Less == {ss \in Nat \X Nat : ss[1] < ss[2]}

\* The order of the naturals, as a relation, is well-founded.
LEMMA LessIsWellFounded == IsWellFoundedOn(Less, Nat)
  BY NatLessThanWellFounded DEF OpToRel, Less

\* A non-empty set of naturals has a least element.
LEMMA SmallestExists ==
  ASSUME NEW T, T \subseteq Nat, T # {}
  PROVE  \E n \in T : \A m \in T : n <= m
<1>1. PICK n \in T : \A m \in T : ~ (<<m, n>> \in Less)
  BY LessIsWellFounded, WFMin
<1>2. \A m \in T : ~ (m < n)
  BY <1>1 DEF Less
<1> QED BY <1>2

\* Among subsets of a finite set there is a minimal one: this is how an
\* induction over a fold is done here.
LEMMA SmallestSubset ==
  ASSUME NEW U, IsFiniteSet(U), NEW T \in SUBSET (SUBSET U), T # {}
  PROVE  \E s \in T : \A t \in T : t \subseteq s => t = s
<1>1. IsWellFoundedOn(StrictSubsetOrdering(U), SUBSET U)
  BY FS_StrictSubsetOrderingWellFounded, FS_FiniteSubsetsOfFinite
<1>2. PICK s \in T : \A t \in T : ~ (<<t, s>> \in StrictSubsetOrdering(U))
  BY <1>1, WFMin
<1>3. \A t \in T : ~ (t \subseteq s /\ t # s)
  BY <1>2 DEF StrictSubsetOrdering
<1> QED BY <1>3

Pick(s) == CHOOSE x \in s : TRUE

IsSum(f, cost, U) ==
  /\ f \in [SUBSET U -> Nat]
  /\ \A s \in SUBSET U :
       f[s] = IF s = {} THEN 0 ELSE cost[Pick(s)] + f[s \ {Pick(s)}]

\* The element a fold takes next is one of the set.
LEMMA PickIn == \A s : s # {} => Pick(s) \in s
  BY DEF Pick

\* Two sums over the same costs agree on every subset both know.
LEMMA SumsAgree ==
  ASSUME NEW U, IsFiniteSet(U), NEW V, NEW f, NEW g, NEW c, NEW d,
         IsSum(f, c, U), IsSum(g, d, V), U \subseteq V,
         \A x \in U : c[x] = d[x]
  PROVE  \A s \in SUBSET U : f[s] = g[s]
<1> DEFINE T == {s \in SUBSET U : f[s] # g[s]}
<1> SUFFICES ASSUME T # {} PROVE FALSE
  OBVIOUS
<1>1. T \in SUBSET (SUBSET U)
  OBVIOUS
<1>2. PICK s \in T : \A t \in T : t \subseteq s => t = s
  <2> HIDE DEF T
  <2> QED BY <1>1, SmallestSubset
<1>3. s \subseteq U /\ s \in SUBSET V
  OBVIOUS
<1>4. s # {}
  BY <1>3 DEF IsSum
<1>5. Pick(s) \in s
  BY <1>4, PickIn
<1>6. s \ {Pick(s)} \in SUBSET U /\ s \ {Pick(s)} # s
  BY <1>3, <1>5
<1>7. f[s \ {Pick(s)}] = g[s \ {Pick(s)}]
  BY <1>2, <1>6
<1>8. f[s] = c[Pick(s)] + f[s \ {Pick(s)}] /\ g[s] = d[Pick(s)] + g[s \ {Pick(s)}]
  BY <1>3, <1>4 DEF IsSum
<1> QED BY <1>2, <1>3, <1>5, <1>7, <1>8

\* The recursive equation of a sum has a solution on every finite set.
LEMMA SumExists ==
  ASSUME NEW U, IsFiniteSet(U), NEW c, \A x \in U : c[x] \in Nat
  PROVE  \E f : IsSum(f, c, U)
<1> DEFINE T == {s \in SUBSET U : ~ \E f : IsSum(f, c, s)}
<1>0. SUFFICES ASSUME T # {} PROVE FALSE
  BY U \in SUBSET U
<1>1. PICK s \in T : \A t \in T : t \subseteq s => t = s
  <2>1. T \in SUBSET (SUBSET U)
    OBVIOUS
  <2> HIDE DEF T
  <2> QED BY <1>0, <2>1, SmallestSubset
<1>2. \A t \in SUBSET s : t # s => \E f : IsSum(f, c, t)
  BY <1>1
<1> DEFINE Sol(t) == CHOOSE f : IsSum(f, c, t)
<1>3. \A t \in SUBSET s : t # s => IsSum(Sol(t), c, t)
  BY <1>2
<1> DEFINE Val(t) == IF t = {} THEN 0 ELSE c[Pick(t)] + Sol(t \ {Pick(t)})[t \ {Pick(t)}]
           F == [t \in SUBSET s |-> Val(t)]
<1>4. ASSUME NEW t \in SUBSET s, t # {}
      PROVE /\ Pick(t) \in t /\ c[Pick(t)] \in Nat
            /\ t \ {Pick(t)} \in SUBSET s
            /\ IsSum(Sol(t \ {Pick(t)}), c, t \ {Pick(t)})
            /\ Sol(t \ {Pick(t)})[t \ {Pick(t)}] \in Nat
  <2>1. Pick(t) \in t
    BY <1>4, PickIn
  <2>2. t \ {Pick(t)} \in SUBSET s /\ t \ {Pick(t)} # s
    BY <2>1
  <2> HIDE DEF Sol
  <2>3. IsSum(Sol(t \ {Pick(t)}), c, t \ {Pick(t)})
    BY <2>2, <1>3
  <2>4. Sol(t \ {Pick(t)})[t \ {Pick(t)}] \in Nat
    BY <2>3 DEF IsSum
  <2> QED BY <2>1, <2>2, <2>3, <2>4
<1> HIDE DEF Sol
<1>5. \A t \in SUBSET s : Val(t) \in Nat
  BY <1>4
<1>6. ASSUME NEW t \in SUBSET s, t # s PROVE F[t] = Sol(t)[t]
  <2>1. IsSum(Sol(t), c, t)
    BY <1>3, <1>6
  <2>2. CASE t = {}
    BY <2>1, <2>2 DEF IsSum
  <2>3. CASE t # {}
    <3> DEFINE r == t \ {Pick(t)}
    <3>1. Sol(t)[t] = c[Pick(t)] + Sol(t)[r]
      BY <2>1, <2>3, t \in SUBSET t DEF IsSum
    <3>2. IsSum(Sol(r), c, r) /\ IsFiniteSet(r) /\ r \subseteq t
      BY <1>4, <2>3, FS_Subset, r \in SUBSET U
    <3>3. Sol(r)[r] = Sol(t)[r]
      <4> HIDE DEF r
      <4> QED BY <3>2, <2>1, SumsAgree, r \in SUBSET r
    <3> QED BY <3>1, <3>3, <2>3
  <2> QED BY <2>2, <2>3
<1>7. IsSum(F, c, s)
  <2>1. F \in [SUBSET s -> Nat]
    BY <1>5
  <2>2. ASSUME NEW t \in SUBSET s
        PROVE F[t] = IF t = {} THEN 0 ELSE c[Pick(t)] + F[t \ {Pick(t)}]
    <3>1. CASE t = {}
      BY <3>1
    <3>2. CASE t # {}
      <4>1. F[t] = c[Pick(t)] + Sol(t \ {Pick(t)})[t \ {Pick(t)}]
        BY <3>2
      <4>2. F[t \ {Pick(t)}] = Sol(t \ {Pick(t)})[t \ {Pick(t)}]
        <5>1. t \ {Pick(t)} \in SUBSET s /\ t \ {Pick(t)} # s
          BY <1>4, <3>2
        <5> QED BY <5>1, <1>6
      <4> QED BY <4>1, <4>2, <3>2
    <3> QED BY <3>1, <3>2
  <2> HIDE DEF F
  <2> QED BY <2>1, <2>2 DEF IsSum
<1> QED BY <1>1, <1>7

\* SumFunctionOnSet is that solution: the fold of the community modules
\* computes the sum.
LEMMA SumUnfolds ==
  ASSUME NEW U, IsFiniteSet(U), NEW c, NEW f, IsSum(f, c, U)
  PROVE  SumFunctionOnSet(c, U) = f[U]
<1> DEFINE Body(g) == [s \in SUBSET U |->
              IF s = {} THEN 0
              ELSE c[CHOOSE x \in s : TRUE] + g[s \ {CHOOSE x \in s : TRUE}]]
           sum == CHOOSE g : g = Body(g)
<1>1. SumFunctionOnSet(c, U) = sum[U]
  BY DEF SumFunctionOnSet, FoldFunctionOnSet, MapThenFoldSet
<1>2. f = Body(f)
  BY DEF IsSum, Pick
<1>3. sum = Body(sum)
  <2> HIDE DEF Body
  <2> QED BY <1>2
<1>4. \A s \in SUBSET U :
        sum[s] = IF s = {} THEN 0 ELSE c[Pick(s)] + sum[s \ {Pick(s)}]
  <2> HIDE DEF sum
  <2> QED BY <1>3 DEF Pick
<1> DEFINE T == {s \in SUBSET U : f[s] # sum[s]}
<1>5. T = {}
  <2> SUFFICES ASSUME T # {} PROVE FALSE
    OBVIOUS
  <2>1. PICK s \in T : \A t \in T : t \subseteq s => t = s
    <3>1. T \in SUBSET (SUBSET U)
      OBVIOUS
    <3> HIDE DEF T
    <3> QED BY <3>1, SmallestSubset
  <2> HIDE DEF sum
  <2>2. s # {} /\ s \in SUBSET U
    BY <1>4 DEF IsSum
  <2>3. s \ {Pick(s)} \in SUBSET U /\ s \ {Pick(s)} # s
    BY <2>2, PickIn
  <2>4. f[s \ {Pick(s)}] = sum[s \ {Pick(s)}]
    BY <2>1, <2>3
  <2> QED BY <1>4, <2>1, <2>2, <2>4 DEF IsSum
<1> QED BY <1>1, <1>5, U \in SUBSET U

\* The order in which the elements are added does not matter.
LEMMA SumOfOneMore ==
  ASSUME NEW U, IsFiniteSet(U), NEW c, \A x \in U : c[x] \in Nat,
         NEW f, IsSum(f, c, U)
  PROVE  \A s \in SUBSET U : \A x \in s : f[s] = c[x] + f[s \ {x}]
<1> DEFINE T == {s \in SUBSET U : \E x \in s : f[s] # c[x] + f[s \ {x}]}
<1> SUFFICES ASSUME T # {} PROVE FALSE
  OBVIOUS
<1>1. PICK s \in T : \A t \in T : t \subseteq s => t = s
  <2>1. T \in SUBSET (SUBSET U)
    OBVIOUS
  <2> HIDE DEF T
  <2> QED BY <2>1, SmallestSubset
<1>2. PICK x \in s : f[s] # c[x] + f[s \ {x}]
  BY <1>1
<1> DEFINE y == Pick(s)
<1>3. y \in s /\ f[s] = c[y] + f[s \ {y}]
  BY <1>2, PickIn DEF IsSum
<1> HIDE DEF y
<1>4. x # y
  BY <1>2, <1>3
<1>5. f[s \ {y}] = c[x] + f[(s \ {y}) \ {x}]
  <2>1. s \ {y} \in SUBSET U /\ s \ {y} # s /\ x \in s \ {y}
    BY <1>2, <1>3, <1>4
  <2> QED BY <1>1, <2>1
<1>6. f[s \ {x}] = c[y] + f[(s \ {x}) \ {y}]
  <2>1. s \ {x} \in SUBSET U /\ s \ {x} # s /\ y \in s \ {x}
    BY <1>2, <1>3, <1>4
  <2> QED BY <1>1, <2>1
<1>7. (s \ {x}) \ {y} = (s \ {y}) \ {x}
  OBVIOUS
<1>8. /\ c[x] \in Nat /\ c[y] \in Nat
      /\ f[(s \ {y}) \ {x}] \in Nat
  BY <1>1, <1>2, <1>3, (s \ {y}) \ {x} \in SUBSET U DEF IsSum
<1> DEFINE rest == f[(s \ {y}) \ {x}]
<1>9. f[s \ {y}] = c[x] + rest /\ f[s \ {x}] = c[y] + rest /\ rest \in Nat
  BY <1>5, <1>6, <1>7, <1>8
<1> HIDE DEF rest
<1>10. f[s] = c[y] + (c[x] + rest)
  BY <1>3, <1>9
<1>11. c[x] + f[s \ {x}] = c[x] + (c[y] + rest)
  BY <1>9
<1>12. c[y] + (c[x] + rest) = c[x] + (c[y] + rest)
  BY <1>8, <1>9
<1> QED BY <1>2, <1>10, <1>11, <1>12

\* A sum over one more element, the other costs unchanged.
LEMMA SumWith ==
  ASSUME NEW S, IsFiniteSet(S), NEW x, x \notin S,
         NEW c, \A y \in S \cup {x} : c[y] \in Nat,
         NEW d, \A y \in S : d[y] = c[y]
  PROVE  /\ SumFunctionOnSet(c, S \cup {x}) = SumFunctionOnSet(d, S) + c[x]
         /\ SumFunctionOnSet(d, S) \in Nat
<1> DEFINE U == S \cup {x}
<1>1. IsFiniteSet(U)
  BY FS_AddElement
<1>2. PICK f : IsSum(f, c, U)
  <2>1. \A y \in U : c[y] \in Nat
    OBVIOUS
  <2> HIDE DEF U
  <2> QED BY <1>1, <2>1, SumExists
<1>3. PICK g : IsSum(g, d, S)
  BY SumExists
<1>4. g[S] = f[S]
  BY <1>2, <1>3, SumsAgree, S \subseteq U, S \in SUBSET S
<1>5. SumFunctionOnSet(c, U) = f[U] /\ SumFunctionOnSet(d, S) = g[S]
  BY <1>1, <1>2, <1>3, SumUnfolds
<1>6. f[U] = c[x] + f[U \ {x}]
  <2> USE <1>1, <1>2
  <2>1. U \in SUBSET U /\ x \in U /\ \A y \in U : c[y] \in Nat
    OBVIOUS
  <2> HIDE DEF U
  <2> QED BY <2>1, SumOfOneMore
<1>7. U \ {x} = S
  OBVIOUS
<1>8. g[S] \in Nat /\ c[x] \in Nat
  BY <1>3, S \in SUBSET S DEF IsSum
<1>9. SumFunctionOnSet(c, U) = SumFunctionOnSet(d, S) + c[x]
  <2>1. f[U] = c[x] + g[S]
    BY <1>4, <1>6, <1>7
  <2>2. c[x] + g[S] = g[S] + c[x]
    BY <1>8
  <2> HIDE DEF U
  <2> QED BY <1>5, <2>1, <2>2
<1> QED BY <1>5, <1>8, <1>9

\* The empty sum is 0.
LEMMA SumOfNone == \A c : SumFunctionOnSet(c, {}) = 0
<1> TAKE c
<1>1. IsFiniteSet({})
  BY FS_EmptySet
<1>2. PICK f : IsSum(f, c, {})
  BY <1>1, SumExists
<1>3. SumFunctionOnSet(c, {}) = f[{}]
  BY <1>1, <1>2, SumUnfolds
<1> QED BY <1>2, <1>3 DEF IsSum

\* A sum of naturals is a natural.
LEMMA SumIsNat ==
  ASSUME NEW S, IsFiniteSet(S), NEW c, \A x \in S : c[x] \in Nat
  PROVE  SumFunctionOnSet(c, S) \in Nat
<1>1. PICK f : IsSum(f, c, S)
  BY SumExists
<1>2. SumFunctionOnSet(c, S) = f[S]
  BY <1>1, SumUnfolds
<1> QED BY <1>1, <1>2, S \in SUBSET S DEF IsSum

\* The buffer while the interface uses it: a place is reserved only in a
\* conversation that is open, so that reserveOutgoing never creates one.
BufferShape ==
  /\ Open \subseteq Key /\ IsFiniteSet(Open)
  /\ \A k \in Open :
       conversations[k] \in
         [handle : Nat, messages : SUBSET Id, unread : SUBSET Nat]
  /\ DOMAIN messagesById \subseteq Id
  /\ \A i \in DOMAIN messagesById :
       messagesById[i] \in [key : Key, outgoing : BOOLEAN, arrival : Nat]
  /\ reserved \in Open \cup {NoKey}
  /\ created = FALSE
  /\ retained \in Nat
  /\ nextHandle \in Nat
  /\ nextArrival \in Nat \ {0}

HandlesAreUsed == \A k \in Open : conversations[k].handle < nextHandle

\* A message is listed in its own conversation, and in no other.
MessagesAreFiled ==
  /\ \A i \in DOMAIN messagesById : i \in MessagesOf(messagesById[i].key)
  /\ \A k \in Open : \A i \in conversations[k].messages :
       i \in DOMAIN messagesById /\ messagesById[i].key = k

ArrivalsArePast ==
  \A i \in DOMAIN messagesById : messagesById[i].arrival < nextArrival

BufferSound ==
  /\ BufferShape
  /\ HandlesAreUsed
  /\ HandlesAreUnique
  /\ MessagesAreFiled
  /\ ArrivalsArePast
  /\ BufferLimits

-----------------------------------------------------------------------------
\* Ids are bounded, so the buffer holds finitely many messages.
LEMMA FiniteMessages ==
  ASSUME BufferShape
  PROVE  IsFiniteSet(DOMAIN messagesById)
<1>1. IsFiniteSet(Id)
  BY FS_Interval, LimitAssumption DEF Id
<1> QED BY <1>1, FS_Subset DEF BufferShape

\* The unsigned subtraction of bytesLeft does not wrap below the limit.
LEMMA BytesLeftBounds ==
  ASSUME NEW used \in Nat, used <= MaxTextBytes
  PROVE  BytesLeft(used) \in Nat /\ BytesLeft(used) <= MaxTextBytes - used
<1>1. PICK n \in Nat : n = MaxTextBytes - used
  BY LimitAssumption
<1>2. MaxTextBytes + SizeRange - used = n + SizeRange
  BY <1>1, LimitAssumption
<1>3. PICK w \in Nat \ {0} : w = SizeRange
  BY LimitAssumption
<1>4. (n + w) % w \in Nat /\ (n + w) % w <= n
  OBVIOUS
<1> QED BY <1>1, <1>2, <1>3, <1>4 DEF BytesLeft

\* The sums BufferLimits compares with retained are naturals.
LEMMA CostsAreNat ==
  ASSUME BufferShape
  PROVE  /\ SumFunctionOnSet(KeyBytes, Open) \in Nat
         /\ SumFunction(MessageCost) \in Nat
         /\ ReservedBytes \in Nat
         /\ \A k \in Key : KeyBytes[k] \in Nat /\ MessageBytes(k) \in Nat
<1>1. \A k \in Key : KeyBytes[k] \in Nat /\ MessageBytes(k) \in Nat
  BY KeyAssumption DEF MessageBytes
<1>2. SumFunctionOnSet(KeyBytes, Open) \in Nat
  <2>1. IsFiniteSet(Open) /\ \A k \in Open : KeyBytes[k] \in Nat
    BY <1>1 DEF BufferShape
  <2> QED BY <2>1, SumIsNat
<1>3. SumFunction(MessageCost) \in Nat
  <2>1. \A i \in DOMAIN messagesById : MessageCost[i] \in Nat
    BY <1>1 DEF BufferShape, MessageCost
  <2>2. DOMAIN MessageCost = DOMAIN messagesById
    BY DEF MessageCost
  <2>3. SumFunctionOnSet(MessageCost, DOMAIN messagesById) \in Nat
    BY <2>1, FiniteMessages, SumIsNat
  <2> QED BY <2>2, <2>3 DEF SumFunction
<1>4. ReservedBytes \in Nat
  BY <1>1 DEF BufferShape, ReservedBytes, Open
<1> QED BY <1>1, <1>2, <1>3, <1>4

\* What opening a conversation adds to the bytes of the keys.
LEMMA CostOfOpening ==
  ASSUME BufferShape, NEW k \in Key, k \notin Open
  PROVE  SumFunctionOnSet(KeyBytes, Open \cup {k})
           = SumFunctionOnSet(KeyBytes, Open) + KeyBytes[k]
<1>1. \A l \in Open \cup {k} : KeyBytes[l] \in Nat
  BY KeyAssumption DEF BufferShape
<1>2. IsFiniteSet(Open)
  BY DEF BufferShape
<1> QED BY <1>1, <1>2, SumWith

\* What filing a message adds to the bytes of the messages.
LEMMA CostOfFiling ==
  ASSUME BufferShape, NEW i \in Id, i \notin DOMAIN messagesById,
         NEW k \in Key, NEW m, DOMAIN m = DOMAIN messagesById \cup {i},
         \A j \in DOMAIN messagesById : m[j] = messagesById[j],
         m[i].key = k
  PROVE  SumFunction([j \in DOMAIN m |-> MessageBytes(m[j].key)])
           = SumFunction(MessageCost) + MessageBytes(k)
<1> DEFINE S == DOMAIN messagesById
           c == [j \in DOMAIN m |-> MessageBytes(m[j].key)]
           d == MessageCost
<1>1. IsFiniteSet(S)
  BY FiniteMessages
<1>2. \A j \in S : m[j].key \in Key
  BY DEF BufferShape
<1>3. \A j \in S \cup {i} : c[j] \in Nat
  BY <1>2, KeyAssumption DEF MessageBytes
<1>4. \A j \in S : d[j] = c[j]
  BY DEF MessageCost
<1>5. c[i] = MessageBytes(k)
  OBVIOUS
<1>6. DOMAIN c = S \cup {i} /\ DOMAIN d = S /\ i \notin S
  BY DEF MessageCost
<1> HIDE DEF S, c, d
<1>7. SumFunctionOnSet(c, S \cup {i}) = SumFunctionOnSet(d, S) + c[i]
  BY <1>1, <1>3, <1>4, <1>6, SumWith
<1>8. SumFunction(c) = SumFunction(d) + c[i]
  BY <1>6, <1>7 DEF SumFunction
<1> QED BY <1>5, <1>8 DEF c, d

\* A handle given from nextHandle is new, so handles stay unique.
LEMMA HandlesGrow ==
  ASSUME BufferSound, NEW k \in Key,
         Open' = Open \cup {k},
         \A l \in Open : conversations'[l].handle = conversations[l].handle,
         k \notin Open => conversations'[k].handle = nextHandle,
         nextHandle' = IF k \in Open THEN nextHandle ELSE nextHandle + 1
  PROVE  HandlesAreUsed' /\ HandlesAreUnique'
<1>1. /\ nextHandle \in Nat
      /\ \A l \in Open : conversations[l].handle \in Nat
      /\ \A l \in Open : conversations[l].handle < nextHandle
  BY DEF BufferSound, BufferShape, HandlesAreUsed
<1>2. HandlesAreUsed'
  BY <1>1 DEF HandlesAreUsed
<1>3. HandlesAreUnique'
  BY <1>1 DEF HandlesAreUnique, BufferSound
<1> QED BY <1>2, <1>3

\* The common end of storeIncoming and commitOutgoing: one message more, filed
\* in one conversation, with the next arrival.
LEMMA FilingKeeps ==
  ASSUME BufferSound, NEW i \in Id, i \notin DOMAIN messagesById,
         NEW k \in Key, NEW out \in BOOLEAN,
         Open' = Open \cup {k},
         conversations'[k].messages = MessagesOf(k) \cup {i},
         \A l \in Open \ {k} : conversations'[l].messages = conversations[l].messages,
         messagesById' = With(messagesById, i, Message(k, out, nextArrival)),
         nextArrival' = nextArrival + 1
  PROVE  /\ DOMAIN messagesById' \subseteq Id
         /\ \A j \in DOMAIN messagesById' :
              messagesById'[j] \in [key : Key, outgoing : BOOLEAN, arrival : Nat]
         /\ nextArrival' \in Nat \ {0}
         /\ MessagesAreFiled' /\ ArrivalsArePast'
         /\ Cardinality(DOMAIN messagesById) \in Nat
         /\ Cardinality(DOMAIN messagesById') = Cardinality(DOMAIN messagesById) + 1
         /\ SumFunction(MessageCost') = SumFunction(MessageCost) + MessageBytes(k)
<1>1. /\ DOMAIN messagesById' = DOMAIN messagesById \cup {i}
      /\ messagesById'[i] = Message(k, out, nextArrival)
      /\ \A j \in DOMAIN messagesById : messagesById'[j] = messagesById[j]
  BY DEF With
<1>2. BufferShape /\ nextArrival \in Nat \ {0}
  BY DEF BufferSound, BufferShape
<1>3. /\ messagesById'[i] \in [key : Key, outgoing : BOOLEAN, arrival : Nat]
      /\ messagesById'[i].key = k
      /\ messagesById'[i].arrival = nextArrival
  BY <1>1, <1>2 DEF Message
<1>4. /\ DOMAIN messagesById' \subseteq Id
      /\ \A j \in DOMAIN messagesById' :
           messagesById'[j] \in [key : Key, outgoing : BOOLEAN, arrival : Nat]
  BY <1>1, <1>2, <1>3 DEF BufferShape
<1>5. MessagesAreFiled'
  <2>1. ASSUME NEW j \in DOMAIN messagesById', NEW l, l = messagesById'[j].key
        PROVE  l \in Open' /\ j \in conversations'[l].messages
    <3>1. CASE j = i
      BY <1>3, <2>1, <3>1
    <3>2. CASE j # i
      <4>1. l = messagesById[j].key /\ j \in DOMAIN messagesById
        BY <1>1, <2>1, <3>2
      <4>2. l \in Open /\ j \in conversations[l].messages
        BY <4>1 DEF BufferSound, MessagesAreFiled, MessagesOf
      <4> QED BY <4>2 DEF MessagesOf
    <3> QED BY <3>1, <3>2
  <2>2. ASSUME NEW l \in Open', NEW j \in conversations'[l].messages
        PROVE  j \in DOMAIN messagesById' /\ messagesById'[j].key = l
    <3>1. CASE j = i
      <4>1. l = k
        BY <3>1 DEF BufferSound, MessagesAreFiled
      <4> QED BY <1>1, <1>3, <3>1, <4>1
    <3>2. CASE j # i
      <4>1. l \in Open /\ j \in conversations[l].messages
        BY <3>2 DEF MessagesOf
      <4> QED BY <1>1, <4>1 DEF BufferSound, MessagesAreFiled
    <3> QED BY <3>1, <3>2
  <2> QED BY <2>1, <2>2 DEF MessagesAreFiled, MessagesOf
<1>6. ArrivalsArePast'
  <2>1. ASSUME NEW j \in DOMAIN messagesById PROVE messagesById'[j].arrival < nextArrival + 1
    BY <1>1, <1>2 DEF BufferSound, BufferShape, ArrivalsArePast
  <2> QED BY <1>1, <1>2, <1>3, <2>1 DEF ArrivalsArePast
<1>7. /\ Cardinality(DOMAIN messagesById) \in Nat
      /\ Cardinality(DOMAIN messagesById') = Cardinality(DOMAIN messagesById) + 1
  BY <1>1, <1>2, FiniteMessages, FS_AddElement, FS_CardinalityType
<1>8. SumFunction(MessageCost') = SumFunction(MessageCost) + MessageBytes(k)
  <2>1. PICK m : m = messagesById'
    OBVIOUS
  <2>2. SumFunction([j \in DOMAIN m |-> MessageBytes(m[j].key)])
            = SumFunction(MessageCost) + MessageBytes(k)
    BY <1>1, <1>2, <1>3, <2>1, CostOfFiling
  <2> QED BY <2>1, <2>2 DEF MessageCost, MessageBytes
<1> QED BY <1>2, <1>4, <1>5, <1>6, <1>7, <1>8

-----------------------------------------------------------------------------
\* A step that leaves the buffer alone keeps it sound.
LEMMA IdleBuffer ==
  ASSUME BufferSound, UNCHANGED bufferVars
  PROVE  BufferSound'
<1> USE DEF bufferVars
<1>1. BufferShape'
  BY DEF BufferSound, BufferShape, Open
<1>2. HandlesAreUsed' /\ HandlesAreUnique'
  BY DEF BufferSound, HandlesAreUsed, HandlesAreUnique, Open
<1>3. MessagesAreFiled' /\ ArrivalsArePast'
  BY DEF BufferSound, MessagesAreFiled, ArrivalsArePast, MessagesOf, Open
<1>4. BufferLimits'
  BY DEF BufferSound, BufferLimits, ReservedBytes, MessageCost, Open
<1> QED BY <1>1, <1>2, <1>3, <1>4 DEF BufferSound

\* ensureConversation keeps the buffer sound while no outgoing message has its
\* place reserved: the limit it tests leaves those bytes out.
LEMMA OpeningKeeps ==
  ASSUME BufferSound, NEW k \in Key, EnsureConversation(k), reserved = NoKey
  PROVE  BufferSound'
<1>1. CASE k \in Open
  BY <1>1, IdleBuffer DEF EnsureConversation
<1>2. CASE k \notin Open
  <2>1. /\ conversations' = With(conversations, k, Conversation(nextHandle, {}, {}))
        /\ nextHandle' = nextHandle + 1
        /\ retained' = retained + KeyBytes[k]
        /\ UNCHANGED <<messagesById, reserved, created, nextArrival>>
    BY <1>2 DEF EnsureConversation
  <2>2. KeyBytes[k] <= BytesLeft(retained)
    BY <1>2 DEF EnsureConversation, MayOpen
  <2>3. /\ Open' = Open \cup {k}
        /\ conversations'[k] = Conversation(nextHandle, {}, {})
        /\ \A l \in Open : conversations'[l] = conversations[l]
    BY <1>2, <2>1 DEF With, Open
  <2>4. BufferShape /\ KeyBytes[k] \in Nat
    BY KeyAssumption DEF BufferSound
  <2>5. BufferShape'
    <3>1. IsFiniteSet(Open')
      BY <2>3, <2>4, FS_AddElement DEF BufferShape
    <3>2. \A l \in Open' :
            conversations'[l] \in [handle : Nat, messages : SUBSET Id, unread : SUBSET Nat]
      BY <2>3, <2>4 DEF BufferShape, Conversation
    <3> QED BY <2>1, <2>3, <2>4, <3>1, <3>2 DEF BufferShape
  <2>6. HandlesAreUsed' /\ HandlesAreUnique'
    <3>1. conversations'[k].handle = nextHandle
      BY <2>3 DEF Conversation
    <3> QED BY <1>2, <2>1, <2>3, <3>1, HandlesGrow
  <2>7. MessagesAreFiled' /\ ArrivalsArePast'
    <3>1. conversations'[k].messages = {}
      BY <2>3 DEF Conversation
    <3>2. \A j \in DOMAIN messagesById : j \in MessagesOf(messagesById[j].key)'
      <4>1. TAKE j \in DOMAIN messagesById
      <4>2. PICK l : l = messagesById[j].key
        OBVIOUS
      <4>3. l \in Open /\ j \in conversations[l].messages /\ messagesById'[j].key = l
        BY <2>1, <4>2 DEF BufferSound, MessagesAreFiled, MessagesOf
      <4> QED BY <2>3, <4>3 DEF MessagesOf
    <3>3. \A l \in Open' : \A j \in conversations'[l].messages :
            j \in DOMAIN messagesById /\ messagesById[j].key = l
      BY <2>3, <3>1 DEF BufferSound, MessagesAreFiled
    <3> QED BY <2>1, <3>2, <3>3 DEF BufferSound, MessagesAreFiled,
       ArrivalsArePast
  <2>8. BufferLimits'
    <3>1. MessageCost' = MessageCost /\ ReservedBytes' = ReservedBytes
      BY <2>1 DEF MessageCost, ReservedBytes
    <3>2. retained <= MaxTextBytes /\ retained \in Nat /\ ReservedBytes = 0
      BY <2>4 DEF BufferSound, BufferLimits, BufferShape, ReservedBytes
    <3>3. BytesLeft(retained) \in Nat /\ BytesLeft(retained) <= MaxTextBytes - retained
      BY <3>2, BytesLeftBounds
    <3>4. retained' + ReservedBytes' <= MaxTextBytes
      BY <2>1, <2>2, <2>4, <3>1, <3>2, <3>3, LimitAssumption
    <3>5. SumFunctionOnSet(KeyBytes, Open') = SumFunctionOnSet(KeyBytes, Open) + KeyBytes[k]
      BY <1>2, <2>3, <2>4, CostOfOpening
    <3>6. retained' = SumFunctionOnSet(KeyBytes, Open') + SumFunction(MessageCost')
      BY <2>1, <2>4, <3>1, <3>5, CostsAreNat DEF BufferSound, BufferLimits
    <3> QED BY <2>1, <3>4, <3>6 DEF BufferSound, BufferLimits
  <2> QED BY <2>5, <2>6, <2>7, <2>8 DEF BufferSound
<1> QED BY <1>1, <1>2

\* storeIncoming keeps the buffer sound.
LEMMA StoringKeeps ==
  ASSUME BufferSound, NEW i \in Id, NEW k \in Key, StoreIncoming(i, k)
  PROVE  BufferSound'
<1>1. /\ i \notin DOMAIN messagesById
      /\ MayStore(k)
  BY DEF StoreIncoming, ReceiveResult, Known
<1>2. /\ conversations' = With(conversations, k, Joined(k, i, {nextArrival}))
      /\ messagesById' = With(messagesById, i, Message(k, FALSE, nextArrival))
      /\ nextHandle' = IF k \in Open THEN nextHandle ELSE nextHandle + 1
      /\ retained' = retained + MessageBytes(k) + OpeningBytes(k)
      /\ nextArrival' = nextArrival + 1
      /\ UNCHANGED <<reserved, created>>
  BY DEF StoreIncoming
<1>3. /\ Open' = Open \cup {k}
      /\ conversations'[k] = Joined(k, i, {nextArrival})
      /\ \A l \in Open \ {k} : conversations'[l] = conversations[l]
  BY <1>2 DEF With, Open
<1>5. /\ BufferShape
      /\ KeyBytes[k] \in Nat /\ OpeningBytes(k) \in Nat /\ MessageBytes(k) \in Nat
  BY KeyAssumption DEF BufferSound, OpeningBytes, MessageBytes
<1>6. /\ Joined(k, i, {nextArrival}).handle =
           IF k \in Open THEN conversations[k].handle ELSE nextHandle
      /\ Joined(k, i, {nextArrival}).messages = MessagesOf(k) \cup {i}
      /\ Joined(k, i, {nextArrival}) \in
           [handle : Nat, messages : SUBSET Id, unread : SUBSET Nat]
  BY <1>5 DEF Joined, Conversation, BufferShape, MessagesOf
<1>4. /\ DOMAIN messagesById' \subseteq Id
      /\ \A j \in DOMAIN messagesById' :
           messagesById'[j] \in [key : Key, outgoing : BOOLEAN, arrival : Nat]
      /\ nextArrival' \in Nat \ {0}
      /\ MessagesAreFiled' /\ ArrivalsArePast'
      /\ Cardinality(DOMAIN messagesById) \in Nat
      /\ Cardinality(DOMAIN messagesById') = Cardinality(DOMAIN messagesById) + 1
      /\ SumFunction(MessageCost') = SumFunction(MessageCost) + MessageBytes(k)
  BY <1>1, <1>2, <1>3, <1>6, FilingKeeps
<1>7. BufferShape'
  <2>1. IsFiniteSet(Open')
    BY <1>3, <1>5, FS_AddElement DEF BufferShape
  <2>2. \A l \in Open' :
          conversations'[l] \in [handle : Nat, messages : SUBSET Id, unread : SUBSET Nat]
    BY <1>3, <1>5, <1>6 DEF BufferShape
  <2>3. nextHandle' \in Nat /\ retained' \in Nat
    BY <1>2, <1>5 DEF BufferShape
  <2> QED BY <1>2, <1>3, <1>5, <1>4, <2>1, <2>2, <2>3 DEF BufferShape
<1>8. HandlesAreUsed' /\ HandlesAreUnique'
  <2>1. \A l \in Open : conversations'[l].handle = conversations[l].handle
    BY <1>3, <1>6
  <2>2. k \notin Open => conversations'[k].handle = nextHandle
    BY <1>3, <1>6
  <2> QED BY <1>2, <1>3, <2>1, <2>2, HandlesGrow
<1>11. BufferLimits'
  <2>1. PICK n \in Nat : n = Cardinality(DOMAIN messagesById)
    BY <1>4
  <2>2. n + (IF reserved = NoKey THEN 0 ELSE 1) < MaxMessages
    BY <1>1, <2>1 DEF MayStore
  <2>3. Cardinality(DOMAIN messagesById') + (IF reserved' = NoKey THEN 0 ELSE 1) <= MaxMessages
    <3>1. Cardinality(DOMAIN messagesById') = n + 1 /\ reserved' = reserved
      BY <1>2, <1>4, <2>1
    <3>2. n + 1 + (IF reserved = NoKey THEN 0 ELSE 1) <= MaxMessages
      BY <2>1, <2>2, LimitAssumption
    <3> QED BY <3>1, <3>2
  <2>4. ReservedBytes' = ReservedBytes /\ ReservedBytes \in Nat
    BY <1>2, <1>5, CostsAreNat DEF ReservedBytes
  <2>5. retained \in Nat /\ retained + ReservedBytes <= MaxTextBytes
    BY <1>5 DEF BufferSound, BufferLimits, BufferShape
  <2>6. /\ BytesLeft(retained + ReservedBytes) \in Nat
        /\ BytesLeft(retained + ReservedBytes) <= MaxTextBytes - (retained + ReservedBytes)
    BY <2>4, <2>5, BytesLeftBounds
  <2>7. MessageBytes(k) + OpeningBytes(k) <= BytesLeft(retained + ReservedBytes)
    BY <1>1 DEF MayStore
  <2>8. retained' + ReservedBytes' <= MaxTextBytes
    BY <1>2, <1>5, <2>4, <2>5, <2>6, <2>7, LimitAssumption
  <2>9. SumFunctionOnSet(KeyBytes, Open') = SumFunctionOnSet(KeyBytes, Open) + OpeningBytes(k)
    <3>1. CASE k \in Open
      BY <1>3, <1>5, <3>1, CostsAreNat, Open' = Open DEF OpeningBytes
    <3>2. CASE k \notin Open
      BY <1>3, <1>5, <3>2, CostOfOpening DEF OpeningBytes
    <3> QED BY <3>1, <3>2
  <2>11. retained' = SumFunctionOnSet(KeyBytes, Open') + SumFunction(MessageCost')
    BY <1>2, <1>4, <1>5, <2>9, CostsAreNat DEF BufferSound, BufferLimits
  <2> QED BY <2>3, <2>8, <2>11 DEF BufferLimits
<1> QED BY <1>4, <1>7, <1>8, <1>11 DEF BufferSound

\* reserveOutgoing keeps the buffer sound, for a conversation that is open
\* already: it then creates none that cancelOutgoing could take back.
LEMMA ReservingKeeps ==
  ASSUME BufferSound, NEW k \in Open, ReserveOutgoing(k)
  PROVE  BufferSound' /\ reserved' = k
<1>1. /\ reserved' = k
      /\ created' = FALSE
      /\ UNCHANGED <<conversations, nextHandle, retained, messagesById, nextArrival>>
      /\ UNCHANGED Open
  BY DEF ReserveOutgoing, Open
<1>2. BufferShape /\ k \in Key
  BY DEF BufferSound, BufferShape
<1>3. BufferShape'
  BY <1>1, <1>2 DEF BufferShape
<1>4. HandlesAreUsed' /\ HandlesAreUnique' /\ MessagesAreFiled' /\ ArrivalsArePast'
  BY <1>1 DEF BufferSound, HandlesAreUsed, HandlesAreUnique, MessagesAreFiled,
       ArrivalsArePast, MessagesOf
<1>5. BufferLimits'
  <2>1. MessageBytes(k) + OpeningBytes(k) <= BytesLeft(retained)
    BY DEF ReserveOutgoing, MayReserve
  <2>2. OpeningBytes(k) = 0 /\ MessageBytes(k) \in Nat
    BY <1>2, CostsAreNat DEF OpeningBytes
  <2>3. retained \in Nat /\ retained <= MaxTextBytes
    <3>1. ReservedBytes \in Nat /\ retained \in Nat
      BY <1>2, CostsAreNat DEF BufferShape
    <3>2. retained + ReservedBytes <= MaxTextBytes
      BY DEF BufferSound, BufferLimits
    <3> QED BY <3>1, <3>2, LimitAssumption
  <2>4. BytesLeft(retained) \in Nat /\ BytesLeft(retained) <= MaxTextBytes - retained
    BY <2>3, BytesLeftBounds
  <2>5. ReservedBytes' = MessageBytes(k)
    BY <1>1, <1>2, KeyAssumption DEF ReservedBytes, MessageBytes
  <2>6. retained' + ReservedBytes' <= MaxTextBytes
    BY <1>1, <2>1, <2>2, <2>3, <2>4, <2>5, LimitAssumption
  <2>7. Cardinality(DOMAIN messagesById) < MaxMessages /\ Cardinality(DOMAIN messagesById) \in Nat
    BY <1>2, FiniteMessages, FS_CardinalityType DEF ReserveOutgoing, MayReserve
  <2>8. Cardinality(DOMAIN messagesById') + (IF reserved' = NoKey THEN 0 ELSE 1) <= MaxMessages
    BY <1>1, <2>7, LimitAssumption
  <2>9. MessageCost' = MessageCost
    BY <1>1 DEF MessageCost, MessageBytes
  <2> QED BY <1>1, <2>6, <2>8, <2>9 DEF BufferSound, BufferLimits
<1> QED BY <1>1, <1>3, <1>4, <1>5 DEF BufferSound

\* commitOutgoing keeps the buffer sound.
LEMMA CommittingKeeps ==
  ASSUME BufferSound, NEW i \in Id, CommitOutgoing(i)
  PROVE  BufferSound'
<1> DEFINE k == reserved
<1>1. /\ k \in Open /\ k \in Key /\ k # NoKey
      /\ i \notin DOMAIN messagesById
  BY KeyAssumption DEF CommitOutgoing, MayCommit, Known, BufferSound,
     BufferShape
<1>2. /\ conversations' = [conversations EXCEPT ![k].messages = @ \cup {i}]
      /\ messagesById' = With(messagesById, i, Message(k, TRUE, nextArrival))
      /\ retained' = retained + ReservedBytes
      /\ nextArrival' = nextArrival + 1
      /\ reserved' = NoKey
      /\ created' = FALSE
      /\ UNCHANGED nextHandle
  BY DEF CommitOutgoing
<1>3. PICK r : r = k
  OBVIOUS
<1> HIDE DEF k
<1>4. BufferShape
  BY DEF BufferSound
<1>5. /\ Open' = Open
      /\ \A l \in Open \ {r} : conversations'[l] = conversations[l]
      /\ conversations'[r].handle = conversations[r].handle
      /\ conversations'[r].messages = conversations[r].messages \cup {i}
      /\ conversations'[r] \in [handle : Nat, messages : SUBSET Id, unread : SUBSET Nat]
  BY <1>1, <1>2, <1>3, <1>4 DEF Open, BufferShape
<1>7. ReservedBytes = MessageBytes(r) /\ MessageBytes(r) \in Nat /\ r \in Open /\ r \in Key
  BY <1>1, <1>3, <1>4, CostsAreNat DEF ReservedBytes, k
<1>6. /\ DOMAIN messagesById' \subseteq Id
      /\ \A j \in DOMAIN messagesById' :
           messagesById'[j] \in [key : Key, outgoing : BOOLEAN, arrival : Nat]
      /\ nextArrival' \in Nat \ {0}
      /\ MessagesAreFiled' /\ ArrivalsArePast'
      /\ Cardinality(DOMAIN messagesById) \in Nat
      /\ Cardinality(DOMAIN messagesById') = Cardinality(DOMAIN messagesById) + 1
      /\ SumFunction(MessageCost') = SumFunction(MessageCost) + MessageBytes(r)
  <2>1. Open' = Open \cup {r}
    BY <1>5, <1>7
  <2>2. conversations'[r].messages = MessagesOf(r) \cup {i}
    BY <1>5, <1>7 DEF MessagesOf
  <2>3. messagesById' = With(messagesById, i, Message(r, TRUE, nextArrival))
    BY <1>2, <1>3
  <2>4. \A l \in Open \ {r} : conversations'[l].messages = conversations[l].messages
    BY <1>5
  <2> QED BY <1>1, <1>2, <1>7, <2>1, <2>2, <2>3, <2>4, FilingKeeps
<1>8. BufferShape'
  <2>1. \A l \in Open' :
          conversations'[l] \in [handle : Nat, messages : SUBSET Id, unread : SUBSET Nat]
    BY <1>4, <1>5 DEF BufferShape
  <2>2. retained' \in Nat
    BY <1>2, <1>4, <1>7 DEF BufferShape
  <2> QED BY <1>2, <1>4, <1>5, <1>6, <2>1, <2>2 DEF BufferShape
<1>9. HandlesAreUsed' /\ HandlesAreUnique'
  <2>1. \A l \in Open : conversations'[l].handle = conversations[l].handle
    BY <1>5
  <2> QED BY <1>2, <1>5, <2>1 DEF BufferSound, HandlesAreUsed, HandlesAreUnique
<1>12. BufferLimits'
  <2>1. Cardinality(DOMAIN messagesById) + 1 <= MaxMessages
    BY <1>1 DEF BufferSound, BufferLimits, k
  <2>2. Cardinality(DOMAIN messagesById') + (IF reserved' = NoKey THEN 0 ELSE 1) <= MaxMessages
    <3>1. Cardinality(DOMAIN messagesById') + 0 <= MaxMessages
      <4>1. PICK n \in Nat : n = Cardinality(DOMAIN messagesById)
        BY <1>6
      <4>2. Cardinality(DOMAIN messagesById') = n + 1 /\ n + 1 <= MaxMessages
        BY <1>6, <2>1, <4>1
      <4> QED BY <4>2
    <3> QED BY <1>2, <3>1
  <2>3. ReservedBytes' = 0
    BY <1>2 DEF ReservedBytes
  <2>4. retained' + ReservedBytes' <= MaxTextBytes
    BY <1>2, <1>4, <1>7, <2>3 DEF BufferSound, BufferLimits, BufferShape
  <2>6. retained' = SumFunctionOnSet(KeyBytes, Open') + SumFunction(MessageCost')
    BY <1>2, <1>4, <1>5, <1>6, <1>7, CostsAreNat DEF BufferSound, BufferLimits
  <2> QED BY <2>2, <2>4, <2>6 DEF BufferLimits
<1> QED BY <1>6, <1>8, <1>9, <1>12 DEF BufferSound

\* cancelOutgoing keeps the buffer sound, and changes nothing but the
\* reservation.
LEMMA CancellingKeeps ==
  ASSUME BufferSound, CancelOutgoing
  PROVE  /\ BufferSound'
         /\ reserved' = NoKey
         /\ UNCHANGED <<conversations, messagesById, nextArrival>>
<1>1. /\ reserved' = NoKey
      /\ created' = FALSE
      /\ UNCHANGED <<conversations, nextHandle, retained, messagesById, nextArrival>>
      /\ UNCHANGED Open
  BY DEF CancelOutgoing, TakesBackConversation, Open, BufferSound, BufferShape
<1>2. BufferShape
  BY DEF BufferSound
<1>3. BufferShape'
  BY <1>1, <1>2 DEF BufferShape
<1>4. HandlesAreUsed' /\ HandlesAreUnique' /\ MessagesAreFiled' /\ ArrivalsArePast'
  BY <1>1 DEF BufferSound, HandlesAreUsed, HandlesAreUnique, MessagesAreFiled,
       ArrivalsArePast, MessagesOf
<1>5. BufferLimits'
  <2>1. ReservedBytes' = 0 /\ MessageCost' = MessageCost
    BY <1>1 DEF ReservedBytes, MessageCost, MessageBytes
  <2>2. Cardinality(DOMAIN messagesById) \in Nat /\ retained \in Nat
    BY <1>2, FiniteMessages, FS_CardinalityType DEF BufferShape
  <2> QED BY <1>1, <1>2, <2>1, <2>2, CostsAreNat, LimitAssumption
          DEF BufferSound, BufferLimits
<1> QED BY <1>1, <1>3, <1>4, <1>5 DEF BufferSound

\* markViewed keeps the buffer sound and the messages of every conversation.
LEMMA ViewingKeeps ==
  ASSUME BufferSound, NEW k \in Key, NEW through \in Nat, MarkViewed(k, through)
  PROVE  /\ BufferSound'
         /\ UNCHANGED <<messagesById, reserved, nextArrival, Open>>
         /\ \A l \in Key : MessagesOf(l)' = MessagesOf(l)
<1>1. /\ k \in Open
      /\ conversations' = [conversations EXCEPT ![k].unread = {n \in @ : n > through}]
      /\ UNCHANGED <<messagesById, reserved, created, retained, nextHandle, nextArrival>>
  BY DEF MarkViewed, Unread
<1>2. BufferShape
  BY DEF BufferSound
<1>3. /\ Open' = Open
      /\ \A l \in Open :
           /\ conversations'[l].handle = conversations[l].handle
           /\ conversations'[l].messages = conversations[l].messages
           /\ conversations'[l] \in [handle : Nat, messages : SUBSET Id, unread : SUBSET Nat]
  BY <1>1, <1>2 DEF Open, BufferShape
<1>4. BufferShape'
  BY <1>1, <1>2, <1>3 DEF BufferShape
<1>5. HandlesAreUsed' /\ HandlesAreUnique' /\ MessagesAreFiled' /\ ArrivalsArePast'
  BY <1>1, <1>3 DEF BufferSound, HandlesAreUsed, HandlesAreUnique,
       MessagesAreFiled, ArrivalsArePast, MessagesOf
<1>6. BufferLimits'
  BY <1>1, <1>3 DEF BufferSound, BufferLimits, ReservedBytes, MessageCost,
       MessageBytes
<1>7. \A l \in Key : MessagesOf(l)' = MessagesOf(l)
  BY <1>3 DEF MessagesOf
<1> QED BY <1>1, <1>3, <1>4, <1>5, <1>6, <1>7 DEF BufferSound
=============================================================================
