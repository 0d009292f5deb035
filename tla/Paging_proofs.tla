---------------------------- MODULE Paging_proofs ----------------------------
(***************************************************************************)
(* A walk over a listing is complete and is never refused by the client,   *)
(* for any number of rows, sizes, limits and insertions.                   *)
(*                                                                         *)
(* The invariant says of the request and of the response on their way how  *)
(* they stand to the page on the screen (Asked, Answer), and of the rows   *)
(* that were there at the first reading that each has been shown or lies   *)
(* beyond the cursor (Walked).  It rests on what the page of a query is:   *)
(* the first ids, in order, and a prefix of them (OrderLeads, PrefixLeads).*)
(***************************************************************************)
EXTENDS Paging, Integers, FiniteSetTheorems, NaturalsInduction,
        WellFoundedInduction, SequenceTheorems, TLAPS

\* The first ids of a set, in order.
Leads(set, ids) ==
  /\ ids \in Seq(set)
  /\ Ascending(ids)
  /\ \A i \in set : i \in ToSet(ids) \/ \A k \in DOMAIN ids : ids[k] < i

TableSound ==
  /\ rows \in Seq(Size)
  /\ listed \subseteq DOMAIN rows

\* A request is for the first page, for the page after the one on the screen,
\* or for the name of one group.
First == Ask(0, NoBound, PageLimit, 0)
After == Ask(screen.next, watermark, PageLimit, 0)
One(g) == Ask(g - 1, NoBound, 1, g)

Asked ==
  \/ request = NoRequest
  \/ request = First /\ screen = NoPage
  \/ screen.kind = "page" /\ screen.more /\ request = After
  \/ /\ listing = "NAMES"
     /\ request.target \in listed
     /\ request = One(request.target)

\* A page of a history keeps to the watermark: the last message when the walk
\* began.
Bounded(p, q) ==
  IF listing = "HISTORY"
  THEN /\ p.through \in q.after..Len(rows)
       /\ watermark \in {NoBound, p.through}
       /\ \A k \in DOMAIN p.ids : p.ids[k] <= p.through
       /\ start = {i \in listed : i <= p.through}
  ELSE p.through = NoBound

\* A page and the request it answers.
Follows(p, q) ==
  /\ p.kind = "page"
  /\ p.ids \in Seq(listed)
  /\ p.more \in BOOLEAN
  /\ p.next = IF p.ids = <<>> THEN q.after ELSE Last(p.ids)
  /\ Ascending(p.ids)
  /\ Len(p.ids) <= q.limit
  /\ \A k \in DOMAIN p.ids : p.ids[k] > q.after
  /\ p.more => p.ids # <<>>

\* A page leaves out no row of the first reading, but beyond its next cursor.
Covers(p, q) ==
  IF q.target = 0
  THEN \A i \in start : i > q.after =>
         i \in ToSet(p.ids) \/ (p.more /\ i > p.next)
  ELSE p.ids = <<q.target>>

Answer ==
  \/ response = NoResponse
  \/ request # NoRequest /\ response \in {Refusal, Error}
  \/ /\ request # NoRequest
     /\ Follows(response, request)
     /\ Bounded(response, request)
     /\ Covers(response, request)

\* The page on the screen is where the walk is.
Walking ==
  /\ screen.kind = "page"
  /\ screen.next \in Nat
  /\ screen.more \in BOOLEAN
  /\ IF listing = "HISTORY"
     THEN /\ watermark \in screen.next..Len(rows)
          /\ start = {i \in listed : i <= watermark}
          /\ ToSet(shown) \subseteq start
     ELSE watermark = NoBound
  /\ \A i \in start : i \in ToSet(shown) \/ (screen.more /\ i > screen.next)
  /\ \A k \in DOMAIN shown : shown[k] <= screen.next

Walked ==
  /\ start \subseteq listed
  /\ shown \in Seq(Nat)
  /\ Ascending(shown)
  /\ \/ screen = NoPage /\ shown = <<>> /\ watermark = NoBound
     \/ screen = GivenUp /\ listing = "NAMES" /\ watermark = NoBound
     \/ Walking

IInv ==
  /\ TableSound /\ Asked /\ Answer /\ Walked
  /\ ~ stopped
  /\ lost = {}

-----------------------------------------------------------------------------
(* Numbers, orders and prefixes.                                           *)

Less == {ss \in Nat \X Nat : ss[1] < ss[2]}

\* A non-empty set of naturals has a least element.
LEMMA SmallestExists ==
  ASSUME NEW T, T \subseteq Nat, T # {}
  PROVE  \E n \in T : \A m \in T : n <= m
<1>1. IsWellFoundedOn(Less, Nat)
  BY NatLessThanWellFounded DEF OpToRel, Less
<1>2. PICK n \in T : \A m \in T : ~ (<<m, n>> \in Less)
  BY <1>1, WFMin
<1>3. \A m \in T : ~ (m < n)
  BY <1>2 DEF Less
<1> QED BY <1>3

\* A bounded set of naturals has a largest element, which is its Max.
LEMMA MaxIsIn ==
  ASSUME NEW b \in Nat, NEW S, S # {}, \A n \in S : n \in 0..b
  PROVE  Max(S) \in S /\ \A n \in S : n <= Max(S)
<1> DEFINE U == {n \in Nat : \A s \in S : s <= n}
<1>1. U \subseteq Nat /\ b \in U
  OBVIOUS
<1>2. PICK m \in U : \A n \in U : m <= n
  <2> HIDE DEF U
  <2> QED BY <1>1, SmallestExists
<1>3. m \in S
  <2> SUFFICES ASSUME m \notin S PROVE FALSE
    OBVIOUS
  <2>1. m \in Nat /\ \A s \in S : s <= m /\ s # m
    BY <1>2
  <2>2. PICK s \in S : TRUE
    OBVIOUS
  <2>3. m # 0
    BY <2>1, <2>2
  <2>4. m - 1 \in U
    BY <2>1, <2>3
  <2> QED BY <1>2, <2>1, <2>4
<1>4. \E x \in S : \A y \in S : x >= y
  BY <1>2, <1>3
<1>5. Max(S) \in S /\ \A y \in S : Max(S) >= y
  BY <1>4 DEF Max
<1> QED BY <1>5

\* The smaller of two numbers.
LEMMA MinOfTwo ==
  ASSUME NEW a \in Nat, NEW b \in Nat
  PROVE  Min({a, b}) = IF a <= b THEN a ELSE b
<1>1. \E x \in {a, b} : \A y \in {a, b} : x <= y
  OBVIOUS
<1>2. Min({a, b}) \in {a, b} /\ \A y \in {a, b} : Min({a, b}) <= y
  BY <1>1 DEF Min
<1> QED BY <1>2

\* A sequence over a set is one over a larger set.
LEMMA SeqGrows ==
  ASSUME NEW S, NEW T, S \subseteq T, NEW s \in Seq(S)
  PROVE  s \in Seq(T)
<1>1. Len(s) \in Nat /\ s \in [1..Len(s) -> S]
  OBVIOUS
<1>2. s \in [1..Len(s) -> T]
  BY <1>1
<1> QED BY <1>1, <1>2

IsOrder(s, set) ==
  /\ s \in [1..Cardinality(set) -> set]
  /\ Ascending(s)
  /\ ToSet(s) = set

\* A bounded set has an order.
LEMMA OrderExists ==
  ASSUME NEW b \in Nat, NEW S \in SUBSET (1..b)
  PROVE  \E s : IsOrder(s, S)
<1> DEFINE T == {n \in Nat : \E U \in SUBSET (1..n) : ~ \E s : IsOrder(s, U)}
<1>1. SUFFICES ASSUME T # {} PROVE FALSE
  BY b \notin T
<1>2. PICK n \in T : \A m \in T : n <= m
  <2>1. T \subseteq Nat
    OBVIOUS
  <2> HIDE DEF T
  <2> QED BY <1>1, <2>1, SmallestExists
<1>3. PICK U \in SUBSET (1..n) : ~ \E s : IsOrder(s, U)
  BY <1>2
<1>4. n \in Nat /\ IsFiniteSet(U)
  <2>1. n \in Nat
    BY <1>2
  <2>2. IsFiniteSet(1..n)
    BY <2>1, FS_Interval
  <2> QED BY <2>1, <2>2, FS_Subset
<1>5. U # {}
  <2> SUFFICES ASSUME U = {} PROVE FALSE
    OBVIOUS
  <2>1. Cardinality(U) = 0
    BY FS_EmptySet
  <2> DEFINE e == [i \in 1..0 |-> i]
  <2>2. e \in [1..Cardinality(U) -> U] /\ DOMAIN e = {}
    BY <2>1
  <2>3. IsOrder(e, U)
    BY <2>2 DEF IsOrder, Ascending, ToSet
  <2> QED BY <2>3, <1>3
<1>6. n # 0
  <2> SUFFICES ASSUME n = 0 PROVE FALSE
    OBVIOUS
  <2>1. 1..n = {}
    OBVIOUS
  <2> HIDE DEF T
  <2> QED BY <2>1, <1>5, U \subseteq 1..n
<1>7. n - 1 \in Nat /\ n - 1 \notin T
  BY <1>2, <1>4, <1>6
<1>8. \A V \in SUBSET (1..(n - 1)) : \E s : IsOrder(s, V)
  BY <1>7
<1>9. n \in U
  <2> SUFFICES ASSUME n \notin U PROVE FALSE
    OBVIOUS
  <2>1. U \in SUBSET (1..(n - 1))
    BY <1>4
  <2> QED BY <2>1, <1>8, <1>3
<1> DEFINE V == U \ {n}
           c == Cardinality(V)
<1>10. V \in SUBSET (1..(n - 1)) /\ \A i \in V : i < n
  BY <1>4
<1>11. PICK s : IsOrder(s, V)
  BY <1>8, <1>10
<1>12. c \in Nat /\ Cardinality(U) = c + 1
  <2>1. IsFiniteSet(V) /\ n \notin V /\ U = V \cup {n}
    BY <1>4, <1>9, FS_Subset
  <2> HIDE DEF V
  <2> QED BY <2>1, FS_AddElement, FS_CardinalityType
<1> HIDE DEF c, T
<1>13. s \in [1..c -> V] /\ Ascending(s) /\ ToSet(s) = V
  BY <1>11 DEF IsOrder, c
<1> DEFINE t == [i \in 1..(c + 1) |-> IF i = c + 1 THEN n ELSE s[i]]
<1>14. t \in [1..Cardinality(U) -> U]
  BY <1>9, <1>12, <1>13
<1>15. Ascending(t)
  <2> SUFFICES ASSUME NEW i \in 1..(c + 1), NEW j \in 1..(c + 1), i < j
               PROVE  t[i] < t[j]
    BY DEF Ascending
  <2>1. CASE j = c + 1
    BY <2>1, <1>10, <1>12, <1>13
  <2>2. CASE j # c + 1
    <3>1. i \in 1..c /\ j \in 1..c
      BY <2>2, <1>12
    <3>2. s[i] < s[j]
      BY <3>1, <1>13 DEF Ascending
    <3> QED BY <3>1, <3>2, <1>12
  <2> QED BY <2>1, <2>2
<1>16. ToSet(t) = U
  <2>1. \A x \in V : \E i \in 1..(c + 1) : x = t[i]
    <3> SUFFICES ASSUME NEW x \in V PROVE \E i \in 1..(c + 1) : x = t[i]
      OBVIOUS
    <3>1. PICK i \in 1..c : x = s[i]
      BY <1>13 DEF ToSet
    <3>2. i \in 1..(c + 1) /\ t[i] = s[i]
      BY <1>12
    <3> QED BY <3>1, <3>2
  <2>2. c + 1 \in 1..(c + 1) /\ t[c + 1] = n
    BY <1>12
  <2>3. \A x \in U : \E i \in 1..(c + 1) : x = t[i]
    BY <2>1, <2>2
  <2>4. \A i \in 1..(c + 1) : t[i] \in U
    BY <1>14, <1>12
  <2> HIDE DEF V
  <2> QED BY <2>3, <2>4 DEF ToSet
<1> QED BY <1>3, <1>14, <1>15, <1>16 DEF IsOrder

\* Every set of rows is read in order, all of it.
LEMMA OrderLeads ==
  ASSUME NEW b \in Nat, NEW S \in SUBSET (1..b)
  PROVE  Leads(S, InOrder(S)) /\ ToSet(InOrder(S)) = S
<1>1. PICK s : IsOrder(s, S)
  BY OrderExists
<1>2. /\ InOrder(S) \in [1..Cardinality(S) -> S]
      /\ Ascending(InOrder(S)) /\ ToSet(InOrder(S)) = S
  BY <1>1 DEF InOrder, IsOrder
<1>3. Cardinality(S) \in Nat
  <2>1. IsFiniteSet(1..b) /\ S \subseteq 1..b
    BY FS_Interval
  <2> QED BY <2>1, FS_Subset, FS_CardinalityType
<1>4. InOrder(S) \in Seq(S)
  BY <1>2, <1>3
<1> QED BY <1>2, <1>4 DEF Leads

\* A prefix of the first ids of a set.
LEMMA PrefixLeads ==
  ASSUME NEW S \in SUBSET Nat, NEW ids, Leads(S, ids), NEW n \in 0..Len(ids)
  PROVE  /\ Leads(S, Prefix(ids, n))
         /\ Len(Prefix(ids, n)) = n
         /\ \A k \in 1..n : Prefix(ids, n)[k] = ids[k]
         /\ n = Len(ids) => ToSet(Prefix(ids, n)) = ToSet(ids)
<1> DEFINE p == Prefix(ids, n)
<1>1. ids \in Seq(S) /\ Len(ids) \in Nat /\ \A k \in 1..Len(ids) : ids[k] \in S
  BY DEF Leads
<1>2. /\ p \in Seq(S)
      /\ Len(p) = IF 1 <= n THEN n - 1 + 1 ELSE 0
      /\ \A k \in 1..(n - 1 + 1) : p[k] = ids[1 + k - 1]
  <2>1. n \in Int /\ 1 \in Int /\ \A k \in 1..n : ids[k] \in S
    BY <1>1
  <2> QED BY ONLY <2>1, SubSeqProperties DEF Prefix
<1>3. Len(p) = n /\ \A k \in 1..n : p[k] = ids[k] /\ ids[k] \in S
  <2>1. \A k \in 1..n : k \in 1..(n - 1 + 1) /\ 1 + k - 1 = k
    BY <1>1
  <2>2. n \in Nat
    BY <1>1
  <2> HIDE DEF p
  <2> QED BY <1>1, <1>2, <2>1, <2>2
<1> HIDE DEF p
<1>4. DOMAIN p = 1..n /\ DOMAIN ids = 1..Len(ids)
  BY <1>1, <1>2, <1>3
<1>5. Ascending(p)
  <2> SUFFICES ASSUME NEW i \in DOMAIN p, NEW j \in DOMAIN p, i < j
               PROVE  p[i] < p[j]
    BY DEF Ascending
  <2>1. i \in DOMAIN ids /\ j \in DOMAIN ids
    BY <1>1, <1>4
  <2> QED BY <2>1, <1>3, <1>4 DEF Leads, Ascending
<1>6. ASSUME NEW i \in S
      PROVE  i \in ToSet(p) \/ \A k \in DOMAIN p : p[k] < i
  <2>1. CASE \A k \in DOMAIN ids : ids[k] < i
    BY <2>1, <1>1, <1>3, <1>4
  <2>2. CASE i \in ToSet(ids)
    <3>1. PICK j \in 1..Len(ids) : i = ids[j]
      BY <2>2, <1>4 DEF ToSet
    <3>2. CASE j <= n
      <4>1. j \in DOMAIN p /\ p[j] = i
        BY <3>1, <3>2, <1>3, <1>4
      <4> QED BY <4>1 DEF ToSet
    <3>3. CASE ~ (j <= n)
      <4> SUFFICES ASSUME NEW k \in 1..n PROVE p[k] < i
        BY <1>4
      <4>1. k \in DOMAIN ids /\ k < j
        BY <3>3, <1>1, <1>4
      <4> QED BY <4>1, <3>1, <1>3, <1>4 DEF Leads, Ascending
    <3> QED BY <3>2, <3>3
  <2> QED BY <2>1, <2>2 DEF Leads
<1>7. n = Len(ids) => ToSet(p) = ToSet(ids)
  BY <1>3, <1>4 DEF ToSet
<1>8. Leads(S, p)
  BY <1>2, <1>5, <1>6 DEF Leads
<1> QED BY <1>3, <1>7, <1>8 DEF p

-----------------------------------------------------------------------------
(* What the server builds.                                                 *)

\* The rows of a table are numbered from 1.
LEMMA ListedAreIds ==
  ASSUME TableSound
  PROVE  Len(rows) \in Nat /\ listed \subseteq 1..Len(rows)
BY DEF TableSound

\* What the database returns are the first rows a query finds, and all of
\* them if it says that there are no more.
LEMMA ReadLeads ==
  ASSUME TableSound, NEW q, q.limit \in Nat \ {0}
  PROVE  /\ Leads(Match(q), Read(q).ids)
         /\ Len(Read(q).ids) <= q.limit
         /\ Read(q).more \in BOOLEAN
         /\ Read(q).more => Read(q).ids # <<>>
         /\ ~ Read(q).more => ToSet(Read(q).ids) = Match(q)
<1> DEFINE found == InOrder(Match(q))
           n     == Min({Len(found), q.limit})
<1>1. Match(q) \in SUBSET (1..Len(rows)) /\ Len(rows) \in Nat
  BY ListedAreIds DEF Match
<1>2. Leads(Match(q), found) /\ ToSet(found) = Match(q)
  BY <1>1, OrderLeads
<1>3. Match(q) \in SUBSET Nat
  BY <1>1
<1>4. /\ Read(q).ids = Prefix(found, n)
      /\ Read(q).more = (Len(found) > q.limit)
  BY DEF Read, Prefix
<1> HIDE DEF found
<1>5. Len(found) \in Nat
  BY <1>2 DEF Leads
<1>6. n = IF Len(found) <= q.limit THEN Len(found) ELSE q.limit
  BY <1>5, MinOfTwo
<1> HIDE DEF n
<1>7. n \in 0..Len(found) /\ n <= q.limit
  BY <1>5, <1>6
<1>8. /\ Leads(Match(q), Prefix(found, n)) /\ Len(Prefix(found, n)) = n
      /\ n = Len(found) => ToSet(Prefix(found, n)) = ToSet(found)
  BY <1>2, <1>3, <1>7, PrefixLeads
<1>9. Len(found) > q.limit => n # 0
  BY <1>5, <1>6
<1>10. ~ (Len(found) > q.limit) => n = Len(found)
  BY <1>5, <1>6
<1>11. Len(Read(q).ids) <= q.limit /\ Leads(Match(q), Read(q).ids)
  BY <1>4, <1>7, <1>8
<1>12. Read(q).more => Read(q).ids # <<>>
  <2>1. Prefix(found, n) = <<>> => n = 0
    BY <1>8
  <2> QED BY <1>4, <1>9, <2>1
<1>13. ~ Read(q).more => ToSet(Read(q).ids) = Match(q)
  BY <1>2, <1>4, <1>8, <1>10
<1>14. Read(q).more \in BOOLEAN
  BY <1>4
<1> QED BY <1>11, <1>12, <1>13, <1>14

\* A response without rows has no bytes beyond its fixed part, one with a
\* single row has those of the row.
LEMMA FewBytes ==
  /\ SumFunctionOnSet(rows, {}) = 0
  /\ \A i : SumFunctionOnSet(rows, {i}) = rows[i] + 0
<1> DEFINE Body(U, g) == [s \in SUBSET U |->
              IF s = {} THEN 0
              ELSE rows[CHOOSE x \in s : TRUE] + g[s \ {CHOOSE x \in s : TRUE}]]
           Sum(U) == CHOOSE g : g = Body(U, g)
<1>1. \A U : SumFunctionOnSet(rows, U) = Sum(U)[U]
  BY DEF SumFunctionOnSet, FoldFunctionOnSet, MapThenFoldSet
<1>2. ASSUME NEW U, NEW f, f = Body(U, f) PROVE Sum(U) = Body(U, Sum(U))
  <2> HIDE DEF Body
  <2> QED BY <1>2
<1>3. Sum({}) = Body({}, Sum({}))
  <2> DEFINE f == [s \in SUBSET {} |-> 0]
  <2>1. f = Body({}, f)
    OBVIOUS
  <2> HIDE DEF f, Body
  <2> QED BY <2>1, <1>2
<1>4. SumFunctionOnSet(rows, {}) = 0
  <2> HIDE DEF Sum
  <2>1. {} \in SUBSET {}
    OBVIOUS
  <2>2. Sum({})[{}] = 0
    BY <1>3, <2>1
  <2> QED BY <1>1, <2>2
<1>5. ASSUME NEW i PROVE SumFunctionOnSet(rows, {i}) = rows[i] + 0
  <2> DEFINE U == {i}
             f == [s \in SUBSET U |-> IF s = {} THEN 0 ELSE rows[i] + 0]
  <2>1. \A s \in SUBSET U :
          s # {} => (CHOOSE x \in s : TRUE) = i /\ s \ {i} = {}
    OBVIOUS
  <2>2. f[{}] = 0
    BY {} \in SUBSET U
  <2>3. ASSUME NEW s \in SUBSET U
        PROVE  f[s] = IF s = {} THEN 0
              ELSE rows[CHOOSE x \in s : TRUE] + f[s \ {CHOOSE x \in s : TRUE}]
    <3>1. CASE s = {}
      BY <3>1
    <3>2. CASE s # {}
      <4>1. f[s] = rows[i] + 0
        BY <3>2
      <4> HIDE DEF f
      <4> QED BY <3>2, <4>1, <2>1, <2>2
    <3> QED BY <3>1, <3>2
  <2>4. f = Body(U, f)
    <3>1. f = [s \in SUBSET U |-> f[s]]
      OBVIOUS
    <3> HIDE DEF f
    <3> QED BY <3>1, <2>3
  <2>5. Sum(U) = Body(U, Sum(U))
    <3> HIDE DEF f, Body, U
    <3> QED BY <2>4, <1>2
  <2> HIDE DEF Sum
  <2>6. Sum(U)[{}] = 0
    BY <2>5, {} \in SUBSET U
  <2>7. Sum(U)[U] = rows[CHOOSE x \in U : TRUE]
                      + Sum(U)[U \ {CHOOSE x \in U : TRUE}]
    BY <2>5, U \in SUBSET U, U # {}
  <2>8. (CHOOSE x \in U : TRUE) = i /\ U \ {i} = {}
    OBVIOUS
  <2> HIDE DEF U
  <2>9. Sum(U)[U] = rows[i] + 0
    BY <2>6, <2>7, <2>8
  <2> QED BY <1>1, <2>9 DEF U
<1> QED BY <1>4, <1>5

\* The loops that keep the rows that fit keep some of those read, and
\* BuildPage's loop keeps none only if the first does not fit.
LEMMA KeptFit ==
  ASSUME TableSound, NEW read, NEW S \in SUBSET listed,
         Leads(S, read.ids)
  PROVE  /\ Kept(read) \in 0..Len(read.ids)
         /\ read.ids # <<>> /\ Kept(read) = 0 =>
              Bytes(Prefix(read.ids, 1), 1 < Len(read.ids) \/ read.more) > Room
<1> DEFINE Fits(n) == \A k \in 1..n :
             Bytes(Prefix(read.ids, k), k < Len(read.ids) \/ read.more) <= Room
           K == {n \in 0..Len(read.ids) : Fits(n)}
<1>1. read.ids \in Seq(S) /\ Len(read.ids) \in Nat
  BY DEF Leads
<1>2. Kept(read) = Max(K)
  BY DEF Kept
<1>3. 0 \in K /\ \A n \in K : n \in 0..Len(read.ids)
  BY <1>1
<1>4. Max(K) \in K /\ \A n \in K : n <= Max(K)
  <2> HIDE DEF K
  <2> QED BY <1>1, <1>3, MaxIsIn
<1>5. ASSUME read.ids # <<>>, Kept(read) = 0
      PROVE  Bytes(Prefix(read.ids, 1), 1 < Len(read.ids) \/ read.more) > Room
  <2>0. 1 \in 1..Len(read.ids)
    BY <1>1, <1>5
  <2>1. 1 \notin K
    <3> HIDE DEF K
    <3> QED BY <1>2, <1>4, <1>5
  <2>2. ~ Fits(1)
    BY <2>0, <2>1
  <2> DEFINE b == Bytes(Prefix(read.ids, 1), 1 < Len(read.ids) \/ read.more)
  <2>3. ~ (b <= Room)
    BY <2>2
  <2>4. b \in Nat
    <3> DEFINE p == Prefix(read.ids, 1)
    <3>1. Len(p) = 1 /\ p[1] = read.ids[1] /\ p \in Seq(Nat)
      <4>1. S \in SUBSET Nat
        BY ListedAreIds
      <4>a. read.ids[1] \in S
        BY <1>1, <2>0
      <4>2. read.ids[1] \in Nat
        BY <4>a, <4>1
      <4>3. \A k \in 1..1 : read.ids[k] \in Nat
        BY <4>2
      <4> QED BY ONLY <4>3, SubSeqProperties DEF Prefix
    <3>2. ToSet(p) = {read.ids[1]}
      <4> HIDE DEF p
      <4> QED BY <3>1 DEF ToSet
    <3>3. rows[read.ids[1]] \in Nat
      <4>1. read.ids[1] \in DOMAIN rows
        BY <1>1, <2>0 DEF TableSound
      <4>2. rows[read.ids[1]] \in Size
        BY <4>1 DEF TableSound
      <4> QED BY <4>2, SizeAssumption
    <3>4. SumFunctionOnSet(rows, ToSet(p)) \in Nat
      <4>1. PICK i : i = read.ids[1]
        OBVIOUS
      <4>2. SumFunctionOnSet(rows, ToSet(p)) = rows[i] + 0
        BY <3>2, <4>1, FewBytes
      <4> QED BY <3>3, <4>1, <4>2
    <3> HIDE DEF p
    <3> QED BY <3>4 DEF Bytes, p
  <2> HIDE DEF b
  <2>5. b > Room
    BY <2>3, <2>4, BoundsAssumption
  <2> QED BY <2>5 DEF b
<1> HIDE DEF K
<1> QED BY <1>2, <1>3, <1>4, <1>5

\* So does the loop of writePage.
LEMMA WrittenFit ==
  ASSUME NEW ids \in Seq(Nat)
  PROVE  Max({k \in 0..Len(ids) : Bytes(Prefix(ids, k), TRUE) <= Room})
           \in 0..Len(ids)
<1> DEFINE K == {k \in 0..Len(ids) : Bytes(Prefix(ids, k), TRUE) <= Room}
<1>1. Prefix(ids, 0) = <<>>
  BY SubSeqEmpty DEF Prefix
<1>2. Bytes(Prefix(ids, 0), TRUE) = 0
  <2>1. ToSet(<<>>) = {}
    BY DEF ToSet
  <2>2. SumFunctionOnSet(rows, ToSet(Prefix(ids, 0))) = 0
    BY <1>1, <2>1, FewBytes
  <2> QED BY <2>2 DEF Bytes
<1>3. 0 \in K /\ \A k \in K : k \in 0..Len(ids)
  <2>1. 0 \in 0..Len(ids) /\ 0 <= Room
    BY BoundsAssumption
  <2> QED BY <1>2, <2>1
<1>4. Max(K) \in K
  <2> HIDE DEF K
  <2> QED BY <1>3, MaxIsIn
<1> QED BY <1>3, <1>4

\* A page of the first rows that a query finds follows the cursor, and leaves
\* out only rows beyond the next.
LEMMA CutFollows ==
  ASSUME TableSound, NEW q, q.after \in Nat, q.limit \in Nat \ {0},
         NEW n \in 0..Len(Read(q).ids), Read(q).ids # <<>> => n # 0,
         NEW p, p.kind = "page", p.ids = Prefix(Read(q).ids, n),
         p.next = IF n = 0 THEN q.after ELSE Last(p.ids),
         p.more = (Read(q).more \/ n < Len(Read(q).ids))
  PROVE  /\ Follows(p, q)
         /\ p.ids \in Seq(Match(q))
         /\ \A i \in Match(q) : i \in ToSet(p.ids) \/ (p.more /\ i > p.next)
<1>1. PICK S, ids : S = Match(q) /\ ids = Read(q).ids
  OBVIOUS
<1>2. S \in SUBSET Nat /\ S \in SUBSET listed /\ \A i \in S : i > q.after
  BY <1>1, ListedAreIds DEF Match
<1>3. /\ Leads(S, ids) /\ Len(ids) <= q.limit
      /\ Read(q).more \in BOOLEAN
      /\ Read(q).more => ids # <<>>
      /\ ~ Read(q).more => ToSet(ids) = S
  BY <1>1, ReadLeads
<1>4. n \in 0..Len(ids) /\ (ids # <<>> => n # 0)
  BY <1>1
<1>5. /\ Leads(S, Prefix(ids, n)) /\ Len(Prefix(ids, n)) = n
      /\ n = Len(ids) => ToSet(Prefix(ids, n)) = ToSet(ids)
  BY <1>2, <1>3, <1>4, PrefixLeads
<1>6. /\ p.ids = Prefix(ids, n) /\ p.kind = "page"
      /\ p.next = IF n = 0 THEN q.after ELSE Last(p.ids)
      /\ p.more = (Read(q).more \/ n < Len(ids))
  BY <1>1
<1>7. p.ids \in Seq(S) /\ Ascending(p.ids) /\ Len(p.ids) = n
  BY <1>5, <1>6 DEF Leads
<1>8. p.ids \in Seq(listed) /\ \A k \in DOMAIN p.ids : p.ids[k] > q.after
  <2>1. \A k \in DOMAIN p.ids : p.ids[k] \in S
    BY <1>7
  <2>2. p.ids \in Seq(listed)
    BY <1>2, <1>7, SeqGrows
  <2> QED BY <1>2, <2>1, <2>2
<1>9. (p.ids = <<>>) = (n = 0) /\ Len(p.ids) <= q.limit
  <2>1. ids \in Seq(S) /\ Len(ids) \in Nat
    BY <1>3 DEF Leads
  <2>2. (p.ids = <<>>) = (n = 0)
    BY <1>7
  <2>3. Len(p.ids) <= q.limit
    BY <1>3, <1>4, <1>7, <2>1
  <2> QED BY <2>2, <2>3
<1>10. p.more \in BOOLEAN /\ (p.more => p.ids # <<>>)
  <2>1. p.more \in BOOLEAN
    BY <1>3, <1>6
  <2>2. ASSUME p.more, n = 0 PROVE FALSE
    <3>1. ids = <<>>
      BY <1>4, <2>2
    <3>2. Len(ids) = 0
      BY <3>1
    <3> QED BY <1>3, <1>6, <2>2, <3>1, <3>2
  <2> QED BY <2>1, <2>2, <1>9
<1>11. Follows(p, q)
  BY <1>6, <1>7, <1>8, <1>9, <1>10 DEF Follows
<1>12. ASSUME NEW i \in S, i \notin ToSet(p.ids)
       PROVE  p.more /\ i > p.next
  <2>1. p.more
    <3>1. ids \in Seq(S) /\ Len(ids) \in Nat
      BY <1>3 DEF Leads
    <3>2. CASE n = Len(ids)
      <4>1. ToSet(ids) # S
        BY <3>2, <1>5, <1>6, <1>12
      <4>2. Read(q).more
        BY <4>1, <1>3
      <4> QED BY <4>2, <1>6
    <3>3. CASE n # Len(ids)
      <4>1. n < Len(ids)
        BY <3>1, <3>3, <1>4
      <4> QED BY <4>1, <1>6
    <3> QED BY <3>2, <3>3
  <2>2. \A k \in DOMAIN p.ids : p.ids[k] < i
    BY <1>5, <1>6, <1>12 DEF Leads
  <2>3. Len(p.ids) \in DOMAIN p.ids /\ p.next = p.ids[Len(p.ids)]
    BY <2>1, <1>6, <1>7, <1>9, <1>10 DEF Last
  <2>4. p.ids[Len(p.ids)] \in Nat /\ i \in Nat
    <3>1. p.ids[Len(p.ids)] \in S
      BY <1>7, <2>3
    <3> QED BY <1>2, <3>1
  <2> QED BY <2>1, <2>2, <2>3, <2>4
<1> QED BY <1>1, <1>7, <1>11, <1>12

\* buildGroupListResponse and the discovery requests: every row of the query
\* up to the next cursor.
LEMMA BuildPageFollows ==
  ASSUME TableSound, NEW q, q.after \in Nat, q.limit \in Nat \ {0},
         NEW p, p = BuildPage(q, Read(q)), p # Refusal
  PROVE  /\ Follows(p, q)
         /\ p.ids \in Seq(Match(q))
         /\ p.through = NoBound
         /\ \A i \in Match(q) : i \in ToSet(p.ids) \/ (p.more /\ i > p.next)
<1> DEFINE n == Kept(Read(q))
<1>1. n \in 0..Len(Read(q).ids)
  <2>1. Match(q) \in SUBSET listed /\ Leads(Match(q), Read(q).ids)
    BY ReadLeads DEF Match
  <2> QED BY <2>1, KeptFit
<1>2. /\ Read(q).ids # <<>> => n # 0
      /\ p = Page(Prefix(Read(q).ids, n),
                  IF n = 0 THEN q.after ELSE Last(Prefix(Read(q).ids, n)),
                  NoBound, Read(q).more \/ n < Len(Read(q).ids))
  BY DEF BuildPage
<1>3. /\ p.kind = "page" /\ p.ids = Prefix(Read(q).ids, n)
      /\ p.next = IF n = 0 THEN q.after ELSE Last(p.ids)
      /\ p.more = (Read(q).more \/ n < Len(Read(q).ids))
      /\ p.through = NoBound
  BY <1>2 DEF Page
<1> HIDE DEF n
<1> QED BY <1>1, <1>2, <1>3, CutFollows

\* writePage for a history: the same up to the watermark.
LEMMA HistoryPageFollows ==
  ASSUME TableSound, NEW q, q.after \in Nat, q.limit \in Nat \ {0},
         DOMAIN q = {"after", "through", "limit", "target"},
         NEW through,
         through = IF q.through = NoBound THEN Highest ELSE q.through,
         NEW r, r = [q EXCEPT !.through = through],
         NEW p, p = HistoryPage(q), p # Refusal
  PROVE  /\ Follows(p, q)
         /\ p.ids \in Seq(Match(r))
         /\ p.through = through
         /\ \A i \in Match(r) : i \in ToSet(p.ids) \/ (p.more /\ i > p.next)
<1> DEFINE ids == Read(r).ids
           n   == Max({k \in 0..Len(ids) : Bytes(Prefix(ids, k), TRUE) <= Room})
<1>1. p = WritePage(q, Read(r), through)
  BY DEF HistoryPage
<1>2. r.after = q.after /\ r.limit = q.limit
  OBVIOUS
<1>3. ids \in Seq(Nat)
  <2>1. Leads(Match(r), Read(r).ids)
    BY <1>2, ReadLeads
  <2>2. Match(r) \subseteq Nat
    BY ListedAreIds DEF Match
  <2>3. ids \in Seq(Match(r))
    BY <2>1 DEF Leads
  <2> QED BY <2>2, <2>3, SeqGrows
<1>4. n \in 0..Len(ids)
  <2> HIDE DEF ids
  <2> QED BY <1>3, WrittenFit
<1>5. /\ ids # <<>> => n # 0
      /\ p = Page(Prefix(ids, n),
                  IF n = 0 THEN r.after ELSE Last(Prefix(ids, n)),
                  through, Read(r).more \/ n < Len(ids))
  BY <1>1, <1>2 DEF WritePage
<1>6. /\ p.kind = "page" /\ p.ids = Prefix(ids, n)
      /\ p.next = IF n = 0 THEN r.after ELSE Last(p.ids)
      /\ p.more = (Read(r).more \/ n < Len(ids))
      /\ p.through = through
  BY <1>5 DEF Page
<1> HIDE DEF n
<1>7. /\ Follows(p, r)
      /\ p.ids \in Seq(Match(r))
      /\ \A i \in Match(r) : i \in ToSet(p.ids) \/ (p.more /\ i > p.next)
  <2>1. r.after \in Nat /\ r.limit \in Nat \ {0}
    BY <1>2
  <2>2. ids # <<>> => n # 0
    BY <1>5
  <2> QED BY ONLY TableSound, <2>1, <2>2, <1>4, <1>6, CutFollows
<1>8. Follows(p, q)
  BY <1>2, <1>7 DEF Follows
<1> QED BY <1>6, <1>7, <1>8

\* The watermark of a history is its last message.
LEMMA HighestIsLast ==
  ASSUME TableSound
  PROVE  Highest \in 0..Len(rows) /\ \A i \in listed : i <= Highest
<1>1. Len(rows) \in Nat /\ \A i \in listed : i \in 0..Len(rows)
  BY ListedAreIds
<1>2. CASE listed = {}
  BY <1>1, <1>2 DEF Highest
<1>3. CASE listed # {}
  <2>1. Max(listed) \in listed /\ \A i \in listed : i <= Max(listed)
    BY <1>1, <1>3, MaxIsIn
  <2> QED BY <1>1, <1>3, <2>1 DEF Highest
<1> QED BY <1>2, <1>3

\* What a request asks for.
LEMMA RequestIs ==
  ASSUME IInv, request # NoRequest
  PROVE  /\ request.after \in Nat /\ request.limit \in Nat \ {0}
         /\ DOMAIN request = {"after", "through", "limit", "target"}
         /\ \/ /\ request.target = 0 /\ request.limit = PageLimit
               /\ screen = NoPage
               /\ request.after = 0 /\ request.through = NoBound
            \/ /\ request.target = 0 /\ request.limit = PageLimit
               /\ Walking /\ screen.more
               /\ request.after = screen.next /\ request.through = watermark
            \/ /\ listing = "NAMES"
               /\ request.target \in listed /\ request.target \in Nat \ {0}
               /\ request.limit = 1 /\ request.through = NoBound
               /\ request.after = request.target - 1
<1>1. CASE request = First /\ screen = NoPage
  BY <1>1, BoundsAssumption DEF First, Ask
<1>2. CASE screen.kind = "page" /\ screen.more /\ request = After
  <2>1. Walking
    <3>1. NoPage.kind # "page" /\ GivenUp.kind # "page"
      BY DEF NoPage, GivenUp
    <3>2. screen # NoPage /\ screen # GivenUp
      BY <1>2, <3>1
    <3> QED BY <3>2 DEF IInv, Walked
  <2>2. screen.next \in Nat
    BY <2>1 DEF Walking
  <2> QED BY <1>2, <2>1, <2>2, BoundsAssumption DEF After, Ask
<1>3. CASE /\ listing = "NAMES" /\ request.target \in listed
           /\ request = One(request.target)
  <2>1. PICK g \in Nat \ {0} : g = request.target
    BY <1>3, ListedAreIds DEF IInv
  <2>2. request = Ask(g - 1, NoBound, 1, g)
    BY <1>3, <2>1 DEF One
  <2> QED BY <1>3, <2>1, <2>2 DEF Ask
<1> QED BY <1>1, <1>2, <1>3 DEF IInv, Asked

\* The listings that are not histories are answered with every row that the
\* walk has to see.
LEMMA ListingAnswered ==
  ASSUME IInv, request # NoRequest, listing # "HISTORY",
         NEW p, p = BuildPage(request, Read(request)), p # Refusal,
         NEW s, s \subseteq listed,
         screen # NoPage => s = start
  PROVE  /\ Follows(p, request)
         /\ p.through = NoBound
         /\ IF request.target = 0
            THEN \A i \in s : i > request.after =>
                   i \in ToSet(p.ids) \/ (p.more /\ i > p.next)
            ELSE p.ids = <<request.target>>
<1>1. TableSound /\ request.after \in Nat /\ request.limit \in Nat \ {0}
  BY RequestIs DEF IInv
<1>2. /\ Follows(p, request) /\ p.through = NoBound
      /\ p.ids \in Seq(Match(request))
      /\ \A i \in Match(request) :
           i \in ToSet(p.ids) \/ (p.more /\ i > p.next)
  BY <1>1, BuildPageFollows
<1>3. request.through = NoBound
  BY RequestIs DEF Walking
<1>4. Match(request) = {i \in listed : i > request.after}
  BY <1>3 DEF Match
<1>5. CASE request.target = 0
  BY <1>2, <1>4, <1>5
<1>6. CASE request.target # 0
  <2>1. PICK g \in Nat \ {0} :
          /\ g = request.target /\ g \in listed /\ request.after = g - 1
          /\ request.limit = 1
    BY <1>6, RequestIs
  <2>2. g \in Match(request)
    BY <1>4, <2>1
  <2>3. /\ Len(p.ids) <= 1
        /\ p.more => p.ids # <<>>
        /\ p.next = IF p.ids = <<>> THEN g - 1 ELSE Last(p.ids)
    BY <1>2, <2>1 DEF Follows
  <2>4. \A k \in DOMAIN p.ids : p.ids[k] > g - 1 /\ p.ids[k] \in Nat
    <3>1. \A k \in DOMAIN p.ids : p.ids[k] \in Match(request)
      BY <1>2
    <3>2. Match(request) \subseteq Nat
      BY <1>1, ListedAreIds DEF Match
    <3> QED BY <3>1, <3>2, <1>4, <2>1
  <2>5. DOMAIN p.ids = 1..Len(p.ids) /\ Len(p.ids) \in Nat
        /\ p.ids \in Seq(Match(request))
    BY <1>2
  <2>6. g \in ToSet(p.ids)
    <3> SUFFICES ASSUME p.more, g > p.next PROVE FALSE
      BY <1>2, <2>2
    <3>1. p.ids # <<>> /\ p.next = p.ids[Len(p.ids)]
      BY <2>3 DEF Last
    <3>2. Len(p.ids) \in DOMAIN p.ids
      BY <2>5, <3>1
    <3> QED BY <2>4, <3>1, <3>2
  <2>7. PICK k \in DOMAIN p.ids : p.ids[k] = g
    BY <2>6 DEF ToSet
  <2>8. Len(p.ids) = 1 /\ k = 1
    <3>1. PICK m \in Nat : m = Len(p.ids)
      BY <2>5
    <3>2. k \in 1..m
      BY <2>5, <3>1
    <3>3. m <= 1
      BY <2>3, <3>1
    <3>4. m = 1
      BY <3>2, <3>3
    <3>5. k = 1
      BY <3>2, <3>4
    <3> QED BY <3>1, <3>4, <3>5
  <2>9. p.ids = <<g>>
    BY <2>5, <2>7, <2>8
  <2> QED BY <1>2, <1>6, <2>1, <2>9
<1> QED BY <1>2, <1>5, <1>6

\* A page of a history is answered with every message up to the watermark,
\* which the first page takes.
LEMMA HistoryAnswered ==
  ASSUME IInv, request # NoRequest, listing = "HISTORY",
         NEW p, p = HistoryPage(request), p # Refusal,
         NEW s, s \subseteq listed,
         s = IF screen = NoPage THEN listed ELSE start
  PROVE  /\ Follows(p, request) /\ request.target = 0
         /\ p.through \in request.after..Len(rows)
         /\ watermark \in {NoBound, p.through}
         /\ \A k \in DOMAIN p.ids : p.ids[k] <= p.through
         /\ s = {i \in listed : i <= p.through}
         /\ \A i \in s : i > request.after =>
              i \in ToSet(p.ids) \/ (p.more /\ i > p.next)
<1> DEFINE through == IF request.through = NoBound THEN Highest
                      ELSE request.through
           r == [request EXCEPT !.through = through]
<1>1. /\ TableSound /\ request.after \in Nat /\ request.limit \in Nat \ {0}
      /\ DOMAIN request = {"after", "through", "limit", "target"}
  BY RequestIs DEF IInv
<1>2. /\ Follows(p, request) /\ p.through = through
      /\ p.ids \in Seq(Match(r))
      /\ \A i \in Match(r) : i \in ToSet(p.ids) \/ (p.more /\ i > p.next)
  <2>1. PICK t, u : t = through /\ u = r
    OBVIOUS
  <2>2. /\ t = IF request.through = NoBound THEN Highest ELSE request.through
        /\ u = [request EXCEPT !.through = t]
    BY <2>1
  <2> HIDE DEF through, r
  <2>3. /\ Follows(p, request) /\ p.through = t
        /\ p.ids \in Seq(Match(u))
        /\ \A i \in Match(u) : i \in ToSet(p.ids) \/ (p.more /\ i > p.next)
    BY <1>1, <2>2, HistoryPageFollows
  <2> QED BY <2>1, <2>3
<1>3. r.after = request.after /\ r.through = through
  BY <1>1
<1> HIDE DEF r
<1>4. /\ request.target = 0
      /\ through \in request.after..Len(rows)
      /\ watermark \in {NoBound, through}
      /\ s = {i \in listed : i <= through}
  <2>1. CASE /\ request.target = 0 /\ screen = NoPage /\ request.after = 0
             /\ request.through = NoBound
    <3>1. through = Highest /\ s = listed
      BY <2>1
    <3>2. Highest \in 0..Len(rows) /\ \A i \in listed : i <= Highest
      BY <1>1, HighestIsLast
    <3>3. watermark = NoBound
      <4>1. NoPage.kind # "page" /\ NoPage # GivenUp
        BY DEF NoPage, GivenUp
      <4> QED BY <2>1, <4>1 DEF IInv, Walked, Walking
    <3> QED BY <2>1, <3>1, <3>2, <3>3
  <2>2. CASE /\ request.target = 0 /\ Walking
             /\ request.after = screen.next /\ request.through = watermark
    <3>1. /\ screen # NoPage /\ watermark \in Nat
          /\ watermark \in screen.next..Len(rows)
          /\ start = {i \in listed : i <= watermark}
      <4>1. NoPage.kind # "page"
        BY DEF NoPage
      <4>2. screen.next \in Nat /\ Len(rows) \in Nat
        BY <1>1, <2>2, ListedAreIds DEF Walking
      <4> QED BY <2>2, <4>1, <4>2 DEF Walking
    <3>2. through = watermark
      BY <2>2, <3>1, NoBoundAssumption
    <3> QED BY <2>2, <3>1, <3>2
  <2> QED BY <2>1, <2>2, RequestIs
<1>5. through \in Nat
  BY <1>1, <1>4, ListedAreIds
<1> HIDE DEF through
<1>6. Match(r) = {i \in listed : i > request.after /\ i <= through}
  BY <1>3, <1>5, NoBoundAssumption DEF Match
<1>7. \A k \in DOMAIN p.ids : p.ids[k] <= p.through
  <2>1. \A k \in DOMAIN p.ids : p.ids[k] \in Match(r)
    BY <1>2
  <2> QED BY <2>1, <1>2, <1>6
<1> QED BY <1>2, <1>4, <1>6, <1>7

\* Every answer of the server keeps the invariant: to the first page, the
\* listing as it is now.
LEMMA ServeKeeps ==
  ASSUME IInv, Serve
  PROVE  IInv'
<1>1. /\ request # NoRequest /\ response = NoResponse
      /\ UNCHANGED <<listing, rows, listed, request, screen, watermark,
                     stopped, shown, lost>>
      /\ start' = IF screen = NoPage /\ request.target = 0
                  THEN listed ELSE start
      /\ \/ response' = Error
         \/ listing = "HISTORY" /\ response' = HistoryPage(request)
         \/ /\ listing # "HISTORY"
            /\ response' = BuildPage(request, Read(request))
  BY DEF Serve, tableVars
<1>2. TableSound' /\ Asked' /\ ~ stopped' /\ lost' = {}
  BY <1>1 DEF IInv, TableSound, Asked, First, After, One
<1>3. start' \subseteq listed
  BY <1>1 DEF IInv, Walked
<1>4. Walked'
  <2>1. NoPage.kind # "page" /\ NoPage # GivenUp
    BY DEF NoPage, GivenUp
  <2>2. CASE screen = NoPage
    BY <1>1, <1>3, <2>1, <2>2 DEF IInv, Walked, Walking
  <2>3. CASE screen # NoPage
    BY <1>1, <2>3 DEF IInv, Walked, Walking
  <2> QED BY <2>2, <2>3
<1>5. Answer'
  <2>1. CASE response' \in {Refusal, Error}
    BY <1>1, <2>1 DEF Answer
  <2>2. CASE listing = "HISTORY" /\ response' = HistoryPage(request)
             /\ response' # Refusal
    <3>1. request.target = 0
      BY <1>1, <2>2, RequestIs
    <3>2. start' = IF screen = NoPage THEN listed ELSE start
      BY <1>1, <3>1
    <3>3. PICK p, s : p = response' /\ s = start'
      OBVIOUS
    <3>4. /\ Follows(p, request)
          /\ p.through \in request.after..Len(rows)
          /\ watermark \in {NoBound, p.through}
          /\ \A k \in DOMAIN p.ids : p.ids[k] <= p.through
          /\ s = {i \in listed : i <= p.through}
          /\ \A i \in s : i > request.after =>
               i \in ToSet(p.ids) \/ (p.more /\ i > p.next)
      BY <1>1, <1>3, <2>2, <3>2, <3>3, HistoryAnswered
    <3>5. Follows(p, request)'
      BY <1>1, <3>4 DEF Follows
    <3> QED
      BY <1>1, <2>2, <3>1, <3>3, <3>4, <3>5 DEF Answer, Bounded, Covers,
         Follows
  <2>3. CASE /\ listing # "HISTORY"
             /\ response' = BuildPage(request, Read(request))
             /\ response' # Refusal
    <3>1. screen # NoPage => start' = start
      BY <1>1
    <3>3. PICK p, s : p = response' /\ s = start'
      OBVIOUS
    <3>4. /\ Follows(p, request)
          /\ p.through = NoBound
          /\ IF request.target = 0
             THEN \A i \in s : i > request.after =>
                    i \in ToSet(p.ids) \/ (p.more /\ i > p.next)
             ELSE p.ids = <<request.target>>
      BY <1>1, <1>3, <2>3, <3>1, <3>3, ListingAnswered
    <3> QED
      BY <1>1, <2>3, <3>3, <3>4 DEF Answer, Bounded, Covers, Follows
  <2> QED BY <1>1, <2>1, <2>2, <2>3
<1> QED BY <1>2, <1>4, <1>5 DEF IInv

-----------------------------------------------------------------------------
(* What the client does with a page.                                       *)

\* The ids of a page and the cursor before them ascend.
LEMMA CursorAscends ==
  ASSUME NEW a \in Nat, NEW s \in Seq(Nat), Ascending(s),
         \A k \in DOMAIN s : s[k] > a
  PROVE  /\ Ascending(<<a>> \o s)
         /\ Last(<<a>> \o s) = IF s = <<>> THEN a ELSE Last(s)
<1> DEFINE t == <<a>> \o s
<1>1. /\ t \in Seq(Nat) /\ Len(t) = Len(s) + 1 /\ Len(s) \in Nat
      /\ DOMAIN t = 1..(Len(s) + 1) /\ DOMAIN s = 1..Len(s)
      /\ t[1] = a /\ \A k \in 1..Len(s) : t[k + 1] = s[k]
  OBVIOUS
<1> HIDE DEF t
<1>2. \A k \in DOMAIN t : k # 1 => k - 1 \in DOMAIN s /\ t[k] = s[k - 1]
  <2> SUFFICES ASSUME NEW k \in DOMAIN t, k # 1
               PROVE  k - 1 \in DOMAIN s /\ t[k] = s[k - 1]
    OBVIOUS
  <2>1. k - 1 \in 1..Len(s) /\ k - 1 + 1 = k
    BY <1>1
  <2> QED BY <2>1, <1>1
<1>3. Ascending(t)
  <2> SUFFICES ASSUME NEW i \in DOMAIN t, NEW j \in DOMAIN t, i < j
               PROVE  t[i] < t[j]
    BY DEF Ascending
  <2>1. j # 1 /\ j - 1 \in DOMAIN s /\ t[j] = s[j - 1] /\ s[j - 1] \in Nat
    BY <1>1, <1>2
  <2>2. CASE i = 1
    BY <2>1, <2>2, <1>1
  <2>3. CASE i # 1
    <3>1. i - 1 \in DOMAIN s /\ t[i] = s[i - 1] /\ i - 1 < j - 1
      BY <1>1, <1>2, <2>3
    <3> QED BY <2>1, <3>1 DEF Ascending
  <2> QED BY <2>2, <2>3
<1>4. Last(t) = IF s = <<>> THEN a ELSE Last(s)
  <2>1. Last(t) = t[Len(s) + 1]
    BY <1>1 DEF Last
  <2>2. CASE s = <<>>
    BY <2>1, <2>2, <1>1
  <2>3. CASE s # <<>>
    <3>1. Len(s) # 0
      BY <2>3
    <3>2. Len(s) \in 1..Len(s)
      BY <1>1, <3>1
    <3> QED BY <2>1, <2>3, <3>2, <1>1 DEF Last
  <2> QED BY <2>2, <2>3
<1> QED BY <1>3, <1>4 DEF t

\* The pages of a walk, one after the other.
LEMMA ConcatAscends ==
  ASSUME NEW s \in Seq(Nat), NEW t \in Seq(Nat), NEW a \in Nat,
         Ascending(s), Ascending(t),
         \A k \in DOMAIN s : s[k] <= a, \A k \in DOMAIN t : t[k] > a
  PROVE  /\ s \o t \in Seq(Nat)
         /\ Ascending(s \o t)
         /\ ToSet(s \o t) = ToSet(s) \cup ToSet(t)
<1> DEFINE u == s \o t
<1>1. /\ u \in Seq(Nat) /\ Len(s) \in Nat /\ Len(t) \in Nat
      /\ DOMAIN u = 1..(Len(s) + Len(t))
      /\ DOMAIN s = 1..Len(s) /\ DOMAIN t = 1..Len(t)
      /\ \A k \in 1..(Len(s) + Len(t)) :
           u[k] = IF k <= Len(s) THEN s[k] ELSE t[k - Len(s)]
  OBVIOUS
<1> HIDE DEF u
<1>2. ASSUME NEW k \in DOMAIN u
      PROVE  IF k <= Len(s) THEN k \in DOMAIN s /\ u[k] = s[k]
             ELSE k - Len(s) \in DOMAIN t /\ u[k] = t[k - Len(s)]
  BY <1>1
<1>3. Ascending(u)
  <2> SUFFICES ASSUME NEW i \in DOMAIN u, NEW j \in DOMAIN u, i < j
               PROVE  u[i] < u[j]
    BY DEF Ascending
  <2>1. CASE j <= Len(s)
    <3>1. i <= Len(s)
      BY <1>1, <2>1
    <3> QED BY <1>2, <2>1, <3>1 DEF Ascending
  <2>2. CASE ~ (j <= Len(s)) /\ i <= Len(s)
    <3>1. /\ u[i] = s[i] /\ i \in DOMAIN s
          /\ u[j] = t[j - Len(s)] /\ j - Len(s) \in DOMAIN t
      BY <1>2, <2>2
    <3>2. s[i] <= a /\ t[j - Len(s)] > a
      BY <3>1
    <3>3. s[i] \in Nat /\ t[j - Len(s)] \in Nat
      BY <3>1
    <3> QED BY <3>1, <3>2, <3>3
  <2>3. CASE ~ (j <= Len(s)) /\ ~ (i <= Len(s))
    <3>1. /\ u[i] = t[i - Len(s)] /\ i - Len(s) \in DOMAIN t
          /\ u[j] = t[j - Len(s)] /\ j - Len(s) \in DOMAIN t
      BY <1>2, <2>3
    <3>2. i - Len(s) < j - Len(s)
      BY <1>1
    <3> QED BY <3>1, <3>2 DEF Ascending
  <2> QED BY <2>1, <2>2, <2>3
<1>4. ToSet(u) = ToSet(s) \cup ToSet(t)
  <2>1. \A k \in DOMAIN u : u[k] \in ToSet(s) \cup ToSet(t)
    BY <1>2 DEF ToSet
  <2>2. \A k \in DOMAIN s : k \in DOMAIN u /\ s[k] = u[k]
    BY <1>1
  <2>3. ASSUME NEW k \in DOMAIN t PROVE \E l \in DOMAIN u : t[k] = u[l]
    <3>1. /\ Len(s) + k \in DOMAIN u /\ ~ (Len(s) + k <= Len(s))
          /\ Len(s) + k - Len(s) = k
      BY <1>1
    <3> QED BY <3>1, <1>1
  <2> QED BY <2>1, <2>2, <2>3 DEF ToSet
<1> QED BY <1>1, <1>3, <1>4 DEF u

\* The next cursor of a page lies behind the cursor asked for, and behind
\* no row of the page.
LEMMA NextIsLast ==
  ASSUME IInv, request # NoRequest, NEW p, Follows(p, request)
  PROVE  /\ request.after \in Nat
         /\ p.ids \in Seq(Nat) /\ p.next \in Nat
         /\ p.next >= request.after
         /\ p.ids # <<>> => p.next > request.after
         /\ \A k \in DOMAIN p.ids : p.ids[k] \in listed /\ p.ids[k] <= p.next
<1> DEFINE a == request.after
<1>1. /\ p.ids \in Seq(Nat) /\ Len(p.ids) \in Nat
      /\ DOMAIN p.ids = 1..Len(p.ids)
      /\ \A k \in DOMAIN p.ids : p.ids[k] \in listed /\ p.ids[k] \in Nat
  <2>1. p.ids \in Seq(listed) /\ listed \subseteq Nat
    BY ListedAreIds DEF Follows, IInv
  <2>2. p.ids \in Seq(Nat)
    BY <2>1, SeqGrows
  <2> QED BY <2>1, <2>2
<1>2. a \in Nat
  BY RequestIs
<1>3. CASE p.ids = <<>>
  BY <1>1, <1>2, <1>3 DEF Follows
<1>4. CASE p.ids # <<>>
  <2>1. Len(p.ids) \in DOMAIN p.ids
    BY <1>1, <1>4
  <2>2. p.next = p.ids[Len(p.ids)]
    BY <1>4 DEF Follows, Last
  <2>3. p.next > a /\ p.next \in Nat
    BY <1>1, <2>1, <2>2 DEF Follows
  <2>4. ASSUME NEW k \in DOMAIN p.ids PROVE p.ids[k] <= p.next
    <3>1. CASE k = Len(p.ids)
      BY <2>2, <2>3, <3>1
    <3>2. CASE k # Len(p.ids)
      <4>1. k < Len(p.ids)
        BY <1>1, <3>2
      <4>2. p.ids[k] < p.ids[Len(p.ids)]
        BY <2>1, <4>1 DEF Follows, Ascending
      <4> QED BY <1>1, <2>2, <2>3, <4>2
    <3> QED BY <3>1, <3>2
  <2>5. p.next >= a
    BY <1>2, <2>3
  <2> HIDE DEF a
  <2> QED BY <1>1, <1>2, <2>3, <2>4, <2>5 DEF a
<1> QED BY <1>3, <1>4

\* The client takes every page that the server builds.
LEMMA PagesAreValid ==
  ASSUME IInv, response.kind = "page"
  PROVE  /\ Valid(response, request)
         /\ request # NoRequest
         /\ Follows(response, request)
         /\ Bounded(response, request)
         /\ Covers(response, request)
         /\ listing = "HISTORY" =>
              response.through \in Nat /\ response.next <= response.through
<1>1. /\ request # NoRequest
      /\ Follows(response, request)
      /\ Bounded(response, request)
      /\ Covers(response, request)
  <2>1. NoResponse.kind # "page" /\ Refusal.kind # "page" /\ Error.kind # "page"
    BY DEF NoResponse, Refusal, Error
  <2> QED BY <2>1 DEF IInv, Answer
<1> DEFINE p == response
           q == request
<1>2. /\ p.ids \in Seq(Nat) /\ q.after \in Nat
      /\ p.next \in Nat /\ p.next >= q.after
  BY <1>1, NextIsLast
<1>3. CASE listing = "HISTORY"
  <2>1. /\ p.through \in q.after..Len(rows)
        /\ watermark \in {NoBound, p.through}
        /\ \A k \in DOMAIN p.ids : p.ids[k] <= p.through
    BY <1>1, <1>3 DEF Bounded
  <2>2. p.next <= p.through
    <3>1. CASE p.ids = <<>>
      BY <1>1, <1>2, <2>1, <3>1 DEF Follows
    <3>2. CASE p.ids # <<>>
      <4>1. Len(p.ids) \in DOMAIN p.ids
        BY <1>2, <3>2
      <4> QED BY <1>1, <2>1, <3>2, <4>1 DEF Follows, Last
    <3> QED BY <3>1, <3>2
  <2>3. p.through \in Nat
    BY <1>2, <2>1, ListedAreIds DEF IInv
  <2>4. p.next \in q.after..p.through
    BY <1>2, <2>2, <2>3
  <2>5. ValidHistory(p, q)
    BY <1>1, <2>1, <2>4 DEF ValidHistory, Follows
  <2> QED BY <1>1, <1>3, <2>2, <2>3, <2>5 DEF Valid
<1>4. CASE listing \in {"GROUP_LIST", "NAMES"}
  <2>1. /\ Ascending(<<q.after>> \o p.ids)
        /\ Last(<<q.after>> \o p.ids) = p.next
    BY <1>1, <1>2, CursorAscends DEF Follows
  <2>2. ValidGroupList(p, q)
    BY <1>1, <2>1 DEF ValidGroupList, Follows
  <2> QED BY <1>1, <1>4, <2>2 DEF Valid
<1>5. CASE listing \notin {"HISTORY", "GROUP_LIST", "NAMES"}
  <2>1. ValidDiscovery(p, q)
    BY <1>1, <1>2 DEF ValidDiscovery, Follows
  <2> QED BY <1>1, <1>5, <2>1 DEF Valid
<1> QED BY <1>3, <1>4, <1>5

\* The walk goes on from the page that was taken.
LEMMA TakePageKeeps ==
  ASSUME IInv, TakePage
  PROVE  IInv'
<1>1. /\ response.kind = "page" /\ request.target = 0
      /\ Valid(response, request) /\ request # NoRequest
      /\ Follows(response, request)
      /\ Bounded(response, request)
      /\ Covers(response, request)
      /\ listing = "HISTORY" =>
           response.through \in Nat /\ response.next <= response.through
  BY PagesAreValid DEF TakePage
<1>2. /\ screen' = response /\ watermark' = response.through
      /\ shown' = shown \o response.ids
      /\ request' = NoRequest /\ response' = NoResponse
      /\ UNCHANGED <<listing, rows, listed, start, stopped, lost>>
  BY <1>1 DEF TakePage, Answered, tableVars
<1> DEFINE a == request.after
<1>3. PICK p : p = response
  OBVIOUS
<1>4. /\ a \in Nat /\ p.ids \in Seq(Nat) /\ p.next \in Nat /\ p.next >= a
      /\ \A k \in DOMAIN p.ids : p.ids[k] \in listed /\ p.ids[k] <= p.next
  BY <1>1, <1>3, NextIsLast
<1>5. listed \subseteq Nat \ {0} /\ Len(rows) \in Nat
  BY ListedAreIds DEF IInv
<1>6. start \subseteq listed /\ shown \in Seq(Nat) /\ Ascending(shown)
  BY DEF IInv, Walked
<1>7. /\ \A k \in DOMAIN shown : shown[k] <= a
      /\ \A i \in start : i > a \/ i \in ToSet(shown)
      /\ listing = "HISTORY" => ToSet(shown) \subseteq start
  <2>1. CASE screen = NoPage /\ a = 0
    <3>1. shown = <<>>
      <4>1. NoPage.kind # "page" /\ NoPage # GivenUp
        BY DEF NoPage, GivenUp
      <4> QED BY <2>1, <4>1 DEF IInv, Walked, Walking
    <3>2. DOMAIN shown = {} /\ ToSet(shown) = {}
      BY <3>1 DEF ToSet
    <3>3. \A i \in start : i > 0
      BY <1>5, <1>6
    <3> HIDE DEF a
    <3> QED BY <2>1, <3>2, <3>3
  <2>2. CASE Walking /\ a = screen.next
    <3> HIDE DEF a
    <3> QED BY <2>2 DEF Walking
  <2> QED BY <2>1, <2>2, <1>1, RequestIs
<1>8. /\ shown' \in Seq(Nat) /\ Ascending(shown')
      /\ ToSet(shown') = ToSet(shown) \cup ToSet(p.ids)
  <2>1. Ascending(p.ids) /\ \A k \in DOMAIN p.ids : p.ids[k] > a
    BY <1>1, <1>3 DEF Follows
  <2> HIDE DEF a
  <2> QED BY <1>2, <1>3, <1>4, <1>6, <1>7, <2>1, ConcatAscends
<1>9. p.kind = "page" /\ p.next \in Nat /\ p.more \in BOOLEAN
  BY <1>1, <1>3, <1>4 DEF Follows
<1>10. ASSUME NEW i \in start
       PROVE  i \in ToSet(shown') \/ (p.more /\ i > p.next)
  <2>1. i > a => i \in ToSet(p.ids) \/ (p.more /\ i > p.next)
    BY <1>1, <1>3 DEF Covers
  <2> HIDE DEF a
  <2> QED BY <1>7, <1>8, <2>1
<1>11. \A k \in DOMAIN shown' : shown'[k] <= p.next
  <2>1. \A x \in ToSet(shown) : x <= p.next
    <3> SUFFICES ASSUME NEW k \in DOMAIN shown PROVE shown[k] <= p.next
      BY DEF ToSet
    <3>1. shown[k] \in Nat /\ shown[k] <= a
      BY <1>6, <1>7
    <3> HIDE DEF a
    <3> QED BY <1>4, <3>1
  <2>2. \A x \in ToSet(p.ids) : x <= p.next
    BY <1>4 DEF ToSet
  <2>3. \A x \in ToSet(shown') : x <= p.next
    BY <1>8, <2>1, <2>2
  <2>4. \A k \in DOMAIN shown' : shown'[k] \in ToSet(shown')
    BY DEF ToSet
  <2> QED BY <2>3, <2>4
<1>12. IF listing = "HISTORY"
       THEN /\ p.through \in p.next..Len(rows)
            /\ start = {i \in listed : i <= p.through}
            /\ ToSet(shown') \subseteq start
       ELSE p.through = NoBound
  <2>1. CASE listing # "HISTORY"
    BY <1>1, <1>3, <2>1 DEF Bounded
  <2>2. CASE listing = "HISTORY"
    <3>1. /\ p.through \in a..Len(rows) /\ p.through \in Nat
          /\ p.next <= p.through
          /\ \A k \in DOMAIN p.ids : p.ids[k] <= p.through
          /\ start = {i \in listed : i <= p.through}
      BY <1>1, <1>3, <2>2 DEF Bounded
    <3>2. p.through \in p.next..Len(rows)
      BY <1>4, <1>5, <3>1
    <3>3. \A k \in DOMAIN p.ids : p.ids[k] \in start
      BY <1>4, <3>1
    <3>4. ToSet(p.ids) \subseteq start
      BY <3>3 DEF ToSet
    <3> QED BY <1>7, <1>8, <2>2, <3>1, <3>2, <3>4
  <2> QED BY <2>1, <2>2
<1>13. Walking'
  BY <1>2, <1>3, <1>9, <1>10, <1>11, <1>12 DEF Walking
<1>14. Walked'
  BY <1>2, <1>6, <1>8, <1>13 DEF Walked
<1>15. TableSound' /\ ~ stopped' /\ lost' = {}
  BY <1>2 DEF IInv, TableSound
<1>16. Asked' /\ Answer'
  BY <1>2 DEF Asked, Answer
<1> QED BY <1>14, <1>15, <1>16 DEF IInv

\* Without a request on its way nothing is asked or answered.
LEMMA NothingAsked ==
  ASSUME IInv, request' = NoRequest, response' = NoResponse,
         UNCHANGED <<listing, rows, listed, start, watermark, shown>>,
         screen' = screen \/ (screen' = GivenUp /\ listing = "NAMES"),
         ~ stopped', lost' = {}
  PROVE  IInv'
<1>1. TableSound' /\ Asked' /\ Answer'
  BY DEF IInv, TableSound, Asked, Answer
<1>2. CASE screen' = screen
  BY <1>1, <1>2 DEF IInv, Walked, Walking
<1>3. CASE screen' = GivenUp /\ listing = "NAMES"
  <2>1. watermark = NoBound
    BY <1>3 DEF IInv, Walked, Walking
  <2>2. Walked'
    BY <1>3, <2>1 DEF IInv, Walked
  <2> QED BY <1>1, <2>2 DEF IInv
<1> QED BY <1>2, <1>3

\* A lookup finds the one group it asks for.
LEMMA TakeNameKeeps ==
  ASSUME IInv, TakeName
  PROVE  IInv'
<1>1. /\ Valid(response, request) /\ request.target # 0
      /\ Covers(response, request)
  BY PagesAreValid DEF TakeName
<1>2. response.ids = <<request.target>>
  BY <1>1 DEF Covers
<1>3. request.target \in ToSet(response.ids)
  <2>1. PICK g : g = request.target
    OBVIOUS
  <2>2. response.ids = <<g>>
    BY <1>2, <2>1
  <2>3. 1 \in DOMAIN <<g>> /\ <<g>>[1] = g
    OBVIOUS
  <2> QED BY <2>1, <2>2, <2>3 DEF ToSet
<1>4. lost' = {} /\ ~ stopped'
  BY <1>1, <1>3 DEF TakeName, IInv
<1>5. /\ request' = NoRequest /\ response' = NoResponse
      /\ UNCHANGED <<listing, rows, listed, start, watermark, shown>>
      /\ screen' = screen
  BY DEF TakeName, Answered, tableVars
<1> QED BY <1>4, <1>5, NothingAsked

\* A failure leaves the page, or ends the walk of the names.
LEMMA TakeFailureKeeps ==
  ASSUME IInv, TakeFailure
  PROVE  IInv'
<1>1. /\ request' = NoRequest /\ response' = NoResponse
      /\ UNCHANGED <<listing, rows, listed, start, watermark, shown>>
      /\ ~ stopped' /\ lost' = {}
      /\ screen' = screen \/ (screen' = GivenUp /\ listing = "NAMES")
  BY DEF TakeFailure, Answered, tableVars, IInv
<1> QED BY <1>1, NothingAsked

\* A request is sent only if none is on its way.
LEMMA SendKeeps ==
  ASSUME IInv, FirstPage \/ NextPage \/ \E g \in DOMAIN rows : LookUpName(g)
  PROVE  IInv'
<1>1. /\ request = NoRequest
      /\ UNCHANGED <<listing, rows, listed, response, screen, watermark, start,
                     shown, stopped, lost>>
  BY DEF FirstPage, NextPage, LookUpName, Send, tableVars, walkVars
<1>2. response = NoResponse
  BY <1>1 DEF IInv, Answer
<1>3. Asked'
  <2>1. CASE FirstPage
    BY <1>1, <2>1 DEF FirstPage, Send, Asked, First
  <2>2. CASE NextPage
    BY <1>1, <2>2 DEF NextPage, Send, Asked, After
  <2>3. CASE \E g \in DOMAIN rows : LookUpName(g)
    <3>1. PICK g \in DOMAIN rows : LookUpName(g)
      BY <2>3
    <3>2. /\ request' = One(g) /\ One(g).target = g
          /\ listing = "NAMES" /\ g \in listed
      BY <3>1 DEF LookUpName, Send, One, Ask
    <3>3. /\ listing' = "NAMES" /\ request'.target \in listed'
          /\ request' = One(request'.target)
      BY <1>1, <3>2
    <3>4. One(request'.target) = One(request.target)'
      BY DEF One, Ask
    <3> QED BY <3>3, <3>4 DEF Asked
  <2> QED BY <2>1, <2>2, <2>3
<1>4. TableSound' /\ Answer' /\ Walked'
  BY <1>1, <1>2 DEF IInv, TableSound, Answer, Walked, Walking
<1> QED BY <1>1, <1>3, <1>4 DEF IInv

\* A row is added at the end of the table: beyond every watermark.
LEMMA InsertKeeps ==
  ASSUME IInv, NEW size \in Size, NEW shows \in BOOLEAN, Insert(size, shows)
  PROVE  IInv'
<1> DEFINE n == Len(rows) + 1
<1>1. /\ rows' = Append(rows, size)
      /\ listed' = IF shows THEN listed \cup {Len(rows')} ELSE listed
      /\ UNCHANGED <<listing, request, response, screen, watermark, start,
                     shown, stopped, lost>>
  BY DEF Insert, walkVars
<1>2. rows \in Seq(Size) /\ Len(rows) \in Nat /\ listed \subseteq 1..Len(rows)
  BY ListedAreIds DEF IInv, TableSound
<1>3. rows' \in Seq(Size) /\ Len(rows') = n /\ DOMAIN rows' = 1..n
  BY <1>1, <1>2
<1>4. listed \subseteq listed' /\ listed' \subseteq listed \cup {n}
  BY <1>1, <1>3
<1>5. TableSound'
  BY <1>2, <1>3, <1>4 DEF TableSound
<1>6. Asked'
  BY <1>1, <1>4 DEF IInv, Asked, First, After, One
<1>7. \A b \in 0..Len(rows) :
        b \in 0..n /\ {i \in listed' : i <= b} = {i \in listed : i <= b}
  <2> SUFFICES ASSUME NEW b \in 0..Len(rows)
               PROVE  b \in 0..n
                      /\ {i \in listed' : i <= b} = {i \in listed : i <= b}
    OBVIOUS
  <2>1. ~ (n <= b) /\ b \in 0..n
    BY <1>2
  <2> HIDE DEF n
  <2> QED BY <1>4, <2>1
<1>8. Answer'
  <2>1. CASE response \in {NoResponse, Refusal, Error}
    BY <1>1, <2>1 DEF IInv, Answer
  <2>2. CASE response \notin {NoResponse, Refusal, Error}
    <3>1. /\ request # NoRequest /\ Follows(response, request)
          /\ Bounded(response, request) /\ Covers(response, request)
      BY <2>2 DEF IInv, Answer
    <3>2. response.ids \in Seq(listed')
      BY <1>4, <3>1, SeqGrows DEF Follows
    <3>3. Follows(response, request)'
      BY <1>1, <3>1, <3>2 DEF Follows
    <3>4. Covers(response, request)'
      BY <1>1, <3>1 DEF Covers
    <3>5. Bounded(response, request)'
      <4>1. CASE listing = "HISTORY"
        <5>1. /\ request.after \in Nat
              /\ response.through \in request.after..Len(rows)
          BY <3>1, <4>1, RequestIs DEF Bounded
        <5>2. response.through \in 0..Len(rows)
          BY <5>1, <1>2
        <5>3. response.through \in request.after..n
          BY <5>1, <1>2
        <5>4. start = {i \in listed' : i <= response.through}
          BY <1>7, <3>1, <4>1, <5>2 DEF Bounded
        <5> HIDE DEF n
        <5> QED BY <1>1, <1>3, <3>1, <4>1, <5>3, <5>4 DEF Bounded
      <4>2. CASE listing # "HISTORY"
        BY <1>1, <3>1, <4>2 DEF Bounded
      <4> QED BY <4>1, <4>2
    <3> QED BY <1>1, <3>1, <3>3, <3>4, <3>5 DEF Answer
  <2> QED BY <2>1, <2>2
<1>9. Walking => Walking'
  <2> SUFFICES ASSUME Walking PROVE Walking'
    OBVIOUS
  <2>1. CASE listing = "HISTORY"
    <3>1. screen.next \in Nat /\ watermark \in screen.next..Len(rows)
      BY <2>1 DEF Walking
    <3>2. watermark \in 0..Len(rows) /\ watermark \in screen.next..n
      BY <3>1, <1>2
    <3>3. start = {i \in listed' : i <= watermark}
      BY <1>7, <2>1, <3>2 DEF Walking
    <3> HIDE DEF n
    <3> QED BY <1>1, <1>3, <2>1, <3>2, <3>3 DEF Walking
  <2>2. CASE listing # "HISTORY"
    BY <1>1, <2>2 DEF Walking
  <2> QED BY <2>1, <2>2
<1>10. Walked'
  BY <1>1, <1>4, <1>9 DEF IInv, Walked
<1> QED BY <1>1, <1>5, <1>6, <1>8, <1>10 DEF IInv

\* The user joins a group while the names are walked.
LEMMA JoinGroupKeeps ==
  ASSUME IInv, NEW g \in DOMAIN rows, JoinGroup(g)
  PROVE  IInv'
<1>1. /\ listing = "NAMES" /\ request = NoRequest
      /\ listed' = listed \cup {g}
      /\ UNCHANGED <<listing, rows, request, response, screen, watermark,
                     start, shown, stopped, lost>>
  BY DEF JoinGroup, walkVars
<1>2. TableSound' /\ Asked' /\ Answer'
  BY <1>1 DEF IInv, TableSound, Asked, Answer
<1>3. Walked'
  BY <1>1 DEF IInv, Walked, Walking
<1> QED BY <1>1, <1>2, <1>3 DEF IInv

-----------------------------------------------------------------------------
(* The theorems.                                                           *)

\* The invariant holds before the first request.
LEMMA InitIInv == Init => IInv
<1> SUFFICES ASSUME Init PROVE IInv
  OBVIOUS
<1>1. rows \in Seq(Size)
  <2>1. PICK m \in 0..MaxRows : rows \in [1..m -> Size]
    BY DEF Init, SeqOf
  <2> QED BY <2>1, BoundsAssumption
<1>2. ToSet(shown) = {} /\ shown \in Seq(Nat) /\ Ascending(shown)
  BY DEF Init, ToSet, Ascending
<1>3. Walked
  BY <1>2 DEF Init, Walked
<1> QED BY <1>1, <1>3 DEF Init, IInv, TableSound, Asked, Answer

\* A stuttering step keeps the invariant.
LEMMA StutterKeeps ==
  ASSUME IInv, UNCHANGED vars
  PROVE  IInv'
<1>1. UNCHANGED <<listing, rows, listed, request, response, screen, watermark,
                  start, shown, stopped, lost>>
  BY DEF vars, tableVars, walkVars
<1>2. TableSound' /\ Asked' /\ Walked'
  BY <1>1 DEF IInv, TableSound, Asked, First, After, One, Walked, Walking
<1>3. Answer'
  BY <1>1 DEF IInv, Answer, Follows, Bounded, Covers
<1> QED BY <1>1, <1>2, <1>3 DEF IInv

\* IInv holds in every state of a walk, whatever is added meanwhile.
THEOREM Invariance == Spec => []IInv
<1>1. IInv /\ [Next]_vars => IInv'
  BY SendKeeps, ServeKeeps, TakePageKeeps, TakeNameKeeps, TakeFailureKeeps,
     InsertKeeps, JoinGroupKeeps, StutterKeeps DEF Next
<1> QED BY <1>1, InitIInv, PTL DEF Spec

\* No listing is shown out of order, twice or with a row left out that was
\* there when the walk began, however the limits, the sizes of the rows and the
\* insertions fall.
THEOREM WalksStayComplete == Spec => []WalkIsComplete
<1>1. IInv => WalkIsComplete
  <2> SUFFICES ASSUME IInv PROVE WalkIsComplete
    OBVIOUS
  <2>1. Ascending(shown)
    BY DEF IInv, Walked
  <2>2. ASSUME screen.kind = "page"
        PROVE  /\ start \cap 0..screen.next \subseteq ToSet(shown)
               /\ ~ screen.more => start \subseteq ToSet(shown)
               /\ ~ screen.more /\ listing = "HISTORY" => start = ToSet(shown)
    <3>1. Walking
      <4>1. NoPage.kind # "page" /\ GivenUp.kind # "page"
        BY DEF NoPage, GivenUp
      <4>2. screen # NoPage /\ screen # GivenUp
        BY <2>2, <4>1
      <4> QED BY <4>2 DEF IInv, Walked
    <3>2. /\ \A i \in start :
               i \in ToSet(shown) \/ (screen.more /\ i > screen.next)
          /\ listing = "HISTORY" => ToSet(shown) \subseteq start
          /\ screen.next \in Nat
      BY <3>1 DEF Walking
    <3> QED BY <3>2
  <2> QED BY <2>1, <2>2 DEF WalkIsComplete
<1> QED BY <1>1, Invariance, PTL

\* The client never stops over a page of its server, a page with has_more moves
\* the cursor, and a lookup finds its group.
THEOREM PagesStayTaken == Spec => []PagesAreTaken
<1>1. IInv => PagesAreTaken
  <2> SUFFICES ASSUME IInv PROVE PagesAreTaken
    OBVIOUS
  <2>1. ASSUME response.kind = "page", response.more
        PROVE  response.next > request.after
    <3>1. request # NoRequest /\ Follows(response, request)
      BY <2>1, PagesAreValid
    <3>2. response.ids # <<>>
      BY <2>1, <3>1 DEF Follows
    <3> QED BY <3>1, <3>2, NextIsLast
  <2> QED BY <2>1 DEF IInv, PagesAreTaken
<1> QED BY <1>1, Invariance, PTL

\* The first row of a page that was read is the first the query finds.
LEMMA FirstOfRead ==
  ASSUME TableSound, NEW q, q.limit \in Nat \ {0}, Read(q).ids # <<>>
  PROVE  /\ InOrder(Match(q)) # <<>>
         /\ ToSet(Prefix(Read(q).ids, 1)) = ToSet(Prefix(InOrder(Match(q)), 1))
         /\ (1 < Len(Read(q).ids) \/ Read(q).more)
              <=> Len(InOrder(Match(q))) > 1
<1> DEFINE n == Min({Len(InOrder(Match(q))), q.limit})
<1>1. PICK S, found : S = Match(q) /\ found = InOrder(S)
  OBVIOUS
<1>2. S \in SUBSET (1..Len(rows)) /\ Len(rows) \in Nat
  BY <1>1, ListedAreIds DEF Match
<1>3. Leads(S, found) /\ S \in SUBSET Nat
  <2>1. Leads(S, found)
    BY <1>1, <1>2, OrderLeads
  <2> QED BY <1>2, <2>1
<1>4. PICK c \in Nat : c = Len(found)
  BY <1>3 DEF Leads
<1>5. n = IF c <= q.limit THEN c ELSE q.limit
  BY <1>1, <1>4, MinOfTwo
<1>6. PICK ids : ids = Read(q).ids /\ ids = Prefix(found, n)
  BY <1>1 DEF Read, Prefix
<1>7. Read(q).more <=> c > q.limit
  BY <1>1, <1>4 DEF Read
<1> HIDE DEF n
<1>8. n \in 0..Len(found)
  BY <1>4, <1>5
<1>9. /\ Leads(S, ids) /\ Len(ids) = n /\ \A k \in 1..n : ids[k] = found[k]
  <2>1. /\ Leads(S, Prefix(found, n)) /\ Len(Prefix(found, n)) = n
        /\ \A k \in 1..n : Prefix(found, n)[k] = found[k]
    BY <1>3, <1>8, PrefixLeads
  <2> QED BY <1>6, <2>1
<1>10. n # 0 /\ n \in Nat /\ c # 0
  <2>1. ids # <<>> /\ ids \in Seq(S)
    BY <1>6, <1>9 DEF Leads
  <2>2. n # 0
    BY <1>9, <2>1
  <2> QED BY <1>4, <1>5, <2>2
<1>11. found # <<>> /\ 1 \in 0..Len(found) /\ 1 \in 0..Len(ids)
  <2>1. Len(<<>>) = 0
    OBVIOUS
  <2> QED BY <1>4, <1>9, <1>10, <2>1
<1>12. /\ Len(Prefix(found, 1)) = 1 /\ Prefix(found, 1)[1] = found[1]
       /\ Leads(S, Prefix(found, 1))
  <2>1. /\ Leads(S, Prefix(found, 1)) /\ Len(Prefix(found, 1)) = 1
        /\ \A k \in 1..1 : Prefix(found, 1)[k] = found[k]
    <3>1. Leads(S, found) /\ S \in SUBSET Nat /\ 1 \in 0..Len(found)
      BY <1>3, <1>11
    <3> QED BY ONLY <3>1, PrefixLeads
  <2> QED BY <2>1, 1 \in 1..1
<1>13. /\ Len(Prefix(ids, 1)) = 1 /\ Prefix(ids, 1)[1] = ids[1]
       /\ Leads(S, Prefix(ids, 1))
  <2>1. /\ Leads(S, Prefix(ids, 1)) /\ Len(Prefix(ids, 1)) = 1
        /\ \A k \in 1..1 : Prefix(ids, 1)[k] = ids[k]
    <3>1. Leads(S, ids) /\ S \in SUBSET Nat /\ 1 \in 0..Len(ids)
      BY <1>3, <1>9, <1>11
    <3> QED BY ONLY <3>1, PrefixLeads
  <2> QED BY <2>1, 1 \in 1..1
<1>14. ids[1] = found[1]
  <2>1. 1 \in 1..n
    BY <1>10
  <2> QED BY <1>9, <2>1
<1>15. DOMAIN Prefix(found, 1) = {1} /\ DOMAIN Prefix(ids, 1) = {1}
  <2>1. Prefix(found, 1) \in Seq(S) /\ Prefix(ids, 1) \in Seq(S)
    BY <1>12, <1>13 DEF Leads
  <2>2. 1..1 = {1}
    OBVIOUS
  <2> QED BY <1>12, <1>13, <2>1, <2>2
<1>16. ToSet(Prefix(ids, 1)) = ToSet(Prefix(found, 1))
  BY <1>12, <1>13, <1>14, <1>15 DEF ToSet
<1>17. (1 < n \/ c > q.limit) <=> c > 1
  BY <1>4, <1>5
<1> QED BY <1>1, <1>4, <1>6, <1>7, <1>9, <1>11, <1>16, <1>17

\* buildGroupListResponse and the discovery requests refuse nothing but a row
\* that is too large by itself.
LEMMA RefusalIsForARecord ==
  ASSUME TableSound, NEW q, q.limit \in Nat \ {0},
         BuildPage(q, Read(q)) = Refusal
  PROVE  Oversized(q)
<1>1. Read(q).ids # <<>> /\ Kept(Read(q)) = 0
  <2> SUFFICES ASSUME ~ (Read(q).ids # <<>> /\ Kept(Read(q)) = 0) PROVE FALSE
    OBVIOUS
  <2>1. BuildPage(q, Read(q)).kind = "page"
    BY DEF BuildPage, Page
  <2> QED BY <2>1 DEF Refusal
<1>2. Bytes(Prefix(Read(q).ids, 1), 1 < Len(Read(q).ids) \/ Read(q).more) > Room
  <2>1. Match(q) \in SUBSET listed /\ Leads(Match(q), Read(q).ids)
    BY ReadLeads DEF Match
  <2> QED BY <1>1, <2>1, KeptFit
<1> DEFINE found == InOrder(Match(q))
           b == 1 < Len(Read(q).ids) \/ Read(q).more
           c == Len(found) > 1
           s == ToSet(Prefix(Read(q).ids, 1))
           t == ToSet(Prefix(found, 1))
<1>3. found # <<>> /\ s = t /\ (b <=> c)
  BY <1>1, FirstOfRead
<1>4. SumFunctionOnSet(rows, s) + (IF b THEN 0 ELSE 1) > Room
  BY <1>2 DEF Bytes
<1>5. SumFunctionOnSet(rows, t) + (IF c THEN 0 ELSE 1) > Room
  <2> HIDE DEF b, c, s, t
  <2> QED BY <1>3, <1>4
<1>6. Bytes(Prefix(found, 1), Len(found) > 1) > Room
  BY <1>5 DEF Bytes
<1> QED BY <1>3, <1>6 DEF Oversized

\* RECORD_UNREPRESENTABLE is the answer to a record that cannot be sent, and to
\* no page that could have been cut.
THEOREM RefusalsAreForARecord == Spec => RefusedForARecord
<1>1. IInv /\ [Next]_vars =>
        [Refused /\ listing # "HISTORY" => Oversized(request)]_vars
  <2> SUFFICES ASSUME IInv, Next, Refused, listing # "HISTORY"
               PROVE  Oversized(request)
    OBVIOUS
  <2>1. response' = Refusal /\ response = NoResponse /\ Refusal # NoResponse
    BY DEF Refused, Refusal, NoResponse
  <2>2. Serve
    <3>1. ~ (\E size \in Size, shows \in BOOLEAN : Insert(size, shows))
      BY <2>1 DEF Insert
    <3>2. ~ (\E g \in DOMAIN rows : JoinGroup(g))
      BY <2>1 DEF JoinGroup
    <3>3. ~ FirstPage /\ ~ NextPage /\ ~ (\E g \in DOMAIN rows : LookUpName(g))
      BY <2>1 DEF FirstPage, NextPage, LookUpName, Send
    <3>4. ~ TakePage /\ ~ TakeName /\ ~ TakeFailure
      BY <2>1 DEF TakePage, TakeName, TakeFailure, Answered
    <3> QED BY <3>1, <3>2, <3>3, <3>4 DEF Next
  <2>3. request # NoRequest /\ BuildPage(request, Read(request)) = Refusal
    <3>1. Error # Refusal
      BY DEF Error, Refusal
    <3> QED BY <2>1, <2>2, <3>1 DEF Serve
  <2>4. TableSound /\ request.limit \in Nat \ {0}
    BY <2>3, RequestIs DEF IInv
  <2> QED BY <2>3, <2>4, RefusalIsForARecord
<1> QED BY <1>1, Invariance, PTL DEF Spec, RefusedForARecord
=============================================================================
