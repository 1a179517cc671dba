-------------------------- MODULE NotificationsProofs --------------------------
(***************************************************************************)
(* Proofs about FollowNotifications and PagedList, for every set of        *)
(* characters, posts, stories, syncs and writers, and for every length of  *)
(* a run and of a list.                                                    *)
(***************************************************************************)
EXTENDS FollowNotifications, PagedList, FiniteSetTheorems, SequenceTheorems, TLAPS

-----------------------------------------------------------------------------
(***************************************************************************)
(* Orders of finite sets.  R is a set of pairs, so that one lemma serves   *)
(* every ORDER BY.                                                         *)
(***************************************************************************)

Orders(R, S) ==
  /\ \A x \in S : <<x, x>> \notin R
  /\ \A x, y \in S : x # y => <<x, y>> \in R \/ <<y, x>> \in R
  /\ \A x, y, z \in S : <<x, y>> \in R /\ <<y, z>> \in R => <<x, z>> \in R

Below(R, S, x) == {y \in S : <<y, x>> \in R}
Rank(R, S, x) == Cardinality(Below(R, S, x))
FirstOf(R, S, n) == {x \in S : Rank(R, S, x) < n}

\* The rank of a member is a number below the size of the set, and grows along
\* the order.
LEMMA RankGrows ==
  ASSUME NEW S, IsFiniteSet(S), NEW R, Orders(R, S), NEW x \in S
  PROVE  /\ Rank(R, S, x) \in Nat
         /\ Rank(R, S, x) < Cardinality(S)
         /\ \A y \in S : <<x, y>> \in R => Rank(R, S, x) < Rank(R, S, y)
  <1>1. /\ Below(R, S, x) \in SUBSET S /\ x \notin Below(R, S, x)
    BY DEF Below, Orders
  <1>2. /\ IsFiniteSet(Below(R, S, x)) /\ Rank(R, S, x) \in Nat /\ Cardinality(S) \in Nat
    BY <1>1, FS_Subset, FS_CardinalityType DEF Rank
  <1>3. /\ IsFiniteSet(Below(R, S, x) \cup {x})
        /\ Cardinality(Below(R, S, x) \cup {x}) = Rank(R, S, x) + 1
    BY <1>1, <1>2, FS_AddElement DEF Rank
  <1>4. Rank(R, S, x) < Cardinality(S)
    <2>1. Below(R, S, x) \cup {x} \in SUBSET S
      BY <1>1
    <2>2. Rank(R, S, x) + 1 <= Cardinality(S)
      BY <1>3, <2>1, FS_Subset
    <2>3. QED BY <1>2, <2>2
  <1>5. ASSUME NEW y \in S, <<x, y>> \in R
        PROVE  Rank(R, S, x) < Rank(R, S, y)
    <2>1. Below(R, S, x) \cup {x} \in SUBSET Below(R, S, y)
      BY <1>5 DEF Below, Orders
    <2>2. IsFiniteSet(Below(R, S, y)) /\ Rank(R, S, y) \in Nat
      <3>1. Below(R, S, y) \in SUBSET S
        BY DEF Below
      <3>2. QED BY <3>1, FS_Subset, FS_CardinalityType DEF Rank
    <2>3. Rank(R, S, x) + 1 <= Rank(R, S, y)
      BY <1>3, <2>1, <2>2, FS_Subset DEF Rank
    <2>4. QED BY <1>2, <2>2, <2>3
  <1>6. QED BY <1>2, <1>4, <1>5

\* No two members have the same rank.
LEMMA RankIsUnique ==
  ASSUME NEW S, IsFiniteSet(S), NEW R, Orders(R, S), NEW x \in S, NEW y \in S
  PROVE  /\ Rank(R, S, x) = Rank(R, S, y) => x = y
         /\ Rank(R, S, x) < Rank(R, S, y) => <<x, y>> \in R
  <1>1. Rank(R, S, x) \in Nat /\ Rank(R, S, y) \in Nat
    BY RankGrows
  <1>2. <<x, y>> \in R => Rank(R, S, x) < Rank(R, S, y)
    BY RankGrows
  <1>3. <<y, x>> \in R => Rank(R, S, y) < Rank(R, S, x)
    BY RankGrows
  <1>4. x = y \/ <<x, y>> \in R \/ <<y, x>> \in R
    BY DEF Orders
  <1>5. QED BY <1>1, <1>2, <1>3, <1>4

\* Every number below the size of the set is a rank.
LEMMA EveryRank ==
  ASSUME NEW S, IsFiniteSet(S), NEW R, Orders(R, S), NEW k \in Nat, k < Cardinality(S)
  PROVE  \E x \in S : Rank(R, S, x) = k
  <1> DEFINE N == Cardinality(S)
             T == (0..(N - 1)) \ {k}
             f == [x \in S |-> Rank(R, S, x)]
  <1>1. SUFFICES ASSUME \A x \in S : Rank(R, S, x) # k PROVE FALSE
    OBVIOUS
  <1>2. N \in Nat
    BY FS_CardinalityType
  <1>3. IsFiniteSet(0..(N - 1)) /\ Cardinality(0..(N - 1)) = N
    <2>1. 0 \in Int /\ N - 1 \in Int
      BY <1>2
    <2>2. /\ IsFiniteSet(0..(N - 1))
          /\ Cardinality(0..(N - 1)) = IF 0 > N - 1 THEN 0 ELSE N - 1 - 0 + 1
      BY <2>1, FS_Interval
    <2>3. QED BY <1>2, <2>2
  <1>4. IsFiniteSet(T) /\ Cardinality(T) < N
    <2>1. k \in 0..(N - 1)
      BY <1>2
    <2>2. IsFiniteSet(T) /\ Cardinality(T) = N - 1
      BY <1>3, <2>1, FS_RemoveElement
    <2>3. QED BY <1>2, <2>2
  <1>5. f \in [S -> T]
    <2>1. ASSUME NEW x \in S PROVE Rank(R, S, x) \in T
      BY <1>1, <1>2, RankGrows
    <2>2. QED BY <2>1
  <1>6. PICK x, y \in S : x # y /\ f[x] = f[y]
    <2> HIDE DEF T, f
    <2> QED BY <1>4, <1>5, FS_PigeonHole
  <1>7. QED BY <1>6, RankIsUnique

\* The first n of a set: n of them if there are so many.
LEMMA FirstOfCounts ==
  ASSUME NEW S, IsFiniteSet(S), NEW R, Orders(R, S), NEW n \in Nat
  PROVE  /\ IsFiniteSet(FirstOf(R, S, n))
         /\ Cardinality(FirstOf(R, S, n)) = IF Cardinality(S) < n THEN Cardinality(S) ELSE n
  <1> DEFINE N == Cardinality(S)
             M == IF N < n THEN N ELSE n
             F == FirstOf(R, S, n)
             g == [k \in 1..M |-> CHOOSE x \in S : Rank(R, S, x) = k - 1]
  <1>1. N \in Nat /\ M \in Nat
    BY FS_CardinalityType
  <1>2. \A k \in 1..M : g[k] \in S /\ Rank(R, S, g[k]) = k - 1
    <2>1. ASSUME NEW k \in 1..M PROVE \E x \in S : Rank(R, S, x) = k - 1
      <3>1. k - 1 \in Nat /\ k - 1 < N
        BY <1>1
      <3>2. QED BY <3>1, EveryRank
    <2>2. QED BY <2>1
  <1>3. g \in [1..M -> F]
    <2>1. ASSUME NEW k \in 1..M PROVE g[k] \in F
      <3>1. g[k] \in S /\ Rank(R, S, g[k]) = k - 1
        BY <1>2
      <3>2. k - 1 < n
        BY <1>1
      <3> HIDE DEF g
      <3>3. QED BY <3>1, <3>2 DEF FirstOf
    <2>2. QED BY <2>1
  <1>4. \A j, k \in 1..M : g[j] = g[k] => j = k
    <2> SUFFICES ASSUME NEW j \in 1..M, NEW k \in 1..M, g[j] = g[k] PROVE j = k
      OBVIOUS
    <2>1. j - 1 = k - 1
      <3> HIDE DEF g
      <3> QED BY <1>2
    <2>2. QED BY <1>1, <2>1
  <1>5. ASSUME NEW x \in F PROVE \E k \in 1..M : g[k] = x
    <2>1. x \in S /\ Rank(R, S, x) \in Nat /\ Rank(R, S, x) < M
      BY RankGrows, <1>1 DEF FirstOf
    <2>2. Rank(R, S, x) + 1 \in 1..M
      BY <1>1, <2>1
    <2>3. Rank(R, S, g[Rank(R, S, x) + 1]) = Rank(R, S, x) /\ g[Rank(R, S, x) + 1] \in S
      <3>1. (Rank(R, S, x) + 1) - 1 = Rank(R, S, x)
        BY <2>1
      <3>2. QED
        <4> HIDE DEF g
        <4> QED BY <1>2, <2>2, <3>1
    <2>4. g[Rank(R, S, x) + 1] = x
      <3> HIDE DEF g
      <3> QED BY <2>1, <2>3, RankIsUnique
    <2>5. QED BY <2>2, <2>4
  <1>6. ExistsBijection(1..M, F)
    <2> HIDE DEF g, F, M, N
    <2>1. g \in Bijection(1..M, F)
      BY <1>3, <1>4, <1>5 DEF Bijection, Injection, Surjection, IsInjective
    <2>2. QED BY <2>1 DEF ExistsBijection
  <1>7. QED
    <2> HIDE DEF g, F, M
    <2>1. IsFiniteSet(F) /\ Cardinality(F) = M
      BY <1>1, <1>6, FS_NatBijection, FS_CountingElements
    <2>2. QED BY <2>1 DEF F, M

Sorted(q, R) == \A j, k \in DOMAIN q : j < k => <<q[j], q[k]>> \in R

\* The members of a finite set can be put in order.
LEMMA SortedExists ==
  ASSUME NEW S, IsFiniteSet(S), NEW R, Orders(R, S)
  PROVE  \E q \in SetToSeqs(S) : Sorted(q, R)
  <1> DEFINE N == Cardinality(S)
             q == [k \in 1..N |-> CHOOSE x \in S : Rank(R, S, x) = k - 1]
  <1>1. N \in Nat
    BY FS_CardinalityType
  <1>2. \A k \in 1..N : q[k] \in S /\ Rank(R, S, q[k]) = k - 1
    <2>1. ASSUME NEW k \in 1..N PROVE \E x \in S : Rank(R, S, x) = k - 1
      <3>1. k - 1 \in Nat /\ k - 1 < N
        BY <1>1
      <3>2. QED BY <3>1, EveryRank
    <2>2. QED BY <2>1
  <1>3. q \in [1..N -> S] /\ DOMAIN q = 1..N
    BY <1>2
  <1> HIDE DEF q
  <1>4. ASSUME NEW j \in 1..N, NEW k \in 1..N, j < k
        PROVE  <<q[j], q[k]>> \in R
    <2>1. /\ q[j] \in S /\ q[k] \in S
          /\ Rank(R, S, q[j]) < Rank(R, S, q[k])
      BY <1>1, <1>2, <1>4
    <2>2. QED BY <2>1, RankIsUnique
  <1>5. ASSUME NEW j \in 1..N, NEW k \in 1..N, j # k
        PROVE  q[j] # q[k]
    <2>1. Rank(R, S, q[j]) # Rank(R, S, q[k])
      BY <1>1, <1>2, <1>5
    <2>2. QED BY <2>1
  <1>6. q \in SetToSeqs(S)
    BY <1>3, <1>5 DEF SetToSeqs
  <1>7. Sorted(q, R)
    BY <1>3, <1>4 DEF Sorted
  <1>8. QED BY <1>6, <1>7

\* A sequence of every member of a finite set has the length of the set.
LEMMA SeqsOfSet ==
  ASSUME NEW S, IsFiniteSet(S), NEW q \in SetToSeqs(S)
  PROVE  /\ q \in Seq(S) /\ Len(q) = Cardinality(S) /\ DOMAIN q = 1..Cardinality(S)
         /\ \A j, k \in 1..Cardinality(S) : q[j] = q[k] => j = k
         /\ \A x \in S : \E k \in 1..Cardinality(S) : q[k] = x
  <1> DEFINE N == Cardinality(S)
  <1>1. N \in Nat /\ IsFiniteSet(1..N) /\ Cardinality(1..N) = N
    <2>1. N \in Nat
      BY FS_CardinalityType
    <2>2. /\ IsFiniteSet(1..N)
          /\ Cardinality(1..N) = IF 1 > N THEN 0 ELSE N - 1 + 1
      BY <2>1, FS_Interval
    <2>3. QED BY <2>1, <2>2
  <1>2. q \in [1..N -> S] /\ \A j, k \in 1..N : j # k => q[j] # q[k]
    BY DEF SetToSeqs
  <1>3. q \in Seq(S) /\ Len(q) = N /\ DOMAIN q = 1..N
    <2> HIDE DEF N
    <2> QED BY <1>1, <1>2
  <1>4. ASSUME NEW x \in S, \A k \in 1..N : q[k] # x PROVE FALSE
    <2>1. q \in [1..N -> S \ {x}]
      BY <1>2, <1>4
    <2>2. IsFiniteSet(S \ {x}) /\ Cardinality(S \ {x}) = N - 1
      BY FS_RemoveElement
    <2>3. Cardinality(S \ {x}) < Cardinality(1..N)
      BY <1>1, <2>2
    <2>4. PICK j, k \in 1..N : j # k /\ q[j] = q[k]
      <3> HIDE DEF N
      <3> QED BY <1>1, <2>1, <2>2, <2>3, FS_PigeonHole
    <2>5. QED BY <1>2, <2>4
  <1>5. QED BY <1>2, <1>3, <1>4

-----------------------------------------------------------------------------
(***************************************************************************)
(* Milliseconds                                                            *)
(***************************************************************************)

\* The Date of a timestamp is the multiple of a millisecond at or before it.
LEMMA Multiples ==
  ASSUME NEW t \in Nat
  PROVE  \E k \in Nat : Date(t) = Millisecond * k /\ Date(t) \in Nat /\ Date(t) <= t /\ t < Date(t) + Millisecond
  <1> DEFINE M == Millisecond
  <1>1. M \in Nat \ {0}
    BY ClockIsNatural
  <1>2. /\ t % M \in 0..(M - 1) /\ t \div M \in Nat
        /\ t = M * (t \div M) + (t % M)
    <2> HIDE DEF M
    <2> QED BY <1>1
  <1>3. M * (t \div M) \in Nat
    <2> HIDE DEF M
    <2> QED BY <1>1, <1>2
  <1>4. Date(t) = M * (t \div M)
    BY <1>1, <1>2, <1>3 DEF Date
  <1>5. Date(t) <= t /\ t < Date(t) + M
    BY <1>1, <1>2, <1>3, <1>4
  <1>6. QED BY <1>2, <1>3, <1>4, <1>5

\* Two different multiples of a number are at least that number apart.
LEMMA MultiplesApart ==
  ASSUME NEW j \in Nat, NEW k \in Nat, j < k
  PROVE  Millisecond * j + Millisecond <= Millisecond * k
  <1> DEFINE M == Millisecond
  <1>1. M \in Nat
    BY ClockIsNatural
  <1> HIDE DEF M
  <1>2. M * (k - (j + 1)) >= 0
    BY <1>1
  <1>3. M * (k - (j + 1)) = M * k - (M * j + M)
    BY <1>1
  <1>4. M * k \in Nat /\ M * j \in Nat
    BY <1>1
  <1>5. M * j + M <= M * k
    BY <1>1, <1>2, <1>3, <1>4
  <1>6. QED BY <1>5 DEF M

\* Cutting off ticks never goes up, and does nothing the second time.
LEMMA DateFacts ==
  ASSUME NEW t \in Nat
  PROVE  Date(t) \in Nat /\ Date(t) <= t /\ Date(Date(t)) = Date(t)
  <1>1. PICK j \in Nat : /\ Date(t) = Millisecond * j /\ Date(t) \in Nat
                         /\ Date(t) <= t
    BY Multiples
  <1>2. PICK k \in Nat : /\ Date(Date(t)) = Millisecond * k /\ Date(Date(t)) \in Nat
                         /\ Date(Date(t)) <= Date(t) /\ Date(t) < Date(Date(t)) + Millisecond
    BY <1>1, Multiples
  <1>3. ~(k < j)
    <2>1. k < j => Millisecond * k + Millisecond <= Millisecond * j
      BY MultiplesApart
    <2>2. QED BY <1>1, <1>2, <2>1, ClockIsNatural
  <1>4. ~(j < k)
    <2>1. j < k => Millisecond * j + Millisecond <= Millisecond * k
      BY MultiplesApart
    <2>2. QED BY <1>1, <1>2, <2>1, ClockIsNatural
  <1>5. QED BY <1>1, <1>2, <1>3, <1>4

\* Dates keep the order of timestamps.
LEMMA DatesAscend ==
  ASSUME NEW t \in Nat, NEW u \in Nat, t <= u
  PROVE  Date(t) <= Date(u)
  <1>1. PICK j \in Nat : /\ Date(t) = Millisecond * j /\ Date(t) \in Nat
                         /\ Date(t) <= t
    BY Multiples
  <1>2. PICK k \in Nat : /\ Date(u) = Millisecond * k /\ Date(u) \in Nat
                         /\ Date(u) <= u /\ u < Date(u) + Millisecond
    BY Multiples
  <1>3. ~(k < j)
    <2>1. k < j => Millisecond * k + Millisecond <= Millisecond * j
      BY MultiplesApart
    <2>2. QED BY <1>1, <1>2, <2>1, ClockIsNatural
  <1>4. j < k => Date(t) <= Date(u)
    <2>1. j < k => Millisecond * j + Millisecond <= Millisecond * k
      BY MultiplesApart
    <2>2. QED BY <1>1, <1>2, <2>1, ClockIsNatural
  <1>5. QED BY <1>1, <1>2, <1>3, <1>4

LEMMA TimesAreNumbers ==
  /\ Times \subseteq Nat
  /\ \A t \in Times : Date(t) \in Times
  <1>1. MaxTime \in Nat
    BY ClockIsNatural
  <1>2. Times \subseteq Nat
    BY <1>1 DEF Times
  <1>3. ASSUME NEW t \in Times PROVE Date(t) \in Times
    <2>1. t \in Nat /\ t <= MaxTime
      BY <1>1 DEF Times
    <2>2. Date(t) \in Nat /\ Date(t) <= t
      BY <2>1, DateFacts
    <2>3. QED BY <1>1, <2>1, <2>2 DEF Times
  <1>4. QED BY <1>2, <1>3

-----------------------------------------------------------------------------
(***************************************************************************)
(* What a sync selects                                                     *)
(***************************************************************************)

ItemsTyped == item \in [Items -> Item]

LEMMA ItemFacts ==
  ASSUME ItemsTyped, NEW i \in Items
  PROVE  /\ i \in Nat
         /\ item[i].createdAt \in Times /\ item[i].createdAt \in Nat
         /\ Date(item[i].createdAt) \in Nat
         /\ item[i].state \in {"none", "open", "visible"}
  <1>1. item[i] \in Item
    BY DEF ItemsTyped
  <1>2. item[i].createdAt \in Times /\ item[i].state \in {"none", "open", "visible"}
    BY <1>1 DEF Item
  <1>3. QED BY <1>2, TimesAreNumbers, DateFacts, ItemsAreNumbered

AgeOrder == {p \in Items \X Items : NewerItem(p[1], p[2])}
NewsOrder == {p \in Items \X Items : Before(p[1], p[2])}

LEMMA OrderPairs ==
  ASSUME NEW i \in Items, NEW j \in Items
  PROVE  /\ <<i, j>> \in AgeOrder <=> NewerItem(i, j)
         /\ <<i, j>> \in NewsOrder <=> Before(i, j)
  BY DEF AgeOrder, NewsOrder

\* By age, then by ID: an order,
LEMMA AgeOrders ==
  ASSUME ItemsTyped, NEW S \in SUBSET Items
  PROVE  Orders(AgeOrder, S)
  <1>1. \A i \in Items : i \in Nat /\ item[i].createdAt \in Nat
    BY ItemFacts
  <1>2. ASSUME NEW i \in Items PROVE ~NewerItem(i, i)
    BY <1>1 DEF NewerItem
  <1>3. ASSUME NEW i \in Items, NEW j \in Items, i # j
        PROVE  NewerItem(i, j) \/ NewerItem(j, i)
    BY <1>1, <1>3 DEF NewerItem
  <1>4. ASSUME NEW i \in Items, NEW j \in Items, NEW k \in Items, NewerItem(i, j), NewerItem(j, k)
        PROVE  NewerItem(i, k)
    BY <1>1, <1>4 DEF NewerItem
  <1>5. QED BY <1>2, <1>3, <1>4, OrderPairs DEF Orders

\* and so is that in which notifications are written.
LEMMA NewsOrders ==
  ASSUME ItemsTyped, NEW S \in SUBSET Items
  PROVE  Orders(NewsOrder, S)
  <1>1. \A i \in Items : /\ i \in Nat /\ item[i].createdAt \in Nat /\ Date(item[i].createdAt) \in Nat
                         /\ i \in Posts \/ i \in Stories
                         /\ ~(i \in Posts /\ i \in Stories)
    BY ItemFacts, ItemsAreNumbered DEF Items
  <1>2. ASSUME NEW i \in Items PROVE ~Before(i, i)
    BY <1>1 DEF Before, NewerItem
  <1>3. ASSUME NEW i \in Items, NEW j \in Items, i # j
        PROVE  Before(i, j) \/ Before(j, i)
    BY <1>1, <1>3 DEF Before, NewerItem
  <1>4. ASSUME NEW i \in Items, NEW j \in Items, NEW k \in Items, Before(i, j), Before(j, k)
        PROVE  Before(i, k)
    BY <1>1, <1>4 DEF Before, NewerItem
  <1>5. QED BY <1>2, <1>3, <1>4, OrderPairs DEF Orders

\* The query of a kind: all of it, or as many of the newest as it may return.
LEMMA NewestFacts ==
  ASSUME ItemsTyped, NEW S \in SUBSET Items, IsFiniteSet(S), NEW n \in Nat
  PROVE  /\ NewestOf(S, n) \subseteq S
         /\ IsFiniteSet(NewestOf(S, n))
         /\ \A i \in S \ NewestOf(S, n) :
              /\ Cardinality(NewestOf(S, n)) = n
              /\ \A j \in NewestOf(S, n) : NewerItem(j, i)
  <1>1. Orders(AgeOrder, S)
    BY AgeOrders
  <1>2. \A i \in S : Below(AgeOrder, S, i) = {j \in S : NewerItem(j, i)}
    BY OrderPairs DEF Below
  <1>3. NewestOf(S, n) = FirstOf(AgeOrder, S, n)
    BY <1>2 DEF NewestOf, FirstOf, Rank
  <1>4. /\ IsFiniteSet(NewestOf(S, n)) /\ NewestOf(S, n) \subseteq S
        /\ Cardinality(NewestOf(S, n)) = IF Cardinality(S) < n THEN Cardinality(S) ELSE n
    BY <1>1, <1>3, FirstOfCounts DEF FirstOf
  <1>5. ASSUME NEW i \in S, i \notin NewestOf(S, n)
        PROVE  /\ Cardinality(NewestOf(S, n)) = n
               /\ \A j \in NewestOf(S, n) : NewerItem(j, i)
    <2>1. /\ Rank(AgeOrder, S, i) \in Nat /\ Rank(AgeOrder, S, i) >= n
          /\ Rank(AgeOrder, S, i) < Cardinality(S)
      BY <1>1, <1>3, <1>5, RankGrows DEF FirstOf
    <2>2. Cardinality(NewestOf(S, n)) = n
      BY <1>4, <2>1, FS_CardinalityType
    <2>3. ASSUME NEW j \in NewestOf(S, n) PROVE NewerItem(j, i)
      <3>1. j \in S /\ Rank(AgeOrder, S, j) \in Nat /\ Rank(AgeOrder, S, j) < n
        BY <1>1, <1>3, RankGrows DEF FirstOf
      <3>2. Rank(AgeOrder, S, j) < Rank(AgeOrder, S, i)
        BY <2>1, <3>1
      <3>3. QED BY <1>1, <3>1, <3>2, RankIsUnique, OrderPairs
    <2>4. QED BY <2>2, <2>3
  <1>6. QED BY <1>4, <1>5

Candidates(s) ==
  CHOOSE q \in SetToSeqs(sync[s].found) : \A j, k \in DOMAIN q : j < k => Before(q[j], q[k])

SelectedLength(s) ==
  IF Cardinality(sync[s].found) < SyncLimit THEN Cardinality(sync[s].found) ELSE SyncLimit

\* The candidates are what was found, in the order of the notifications.
LEMMA CandidateFacts ==
  ASSUME ItemsTyped, NEW s \in Syncs, sync[s].found \in SUBSET Items, IsFiniteSet(sync[s].found)
  PROVE  /\ Candidates(s) \in SetToSeqs(sync[s].found)
         /\ \A j, k \in DOMAIN Candidates(s) : j < k => Before(Candidates(s)[j], Candidates(s)[k])
  <1> DEFINE S == sync[s].found
  <1>1. PICK q \in SetToSeqs(S) : Sorted(q, NewsOrder)
    BY NewsOrders, SortedExists
  <1>2. \A j, k \in DOMAIN q : j < k => Before(q[j], q[k])
    BY <1>1 DEF Sorted, NewsOrder
  <1>3. QED BY <1>2 DEF Candidates

\* A sync notifies of the first of what it has found, each once; what it leaves
\* out is older.
LEMMA SelectedFacts ==
  ASSUME ItemsTyped, NEW s \in Syncs, sync[s].found \in SUBSET Items, IsFiniteSet(sync[s].found)
  PROVE  /\ Selected(s) \in Seq(sync[s].found)
         /\ Len(Selected(s)) = SelectedLength(s)
         /\ \A j, k \in 1..SelectedLength(s) : Selected(s)[j] = Selected(s)[k] => j = k
         /\ \A i \in sync[s].found \ Range(Selected(s)) :
              /\ SelectedLength(s) = SyncLimit
              /\ \A k \in 1..SelectedLength(s) : Before(Selected(s)[k], i)
         /\ \A k \in 1..SelectedLength(s) : \A i \in sync[s].found :
              Before(i, Selected(s)[k]) => i \in Range(Selected(s))
  <1> DEFINE S == sync[s].found
             N == Cardinality(S)
             L == SelectedLength(s)
             q == Candidates(s)
  <1>1. /\ q \in Seq(S) /\ Len(q) = N /\ DOMAIN q = 1..N
        /\ \A j, k \in 1..N : q[j] = q[k] => j = k
        /\ \A i \in S : \E k \in 1..N : q[k] = i
    BY CandidateFacts, SeqsOfSet
  <1>2. \A j, k \in 1..N : j < k => Before(q[j], q[k])
    BY <1>1, CandidateFacts
  <1>3. N \in Nat /\ L \in Nat /\ L <= N /\ SyncLimit \in Nat
    BY FS_CardinalityType, LimitIsPositive DEF SelectedLength
  <1>4. Selected(s) = SubSeq(q, 1, L)
    <2>1. Selected(s) = SubSeq(q, 1, IF Len(q) < SyncLimit THEN Len(q) ELSE SyncLimit)
      BY DEF Selected, Candidates
    <2>2. QED BY <1>1, <2>1 DEF SelectedLength
  <1> HIDE DEF q, L, N
  <1>5. /\ Selected(s) \in Seq(S) /\ Len(Selected(s)) = L
        /\ \A k \in 1..L : Selected(s)[k] = q[k] /\ q[k] \in S
    <2> DEFINE sel == SubSeq(q, 1, L)
    <2>1. L <= Len(q) /\ Len(q) \in Nat
      BY <1>1, <1>3
    <2>2. \A k \in 1..L : k \in 1..N /\ q[k] \in S
      BY <1>1, <1>3
    <2>3. Len(sel) = L /\ \A k \in 1..L : sel[k] = q[k]
      BY <1>1, <1>3, <2>1
    <2>4. sel \in Seq(S)
      <3>1. \A k \in 1 .. L : q[k] \in S
        BY <2>2
      <3>2. 1 \in Int /\ L \in Int
        BY <1>3
      <3>3. QED BY <3>1, <3>2, SubSeqProperties
    <2>5. QED BY <1>4, <2>2, <2>3, <2>4
  <1>6. ASSUME NEW k \in 1..L PROVE q[k] \in Range(Selected(s))
    <2>1. k \in DOMAIN Selected(s)
      BY <1>3, <1>5
    <2>2. QED BY <1>5, <2>1 DEF Range
  <1>7. ASSUME NEW i \in S, i \notin Range(Selected(s))
        PROVE  L = SyncLimit /\ \A k \in 1..L : Before(Selected(s)[k], i)
    <2>1. PICK m \in 1..N : q[m] = i
      BY <1>1
    <2>2. m \notin 1..L
      BY <1>6, <1>7, <2>1
    <2>3. L < m
      BY <1>3, <2>2
    <2>4. L = SyncLimit
      BY <1>3, <2>3 DEF L, N, SelectedLength
    <2>5. ASSUME NEW k \in 1..L PROVE Before(Selected(s)[k], i)
      <3>1. k \in 1..N /\ k < m
        BY <1>3, <2>3
      <3>2. QED BY <1>2, <1>5, <2>1, <3>1
    <2>6. QED BY <2>4, <2>5
  <1>8. ASSUME NEW k \in 1..L, NEW i \in S, Before(i, Selected(s)[k])
        PROVE  i \in Range(Selected(s))
    <2>1. PICK m \in 1..N : q[m] = i
      BY <1>1
    <2>2. k \in 1..N
      BY <1>3
    <2>3. Before(i, q[k])
      BY <1>5, <1>8
    <2>4. ~Before(q[k], i)
      <3>1. q[k] \in S /\ q[k] \in Items /\ i \in Items
        BY <1>1, <2>2
      <3>2. Orders(NewsOrder, S)
        BY NewsOrders
      <3>3. /\ <<i, q[k]>> \in NewsOrder
            /\ Before(q[k], i) => <<q[k], i>> \in NewsOrder
        BY <2>3, <3>1, OrderPairs
      <3>4. ~(<<q[k], i>> \in NewsOrder)
        <4> HIDE DEF S
        <4> QED BY <1>8, <3>1, <3>2, <3>3 DEF Orders, S
      <3>5. QED BY <3>3, <3>4
    <2>5. ~(k < m)
      BY <1>2, <2>1, <2>2, <2>4
    <2>6. m \in 1..L
      BY <1>3, <2>5
    <2>7. QED BY <1>6, <2>1, <2>6
  <1>9. \A j, k \in 1..L : Selected(s)[j] = Selected(s)[k] => j = k
    BY <1>1, <1>3, <1>5
  <1>10. QED BY <1>5, <1>7, <1>8, <1>9 DEF L

-----------------------------------------------------------------------------
(***************************************************************************)
(* The invariant of the syncs                                              *)
(***************************************************************************)

Begun == {i \in Items : item[i].state # "none"}
Created(i) == item[i].createdAt
Inside(s) == sync[s].pc \in {"locked", "read"}
Asked(s, c) == c \in DOMAIN sync[s].watermarks

\* What has been notified is outside of every window to come: that of the
\* watermark that is stored, and that of the watermark a sync works with.
NotifiedOK(i) ==
  /\ item[i].state = "visible"
  /\ Created(i) <= Date(now)
  /\ follow[Owner[i]].on => Created(i) <= Date(follow[Owner[i]].notifiedUpToAt)
  /\ \A s \in Syncs :
       /\ Inside(s) /\ Asked(s, Owner[i]) => Created(i) <= sync[s].watermarks[Owner[i]]
       /\ sync[s].pc = "read" => Created(i) <= sync[s].syncedAt

\* A watermark is the time of the follow or the Date of a sync.
FollowOK(c) ==
  follow[c].on =>
    /\ follow[c].since <= now /\ follow[c].notifiedUpToAt <= now
    /\ \/ follow[c].notifiedUpToAt = follow[c].since
       \/ follow[c].notifiedUpToAt = Date(follow[c].notifiedUpToAt)

\* The watermark that a sync has read is not ahead of the follow, even if the
\* character was unfollowed and followed since.
WatermarkOK(s, c) ==
  Asked(s, c) =>
    /\ sync[s].watermarks[c] <= now
    /\ follow[c].on => sync[s].watermarks[c] <= follow[c].notifiedUpToAt
    /\ follow[c].on /\ sync[s].pc = "read" =>
         follow[c].notifiedUpToAt <= sync[s].syncedAt \/ sync[s].syncedAt <= follow[c].since

InItsWindow(s, i) ==
  /\ Asked(s, Owner[i])
  /\ sync[s].watermarks[Owner[i]] < Created(i) /\ Created(i) <= sync[s].syncedAt

FoundOK(s) ==
  /\ sync[s].syncedAt = Date(sync[s].syncedAt) /\ sync[s].syncedAt <= Date(now)
  /\ IsFiniteSet(sync[s].found)
  /\ \A i \in sync[s].found : item[i].state = "visible" /\ InItsWindow(s, i)

SyncOK(s) ==
  /\ Inside(s) => \A c \in Characters : WatermarkOK(s, c)
  /\ sync[s].pc = "read" => FoundOK(s)

Expired(i, at) == i \in Stories /\ ExpiresAt(i) <= at

\* What a sync has passed over in its window is older than enough of what it has
\* found.
PassedOver(s, i) ==
  /\ sync[s].pc = "read"
  /\ item[i].state = "visible" /\ i \notin late
  /\ InItsWindow(s, i)
  /\ ~Expired(i, sync[s].syncedAt)
  /\ i \notin sync[s].found

Outnumbered(s, i) ==
  \E N \in SUBSET sync[s].found : Cardinality(N) > SyncLimit /\ \A j \in N : NewerItem(j, i)

Due(i) ==
  /\ item[i].state = "visible"
  /\ follow[Owner[i]].on /\ follow[Owner[i]].since < Created(i)
  /\ Created(i) <= follow[Owner[i]].notifiedUpToAt

Settled(i) ==
  \/ Notified(i)
  \/ i \in late
  \/ Expired(i, follow[Owner[i]].notifiedUpToAt)
  \/ GivenUp(i)

NotifyInv ==
  /\ NotifyTypeOK
  /\ NotifiedOnce
  /\ IsFiniteSet(Begun)
  /\ \A i \in Items : Notified(i) => NotifiedOK(i)
  /\ \A c \in Characters : FollowOK(c)
  /\ \A s \in Syncs : SyncOK(s)
  /\ \A s \in Syncs, i \in Items : PassedOver(s, i) => Outnumbered(s, i)
  /\ \A i \in Items : Due(i) => Settled(i)

LEMMA OwnerFacts == \A i \in Items : Owner[i] \in Characters
  BY OwnerType

LEMMA FollowTyped ==
  ASSUME NotifyTypeOK, NEW c \in Characters
  PROVE  /\ follow[c] \in Follow /\ follow[c].on \in BOOLEAN
         /\ follow[c].since \in Times /\ follow[c].since \in Nat
         /\ follow[c].notifiedUpToAt \in Times /\ follow[c].notifiedUpToAt \in Nat
  <1>1. follow[c] \in Follow
    BY DEF NotifyTypeOK
  <1>2. /\ follow[c].on \in BOOLEAN
        /\ follow[c].since \in Times /\ follow[c].notifiedUpToAt \in Times
    BY <1>1 DEF Follow
  <1>3. QED BY <1>1, <1>2, TimesAreNumbers

LEMMA SyncTyped ==
  ASSUME NotifyTypeOK, NEW s \in Syncs
  PROVE  /\ sync[s] \in Sync
         /\ sync[s].pc \in {"idle", "waiting", "locked", "read"}
         /\ sync[s].syncedAt \in Times /\ sync[s].syncedAt \in Nat
         /\ sync[s].found \in SUBSET Items
         /\ DOMAIN sync[s].watermarks \in SUBSET Characters
         /\ \A c \in DOMAIN sync[s].watermarks :
              sync[s].watermarks[c] \in Times /\ sync[s].watermarks[c] \in Nat
  <1>1. sync[s] \in Sync
    BY DEF NotifyTypeOK
  <1>2. /\ sync[s].pc \in {"idle", "waiting", "locked", "read"}
        /\ sync[s].syncedAt \in Times
        /\ sync[s].found \in SUBSET Items
        /\ sync[s].watermarks \in UNION {[C -> Times] : C \in SUBSET Characters}
    BY <1>1 DEF Sync
  <1>3. PICK C \in SUBSET Characters : sync[s].watermarks \in [C -> Times]
    BY <1>2
  <1>4. QED BY <1>1, <1>2, <1>3, TimesAreNumbers

LEMMA NowIsNatural == NotifyTypeOK => now \in Times /\ now \in Nat /\ Date(now) \in Nat /\ Date(now) <= now
  BY TimesAreNumbers, DateFacts DEF NotifyTypeOK

LEMMA NoSyncTyped == NoSync \in Sync /\ [NoSync EXCEPT !.pc = "waiting"] \in Sync
  <1>1. <<>> \in [{} -> Times]
    OBVIOUS
  <1>2. <<>> \in UNION {[C -> Times] : C \in SUBSET Characters}
    BY <1>1
  <1>3. 0 \in Times
    BY ClockIsNatural DEF Times
  <1>4. QED BY <1>2, <1>3 DEF NoSync, Sync

LEMMA RecordFollows ==
  /\ \A t \in Times : FollowSince(t) \in Follow
  /\ NoFollow \in Follow
  /\ \A f \in Follow, t \in Times : [f EXCEPT !.notifiedUpToAt = t] \in Follow
  <1>1. 0 \in Times
    BY ClockIsNatural DEF Times
  <1>2. QED BY <1>1 DEF Follow, FollowSince, NoFollow

LEMMA Watermarks ==
  ASSUME NotifyTypeOK
  PROVE  [c \in ActiveFollows |-> Date(follow[c].notifiedUpToAt)]
           \in UNION {[C -> Times] : C \in SUBSET Characters}
  <1>1. ActiveFollows \in SUBSET Characters
    BY DEF ActiveFollows, NotifyTypeOK
  <1>2. \A c \in ActiveFollows : Date(follow[c].notifiedUpToAt) \in Times
    BY <1>1, FollowTyped, TimesAreNumbers
  <1>3. QED BY <1>1, <1>2

-----------------------------------------------------------------------------
(***************************************************************************)
(* Steps that no sync takes                                                *)
(***************************************************************************)

\* The parts of the invariant, unfolded for one item, one character, one sync.
LEMMA InvFacts ==
  ASSUME NotifyInv
  PROVE  /\ NotifyTypeOK /\ ItemsTyped /\ NotifiedOnce
         /\ \A i \in Items : Notified(i) => NotifiedOK(i)
         /\ \A c \in Characters : FollowOK(c)
         /\ \A s \in Syncs : SyncOK(s)
         /\ \A s \in Syncs, i \in Items : PassedOver(s, i) => Outnumbered(s, i)
         /\ \A i \in Items : Due(i) => Settled(i)
  BY DEF NotifyInv, NotifyTypeOK, ItemsTyped

LEMMA NotifiedItems ==
  ASSUME NotifyTypeOK
  PROVE  \A i : Notified(i) => i \in Items
  BY DEF NotifyTypeOK, Notified, Range

\* Enough newer notifications stay enough.
LEMMA GivenUpStays ==
  ASSUME NotifyInv, NEW i \in Items, GivenUp(i), NotifyTypeOK',
         \A j : Notified(j) => Notified(j)',
         \A j \in Items : item[j].state = "visible" => item'[j].createdAt = item[j].createdAt,
         item[i].state = "visible"
  PROVE  GivenUp(i)'
  <1> DEFINE S == {j \in Range(notifications) : Date(item[j].createdAt) >= Date(item[i].createdAt)}
             T == {j \in Range(notifications') : Date(item'[j].createdAt) >= Date(item'[i].createdAt)}
  <1>1. \A j \in S : j \in T
    <2>1. ASSUME NEW j \in S PROVE j \in T
      <3>1. Notified(j) /\ j \in Items
        BY InvFacts, NotifiedItems DEF Notified
      <3>2. item[j].state = "visible"
        BY <3>1, InvFacts DEF NotifiedOK
      <3>3. item'[j].createdAt = item[j].createdAt /\ item'[i].createdAt = item[i].createdAt
        BY <3>1, <3>2
      <3>4. j \in Range(notifications')
        BY <3>1 DEF Notified
      <3>5. QED BY <3>3, <3>4
    <2>2. QED BY <2>1
  <1>2. IsFiniteSet(T)
    <2>1. notifications' \in Seq(Items)
      BY DEF NotifyTypeOK
    <2>2. IsFiniteSet(Range(notifications'))
      <3> DEFINE n == Len(notifications')
                 f == [k \in 1..n |-> notifications'[k]]
      <3>1. n \in Nat /\ DOMAIN notifications' = 1..n
        BY <2>1
      <3>2. IsFiniteSet(1..n)
        <4>1. 1 \in Int /\ n \in Int
          BY <3>1
        <4> HIDE DEF n
        <4>2. QED BY <4>1, FS_Interval
      <3>3. f \in Surjection(1..n, Range(notifications'))
        BY <3>1 DEF Surjection, Range
      <3>4. QED
        <4> HIDE DEF f, n
        <4> QED BY <3>2, <3>3, FS_Surjection
    <2>3. T \in SUBSET Range(notifications')
      OBVIOUS
    <2>4. QED
      <3> HIDE DEF T
      <3> QED BY <2>2, <2>3, FS_Subset
  <1>3. IsFiniteSet(S) /\ Cardinality(S) <= Cardinality(T)
    <2> HIDE DEF S, T
    <2>1. S \in SUBSET T
      BY <1>1
    <2>2. QED BY <1>2, <2>1, FS_Subset
  <1>4. Cardinality(S) \in Nat /\ Cardinality(T) \in Nat
    <2> HIDE DEF S, T
    <2>1. QED BY <1>2, <1>3, FS_CardinalityType
  <1>5. Cardinality(S) >= SyncLimit
    BY DEF GivenUp
  <1>6. Cardinality(T) >= SyncLimit
    <2> HIDE DEF S, T
    <2>1. QED BY <1>3, <1>4, <1>5, LimitIsPositive
  <1>7. QED BY <1>6 DEF GivenUp

\* What an item that was visible has settled stays so while its watermark does not
\* go back.
LEMMA SettledStays ==
  ASSUME NotifyInv, NotifyTypeOK', NEW i \in Items, Settled(i), item[i].state = "visible",
         \A j : Notified(j) => Notified(j)',
         \A j \in Items : item[j].state = "visible" => item'[j].createdAt = item[j].createdAt,
         late \subseteq late',
         follow[Owner[i]].notifiedUpToAt <= follow'[Owner[i]].notifiedUpToAt
  PROVE  Settled(i)'
  <1>1. Notified(i) => Notified(i)'
    OBVIOUS
  <1>2. i \in Stories /\ ExpiresAt(i) <= follow[Owner[i]].notifiedUpToAt =>
          i \in Stories /\ item'[i].createdAt + StoryLife <= follow'[Owner[i]].notifiedUpToAt
    <2>1. item'[i].createdAt = item[i].createdAt /\ item[i].createdAt \in Nat
      BY InvFacts, ItemFacts
    <2>2. /\ follow[Owner[i]].notifiedUpToAt \in Nat
          /\ follow'[Owner[i]].notifiedUpToAt \in Nat
      <3>1. Owner[i] \in Characters
        BY OwnerFacts
      <3>2. follow[Owner[i]].notifiedUpToAt \in Nat
        BY <3>1, FollowTyped DEF NotifyInv
      <3>3. follow'[Owner[i]] \in Follow
        BY <3>1 DEF NotifyTypeOK
      <3>4. follow'[Owner[i]].notifiedUpToAt \in Nat
        BY <3>3, TimesAreNumbers DEF Follow
      <3>5. QED BY <3>2, <3>4
    <2>3. QED BY <2>1, <2>2, LifeIsNatural DEF ExpiresAt
  <1>3. GivenUp(i) => GivenUp(i)'
    BY GivenUpStays DEF GivenUp
  <1>4. QED BY <1>1, <1>2, <1>3 DEF Settled, Expired, ExpiresAt

\* Time passes, characters retire and return, items begin and are committed: what
\* becomes visible inside of a window that was read is late.
LEMMA WorldStep ==
  ASSUME NotifyInv, NotifyTypeOK', UNCHANGED <<follow, sync, notifications>>,
         now <= now', late \subseteq late', IsFiniteSet(Begun'),
         \A j \in Items : item[j].state = "visible" => item'[j] = item[j],
         \A j \in Items : item'[j].state = "visible" =>
           \/ item[j].state = "visible"
           \/ item'[j].createdAt = item[j].createdAt /\ (Passed(j) => j \in late')
  PROVE  NotifyInv'
  <1>1. now \in Nat /\ now' \in Nat /\ Date(now) \in Nat /\ Date(now') \in Nat /\ Date(now) <= Date(now')
    <2>1. now \in Nat /\ now' \in Nat
      BY InvFacts, TimesAreNumbers DEF NotifyTypeOK
    <2>2. QED BY <2>1, DateFacts, DatesAscend
  <1>2. \A j \in Items : item[j].state = "visible" =>
          /\ item'[j].state = "visible" /\ item'[j].createdAt = item[j].createdAt
          /\ item[j].createdAt \in Nat
    BY InvFacts, ItemFacts
  <1>3. NotifiedOnce'
    BY InvFacts DEF NotifiedOnce
  <1>4. ASSUME NEW i \in Items, Notified(i)' PROVE NotifiedOK(i)'
    <2>1. Notified(i) /\ NotifiedOK(i)
      BY <1>4, InvFacts DEF Notified
    <2>2. item'[i].state = "visible" /\ item'[i].createdAt = item[i].createdAt /\ item[i].createdAt \in Nat
      BY <1>2, <2>1 DEF NotifiedOK
    <2>3. item[i].createdAt <= Date(now')
      BY <1>1, <2>1, <2>2 DEF NotifiedOK, Created
    <2>4. QED BY <2>1, <2>2, <2>3 DEF NotifiedOK, Created, Inside, Asked
  <1>5. ASSUME NEW c \in Characters PROVE FollowOK(c)'
    <2>1. FollowOK(c) /\ follow[c].since \in Nat /\ follow[c].notifiedUpToAt \in Nat
      BY InvFacts, FollowTyped
    <2>2. QED BY <1>1, <2>1 DEF FollowOK
  <1>6. ASSUME NEW s \in Syncs PROVE SyncOK(s)'
    <2>1. SyncOK(s)
      BY InvFacts
    <2>2. ASSUME Inside(s), NEW c \in Characters PROVE WatermarkOK(s, c)'
      <3>1. WatermarkOK(s, c) /\ (Asked(s, c) => sync[s].watermarks[c] \in Nat)
        BY <2>1, <2>2, InvFacts, SyncTyped DEF SyncOK, Asked
      <3>2. QED BY <1>1, <3>1 DEF WatermarkOK, Asked
    <2>3. ASSUME sync[s].pc = "read" PROVE FoundOK(s)'
      <3>1. FoundOK(s) /\ sync[s].syncedAt \in Nat /\ sync[s].found \subseteq Items
        BY <2>1, <2>3, InvFacts, SyncTyped DEF SyncOK
      <3>2. ASSUME NEW i \in sync[s].found
            PROVE  item'[i].state = "visible" /\ item'[i].createdAt = item[i].createdAt
        BY <1>2, <3>1 DEF FoundOK
      <3>3. QED BY <1>1, <3>1, <3>2 DEF FoundOK, InItsWindow, Asked, Created
    <2>4. QED BY <2>2, <2>3 DEF SyncOK, Inside
  <1>7. ASSUME NEW s \in Syncs, NEW i \in Items, PassedOver(s, i)' PROVE Outnumbered(s, i)'
    <2>1. /\ sync[s].pc = "read" /\ item'[i].state = "visible" /\ i \notin late /\ i \notin late'
          /\ i \notin sync[s].found /\ Asked(s, Owner[i])
          /\ sync[s].watermarks[Owner[i]] < item'[i].createdAt /\ item'[i].createdAt <= sync[s].syncedAt
          /\ ~(i \in Stories /\ item'[i].createdAt + StoryLife <= sync[s].syncedAt)
      BY <1>7 DEF PassedOver, InItsWindow, Created, Expired, ExpiresAt, Asked
    <2>2. item[i].state = "visible"
      <3>1. SUFFICES ASSUME item[i].state # "visible" PROVE FALSE
        OBVIOUS
      <3>2. item'[i].createdAt = item[i].createdAt /\ ~Passed(i)
        BY <2>1, <3>1
      <3>3. Passed(i)
        BY <2>1, <3>2 DEF Passed, Asked
      <3>4. QED BY <3>2, <3>3
    <2>3. PassedOver(s, i)
      BY <1>2, <2>1, <2>2 DEF PassedOver, InItsWindow, Created, Expired, ExpiresAt, Asked
    <2>4. PICK N \in SUBSET sync[s].found : Cardinality(N) > SyncLimit /\ \A j \in N : NewerItem(j, i)
      BY <2>3, InvFacts DEF Outnumbered
    <2>5. ASSUME NEW j \in N
          PROVE  item'[j].createdAt = item[j].createdAt /\ item'[i].createdAt = item[i].createdAt
      <3>1. FoundOK(s) /\ sync[s].found \subseteq Items
        BY <2>1, InvFacts, SyncTyped DEF SyncOK
      <3>2. QED BY <1>2, <2>2, <3>1 DEF FoundOK
    <2>6. \A j \in N : NewerItem(j, i)'
      BY <2>4, <2>5 DEF NewerItem
    <2>7. QED BY <2>4, <2>6 DEF Outnumbered
  <1>8. ASSUME NEW i \in Items, Due(i)' PROVE Settled(i)'
    <2>1. /\ item'[i].state = "visible" /\ follow[Owner[i]].on
          /\ follow[Owner[i]].since < item'[i].createdAt /\ item'[i].createdAt <= follow[Owner[i]].notifiedUpToAt
      BY <1>8 DEF Due, Created
    <2>2. CASE item[i].state = "visible"
      <3>1. Due(i)
        BY <1>2, <2>1, <2>2 DEF Due, Created
      <3>2. Settled(i)
        BY <3>1, InvFacts
      <3>3. follow[Owner[i]].notifiedUpToAt <= follow'[Owner[i]].notifiedUpToAt
        BY InvFacts, FollowTyped, OwnerFacts
      <3>4. \A j : Notified(j) => Notified(j)'
        BY DEF Notified
      <3>5. \A j \in Items : item[j].state = "visible" => item'[j].createdAt = item[j].createdAt
        BY <1>2
      <3>6. QED BY <2>2, <3>2, <3>3, <3>4, <3>5, SettledStays
    <2>3. CASE item[i].state # "visible"
      <3>1. item'[i].createdAt = item[i].createdAt /\ (Passed(i) => i \in late')
        BY <2>1, <2>3
      <3>2. Passed(i)
        BY <2>1, <3>1 DEF Passed
      <3>3. QED BY <3>1, <3>2 DEF Settled
    <2>4. QED BY <2>2, <2>3
  <1>9. QED BY <1>3, <1>4, <1>5, <1>6, <1>7, <1>8 DEF NotifyInv

\* A character is followed from now on, or no longer.
LEMMA FollowStep ==
  ASSUME NotifyInv, NotifyTypeOK', UNCHANGED <<now, item, active, notifications, sync, late>>,
         \A c \in Characters : \/ follow'[c] = follow[c]
                               \/ ~follow'[c].on
                               \/ follow'[c] = FollowSince(now)
  PROVE  NotifyInv'
  <1>1. now \in Nat /\ Date(now) \in Nat
    BY InvFacts, NowIsNatural
  <1>2. NotifiedOnce' /\ IsFiniteSet(Begun')
    BY DEF NotifyInv, NotifiedOnce, Begun
  <1>3. \A c \in Characters : follow'[c] = FollowSince(now) =>
          follow'[c].on /\ follow'[c].since = now /\ follow'[c].notifiedUpToAt = now
    BY DEF FollowSince
  <1>4. ASSUME NEW i \in Items, Notified(i)' PROVE NotifiedOK(i)'
    <2>1. NotifiedOK(i) /\ Owner[i] \in Characters
      BY <1>4, InvFacts, OwnerFacts DEF Notified
    <2>2. follow'[Owner[i]].on => Created(i) <= Date(follow'[Owner[i]].notifiedUpToAt)
      BY <1>3, <2>1 DEF NotifiedOK
    <2>3. QED BY <2>1, <2>2 DEF NotifiedOK, Created, Inside, Asked
  <1>5. ASSUME NEW c \in Characters PROVE FollowOK(c)'
    <2>1. FollowOK(c)
      BY InvFacts
    <2>2. QED BY <1>1, <1>3, <2>1 DEF FollowOK
  <1>6. ASSUME NEW s \in Syncs PROVE SyncOK(s)'
    <2>1. SyncOK(s)
      BY InvFacts
    <2>2. ASSUME Inside(s), NEW c \in Characters PROVE WatermarkOK(s, c)'
      <3>1. WatermarkOK(s, c) /\ (Asked(s, c) => sync[s].watermarks[c] \in Nat)
        BY <2>1, <2>2, InvFacts, SyncTyped DEF SyncOK, Asked
      <3>2. sync[s].pc = "read" => sync[s].syncedAt <= now
        <4>1. sync[s].pc = "read" => sync[s].syncedAt <= Date(now) /\ sync[s].syncedAt \in Nat
          BY <2>1, InvFacts, SyncTyped DEF SyncOK, FoundOK
        <4>2. Date(now) <= now
          BY InvFacts, NowIsNatural
        <4>3. QED BY <1>1, <4>1, <4>2
      <3>3. QED BY <1>1, <1>3, <3>1, <3>2 DEF WatermarkOK, Asked
    <2>3. sync[s].pc = "read" => FoundOK(s)'
      BY <2>1 DEF SyncOK, FoundOK, InItsWindow, Asked, Created
    <2>4. QED BY <2>2, <2>3 DEF SyncOK, Inside
  <1>7. ASSUME NEW s \in Syncs, NEW i \in Items, PassedOver(s, i)' PROVE Outnumbered(s, i)'
    <2>1. PassedOver(s, i)
      BY <1>7 DEF PassedOver, InItsWindow, Created, Expired, ExpiresAt, Asked
    <2>2. Outnumbered(s, i)
      BY <2>1, InvFacts
    <2>3. QED BY <2>2 DEF Outnumbered, NewerItem
  <1>8. ASSUME NEW i \in Items, Due(i)' PROVE Settled(i)'
    <2>1. /\ item[i].state = "visible" /\ follow'[Owner[i]].on /\ Owner[i] \in Characters
          /\ follow'[Owner[i]].since < item[i].createdAt /\ item[i].createdAt <= follow'[Owner[i]].notifiedUpToAt
      BY <1>8, OwnerFacts DEF Due, Created
    <2>2. item[i].createdAt \in Nat
      BY InvFacts, ItemFacts
    <2>3. follow'[Owner[i]] = follow[Owner[i]]
      BY <1>1, <1>3, <2>1, <2>2
    <2>4. Due(i)
      BY <2>1, <2>3 DEF Due, Created
    <2>5. Settled(i) /\ follow[Owner[i]].notifiedUpToAt <= follow'[Owner[i]].notifiedUpToAt
      BY <2>1, <2>3, <2>4, InvFacts, FollowTyped
    <2>6. \A j : Notified(j) => Notified(j)'
      BY DEF Notified
    <2>7. QED BY <2>1, <2>5, <2>6, SettledStays
  <1>9. QED BY <1>2, <1>4, <1>5, <1>6, <1>7, <1>8 DEF NotifyInv

-----------------------------------------------------------------------------
(***************************************************************************)
(* Steps of a sync before its commit                                       *)
(***************************************************************************)

NotifiedFor(s, i) ==
  /\ Inside(s) /\ Asked(s, Owner[i]) => Created(i) <= sync[s].watermarks[Owner[i]]
  /\ sync[s].pc = "read" => Created(i) <= sync[s].syncedAt

\* What is to be shown of a step in which one sync only reads.
LEMMA SyncStep ==
  ASSUME NotifyInv, NotifyTypeOK', UNCHANGED <<now, item, active, follow, notifications, late>>,
         NEW s \in Syncs, \A r \in Syncs \ {s} : sync'[r] = sync[r],
         SyncOK(s)', \A i \in Items : Notified(i) => NotifiedFor(s, i)',
         \A i \in Items : PassedOver(s, i)' => Outnumbered(s, i)'
  PROVE  NotifyInv'
  <1>1. NotifiedOnce' /\ IsFiniteSet(Begun')
    BY DEF NotifyInv, NotifiedOnce, Begun
  <1>2. ASSUME NEW i \in Items, Notified(i)' PROVE NotifiedOK(i)'
    <2>1. Notified(i) /\ NotifiedOK(i)
      BY <1>2, InvFacts DEF Notified
    <2>2. ASSUME NEW r \in Syncs PROVE NotifiedFor(r, i)'
      <3>1. CASE r = s
        BY <2>1, <3>1
      <3>2. CASE r # s
        <4>1. NotifiedFor(r, i) /\ sync'[r] = sync[r]
          BY <2>1, <3>2 DEF NotifiedOK, NotifiedFor
        <4>2. QED BY <4>1 DEF NotifiedFor, Inside, Asked, Created
      <3>3. QED BY <3>1, <3>2
    <2>3. QED BY <2>1, <2>2 DEF NotifiedOK, NotifiedFor, Inside, Asked, Created
  <1>3. ASSUME NEW c \in Characters PROVE FollowOK(c)'
    <2>1. FollowOK(c)
      BY InvFacts
    <2>2. QED BY <2>1 DEF FollowOK
  <1>4. ASSUME NEW r \in Syncs PROVE SyncOK(r)'
    <2>1. CASE r = s
      BY <2>1
    <2>2. CASE r # s
      <3>1. SyncOK(r) /\ sync'[r] = sync[r]
        BY <2>2, InvFacts
      <3>2. QED BY <3>1 DEF SyncOK, Inside, WatermarkOK, FoundOK, InItsWindow, Asked, Created
    <2>3. QED BY <2>1, <2>2
  <1>5. ASSUME NEW r \in Syncs, NEW i \in Items, PassedOver(r, i)' PROVE Outnumbered(r, i)'
    <2>1. CASE r = s
      BY <1>5, <2>1
    <2>2. CASE r # s
      <3>1. sync'[r] = sync[r]
        BY <2>2
      <3>2. PassedOver(r, i)
        BY <1>5, <3>1 DEF PassedOver, InItsWindow, Created, Expired, ExpiresAt, Asked
      <3>3. Outnumbered(r, i)
        BY <3>2, InvFacts
      <3>4. QED BY <3>1, <3>3 DEF Outnumbered, NewerItem
    <2>3. QED BY <2>1, <2>2
  <1>6. ASSUME NEW i \in Items, Due(i)' PROVE Settled(i)'
    <2>1. Due(i)
      BY <1>6 DEF Due, Created
    <2>2. Settled(i)
      BY <2>1, InvFacts
    <2>3. QED BY <2>2 DEF Settled, Notified, Expired, ExpiresAt, GivenUp
  <1>7. QED BY <1>1, <1>2, <1>3, <1>4, <1>5, <1>6 DEF NotifyInv

\* A sync that begins or fails knows nothing.
LEMMA IdleSyncStep ==
  ASSUME NotifyInv, NEW s \in Syncs, SyncBegins(s) \/ SyncFails(s)
  PROVE  NotifyInv'
  <1>1. UNCHANGED <<now, item, active, follow, notifications, late>>
    BY DEF SyncBegins, SyncFails
  <1> DEFINE new == sync'[s]
  <1>2. /\ new \in Sync /\ new.pc \in {"idle", "waiting"}
        /\ \A r \in Syncs \ {s} : sync'[r] = sync[r]
        /\ sync' \in [Syncs -> Sync]
    <2>1. sync \in [Syncs -> Sync]
      BY InvFacts DEF NotifyTypeOK
    <2>2. CASE SyncBegins(s)
      BY <2>1, <2>2, NoSyncTyped DEF SyncBegins, NoSync
    <2>3. CASE SyncFails(s)
      BY <2>1, <2>3, NoSyncTyped DEF SyncFails, NoSync
    <2>4. QED BY <2>2, <2>3
  <1> HIDE DEF new
  <1>3. NotifyTypeOK'
    <2>1. \A q, r \in Syncs : {sync'[q].pc, sync'[r].pc} \subseteq {"locked", "read"} => q = r
      <3>1. sync'[s].pc \notin {"locked", "read"}
        BY <1>2 DEF new
      <3>2. \A q, r \in Syncs : {sync[q].pc, sync[r].pc} \subseteq {"locked", "read"} => q = r
        BY InvFacts DEF NotifyTypeOK
      <3>3. QED BY <1>2, <3>1, <3>2
    <2>2. QED BY <1>1, <1>2, <2>1, InvFacts DEF NotifyTypeOK
  <1>4. sync'[s].pc \notin {"locked", "read"}
    BY <1>2 DEF new
  <1>5. SyncOK(s)' /\ (\A i \in Items : NotifiedFor(s, i)') /\ \A i \in Items : ~PassedOver(s, i)'
    BY <1>4 DEF SyncOK, Inside, NotifiedFor, PassedOver
  <1>6. QED BY <1>1, <1>2, <1>3, <1>5, SyncStep

\* Reading the follows takes the lock; what was notified before is at or before
\* the watermarks.
LEMMA SyncReadsFollowsStep ==
  ASSUME NotifyInv, NEW s \in Syncs, SyncReadsFollows(s), ActiveFollows # {}
  PROVE  NotifyInv'
  <1> DEFINE marks == [c \in ActiveFollows |-> Date(follow[c].notifiedUpToAt)]
             new == [sync[s] EXCEPT !.pc = "locked", !.watermarks = marks]
  <1>1. UNCHANGED <<now, item, active, follow, notifications, late>> /\ sync' = [sync EXCEPT ![s] = new]
    BY DEF SyncReadsFollows
  <1>2. /\ marks \in UNION {[C -> Times] : C \in SUBSET Characters}
        /\ DOMAIN marks \subseteq Characters
        /\ \A c \in DOMAIN marks : follow[c].on /\ marks[c] = Date(follow[c].notifiedUpToAt)
    BY InvFacts, Watermarks DEF ActiveFollows, NotifyTypeOK
  <1> HIDE DEF marks
  <1>3. /\ sync \in [Syncs -> Sync]
        /\ new \in Sync /\ new.pc = "locked" /\ new.watermarks = marks
    <2>1. sync \in [Syncs -> Sync]
      BY InvFacts DEF NotifyTypeOK
    <2>2. sync[s] \in Sync
      BY <2>1
    <2>3. QED BY <1>2, <2>1, <2>2 DEF Sync
  <1> HIDE DEF new
  <1>4. sync'[s] = new /\ sync' \in [Syncs -> Sync] /\ \A r \in Syncs \ {s} : sync'[r] = sync[r]
    BY <1>1, <1>3
  <1>5. NotifyTypeOK'
    <2>1. \A q, r \in Syncs : {sync'[q].pc, sync'[r].pc} \subseteq {"locked", "read"} => q = r
      <3>1. \A r \in Syncs : sync[r].pc \notin {"locked", "read"}
        BY DEF SyncReadsFollows, Unlocked
      <3>2. QED BY <1>4, <3>1
    <2>2. QED BY <1>1, <1>4, <2>1, InvFacts DEF NotifyTypeOK
  <1>6. sync'[s].pc = "locked" /\ sync'[s].watermarks = marks
    BY <1>3, <1>4
  <1>7. ASSUME NEW c \in DOMAIN marks
        PROVE  marks[c] <= now /\ marks[c] <= follow[c].notifiedUpToAt
    <2>1. c \in Characters /\ follow[c].on /\ marks[c] = Date(follow[c].notifiedUpToAt)
      BY <1>2
    <2>2. /\ follow[c].notifiedUpToAt \in Nat /\ now \in Nat
          /\ follow[c].notifiedUpToAt <= now
      BY <2>1, InvFacts, FollowTyped, NowIsNatural DEF FollowOK
    <2>3. Date(follow[c].notifiedUpToAt) \in Nat /\ Date(follow[c].notifiedUpToAt) <= follow[c].notifiedUpToAt
      BY <2>2, DateFacts
    <2>4. QED BY <2>1, <2>2, <2>3
  <1>8. SyncOK(s)'
    BY <1>1, <1>6, <1>7 DEF SyncOK, Inside, WatermarkOK, Asked
  <1>9. ASSUME NEW i \in Items, Notified(i) PROVE NotifiedFor(s, i)'
    <2>1. Owner[i] \in DOMAIN marks => Created(i) <= marks[Owner[i]]
      BY <1>2, <1>9, InvFacts DEF NotifiedOK
    <2>2. QED BY <1>1, <1>6, <2>1 DEF NotifiedFor, Inside, Asked, Created
  <1>10. \A i \in Items : ~PassedOver(s, i)'
    BY <1>6 DEF PassedOver
  <1>11. QED BY <1>1, <1>4, <1>5, <1>8, <1>9, <1>10, SyncStep

\* Reading the items: the window ends at the Date of now.
LEMMA SyncReadsItemsStep ==
  ASSUME NotifyInv, NEW s \in Syncs, SyncReadsItems(s)
  PROVE  NotifyInv'
  <1> DEFINE D == Date(now)
             rows == Windowed(s, D)
             take == SyncLimit + 1
             found == NewestOf(rows \cap Posts, take) \cup NewestOf(rows \cap Stories, take)
             new == [sync[s] EXCEPT !.pc = "read", !.syncedAt = D, !.found = found]
  <1>1. /\ UNCHANGED <<now, item, active, follow, notifications, late>> /\ sync[s].pc = "locked"
        /\ sync' = [sync EXCEPT ![s] = new]
    BY DEF SyncReadsItems
  <1>2. D \in Nat /\ D \in Times /\ Date(D) = D /\ D <= now /\ now \in Nat /\ take \in Nat /\ take > SyncLimit
    BY InvFacts, NowIsNatural, TimesAreNumbers, DateFacts, LimitIsPositive
  <1>3. /\ rows \in SUBSET Items /\ IsFiniteSet(rows \cap Posts) /\ IsFiniteSet(rows \cap Stories)
        /\ rows \cap Posts \in SUBSET Items /\ rows \cap Stories \in SUBSET Items
    <2>1. rows \in SUBSET Begun
      BY DEF Windowed, Begun
    <2>2. IsFiniteSet(Begun)
      BY DEF NotifyInv
    <2>3. rows \cap Posts \in SUBSET Begun /\ rows \cap Stories \in SUBSET Begun
      BY <2>1
    <2> HIDE DEF rows
    <2>4. IsFiniteSet(rows \cap Posts) /\ IsFiniteSet(rows \cap Stories)
      BY <2>2, <2>3, FS_Subset
    <2>5. QED BY <2>1, <2>4 DEF Begun
  <1>4. \A i \in rows : /\ item[i].state = "visible" /\ Asked(s, Owner[i])
                        /\ sync[s].watermarks[Owner[i]] < Created(i) /\ Created(i) <= D
    BY DEF Windowed, InWindow, Asked, Created
  <1>5. ASSUME NEW i \in Items, item[i].state = "visible", Asked(s, Owner[i]),
               sync[s].watermarks[Owner[i]] < Created(i), Created(i) <= D, ~Expired(i, D)
        PROVE  i \in rows
    <2>1. i \in Stories => ExpiresAt(i) > D
      <3>1. ExpiresAt(i) \in Nat
        BY InvFacts, ItemFacts, LifeIsNatural DEF ExpiresAt
      <3>2. QED BY <1>2, <1>5, <3>1 DEF Expired
    <2>2. QED BY <1>5, <2>1 DEF Windowed, InWindow, Asked, Created
  <1> HIDE DEF rows, take
  <1>6. /\ found \in SUBSET rows /\ found \in SUBSET Items /\ IsFiniteSet(found)
    <2>1. /\ NewestOf(rows \cap Posts, take) \subseteq rows \cap Posts
          /\ NewestOf(rows \cap Stories, take) \subseteq rows \cap Stories
          /\ IsFiniteSet(NewestOf(rows \cap Posts, take)) /\ IsFiniteSet(NewestOf(rows \cap Stories, take))
      BY <1>2, <1>3, InvFacts, NewestFacts
    <2>2. IsFiniteSet(found)
      BY <2>1, FS_Union
    <2>3. QED BY <1>3, <2>1, <2>2
  <1>7. ASSUME NEW i \in rows, i \notin found
        PROVE  \E N \in SUBSET found : Cardinality(N) > SyncLimit /\ \A j \in N : NewerItem(j, i)
    <2>1. i \in rows \cap Posts \/ i \in rows \cap Stories
      BY <1>3 DEF Items
    <2>2. ASSUME NEW S \in {rows \cap Posts, rows \cap Stories}, i \in S
          PROVE  \E N \in SUBSET found : Cardinality(N) > SyncLimit /\ \A j \in N : NewerItem(j, i)
      <3>1. S \in SUBSET Items /\ IsFiniteSet(S) /\ NewestOf(S, take) \in SUBSET found
        BY <1>3, <2>2
      <3>2. i \notin NewestOf(S, take)
        BY <1>7, <3>1
      <3>3. Cardinality(NewestOf(S, take)) = take /\ \A j \in NewestOf(S, take) : NewerItem(j, i)
        BY <1>2, <2>2, <3>1, <3>2, InvFacts, NewestFacts
      <3>4. QED BY <1>2, <3>1, <3>3
    <2>3. QED BY <2>1, <2>2
  <1> HIDE DEF found, D
  <1>8. /\ sync \in [Syncs -> Sync] /\ new \in Sync
        /\ new.pc = "read" /\ new.syncedAt = D /\ new.found = found /\ new.watermarks = sync[s].watermarks
    <2>1. sync \in [Syncs -> Sync]
      BY InvFacts DEF NotifyTypeOK
    <2>2. sync[s] \in Sync
      BY <2>1
    <2>3. QED BY <1>2, <1>6, <2>1, <2>2 DEF Sync
  <1> HIDE DEF new
  <1>9. sync'[s] = new /\ sync' \in [Syncs -> Sync] /\ \A r \in Syncs \ {s} : sync'[r] = sync[r]
    BY <1>1, <1>8
  <1>10. NotifyTypeOK'
    <2>1. \A q, r \in Syncs : {sync'[q].pc, sync'[r].pc} \subseteq {"locked", "read"} => q = r
      <3>1. \A q, r \in Syncs : {sync[q].pc, sync[r].pc} \subseteq {"locked", "read"} => q = r
        BY InvFacts DEF NotifyTypeOK
      <3>2. \A r \in Syncs : sync'[r].pc \in {"locked", "read"} => sync[r].pc \in {"locked", "read"}
        BY <1>1, <1>9
      <3>3. QED BY <3>1, <3>2
    <2>2. QED BY <1>1, <1>9, <2>1, InvFacts DEF NotifyTypeOK
  <1>11. /\ sync'[s].pc = "read" /\ sync'[s].syncedAt = D /\ sync'[s].found = found
         /\ sync'[s].watermarks = sync[s].watermarks
    BY <1>8, <1>9
  <1>12. D = Date(now)
    BY DEF D
  <1>13. SyncOK(s)'
    <2>1. ASSUME NEW c \in Characters PROVE WatermarkOK(s, c)'
      <3>1. WatermarkOK(s, c)
        BY <1>1, InvFacts DEF SyncOK, Inside
      <3>2. follow[c].on => follow[c].notifiedUpToAt <= D \/ D <= follow[c].since
        <4>1. /\ FollowOK(c) /\ follow[c].since \in Nat /\ follow[c].notifiedUpToAt \in Nat
          BY InvFacts, FollowTyped
        <4>2. follow[c].notifiedUpToAt <= now => Date(follow[c].notifiedUpToAt) <= D
          BY <1>2, <1>12, <4>1, DatesAscend
        <4>3. QED BY <1>2, <4>1, <4>2 DEF FollowOK
      <3>3. QED BY <1>1, <1>11, <3>1, <3>2 DEF WatermarkOK, Asked
    <2>2. FoundOK(s)'
      <3>1. \A i \in found : item[i].state = "visible" /\ Asked(s, Owner[i])
                             /\ sync[s].watermarks[Owner[i]] < Created(i) /\ Created(i) <= D
        BY <1>4, <1>6
      <3>2. D <= Date(now)
        BY <1>2, <1>12
      <3>3. QED BY <1>1, <1>2, <1>6, <1>11, <3>1, <3>2 DEF FoundOK, InItsWindow, Asked, Created
    <2>3. QED BY <2>1, <2>2 DEF SyncOK
  <1>14. ASSUME NEW i \in Items, Notified(i) PROVE NotifiedFor(s, i)'
    <2>1. NotifiedOK(i)
      BY <1>14, InvFacts
    <2>2. Asked(s, Owner[i]) => Created(i) <= sync[s].watermarks[Owner[i]]
      BY <1>1, <2>1 DEF NotifiedOK, Inside
    <2>3. Created(i) <= D
      BY <1>12, <2>1 DEF NotifiedOK
    <2>4. QED BY <1>1, <1>11, <2>2, <2>3 DEF NotifiedFor, Asked, Created
  <1>15. ASSUME NEW i \in Items, PassedOver(s, i)' PROVE Outnumbered(s, i)'
    <2>1. /\ item[i].state = "visible" /\ i \notin found /\ Asked(s, Owner[i])
          /\ sync[s].watermarks[Owner[i]] < Created(i) /\ Created(i) <= D /\ ~Expired(i, D)
      BY <1>1, <1>11, <1>15 DEF PassedOver, InItsWindow, Asked, Created, Expired, ExpiresAt
    <2>2. i \in rows
      BY <1>5, <2>1
    <2>3. PICK N \in SUBSET found : Cardinality(N) > SyncLimit /\ \A j \in N : NewerItem(j, i)
      BY <1>7, <2>1, <2>2
    <2>4. QED BY <1>1, <1>11, <2>3 DEF Outnumbered, NewerItem
  <1>16. QED BY <1>1, <1>9, <1>10, <1>13, <1>14, <1>15, SyncStep

-----------------------------------------------------------------------------
(***************************************************************************)
(* The commit of a sync                                                    *)
(***************************************************************************)

\* A sequence that says nothing twice has as many members as it is long.
LEMMA RangeCounts ==
  ASSUME NEW S, NEW q \in Seq(S), \A j, k \in 1..Len(q) : q[j] = q[k] => j = k
  PROVE  IsFiniteSet(Range(q)) /\ Cardinality(Range(q)) = Len(q)
  <1> DEFINE n == Len(q)
  <1>1. n \in Nat /\ DOMAIN q = 1..n /\ q \in [1..n -> S]
    OBVIOUS
  <1>2. Range(q) = {q[k] : k \in 1..n}
    BY <1>1 DEF Range
  <1>3. q \in [1..n -> Range(q)]
    BY <1>1, <1>2
  <1>4. q \in Bijection(1..n, Range(q))
    BY <1>1, <1>2, <1>3 DEF Bijection, Injection, Surjection, IsInjective
  <1>5. ExistsBijection(1..n, Range(q))
    BY <1>4 DEF ExistsBijection
  <1>6. QED
    <2> HIDE DEF n
    <2>1. IsFiniteSet(Range(q)) /\ Cardinality(Range(q)) = n
      BY <1>1, <1>5, FS_NatBijection, FS_CountingElements
    <2>2. QED BY <2>1 DEF n

\* What a commit writes: rows for what was selected, and watermarks.
LEMMA CommitFacts ==
  ASSUME NotifyInv, NEW s \in Syncs, SyncCommits(s)
  PROVE  /\ UNCHANGED <<now, item, active, late>>
         /\ sync[s].pc = "read" /\ sync'[s] = NoSync /\ \A r \in Syncs : sync'[r].pc \notin {"locked", "read"}
         /\ FoundOK(s) /\ sync[s].found \in SUBSET Items
         /\ Selected(s) \in Seq(Items)
         /\ notifications' = notifications \o Selected(s)
         /\ \A i \in Items : Notified(i)' <=> Notified(i) \/ i \in Range(Selected(s))
         /\ Range(Selected(s)) \in SUBSET sync[s].found
         /\ \A c \in Characters :
              follow'[c] = IF Asked(s, c) /\ follow[c].on
                           THEN [follow[c] EXCEPT !.notifiedUpToAt = sync[s].syncedAt] ELSE follow[c]
         /\ NotifyTypeOK'
  <1>1. UNCHANGED <<now, item, active, late>> /\ sync[s].pc = "read"
    BY DEF SyncCommits
  <1>2. sync \in [Syncs -> Sync] /\ sync' = [sync EXCEPT ![s] = NoSync]
    BY InvFacts DEF SyncCommits, NotifyTypeOK
  <1>3. sync' \in [Syncs -> Sync] /\ sync'[s] = NoSync /\ \A r \in Syncs \ {s} : sync'[r] = sync[r]
    BY <1>2, NoSyncTyped
  <1>4. ASSUME NEW r \in Syncs PROVE sync'[r].pc \notin {"locked", "read"}
    <2>1. CASE r = s
      BY <1>3, <2>1 DEF NoSync
    <2>2. CASE r # s
      <3>1. {sync[r].pc, sync[s].pc} \subseteq {"locked", "read"} => r = s
        BY InvFacts DEF NotifyTypeOK
      <3>2. QED BY <1>1, <1>3, <2>2, <3>1
    <2>3. QED BY <2>1, <2>2
  <1>5. FoundOK(s) /\ sync[s].found \in SUBSET Items /\ IsFiniteSet(sync[s].found)
    BY <1>1, InvFacts, SyncTyped DEF SyncOK, FoundOK
  <1>6. /\ Selected(s) \in Seq(sync[s].found) /\ Selected(s) \in Seq(Items)
        /\ notifications' = notifications \o Selected(s) /\ notifications \in Seq(Items)
    BY <1>5, InvFacts, SelectedFacts DEF SyncCommits, NotifyTypeOK
  <1>7. ASSUME NEW i \in Items PROVE Notified(i)' <=> Notified(i) \/ i \in Range(Selected(s))
    <2>1. Range(notifications \o Selected(s)) = Range(notifications) \cup Range(Selected(s))
      BY <1>6, RangeConcatenation
    <2>2. QED BY <1>6, <2>1 DEF Notified
  <1>8. Range(Selected(s)) \in SUBSET sync[s].found
    BY <1>6 DEF Range
  <1>9. ASSUME NEW c \in Characters
        PROVE  follow'[c] = IF Asked(s, c) /\ follow[c].on
                            THEN [follow[c] EXCEPT !.notifiedUpToAt = sync[s].syncedAt] ELSE follow[c]
    BY DEF SyncCommits, Advanced, Asked
  <1>10. NotifyTypeOK'
    <2>1. follow' \in [Characters -> Follow]
      <3>1. \A c \in Characters : follow'[c] \in Follow
        BY <1>9, InvFacts, FollowTyped, SyncTyped, RecordFollows
      <3>2. follow' = [c \in Characters |-> follow'[c]]
        BY DEF SyncCommits
      <3>3. QED BY <3>1, <3>2
    <2>2. notifications' \in Seq(Items)
      BY <1>6
    <2>3. \A q, r \in Syncs : {sync'[q].pc, sync'[r].pc} \subseteq {"locked", "read"} => q = r
      BY <1>4
    <2>4. QED BY <1>1, <1>3, <2>1, <2>2, <2>3, InvFacts DEF NotifyTypeOK
  <1>11. QED BY <1>1, <1>3, <1>4, <1>5, <1>6, <1>7, <1>8, <1>9, <1>10

\* Nothing that a sync has found was notified before: it has the lock, and what it
\* has found is newer than its watermark.
LEMMA FoundIsNew ==
  ASSUME NotifyInv, NEW s \in Syncs, sync[s].pc = "read", NEW i \in sync[s].found
  PROVE  ~Notified(i)
  <1>1. FoundOK(s) /\ i \in Items
    BY InvFacts, SyncTyped DEF SyncOK
  <1>2. Asked(s, Owner[i]) /\ sync[s].watermarks[Owner[i]] < Created(i)
    BY <1>1 DEF FoundOK, InItsWindow
  <1>3. Notified(i) => Created(i) <= sync[s].watermarks[Owner[i]]
    BY <1>1, <1>2, InvFacts DEF NotifiedOK, Inside
  <1>4. Created(i) \in Nat /\ sync[s].watermarks[Owner[i]] \in Nat
    BY <1>1, <1>2, InvFacts, ItemFacts, SyncTyped DEF Created, Asked
  <1>5. QED BY <1>2, <1>3, <1>4

\* What was selected lies behind the watermarks, so it was not notified before.
LEMMA CommitNotifiesOnce ==
  ASSUME NotifyInv, NEW s \in Syncs, SyncCommits(s)
  PROVE  NotifiedOnce'
  <1> DEFINE sel == Selected(s)
             m == Len(notifications)
             n == Len(sel)
  <1>1. /\ sync[s].pc = "read" /\ sync[s].found \in SUBSET Items /\ IsFiniteSet(sync[s].found)
        /\ sel \in Seq(Items) /\ notifications' = notifications \o sel /\ notifications \in Seq(Items)
        /\ Range(sel) \in SUBSET sync[s].found
    BY CommitFacts, InvFacts DEF FoundOK, NotifyTypeOK
  <1>2. \A j, k \in 1..n : sel[j] = sel[k] => j = k
    BY <1>1, InvFacts, SelectedFacts
  <1>3. \A j, k \in 1..m : notifications[j] = notifications[k] => j = k
    BY <1>1, InvFacts DEF NotifiedOnce, IsInjective
  <1>4. \A j \in 1..m, k \in 1..n : notifications[j] # sel[k]
    <2>1. ASSUME NEW j \in 1..m, NEW k \in 1..n, notifications[j] = sel[k] PROVE FALSE
      <3>1. Notified(notifications[j])
        BY <1>1 DEF Notified, Range
      <3>2. sel[k] \in sync[s].found
        BY <1>1 DEF Range
      <3>3. QED BY <1>1, <2>1, <3>1, <3>2, FoundIsNew
    <2>2. QED BY <2>1
  <1> HIDE DEF sel
  <1>5. /\ Len(notifications') = m + n /\ m \in Nat /\ n \in Nat /\ DOMAIN notifications' = 1..(m + n)
        /\ \A k \in 1..m : notifications'[k] = notifications[k]
        /\ \A k \in (m + 1)..(m + n) : notifications'[k] = sel[k - m]
    BY <1>1
  <1> HIDE DEF m, n
  <1>6. ASSUME NEW j \in 1..(m + n), NEW k \in 1..(m + n), notifications'[j] = notifications'[k]
        PROVE  j = k
    <2>1. CASE j \in 1..m /\ k \in 1..m
      BY <1>3, <1>5, <1>6, <2>1
    <2>2. CASE j \in (m + 1)..(m + n) /\ k \in (m + 1)..(m + n)
      <3>1. j - m \in 1..n /\ k - m \in 1..n
        BY <1>5, <2>2
      <3>2. j - m = k - m
        BY <1>2, <1>5, <1>6, <2>2, <3>1
      <3>3. QED BY <1>5, <2>2, <3>2
    <2>3. CASE j \in 1..m /\ k \in (m + 1)..(m + n)
      <3>1. k - m \in 1..n
        BY <1>5, <2>3
      <3>2. QED BY <1>4, <1>5, <1>6, <2>3, <3>1
    <2>4. CASE j \in (m + 1)..(m + n) /\ k \in 1..m
      <3>1. j - m \in 1..n
        BY <1>5, <2>4
      <3>2. QED BY <1>4, <1>5, <1>6, <2>4, <3>1
    <2>5. QED BY <1>5, <2>1, <2>2, <2>3, <2>4
  <1>7. QED BY <1>5, <1>6 DEF NotifiedOnce, IsInjective

\* The items that a sync selects leave out only what is older than enough of them.
LEMMA LeftOutIsGivenUp ==
  ASSUME NotifyInv, NEW s \in Syncs, SyncCommits(s), NEW i \in Items, item[i].state = "visible",
         \/ i \in sync[s].found /\ i \notin Range(Selected(s))
         \/ Outnumbered(s, i)
  PROVE  GivenUp(i)'
  <1> DEFINE sel == Selected(s)
             S == sync[s].found
             L == SelectedLength(s)
             A(j) == Date(item[j].createdAt)
  <1>1. /\ sync[s].pc = "read" /\ S \in SUBSET Items /\ IsFiniteSet(S) /\ UNCHANGED item
        /\ notifications' = notifications \o sel /\ Range(sel) \in SUBSET S
        /\ notifications \in Seq(Items) /\ notifications' \in Seq(Items)
        /\ \A j \in Items : Notified(j)' <=> Notified(j) \/ j \in Range(sel)
    BY CommitFacts, InvFacts DEF FoundOK, NotifyTypeOK
  <1>2. /\ sel \in Seq(S) /\ Len(sel) = L
        /\ \A j, k \in 1..L : sel[j] = sel[k] => j = k
        /\ \A j \in S \ Range(sel) : L = SyncLimit /\ \A k \in 1..L : Before(sel[k], j)
        /\ \A k \in 1..L : \A j \in S : Before(j, sel[k]) => j \in Range(sel)
    BY <1>1, InvFacts, SelectedFacts
  <1>3. \A j \in Items : A(j) \in Nat /\ item[j].createdAt \in Nat
    BY InvFacts, ItemFacts
  <1>4. L \in Nat /\ SyncLimit \in Nat /\ L <= SyncLimit
    BY <1>1, FS_CardinalityType, LimitIsPositive DEF SelectedLength
  <1> HIDE DEF sel, L, S
  <1>5. DOMAIN sel = 1..L /\ IsFiniteSet(Range(sel)) /\ Cardinality(Range(sel)) = L
    BY <1>2, RangeCounts
  <1>6. L = SyncLimit /\ \A j \in Range(sel) : A(j) >= A(i)
    <2>1. CASE i \in S /\ i \notin Range(sel)
      <3>1. L = SyncLimit /\ \A k \in 1..L : Before(sel[k], i)
        BY <1>2, <2>1
      <3>2. ASSUME NEW k \in 1..L PROVE A(sel[k]) >= A(i)
        <4>1. sel[k] \in Items
          BY <1>1, <1>2
        <4>2. A(sel[k]) \in Nat /\ A(i) \in Nat
          BY <1>3, <4>1
        <4>3. Before(sel[k], i)
          BY <3>1
        <4>4. QED BY <4>2, <4>3 DEF Before
      <3>3. QED BY <1>5, <3>1, <3>2 DEF Range
    <2>2. CASE Outnumbered(s, i)
      <3>1. PICK N \in SUBSET S : Cardinality(N) > SyncLimit /\ \A j \in N : NewerItem(j, i)
        BY <2>2 DEF Outnumbered, S
      <3>2. IsFiniteSet(N) /\ Cardinality(N) \in Nat
        BY <1>1, <3>1, FS_Subset, FS_CardinalityType
      <3>3. \A j \in N : j \in Items /\ A(j) >= A(i)
        <4>1. ASSUME NEW j \in N PROVE j \in Items /\ A(j) >= A(i)
          <5>1. j \in Items /\ item[i].createdAt <= item[j].createdAt
            <6>1. j \in Items
              BY <1>1, <3>1
            <6>2. item[i].createdAt \in Nat /\ item[j].createdAt \in Nat
              BY <1>3, <6>1
            <6>3. QED BY <3>1, <6>1, <6>2 DEF NewerItem
          <5>2. QED BY <1>3, <5>1, DatesAscend
        <4>2. QED BY <4>1
      <3>4. ASSUME N \subseteq Range(sel) PROVE FALSE
        <4>1. Cardinality(N) <= Cardinality(Range(sel))
          BY <1>5, <3>4, FS_Subset
        <4>2. QED BY <1>4, <1>5, <3>1, <3>2, <4>1
      <3>5. PICK m \in N : m \notin Range(sel)
        BY <3>4
      <3>6. L = SyncLimit /\ \A k \in 1..L : Before(sel[k], m)
        BY <1>2, <3>1, <3>5
      <3>7. \A k \in 1..L : A(sel[k]) >= A(i)
        <4>1. ASSUME NEW k \in 1..L PROVE A(sel[k]) >= A(i)
          <5>1. sel[k] \in Items /\ m \in Items
            BY <1>1, <1>2, <3>3
          <5>2. A(sel[k]) >= A(m)
            BY <1>3, <3>6, <5>1 DEF Before
          <5>3. A(m) >= A(i)
            BY <3>3
          <5>4. A(sel[k]) \in Nat /\ A(m) \in Nat /\ A(i) \in Nat
            BY <1>3, <5>1
          <5> HIDE DEF A
          <5>5. QED BY <5>2, <5>3, <5>4
        <4>2. QED BY <4>1
      <3>8. QED BY <1>5, <3>6, <3>7 DEF Range
    <2>3. QED BY <2>1, <2>2 DEF S, sel
  <1> DEFINE T == {j \in Range(notifications') : Date(item'[j].createdAt) >= Date(item'[i].createdAt)}
  <1>7. \A j \in Range(sel) : j \in T
    <2>1. Range(notifications') = Range(notifications) \cup Range(sel)
      <3>1. sel \in Seq(Items)
        BY <1>1, <1>2
      <3>2. QED BY <1>1, <3>1, RangeConcatenation
    <2>2. QED BY <1>1, <1>6, <2>1
  <1>8. IsFiniteSet(T)
    <2>1. Range(notifications') = Range(notifications) \cup Range(sel)
      <3>1. sel \in Seq(Items)
        BY <1>1, <1>2
      <3>2. QED BY <1>1, <3>1, RangeConcatenation
    <2>2. IsFiniteSet(Range(notifications))
      <3>1. \A j, k \in 1..Len(notifications) : notifications[j] = notifications[k] => j = k
        BY <1>1, InvFacts DEF NotifiedOnce, IsInjective
      <3>2. QED BY <1>1, <3>1, RangeCounts
    <2>3. IsFiniteSet(Range(notifications'))
      BY <1>5, <2>1, <2>2, FS_Union
    <2>4. T \in SUBSET Range(notifications')
      OBVIOUS
    <2> HIDE DEF T
    <2>5. QED BY <2>3, <2>4, FS_Subset
  <1>9. Cardinality(T) >= SyncLimit
    <2> HIDE DEF T
    <2>1. Range(sel) \in SUBSET T
      BY <1>7
    <2>2. Cardinality(Range(sel)) <= Cardinality(T) /\ Cardinality(T) \in Nat
      BY <1>8, <2>1, FS_Subset, FS_CardinalityType
    <2>3. QED BY <1>4, <1>5, <1>6, <2>2
  <1>10. QED BY <1>9 DEF GivenUp

\* The commit keeps the invariant.
LEMMA SyncCommitsStep ==
  ASSUME NotifyInv, NEW s \in Syncs, SyncCommits(s)
  PROVE  NotifyInv'
  <1> DEFINE at == sync[s].syncedAt
  <1>1. /\ NotifyTypeOK' /\ UNCHANGED <<now, item, active, late>> /\ sync[s].pc = "read"
        /\ \A r \in Syncs : sync'[r].pc \notin {"locked", "read"}
        /\ FoundOK(s) /\ sync[s].found \in SUBSET Items
        /\ \A i \in Items : Notified(i)' <=> Notified(i) \/ i \in Range(Selected(s))
        /\ Range(Selected(s)) \in SUBSET sync[s].found
    BY CommitFacts
  <1>2. /\ at \in Nat /\ Date(at) = at /\ at <= Date(now) /\ Date(now) \in Nat /\ Date(now) <= now
        /\ now \in Nat /\ at <= now
    BY <1>1, InvFacts, SyncTyped, NowIsNatural DEF FoundOK
  <1>3. ASSUME NEW c \in Characters
        PROVE  \/ /\ follow[c].on /\ Asked(s, c)
                  /\ follow'[c].on /\ follow'[c].since = follow[c].since /\ follow'[c].notifiedUpToAt = at
               \/ /\ ~(follow[c].on /\ Asked(s, c))
                  /\ follow'[c] = follow[c]
    BY CommitFacts, InvFacts, FollowTyped DEF Follow
  <1>4. NotifiedOnce' /\ IsFiniteSet(Begun')
    BY <1>1, CommitNotifiesOnce DEF NotifyInv, Begun
  <1>5. ASSUME NEW i \in Items, Notified(i)' PROVE NotifiedOK(i)'
    <2>1. Owner[i] \in Characters /\ Created(i) \in Nat
      BY OwnerFacts, InvFacts, ItemFacts DEF Created
    <2>2. CASE Notified(i)
      <3>1. NotifiedOK(i)
        BY <2>2, InvFacts
      <3>2. Created(i) <= at
        BY <1>1, <3>1 DEF NotifiedOK
      <3>3. follow'[Owner[i]].on => Created(i) <= Date(follow'[Owner[i]].notifiedUpToAt)
        BY <1>2, <1>3, <2>1, <3>1, <3>2 DEF NotifiedOK
      <3>4. QED BY <1>1, <3>1, <3>3 DEF NotifiedOK, Created, Inside
    <2>3. CASE i \in sync[s].found
      <3>1. item[i].state = "visible" /\ Asked(s, Owner[i]) /\ Created(i) <= at
        BY <1>1, <2>3 DEF FoundOK, InItsWindow
      <3>2. Created(i) <= Date(now)
        BY <1>2, <2>1, <3>1
      <3>3. follow'[Owner[i]].on => Created(i) <= Date(follow'[Owner[i]].notifiedUpToAt)
        BY <1>2, <1>3, <2>1, <3>1
      <3>4. QED BY <1>1, <3>1, <3>2, <3>3 DEF NotifiedOK, Created, Inside
    <2>4. QED BY <1>1, <1>5, <2>2, <2>3
  <1>6. ASSUME NEW c \in Characters PROVE FollowOK(c)'
    <2>1. FollowOK(c)
      BY InvFacts
    <2>2. QED BY <1>1, <1>2, <1>3, <2>1 DEF FollowOK
  <1>7. ASSUME NEW r \in Syncs PROVE SyncOK(r)' /\ \A i \in Items : ~PassedOver(r, i)'
    BY <1>1 DEF SyncOK, Inside, PassedOver
  <1>8. ASSUME NEW i \in Items, Due(i)' PROVE Settled(i)'
    <2>1. Owner[i] \in Characters /\ Created(i) \in Nat
      BY OwnerFacts, InvFacts, ItemFacts DEF Created
    <2>2. /\ item[i].state = "visible" /\ follow'[Owner[i]].on
          /\ follow'[Owner[i]].since < Created(i) /\ Created(i) <= follow'[Owner[i]].notifiedUpToAt
      BY <1>1, <1>8 DEF Due, Created
    <2>3. /\ \A j : Notified(j) => Notified(j)'
          /\ \A j \in Items : item[j].state = "visible" => item'[j].createdAt = item[j].createdAt
      BY <1>1, InvFacts, NotifiedItems
    <2>4. ASSUME Due(i), follow[Owner[i]].notifiedUpToAt <= follow'[Owner[i]].notifiedUpToAt
          PROVE  Settled(i)'
      BY <1>1, <2>2, <2>3, <2>4, InvFacts, SettledStays
    <2>5. follow[Owner[i]].notifiedUpToAt \in Nat /\ follow[Owner[i]].since \in Nat
      BY <2>1, InvFacts, FollowTyped
    <2>6. CASE follow'[Owner[i]] = follow[Owner[i]]
      BY <2>2, <2>4, <2>5, <2>6 DEF Due
    <2>7. CASE /\ follow[Owner[i]].on /\ Asked(s, Owner[i])
               /\ follow'[Owner[i]].since = follow[Owner[i]].since /\ follow'[Owner[i]].notifiedUpToAt = at
      <3>1. WatermarkOK(s, Owner[i])
        BY <1>1, <2>1, InvFacts DEF SyncOK, Inside
      <3>2. /\ follow[Owner[i]].notifiedUpToAt <= at
            /\ sync[s].watermarks[Owner[i]] <= follow[Owner[i]].notifiedUpToAt
        BY <1>1, <1>2, <2>1, <2>2, <2>5, <2>7, <3>1 DEF WatermarkOK
      <3>3. CASE Created(i) <= follow[Owner[i]].notifiedUpToAt
        BY <2>2, <2>4, <2>7, <3>2, <3>3 DEF Due
      <3>4. CASE follow[Owner[i]].notifiedUpToAt < Created(i)
        <4>1. InItsWindow(s, i)
          <5>1. sync[s].watermarks[Owner[i]] \in Nat
            BY <2>7, InvFacts, SyncTyped DEF Asked
          <5>2. QED BY <2>1, <2>2, <2>5, <2>7, <3>2, <3>4, <5>1 DEF InItsWindow
        <4>2. CASE i \in late \/ Expired(i, at)
          BY <1>1, <2>7, <4>2 DEF Settled, Expired, ExpiresAt
        <4>3. CASE i \in sync[s].found /\ i \in Range(Selected(s))
          BY <1>1, <4>3 DEF Settled
        <4>4. CASE i \in sync[s].found /\ i \notin Range(Selected(s))
          BY <2>2, <4>4, LeftOutIsGivenUp DEF Settled, GivenUp
        <4>5. CASE i \notin sync[s].found /\ ~(i \in late \/ Expired(i, at))
          <5>1. PassedOver(s, i)
            BY <1>1, <2>2, <4>1, <4>5 DEF PassedOver
          <5>2. Outnumbered(s, i)
            BY <5>1, InvFacts
          <5>3. QED BY <2>2, <5>2, LeftOutIsGivenUp DEF Settled, GivenUp
        <4>6. QED BY <4>2, <4>3, <4>4, <4>5
      <3>5. QED BY <2>1, <2>5, <3>3, <3>4
    <2>8. QED BY <1>3, <2>1, <2>6, <2>7
  <1>9. QED BY <1>1, <1>4, <1>5, <1>6, <1>7, <1>8 DEF NotifyInv

-----------------------------------------------------------------------------
LEMMA FollowInitHolds == FollowInit => NotifyInv
  <1> SUFFICES ASSUME FollowInit PROVE NotifyInv
    OBVIOUS
  <1>1. /\ now = 0 /\ notifications = <<>> /\ late = {} /\ active = Characters
        /\ \A i \in Items : item[i] = NoSuchItem
        /\ \A s \in Syncs : sync[s] = NoSync
        /\ \A c \in Characters : follow[c] = NoFollow \/ follow[c] = FollowSince(0)
    BY DEF FollowInit
  <1>2. 0 \in Times /\ 0 \in Nat
    BY ClockIsNatural DEF Times
  <1>3. NotifyTypeOK
    <2>1. item \in [Items -> Item]
      BY <1>2 DEF FollowInit, NoSuchItem, Item
    <2>2. follow \in [Characters -> Follow]
      BY <1>2, RecordFollows DEF FollowInit
    <2>3. sync \in [Syncs -> Sync]
      BY NoSyncTyped DEF FollowInit
    <2>4. \A r, s \in Syncs : {sync[r].pc, sync[s].pc} \subseteq {"locked", "read"} => r = s
      BY <1>1 DEF NoSync
    <2>5. <<>> \in Seq(Items)
      OBVIOUS
    <2>6. QED BY <1>1, <1>2, <2>1, <2>2, <2>3, <2>4, <2>5 DEF NotifyTypeOK
  <1>4. NotifiedOnce /\ \A i \in Items : ~Notified(i)
    BY <1>1 DEF NotifiedOnce, IsInjective, Notified, Range
  <1>5. IsFiniteSet(Begun)
    <2>1. Begun = {}
      BY <1>1 DEF Begun, NoSuchItem
    <2>2. QED BY <2>1, FS_EmptySet
  <1>6. ASSUME NEW c \in Characters PROVE FollowOK(c)
    BY <1>1, <1>2 DEF FollowOK, NoFollow, FollowSince
  <1>7. ASSUME NEW s \in Syncs PROVE SyncOK(s) /\ \A i \in Items : ~PassedOver(s, i)
    BY <1>1 DEF SyncOK, Inside, PassedOver, NoSync
  <1>8. \A i \in Items : ~Due(i)
    BY <1>1 DEF Due, NoSuchItem
  <1>9. QED BY <1>3, <1>4, <1>5, <1>6, <1>7, <1>8 DEF NotifyInv

\* An item begins at the time its transaction begins, or is committed.
LEMMA PublishingStep ==
  ASSUME NotifyInv, NEW i \in Items, ItemBegins(i) \/ ItemCommits(i)
  PROVE  NotifyInv'
  <1>1. item \in [Items -> Item] /\ now \in Times
    BY InvFacts DEF NotifyTypeOK
  <1>2. CASE ItemBegins(i)
    <2> DEFINE begun == [state |-> "open", createdAt |-> now]
    <2>1. /\ UNCHANGED <<now, active, follow, notifications, sync, late>> /\ item[i].state = "none"
          /\ item' = [item EXCEPT ![i] = begun]
      BY <1>2 DEF ItemBegins
    <2>2. begun \in Item /\ begun.state = "open"
      BY <1>1 DEF Item
    <2> HIDE DEF begun
    <2>3. /\ item' \in [Items -> Item] /\ item'[i] = begun
          /\ \A j \in Items \ {i} : item'[j] = item[j]
      BY <1>1, <2>1, <2>2
    <2>4. NotifyTypeOK'
      BY <2>1, <2>3, InvFacts DEF NotifyTypeOK
    <2>5. IsFiniteSet(Begun')
      <3>1. Begun' = Begun \cup {i}
        BY <2>2, <2>3 DEF Begun
      <3>2. IsFiniteSet(Begun)
        BY DEF NotifyInv
      <3>3. QED BY <3>1, <3>2, FS_AddElement
    <2>6. \A j \in Items : item[j].state = "visible" => item'[j] = item[j]
      BY <2>1, <2>3
    <2>7. \A j \in Items : item'[j].state = "visible" => item[j].state = "visible"
      BY <2>2, <2>3
    <2>8. now <= now'
      BY <2>1, InvFacts, NowIsNatural
    <2>9. QED BY <2>1, <2>4, <2>5, <2>6, <2>7, <2>8, WorldStep
  <1>3. CASE ItemCommits(i)
    <2>1. /\ UNCHANGED <<now, active, follow, notifications, sync>> /\ item[i].state = "open"
          /\ item' = [item EXCEPT ![i] = [item[i] EXCEPT !.state = "visible"]]
          /\ late' = IF Passed(i) THEN late \cup {i} ELSE late
      BY <1>3 DEF ItemCommits
    <2>2. /\ [item[i] EXCEPT !.state = "visible"] \in Item
          /\ [item[i] EXCEPT !.state = "visible"].createdAt = item[i].createdAt
          /\ [item[i] EXCEPT !.state = "visible"].state = "visible"
      BY <1>1 DEF Item
    <2>3. /\ item' \in [Items -> Item] /\ item'[i].createdAt = item[i].createdAt /\ item'[i].state = "visible"
          /\ \A j \in Items \ {i} : item'[j] = item[j]
      BY <1>1, <2>1, <2>2
    <2>4. NotifyTypeOK'
      BY <2>1, <2>3, InvFacts DEF NotifyTypeOK
    <2>5. IsFiniteSet(Begun')
      <3>1. Begun' = Begun
        BY <2>1, <2>3 DEF Begun
      <3>2. QED BY <3>1 DEF NotifyInv
    <2>6. \A j \in Items : item[j].state = "visible" => item'[j] = item[j]
      BY <2>1, <2>3
    <2>7. \A j \in Items : item'[j].state = "visible" =>
            \/ item[j].state = "visible"
            \/ item'[j].createdAt = item[j].createdAt /\ (Passed(j) => j \in late')
      BY <2>1, <2>3
    <2>8. now <= now' /\ late \subseteq late'
      BY <2>1, InvFacts, NowIsNatural
    <2>9. QED BY <2>1, <2>4, <2>5, <2>6, <2>7, <2>8, WorldStep
  <1>4. QED BY <1>2, <1>3

\* The invariant of the syncs is inductive.
LEMMA NotifyStep == NotifyInv /\ [FollowNext]_followVars => NotifyInv'
  <1> SUFFICES ASSUME NotifyInv, [FollowNext]_followVars PROVE NotifyInv'
    OBVIOUS
  <1>1. CASE Tick
    <2>1. UNCHANGED <<item, active, follow, notifications, sync, late>> /\ now < MaxTime /\ now' = now + 1
      BY <1>1 DEF Tick, TimePasses
    <2>2. now' \in Times /\ now <= now'
      BY <2>1, ClockIsNatural, InvFacts DEF NotifyTypeOK, Times
    <2>3. NotifyTypeOK' /\ IsFiniteSet(Begun')
      BY <2>1, <2>2 DEF NotifyInv, NotifyTypeOK, Begun
    <2>4. QED BY <2>1, <2>2, <2>3, WorldStep
  <1>2. CASE Publishing
    <2>1. ASSUME NEW c \in Characters, StatusChanges(c) PROVE NotifyInv'
      <3>1. UNCHANGED <<now, item, follow, notifications, sync, late>> /\ active' \subseteq Characters
        BY <2>1, InvFacts DEF StatusChanges, NotifyTypeOK
      <3>2. NotifyTypeOK' /\ IsFiniteSet(Begun')
        BY <3>1 DEF NotifyInv, NotifyTypeOK, Begun
      <3>3. now <= now'
        BY <3>1, InvFacts, NowIsNatural
      <3>4. QED BY <3>1, <3>2, <3>3, WorldStep
    <2>2. QED BY <1>2, <2>1, PublishingStep DEF Publishing
  <1>3. ASSUME NEW c \in Characters, FollowCharacter(c) \/ UnfollowCharacter(c)
        PROVE  NotifyInv'
    <2>1. /\ UNCHANGED <<now, item, active, notifications, sync, late>>
          /\ \E f \in {FollowSince(now), NoFollow} : follow' = [follow EXCEPT ![c] = f]
      BY <1>3 DEF FollowCharacter, UnfollowCharacter
    <2>2. PICK f \in {FollowSince(now), NoFollow} : follow' = [follow EXCEPT ![c] = f]
      BY <2>1
    <2>3. f \in Follow /\ (f = FollowSince(now) \/ ~f.on)
      <3>1. FollowSince(now) \in Follow /\ NoFollow \in Follow
        BY InvFacts, NowIsNatural, RecordFollows
      <3>2. ~NoFollow.on
        BY DEF NoFollow
      <3>3. QED BY <3>1, <3>2
    <2>4. /\ follow' \in [Characters -> Follow] /\ follow'[c] = f
          /\ \A d \in Characters \ {c} : follow'[d] = follow[d]
      BY <2>2, <2>3, InvFacts DEF NotifyTypeOK
    <2>5. NotifyTypeOK'
      BY <2>1, <2>4, InvFacts DEF NotifyTypeOK
    <2>6. \A d \in Characters : \/ follow'[d] = follow[d]
                                \/ ~follow'[d].on
                                \/ follow'[d] = FollowSince(now)
      BY <2>3, <2>4
    <2>7. QED BY <2>1, <2>5, <2>6, FollowStep
  <1>4. ASSUME NEW s \in Syncs, SyncFollowNotifications(s) PROVE NotifyInv'
    <2>1. CASE SyncReadsFollows(s)
      <3>1. CASE ActiveFollows = {}
        <4>1. SyncFails(s)
          BY <2>1, <3>1 DEF SyncReadsFollows, SyncFails
        <4>2. QED BY <4>1, IdleSyncStep
      <3>2. QED BY <2>1, <3>1, SyncReadsFollowsStep
    <2>2. QED BY <1>4, <2>1, IdleSyncStep, SyncReadsItemsStep, SyncCommitsStep DEF SyncFollowNotifications
  <1>5. CASE UNCHANGED followVars
    <2>1. UNCHANGED <<now, item, active, follow, notifications, sync, late>>
      BY <1>5 DEF followVars
    <2>2. NotifyTypeOK' /\ IsFiniteSet(Begun')
      BY <2>1 DEF NotifyInv, NotifyTypeOK, Begun
    <2>3. now <= now'
      BY <2>1, InvFacts, NowIsNatural
    <2>4. QED BY <2>1, <2>2, <2>3, WorldStep
  <1>6. QED BY <1>1, <1>2, <1>3, <1>4, <1>5 DEF FollowNext

\* Rows, watermarks and what the syncs know of them agree in every reachable state.
THEOREM NotifyInvariant == FollowSpec => []NotifyInv
  BY FollowInitHolds, NotifyStep, PTL DEF FollowSpec

\* The types, and the lock: one sync at a time is inside.
THEOREM NotifyTyped == FollowSpec => []NotifyTypeOK
  <1>1. NotifyInv => NotifyTypeOK
    BY DEF NotifyInv
  <1>2. QED BY <1>1, NotifyInvariant, PTL

\* No post or story is notified twice, whatever syncs run at once, are repeated
\* or roll back, and however often its character is unfollowed and followed.
THEOREM EachNotifiedOnce == FollowSpec => []NotifiedOnce
  <1>1. NotifyInv => NotifiedOnce
    BY DEF NotifyInv
  <1>2. QED BY <1>1, NotifyInvariant, PTL

\* What was published since the follow, up to its watermark, has been notified,
\* unless it was committed late, has expired or had to give way to newer items.
THEOREM NothingIsLost == FollowSpec => []NothingLost
  <1>1. NotifyInv => NothingLost
    <2> SUFFICES ASSUME NotifyInv PROVE NothingLost
      OBVIOUS
    <2>1. \A i \in Items : Due(i) => Settled(i)
      BY InvFacts
    <2>2. QED BY <2>1 DEF NothingLost, Due, Settled, Created, Expired
  <1>2. QED BY <1>1, NotifyInvariant, PTL

-----------------------------------------------------------------------------
(***************************************************************************)
(* Lists that are read page by page                                        *)
(***************************************************************************)

PageOrder == {p \in Stored \X Stored : Precedes(p[1], p[2])}

\* What has been shown is at the cursor or before it; of a list that ascends only
\* the millisecond is known, for a page of it starts again at that of its cursor.
Behind(n) ==
  IF list.ascending
  THEN Date(row[n].at) <= Date(row[reader.cursor].at)
  ELSE n = reader.cursor \/ Precedes(n, reader.cursor)

\* Where rows do not move, what is shown lies behind the cursor, and the time of
\* the query is that of the cursor.
ShownOK ==
  "move" \notin list.changes /\ reader.pc \in {"paging", "querying"} =>
    /\ \A n \in reader.shown : Behind(n)
    /\ reader.pc = "querying" => reader.from = Date(row[reader.cursor].at)

\* What has not been shown lies ahead, or in the millisecond of a cursor.
AheadOK ==
  ~reader.cut =>
    \A n \in reader.there \ reader.shown :
      \/ Date(row[n].at) \in reader.ends
      \/ reader.pc = "paging" /\ Precedes(reader.cursor, n)
      \/ reader.pc = "querying" /\ Beyond(n)

PageInv ==
  /\ PageTypeOK
  /\ Len(row) <= MaxRows
  /\ reader.there \subseteq Listed
  /\ reader.pc \in {"idle", "refused"} => reader.there = {} /\ reader.shown = {}
  /\ ShownOK
  /\ AheadOK

\* A list whose rows move does not ascend.
LEMMA ListFacts ==
  ASSUME list \in AllLists
  PROVE  "move" \in list.changes => ~list.ascending
  <1>1. conversationsPage.ascending = FALSE
    BY DEF conversationsPage, Steady
  <1>2. messagesPage.changes = {}
    BY DEF messagesPage, Steady
  <1>3. /\ notificationsPage.changes = {} /\ inquiriesPage.changes = {"leave"} /\ purchasesPage.changes = {}
    BY DEF notificationsPage, inquiriesPage, purchasesPage, Steady
  <1>4. /\ unreadNotificationsPage.changes = {"leave"} /\ noticesPage.changes = {"leave", "return"}
    BY DEF unreadNotificationsPage, notificationsPage, noticesPage, Steady
  <1>5. /\ postsPage.changes = {"leave", "return"}
        /\ storiesPage.changes = {"leave", "return"} /\ commentsPage.changes = {"leave", "return"}
    BY DEF storiesPage, postsPage, commentsPage, Steady
  <1>6. "move" \notin {} /\ "move" \notin {"leave"} /\ "move" \notin {"leave", "return"}
    OBVIOUS
  <1>7. QED BY <1>1, <1>2, <1>3, <1>4, <1>5, <1>6 DEF AllLists

LEMMA RowFacts ==
  ASSUME PageTypeOK, Len(row) <= MaxRows
  PROVE  /\ Stored = 1..Len(row) /\ Len(row) \in Nat /\ Stored \subseteq Nat /\ Stored \subseteq RowIds
         /\ IsFiniteSet(Stored) /\ Listed \subseteq Stored
         /\ \A n \in Stored : /\ row[n] \in Row /\ row[n].at \in Times /\ row[n].at \in Nat
                              /\ Date(row[n].at) \in Nat /\ Date(row[n].at) \in Times
                              /\ Date(row[n].at) <= row[n].at
  <1>1. row \in Seq(Row)
    BY DEF PageTypeOK
  <1>2. Stored = 1..Len(row) /\ Len(row) \in Nat
    BY <1>1 DEF Stored
  <1>3. MaxRows \in Nat
    BY PageBounds
  <1>4. IsFiniteSet(Stored)
    <2>1. 1 \in Int /\ Len(row) \in Int
      BY <1>2
    <2>2. QED BY <1>2, <2>1, FS_Interval
  <1>5. ASSUME NEW n \in Stored
        PROVE  /\ row[n] \in Row /\ row[n].at \in Times /\ row[n].at \in Nat
               /\ Date(row[n].at) \in Nat /\ Date(row[n].at) \in Times
               /\ Date(row[n].at) <= row[n].at
    <2>1. row[n] \in Row
      BY <1>1, <1>2
    <2>2. row[n].at \in Times
      BY <2>1 DEF Row
    <2>3. QED BY <2>1, <2>2, TimesAreNumbers, DateFacts
  <1>6. QED BY <1>2, <1>3, <1>4, <1>5 DEF Listed, RowIds

\* The sort key and the ID order the rows of a list.
LEMMA PageOrdered ==
  ASSUME PageTypeOK, Len(row) <= MaxRows, NEW S \in SUBSET Stored
  PROVE  Orders(PageOrder, S)
  <1>1. \A n \in Stored : n \in Nat /\ row[n].at \in Nat
    BY RowFacts
  <1>2. ASSUME NEW x \in Stored, NEW y \in Stored
        PROVE  /\ <<x, y>> \in PageOrder <=> Precedes(x, y)
               /\ ~Precedes(x, x)
               /\ x # y => Precedes(x, y) \/ Precedes(y, x)
    BY <1>1 DEF PageOrder, Precedes, Newer
  <1>3. ASSUME NEW x \in Stored, NEW y \in Stored, NEW z \in Stored, Precedes(x, y), Precedes(y, z)
        PROVE  Precedes(x, z)
    BY <1>1, <1>3 DEF Precedes, Newer
  <1>4. QED BY <1>2, <1>3 DEF Orders

\* A page is the first of the rows; the last of it, the next cursor, stands after
\* the others of the page and before what is left.  Without a next page, nothing
\* is left.
LEMMA TurnedFacts ==
  ASSUME PageTypeOK, Len(row) <= MaxRows, NEW S \in SUBSET Stored, NEW limit \in Nat \ {0}
  PROVE  LET t == Turned(S, limit) IN
         /\ t.page \in SUBSET S /\ t.shown = reader.shown \cup t.page /\ t.from = 0
         /\ t.there = reader.there /\ t.ends = reader.ends /\ t.cut = reader.cut
         /\ t \in Reader
         /\ \/ /\ t.pc = "done" /\ t.page = S
            \/ /\ t.pc = "paging" /\ t.cursor \in t.page
               /\ \A m \in t.page : m = t.cursor \/ Precedes(m, t.cursor)
               /\ \A n \in S \ t.page : Precedes(t.cursor, n)
  <1> DEFINE t == Turned(S, limit)
             items == FirstRows(S, limit)
             more == Cardinality(S) > limit
             last == NextCursor(S, limit)
  <1>1. IsFiniteSet(S) /\ Orders(PageOrder, S) /\ S \subseteq RowIds /\ Cardinality(S) \in Nat
    BY RowFacts, PageOrdered, FS_Subset, FS_CardinalityType
  <1>2. \A n \in S : {m \in S : Precedes(m, n)} = Below(PageOrder, S, n)
    BY DEF Below, PageOrder
  <1>3. items = {n \in S : Rank(PageOrder, S, n) < limit}
    BY <1>2 DEF FirstRows, Rank
  <1>4. \A m \in S : Rank(PageOrder, S, m) \in Nat /\ Rank(PageOrder, S, m) < Cardinality(S)
    BY <1>1, RankGrows
  <1>5. \A m, n \in S : /\ <<m, n>> \in PageOrder <=> Precedes(m, n)
                        /\ Rank(PageOrder, S, m) = Rank(PageOrder, S, n) => m = n
                        /\ Rank(PageOrder, S, m) < Rank(PageOrder, S, n) => Precedes(m, n)
    <2>1. \A m, n \in S : <<m, n>> \in PageOrder <=> Precedes(m, n)
      BY DEF PageOrder
    <2>2. QED BY <1>1, <2>1, RankIsUnique
  <1> HIDE DEF items
  <1>6. items \in SUBSET S
    BY <1>3
  <1>7. ~more => items = S
    BY <1>1, <1>3, <1>4
  <1>8. ASSUME more
        PROVE  /\ last \in items
               /\ \A m \in items : m = last \/ Precedes(m, last)
               /\ \A n \in S \ items : Precedes(last, n)
    <2>1. limit - 1 \in Nat /\ limit - 1 < Cardinality(S)
      BY <1>1, <1>8
    <2>2. PICK x \in S : Rank(PageOrder, S, x) = limit - 1
      BY <1>1, <2>1, EveryRank
    <2>3. x \in items
      BY <1>3, <2>2
    <2>4. \A m \in items \ {x} : Precedes(m, x)
      <3> SUFFICES ASSUME NEW m \in items \ {x} PROVE Precedes(m, x)
        OBVIOUS
      <3>1. m \in S /\ Rank(PageOrder, S, m) < limit /\ Rank(PageOrder, S, m) \in Nat
        BY <1>3, <1>4
      <3>2. Rank(PageOrder, S, m) = limit - 1 \/ Rank(PageOrder, S, m) < limit - 1
        BY <3>1
      <3>3. QED BY <1>5, <2>2, <3>1, <3>2
    <2>5. last \in items /\ \A m \in items \ {last} : Precedes(m, last)
      <3>1. last = CHOOSE n \in items : \A m \in items \ {n} : Precedes(m, n)
        BY DEF NextCursor, LastOf, items
      <3>2. QED BY <2>3, <2>4, <3>1
    <2>6. ASSUME NEW n \in S \ items PROVE Precedes(last, n)
      <3>1. /\ Rank(PageOrder, S, n) \in Nat /\ ~(Rank(PageOrder, S, n) < limit)
            /\ Rank(PageOrder, S, last) \in Nat /\ Rank(PageOrder, S, last) < limit /\ last \in S
        BY <1>3, <1>4, <2>5
      <3>2. Rank(PageOrder, S, last) < Rank(PageOrder, S, n)
        BY <3>1
      <3>3. QED BY <1>5, <3>1, <3>2
    <2>7. QED BY <2>5, <2>6
  <1> HIDE DEF last, more
  <1>9. t = [reader EXCEPT !.pc = IF more THEN "paging" ELSE "done",
                           !.page = items,
                           !.shown = reader.shown \cup items,
                           !.cursor = IF more THEN last ELSE 0,
                           !.from = 0]
    BY DEF Turned, items, more, last
  <1>10. reader \in Reader
    BY DEF PageTypeOK
  <1>11. /\ t.pc = (IF more THEN "paging" ELSE "done") /\ t.page = items
         /\ t.shown = reader.shown \cup items /\ t.cursor = (IF more THEN last ELSE 0) /\ t.from = 0
         /\ t.there = reader.there /\ t.ends = reader.ends /\ t.cut = reader.cut
    BY <1>9, <1>10 DEF Reader
  <1>12. t \in Reader
    <2>1. 0 \in Times /\ 0 \in 0..MaxRows
      BY ClockIsNatural, PageBounds DEF Times
    <2>2. items \in SUBSET RowIds /\ reader.shown \cup items \in SUBSET RowIds
      BY <1>1, <1>6, <1>10 DEF Reader
    <2>3. (IF more THEN last ELSE 0) \in 0..MaxRows
      BY <1>8, <2>1, <2>2, PageBounds DEF RowIds
    <2>4. (IF more THEN "paging" ELSE "done") \in {"idle", "paging", "querying", "done", "refused"}
      OBVIOUS
    <2> HIDE DEF t
    <2>5. QED BY <1>9, <1>10, <2>1, <2>2, <2>3, <2>4 DEF Reader
  <1> HIDE DEF t
  <1>13. /\ t.page \in SUBSET S /\ t.shown = reader.shown \cup t.page /\ t.from = 0
         /\ t.there = reader.there /\ t.ends = reader.ends /\ t.cut = reader.cut
    BY <1>6, <1>11
  <1>14. \/ /\ t.pc = "done" /\ t.page = S
         \/ /\ t.pc = "paging" /\ t.cursor \in t.page
            /\ \A m \in t.page : m = t.cursor \/ Precedes(m, t.cursor)
            /\ \A n \in S \ t.page : Precedes(t.cursor, n)
    BY <1>7, <1>8, <1>11
  <1>15. QED BY <1>12, <1>13, <1>14 DEF t

\* Where the reader stands stays right as long as rows only come, leave, return,
\* or move as the reader is told.
LEMMA WritingStep ==
  ASSUME PageInv, PageTypeOK', Len(row') <= MaxRows, UNCHANGED list,
         Stored \subseteq Stored', reader'.there \subseteq Listed', reader'.there \subseteq reader.there,
         reader'.pc = reader.pc, reader'.page = reader.page, reader'.shown = reader.shown,
         reader'.cursor = reader.cursor, reader'.from = reader.from, reader'.ends = reader.ends,
         reader.cut => reader'.cut,
         \A n \in Stored :
           \/ row'[n].at = row[n].at
           \/ /\ "move" \in list.changes /\ n \notin reader'.there
              /\ n = reader.cursor /\ ~reader'.cut => row[n].at <= row'[n].at
  PROVE  PageInv'
  <1>1. PageTypeOK /\ Len(row) <= MaxRows /\ list \in AllLists /\ reader.there \subseteq Listed
    BY DEF PageInv, PageTypeOK
  <1>2. /\ \A n \in Stored : n \in Nat /\ row[n].at \in Nat
        /\ \A n \in Stored' : row'[n].at \in Nat
    <2>1. \A n \in Stored : n \in Nat /\ row[n].at \in Nat
      BY <1>1, RowFacts
    <2>2. row' \in Seq(Row)
      BY DEF PageTypeOK
    <2>3. \A n \in Stored' : row'[n] \in Row
      BY <2>2 DEF Stored
    <2>4. QED BY <2>1, <2>3, TimesAreNumbers DEF Row
  <1>3. reader.pc \in {"paging", "querying"} => reader.cursor \in Stored
    BY <1>1 DEF PageTypeOK
  <1>4. reader.shown \subseteq Stored
    BY <1>1 DEF PageTypeOK
  <1>5. ShownOK'
    <2> SUFFICES ASSUME "move" \notin list.changes, reader.pc \in {"paging", "querying"}
                 PROVE  /\ \A n \in reader.shown : Behind(n)'
                        /\ reader.pc = "querying" => reader.from = Date(row'[reader.cursor].at)
      BY DEF ShownOK
    <2>1. /\ \A n \in reader.shown : Behind(n)
          /\ reader.pc = "querying" => reader.from = Date(row[reader.cursor].at)
      BY DEF PageInv, ShownOK
    <2>2. \A n \in Stored : row'[n].at = row[n].at
      OBVIOUS
    <2>3. QED BY <1>3, <1>4, <2>1, <2>2 DEF Behind, Precedes, Newer
  <1>6. AheadOK'
    <2> SUFFICES ASSUME ~reader'.cut, NEW n \in reader'.there \ reader.shown
                 PROVE  \/ Date(row'[n].at) \in reader.ends
                        \/ reader.pc = "paging" /\ Precedes(reader.cursor, n)'
                        \/ reader.pc = "querying" /\ Beyond(n)'
      BY DEF AheadOK
    <2>1. \/ Date(row[n].at) \in reader.ends
          \/ reader.pc = "paging" /\ Precedes(reader.cursor, n)
          \/ reader.pc = "querying" /\ Beyond(n)
      BY DEF PageInv, AheadOK
    <2>2. n \in Stored /\ row'[n].at = row[n].at
      BY <1>1 DEF Listed
    <2>3. Beyond(n) => Beyond(n)'
      BY <2>2 DEF Beyond
    <2>4. ASSUME reader.pc = "paging", Precedes(reader.cursor, n) PROVE Precedes(reader.cursor, n)'
      <3>1. reader.cursor \in Stored /\ reader.cursor \in Nat /\ n \in Nat
        BY <1>2, <1>3, <2>2, <2>4
      <3>2. CASE row'[reader.cursor].at = row[reader.cursor].at
        BY <2>2, <2>4, <3>2 DEF Precedes, Newer
      <3>3. CASE ~(row'[reader.cursor].at = row[reader.cursor].at)
        <4>1. /\ "move" \in list.changes /\ reader.cursor # n
              /\ row[reader.cursor].at <= row'[reader.cursor].at
          BY <3>1, <3>3
        <4>2. ~list.ascending
          BY <1>1, <4>1, ListFacts
        <4>3. /\ row[reader.cursor].at \in Nat /\ row'[reader.cursor].at \in Nat /\ row[n].at \in Nat
          BY <1>2, <2>2, <3>1
        <4>4. QED BY <2>2, <2>4, <3>1, <3>3, <4>1, <4>2, <4>3 DEF Precedes, Newer
      <3>4. QED BY <3>2, <3>3
    <2>5. QED BY <2>1, <2>2, <2>3, <2>4
  <1>7. reader'.pc \in {"idle", "refused"} => reader'.there = {} /\ reader'.shown = {}
    BY DEF PageInv
  <1>8. QED BY <1>5, <1>6, <1>7 DEF PageInv

LEMMA WriterTimes ==
  ASSUME PageTypeOK, NEW w \in Writers, writer[w] # NotWriting
  PROVE  WrittenAt(w) \in Times
  <1>1. writer[w] \in Times
    BY DEF PageTypeOK
  <1>2. QED BY <1>1, TimesAreNumbers DEF WrittenAt

LEMMA PageInitHolds == PageInit => PageInv
  <1> SUFFICES ASSUME PageInit PROVE PageInv
    OBVIOUS
  <1>1. /\ now = 0 /\ list \in AllLists /\ row = <<>> /\ reader = NotReading
        /\ writer = [w \in Writers |-> NotWriting]
    BY DEF PageInit
  <1>2. 0 \in Times /\ 0 \in 0..MaxRows /\ MaxRows \in Nat
    BY ClockIsNatural, PageBounds DEF Times
  <1>3. NotReading \in Reader /\ NotReading.pc = "idle" /\ NotReading.page = {} /\ NotReading.shown = {}
        /\ NotReading.there = {}
    BY <1>2 DEF NotReading, Reader
  <1>4. row \in Seq(Row) /\ Len(row) = 0
    BY <1>1
  <1>5. writer \in [Writers -> Times \cup {NotWriting}]
    BY <1>1
  <1>6. PageTypeOK
    BY <1>1, <1>2, <1>3, <1>4, <1>5 DEF PageTypeOK
  <1>7. ShownOK /\ AheadOK
    BY <1>1, <1>3 DEF ShownOK, AheadOK
  <1>8. QED BY <1>1, <1>2, <1>3, <1>4, <1>6, <1>7 DEF PageInv

\* A write keeps the reader's bookkeeping.
LEMMA PageWritingStep ==
  ASSUME PageInv, PageTick \/ PageWriting \/ UNCHANGED pageVars
  PROVE  PageInv' /\ reader'.pc = reader.pc
  <1>1. /\ PageTypeOK /\ Len(row) <= MaxRows /\ list \in AllLists /\ reader.there \subseteq Listed
        /\ now \in Times /\ row \in Seq(Row) /\ reader \in Reader
        /\ writer \in [Writers -> Times \cup {NotWriting}]
    BY DEF PageInv, PageTypeOK
  <1>2. \A n \in Stored : row[n] \in Row /\ n \in Nat
    BY <1>1, RowFacts
  <1>3. /\ reader.page \subseteq reader.shown /\ reader.shown \subseteq Stored
        /\ reader.pc = "paging" => reader.cursor \in reader.page
        /\ reader.pc = "querying" => reader.cursor \in reader.shown
    BY <1>1 DEF PageTypeOK
  <1>4. ASSUME now' \in Times, writer' \in [Writers -> Times \cup {NotWriting}], UNCHANGED <<list, row, reader>>
        PROVE  PageInv' /\ reader'.pc = reader.pc
    <2>1. PageTypeOK'
      BY <1>1, <1>4 DEF PageTypeOK, Stored
    <2>2. Listed' = Listed /\ Stored' = Stored
      BY <1>4 DEF Listed, Stored
    <2>3. QED BY <1>1, <1>4, <2>1, <2>2, WritingStep
  <1>5. CASE PageTick
    <2>1. now' \in Times
      BY <1>1, <1>5, ClockIsNatural DEF PageTick, TimePasses, Times
    <2>2. QED BY <1>1, <1>4, <1>5, <2>1 DEF PageTick
  <1>6. CASE UNCHANGED pageVars
    BY <1>1, <1>4, <1>6 DEF pageVars
  <1>7. ASSUME NEW w \in Writers, WriterBegins(w) PROVE PageInv' /\ reader'.pc = reader.pc
    BY <1>1, <1>4, <1>7 DEF WriterBegins
  <1>8. ASSUME NEW w \in Writers, NEW count \in 1..MaxBatch, WriterInserts(w, count)
        PROVE  PageInv' /\ reader'.pc = reader.pc
    <2> DEFINE new == [at |-> WrittenAt(w), listed |-> TRUE]
               rows == [k \in 1..count |-> new]
    <2>1. /\ UNCHANGED <<now, list, reader>> /\ writer[w] # NotWriting /\ Len(row) + count <= MaxRows
          /\ row' = row \o rows /\ writer' = [writer EXCEPT ![w] = NotWriting]
      BY <1>8 DEF WriterInserts
    <2>2. new \in Row
      BY <1>1, <2>1, WriterTimes DEF Row
    <2>3. count \in Nat /\ Len(row) \in Nat /\ MaxRows \in Nat
      BY <1>1, PageBounds
    <2>4. rows \in Seq(Row) /\ Len(rows) = count
      <3> HIDE DEF new
      <3> QED BY <2>2, <2>3
    <2> HIDE DEF rows
    <2>5. /\ row' \in Seq(Row) /\ Len(row') = Len(row) + count
          /\ \A n \in 1..Len(row) : row'[n] = row[n]
      <3>1. row' \in Seq(Row) /\ Len(row') = Len(row) + Len(rows)
        BY <1>1, <2>1, <2>4, ConcatProperties
      <3>2. Len(row') = Len(row) + count
        BY <2>4, <3>1
      <3>3. ASSUME NEW n \in 1..Len(row) PROVE row'[n] = row[n]
        BY <1>1, <2>1, <2>3, <2>4
      <3>4. QED BY <3>1, <3>2, <3>3
    <2>6. Stored = 1..Len(row) /\ Stored' = 1..Len(row')
      BY <1>1, <2>5 DEF Stored
    <2>7. Stored \subseteq Stored' /\ Listed \subseteq Listed' /\ \A n \in Stored : row'[n] = row[n]
      BY <2>3, <2>5, <2>6 DEF Listed
    <2>8. PageTypeOK'
      BY <1>1, <1>3, <2>1, <2>5, <2>7 DEF PageTypeOK
    <2>9. Len(row') <= MaxRows
      BY <2>1, <2>5
    <2>10. QED BY <1>1, <2>1, <2>7, <2>8, <2>9, WritingStep
  <1>9. ASSUME NEW n \in Stored, NEW x \in Row, row' = [row EXCEPT ![n] = x], UNCHANGED <<now, list>>,
               writer' \in [Writers -> Times \cup {NotWriting}], NEW T \in SUBSET reader.there, n \notin T \/ x.listed,
               NEW b \in BOOLEAN, reader' = [reader EXCEPT !.there = T, !.cut = b], reader.cut => b,
               \/ x.at = row[n].at
               \/ "move" \in list.changes /\ n \notin T /\ (n = reader.cursor /\ ~b => row[n].at <= x.at)
        PROVE  PageInv' /\ reader'.pc = reader.pc
    <2>1. /\ row' \in Seq(Row) /\ Len(row') = Len(row) /\ row'[n] = x
          /\ \A m \in Stored \ {n} : row'[m] = row[m]
      BY <1>1, <1>9 DEF Stored
    <2>2. Stored' = Stored
      BY <1>1, <2>1 DEF Stored
    <2>3. /\ reader'.there = T /\ reader'.cut = b /\ reader'.pc = reader.pc /\ reader'.page = reader.page
          /\ reader'.shown = reader.shown /\ reader'.cursor = reader.cursor /\ reader'.from = reader.from
          /\ reader'.ends = reader.ends
      BY <1>1, <1>9 DEF Reader
    <2>4. reader' \in Reader
      BY <1>1, <1>9 DEF Reader
    <2>5. PageTypeOK'
      BY <1>1, <1>3, <1>9, <2>1, <2>2, <2>3, <2>4 DEF PageTypeOK
    <2>6. reader'.there \subseteq Listed'
      <3> SUFFICES ASSUME NEW m \in T PROVE m \in Stored' /\ row'[m].listed
        BY <2>3 DEF Listed
      <3>1. m \in Listed
        BY <1>1, <1>9
      <3>2. QED BY <1>9, <2>1, <2>2, <3>1 DEF Listed
    <2>7. \A m \in Stored :
            \/ row'[m].at = row[m].at
            \/ /\ "move" \in list.changes /\ m \notin reader'.there
               /\ m = reader.cursor /\ ~reader'.cut => row[m].at <= row'[m].at
      BY <1>9, <2>1, <2>3
    <2>8. QED BY <1>1, <1>9, <2>1, <2>2, <2>3, <2>5, <2>6, <2>7, WritingStep
  <1>10. ASSUME NEW w \in Writers, NEW n \in Listed, WriterMoves(w, n)
         PROVE  PageInv' /\ reader'.pc = reader.pc
    <2> DEFINE x == [row[n] EXCEPT !.at = WrittenAt(w)]
               T == reader.there \ {n}
               b == reader.cut \/ (n = reader.cursor /\ WrittenAt(w) < row[n].at)
    <2>1. /\ UNCHANGED <<now, list>> /\ writer[w] # NotWriting /\ "move" \in list.changes
          /\ row' = [row EXCEPT ![n].at = WrittenAt(w)] /\ writer' = [writer EXCEPT ![w] = NotWriting]
          /\ reader' = [Without(n) EXCEPT !.cut = @ \/ (n = reader.cursor /\ WrittenAt(w) < row[n].at)]
      BY <1>10 DEF WriterMoves
    <2>2. n \in Stored /\ row[n] \in Row /\ row[n].listed
      BY <1>2 DEF Listed
    <2>3. WrittenAt(w) \in Times
      BY <1>1, <2>1, WriterTimes
    <2>4. x \in Row /\ x.listed /\ x.at = WrittenAt(w)
      BY <2>2, <2>3 DEF Row
    <2>5. row' = [row EXCEPT ![n] = x]
      BY <2>1
    <2>6. reader.cut \in BOOLEAN
      BY <1>1 DEF Reader
    <2>7. reader' = [reader EXCEPT !.there = T, !.cut = b]
      BY <1>1, <2>1 DEF Without, Reader
    <2>8. b \in BOOLEAN /\ (reader.cut => b)
      BY <2>6
    <2>9. T \in SUBSET reader.there /\ n \notin T
      OBVIOUS
    <2>10. ~b /\ n = reader.cursor => row[n].at <= x.at
      BY <2>2, <2>3, <2>4, TimesAreNumbers DEF Row
    <2>11. writer' \in [Writers -> Times \cup {NotWriting}]
      BY <1>1, <2>1
    <2> HIDE DEF x, T, b
    <2>12. QED BY <1>9, <2>1, <2>2, <2>4, <2>5, <2>7, <2>8, <2>9, <2>10, <2>11
  <1>11. ASSUME NEW n \in Stored, RowLeaves(n) \/ RowReturns(n)
         PROVE  PageInv' /\ reader'.pc = reader.pc
    <2>1. reader.cut \in BOOLEAN
      BY <1>1 DEF Reader
    <2>2. CASE RowLeaves(n)
      <3> DEFINE x == [row[n] EXCEPT !.listed = FALSE]
                 T == reader.there \ {n}
      <3>1. /\ UNCHANGED <<now, list, writer>> /\ row' = [row EXCEPT ![n] = x] /\ reader' = Without(n)
        BY <2>2 DEF RowLeaves
      <3>2. x \in Row /\ x.at = row[n].at
        BY <1>2 DEF Row
      <3>3. reader' = [reader EXCEPT !.there = T, !.cut = reader.cut]
        BY <1>1, <3>1 DEF Without, Reader
      <3>4. T \in SUBSET reader.there /\ n \notin T
        OBVIOUS
      <3> HIDE DEF x, T
      <3>5. writer' \in [Writers -> Times \cup {NotWriting}] /\ UNCHANGED <<now, list>>
        BY <1>1, <3>1
      <3>6. x.at = row[n].at /\ (reader.cut => reader.cut)
        BY <3>2
      <3>7. QED BY <1>9, <2>1, <3>1, <3>2, <3>3, <3>4, <3>5, <3>6
    <2>3. CASE RowReturns(n)
      <3> DEFINE x == [row[n] EXCEPT !.listed = TRUE]
                 T == reader.there
                 b == reader.cut
      <3>1. /\ UNCHANGED <<now, list, writer, reader>> /\ row' = [row EXCEPT ![n] = x]
        BY <2>3 DEF RowReturns
      <3>2. x \in Row /\ x.at = row[n].at /\ x.listed
        BY <1>2 DEF Row
      <3>3. reader' = [reader EXCEPT !.there = T, !.cut = b]
        BY <1>1, <3>1 DEF Reader
      <3>4. T \in SUBSET reader.there /\ (n \notin T \/ x.listed)
        BY <3>2
      <3>5. b \in BOOLEAN /\ (reader.cut => b)
        BY <2>1
      <3>6. writer' \in [Writers -> Times \cup {NotWriting}]
        BY <1>1, <3>1
      <3>7. UNCHANGED <<now, list>>
        BY <3>1
      <3> HIDE DEF x, T, b
      <3>8. QED BY <1>9, <3>1, <3>2, <3>3, <3>4, <3>5, <3>6, <3>7
    <2>4. QED BY <1>11, <2>2, <2>3
  <1>12. QED BY <1>5, <1>6, <1>7, <1>8, <1>10, <1>11 DEF PageWriting

\* A first page has nothing behind it, and what it leaves out stands after its cursor.
LEMMA FirstPageStep ==
  ASSUME PageInv, NEW limit \in 1..MaxLimit, FirstPage(limit)
  PROVE  PageInv'
  <1> DEFINE t == Turned(Listed, limit)
  <1>1. /\ reader.pc = "idle" /\ UNCHANGED <<now, list, row, writer>>
        /\ reader' = [t EXCEPT !.there = Listed]
    BY DEF FirstPage
  <1>2. /\ PageTypeOK /\ Len(row) <= MaxRows /\ reader.shown = {} /\ Listed \in SUBSET Stored
        /\ limit \in Nat \ {0} /\ Listed \subseteq RowIds
    BY <1>1, RowFacts, PageBounds DEF PageInv
  <1>3. /\ t.page \in SUBSET Listed /\ t.shown = reader.shown \cup t.page /\ t \in Reader
        /\ \/ /\ t.pc = "done" /\ t.page = Listed
           \/ /\ t.pc = "paging" /\ t.cursor \in t.page
              /\ \A m \in t.page : m = t.cursor \/ Precedes(m, t.cursor)
              /\ \A n \in Listed \ t.page : Precedes(t.cursor, n)
    BY <1>2, TurnedFacts
  <1> HIDE DEF t
  <1>4. /\ reader' \in Reader /\ reader'.there = Listed /\ reader'.pc = t.pc /\ reader'.page = t.page
        /\ reader'.shown = t.page /\ reader'.cursor = t.cursor
    BY <1>1, <1>2, <1>3 DEF Reader
  <1>5. PageTypeOK'
    BY <1>1, <1>2, <1>3, <1>4 DEF PageTypeOK, Stored
  <1>6. Listed' = Listed
    BY <1>1 DEF Listed, Stored
  <1>7. ShownOK'
    <2> SUFFICES ASSUME reader'.pc \in {"paging", "querying"}
                 PROVE  (\A n \in reader'.shown : Behind(n)') /\ reader'.pc # "querying"
      BY DEF ShownOK
    <2>1. /\ t.pc = "paging" /\ t.cursor \in t.page
          /\ \A m \in t.page : m = t.cursor \/ Precedes(m, t.cursor)
      BY <1>3, <1>4
    <2>2. ASSUME NEW n \in t.page PROVE Behind(n)'
      <3>1. n \in Stored /\ t.cursor \in Stored /\ (n = t.cursor \/ Precedes(n, t.cursor))
        BY <1>2, <1>3, <2>1
      <3>2. row[n].at \in Nat /\ row[t.cursor].at \in Nat /\ Date(row[t.cursor].at) \in Nat
        BY <1>2, <3>1, RowFacts
      <3>3. list.ascending => Date(row[n].at) <= Date(row[t.cursor].at)
        <4> SUFFICES ASSUME list.ascending PROVE Date(row[n].at) <= Date(row[t.cursor].at)
          OBVIOUS
        <4>1. row[n].at <= row[t.cursor].at
          BY <3>1, <3>2 DEF Precedes, Newer
        <4>2. QED BY <3>2, <4>1, DatesAscend
      <3>4. QED BY <1>1, <1>4, <3>1, <3>3 DEF Behind, Precedes, Newer
    <2>3. QED BY <1>4, <2>1, <2>2
  <1>8. AheadOK'
    <2> SUFFICES ASSUME NEW n \in reader'.there \ reader'.shown
                 PROVE  reader'.pc = "paging" /\ Precedes(reader.cursor, n)'
      BY DEF AheadOK
    <2>1. n \in Listed \ t.page
      BY <1>4
    <2>2. t.pc = "paging" /\ Precedes(t.cursor, n)
      BY <1>3, <2>1
    <2>3. QED BY <1>1, <1>4, <2>2 DEF Precedes, Newer
  <1>9. QED BY <1>1, <1>2, <1>3, <1>4, <1>5, <1>6, <1>7, <1>8 DEF PageInv

\* What stood after the row of the cursor lies beyond it, or has its millisecond.
LEMMA CursorFoundStep ==
  ASSUME PageInv, CursorFound
  PROVE  PageInv'
  <1> DEFINE c == reader.cursor
             at == Date(row[c].at)
  <1>1. /\ reader.pc = "paging" /\ UNCHANGED <<now, list, row, writer>>
        /\ reader' = [reader EXCEPT !.pc = "querying", !.page = {}, !.from = at, !.ends = reader.ends \cup {at}]
    BY DEF CursorFound
  <1>2. /\ PageTypeOK /\ Len(row) <= MaxRows /\ reader \in Reader /\ reader.there \subseteq Listed
        /\ reader.page \subseteq reader.shown /\ reader.shown \subseteq Stored /\ c \in reader.page
    BY <1>1 DEF PageInv, PageTypeOK
  <1>3. /\ c \in Stored /\ c \in Nat /\ row[c].at \in Nat /\ at \in Nat /\ at \in Times /\ at <= row[c].at
    BY <1>2, RowFacts
  <1> HIDE DEF at
  <1>4. /\ reader'.pc = "querying" /\ reader'.page = {} /\ reader'.from = at /\ reader'.ends = reader.ends \cup {at}
        /\ reader'.shown = reader.shown /\ reader'.cursor = reader.cursor /\ reader'.there = reader.there
        /\ reader'.cut = reader.cut
    BY <1>1, <1>2 DEF Reader
  <1>5. reader' \in Reader
    BY <1>1, <1>2, <1>3 DEF Reader
  <1>6. PageTypeOK'
    BY <1>1, <1>2, <1>4, <1>5 DEF PageTypeOK, Stored
  <1>7. ShownOK'
    <2> SUFFICES ASSUME "move" \notin list.changes
                 PROVE  (\A n \in reader.shown : Behind(n)') /\ at = Date(row[c].at)
      BY <1>1, <1>4 DEF ShownOK
    <2>1. \A n \in reader.shown : Behind(n)
      BY <1>1 DEF PageInv, ShownOK
    <2>2. QED BY <1>1, <1>4, <2>1 DEF Behind, Precedes, Newer, at
  <1>8. AheadOK'
    <2> SUFFICES ASSUME ~reader.cut, NEW n \in reader.there \ reader.shown
                 PROVE  Date(row[n].at) \in reader'.ends \/ Beyond(n)'
      BY <1>1, <1>4 DEF AheadOK
    <2>1. Date(row[n].at) \in reader.ends \/ Precedes(c, n)
      BY <1>1 DEF PageInv, AheadOK
    <2>2. n \in Nat /\ row[n].at \in Nat /\ Date(row[n].at) \in Nat /\ Date(row[n].at) <= row[n].at
      BY <1>2, RowFacts
    <2>3. Beyond(n)' <=> IF list.ascending
                         THEN row[n].at > at \/ (row[n].at = at /\ n > c)
                         ELSE row[n].at < at \/ (row[n].at = at /\ n < c)
      BY <1>1, <1>4 DEF Beyond
    <2>4. CASE Precedes(c, n)
      <3>1. CASE list.ascending
        <4>1. row[c].at < row[n].at \/ (row[n].at = row[c].at /\ n > c)
          BY <2>4, <3>1 DEF Precedes, Newer
        <4>2. QED BY <1>3, <2>2, <2>3, <3>1, <4>1
      <3>2. CASE ~list.ascending
        <4>1. row[n].at <= row[c].at
          BY <1>3, <2>2, <2>4, <3>2 DEF Precedes, Newer
        <4>2. Date(row[n].at) <= at
          BY <1>3, <2>2, <4>1, DatesAscend DEF at
        <4>3. ~(row[n].at < at) => Date(row[n].at) = at
          <5> SUFFICES ASSUME at <= row[n].at PROVE Date(row[n].at) = at
            BY <1>3, <2>2
          <5>1. Date(at) <= Date(row[n].at) /\ Date(at) = at
            BY <1>3, <2>2, DatesAscend, DateFacts DEF at
          <5>2. QED BY <1>3, <2>2, <4>2, <5>1
        <4>4. QED BY <1>4, <2>3, <3>2, <4>3
      <3>3. QED BY <3>1, <3>2
    <2>5. QED BY <1>4, <2>1, <2>4
  <1>9. reader'.there \subseteq Listed'
    BY <1>1, <1>2, <1>4 DEF Listed, Stored
  <1>10. QED BY <1>1, <1>2, <1>4, <1>6, <1>7, <1>8, <1>9 DEF PageInv

\* Where rows do not move, a page shows again only rows of the millisecond of the
\* cursor, and these only of a list that ascends.
LEMMA ShownBefore ==
  ASSUME PageInv, reader.pc = "querying", "move" \notin list.changes, NEW n \in reader.shown, Beyond(n)
  PROVE  list.ascending /\ Date(row[n].at) = reader.from
  <1> DEFINE c == reader.cursor
             from == reader.from
  <1>1. /\ PageTypeOK /\ Len(row) <= MaxRows /\ n \in Stored /\ c \in Stored
    BY DEF PageInv, PageTypeOK
  <1>2. /\ n \in Nat /\ row[n].at \in Nat /\ Date(row[n].at) \in Nat /\ Date(row[n].at) <= row[n].at
        /\ c \in Nat /\ row[c].at \in Nat /\ Date(row[c].at) \in Nat /\ Date(row[c].at) <= row[c].at
    BY <1>1, RowFacts
  <1>3. Behind(n) /\ from = Date(row[c].at)
    BY DEF PageInv, ShownOK
  <1>4. list.ascending
    <2> SUFFICES ASSUME ~list.ascending PROVE FALSE
      OBVIOUS
    <2>1. row[n].at < from \/ (row[n].at = from /\ n < c)
      BY DEF Beyond
    <2>2. n = c \/ row[n].at > row[c].at \/ (row[n].at = row[c].at /\ n > c)
      BY <1>3 DEF Behind, Precedes, Newer
    <2> HIDE DEF c, from
    <2>3. QED BY <1>2, <1>3, <2>1, <2>2
  <1>5. Date(row[n].at) <= from /\ from <= row[n].at
    <2>1. Date(row[n].at) <= from
      BY <1>3, <1>4 DEF Behind
    <2>2. row[n].at > from \/ row[n].at = from
      BY <1>4 DEF Beyond
    <2>3. QED BY <1>2, <1>3, <2>1, <2>2
  <1>6. Date(from) <= Date(row[n].at) /\ Date(from) = from
    BY <1>2, <1>3, <1>5, DatesAscend, DateFacts
  <1>7. QED BY <1>2, <1>3, <1>4, <1>5, <1>6

\* The next page goes on where the cursor is, and leaves out what stands after the
\* new cursor.
LEMMA NextPageStep ==
  ASSUME PageInv, NEW limit \in 1..MaxLimit, NextPage(limit)
  PROVE  /\ PageInv'
         /\ reader'.page \subseteq {n \in Listed : Beyond(n)}
  <1> DEFINE S == {n \in Listed : Beyond(n)}
             t == Turned(S, limit)
             c == reader.cursor
             from == reader.from
  <1>1. reader.pc = "querying" /\ UNCHANGED <<now, list, row, writer>> /\ reader' = t
    BY DEF NextPage
  <1>2. /\ PageTypeOK /\ Len(row) <= MaxRows /\ reader.there \subseteq Listed /\ Listed \subseteq Stored
        /\ reader.shown \subseteq Stored /\ c \in reader.shown /\ limit \in Nat \ {0}
    BY <1>1, RowFacts, PageBounds DEF PageInv, PageTypeOK
  <1>3. S \in SUBSET Stored /\ S \subseteq Listed /\ \A n \in S : Beyond(n)
    BY <1>2
  <1> HIDE DEF S
  <1>4. /\ t.page \in SUBSET S /\ t.shown = reader.shown \cup t.page /\ t.from = 0
        /\ t.there = reader.there /\ t.ends = reader.ends /\ t.cut = reader.cut
        /\ t \in Reader
        /\ \/ /\ t.pc = "done" /\ t.page = S
           \/ /\ t.pc = "paging" /\ t.cursor \in t.page
              /\ \A m \in t.page : m = t.cursor \/ Precedes(m, t.cursor)
              /\ \A n \in S \ t.page : Precedes(t.cursor, n)
    BY <1>2, <1>3, TurnedFacts
  <1> HIDE DEF t
  <1>5. PageTypeOK'
    BY <1>1, <1>2, <1>3, <1>4 DEF PageTypeOK, Stored
  <1>6. Listed' = Listed
    BY <1>1 DEF Listed, Stored
  <1>7. \A n \in Stored : /\ n \in Nat /\ row[n].at \in Nat /\ Date(row[n].at) \in Nat
                          /\ Date(row[n].at) <= row[n].at
    BY <1>2, RowFacts
  <1>8. ShownOK'
    <2> SUFFICES ASSUME "move" \notin list.changes, t.pc \in {"paging", "querying"}
                 PROVE  (\A n \in t.shown : Behind(n)') /\ t.pc # "querying"
      BY <1>1 DEF ShownOK
    <2> DEFINE d == t.cursor
    <2>1. /\ t.pc = "paging" /\ d \in t.page /\ d \in Stored
          /\ \A m \in t.page : m = d \/ Precedes(m, d)
      BY <1>3, <1>4
    <2>2. Beyond(d) /\ from = Date(row[c].at) /\ c \in Stored
      BY <1>1, <1>2, <1>3, <1>4, <2>1 DEF PageInv, ShownOK
    <2>3. ASSUME NEW n \in t.shown
          PROVE  IF list.ascending THEN Date(row[n].at) <= Date(row[d].at) ELSE n = d \/ Precedes(n, d)
      <3>1. n \in Stored
        BY <1>2, <1>3, <1>4, <2>3
      <3>2. CASE n \in t.page
        <4>1. n = d \/ Precedes(n, d)
          BY <2>1, <3>2
        <4>2. ASSUME list.ascending PROVE Date(row[n].at) <= Date(row[d].at)
          <5>1. row[n].at <= row[d].at
            BY <1>7, <2>1, <3>1, <4>1, <4>2 DEF Precedes, Newer
          <5>2. QED BY <1>7, <2>1, <3>1, <5>1, DatesAscend
        <4>3. QED BY <4>1, <4>2
      <3>3. CASE n \in reader.shown
        <4>1. Behind(n)
          BY <1>1, <3>3 DEF PageInv, ShownOK
        <4>2. ASSUME list.ascending PROVE Date(row[n].at) <= Date(row[d].at)
          <5>1. Date(row[n].at) <= from
            BY <2>2, <4>1, <4>2 DEF Behind
          <5>2. from <= row[d].at
            BY <1>7, <2>1, <2>2, <4>2 DEF Beyond
          <5>3. Date(from) <= Date(row[d].at) /\ Date(from) = from
            BY <1>7, <2>1, <2>2, <5>2, DatesAscend, DateFacts
          <5>4. QED BY <1>7, <2>1, <2>2, <3>1, <5>1, <5>3
        <4>3. ASSUME ~list.ascending PROVE Precedes(n, d)
          <5>1. n = c \/ row[n].at > row[c].at \/ (row[n].at = row[c].at /\ n > c)
            BY <4>1, <4>3 DEF Behind, Precedes, Newer
          <5>2. row[d].at < from \/ (row[d].at = from /\ d < c)
            BY <2>2, <4>3 DEF Beyond
          <5>3. /\ n \in Nat /\ c \in Nat /\ d \in Nat /\ row[n].at \in Nat /\ row[c].at \in Nat
                /\ row[d].at \in Nat /\ from \in Nat /\ from <= row[c].at
            BY <1>7, <2>1, <2>2, <3>1
          <5>4. row[n].at > row[d].at \/ (row[n].at = row[d].at /\ n > d)
            <6> HIDE DEF c, d, from
            <6> QED BY <5>1, <5>2, <5>3
          <5>5. QED BY <4>3, <5>4 DEF Precedes, Newer
        <4>4. QED BY <4>2, <4>3
      <3>4. QED BY <1>4, <2>3, <3>2, <3>3
    <2>4. \A n \in t.shown : Behind(n)'
      BY <1>1, <2>3 DEF Behind, Precedes, Newer
    <2>5. QED BY <2>1, <2>4
  <1>9. AheadOK'
    <2> SUFFICES ASSUME ~reader.cut, NEW n \in reader.there \ t.shown, Date(row[n].at) \notin reader.ends
                 PROVE  t.pc = "paging" /\ Precedes(t.cursor, n)
      BY <1>1, <1>4 DEF AheadOK, Precedes, Newer
    <2>1. Beyond(n) /\ n \in Listed
      BY <1>1, <1>2, <1>4 DEF PageInv, AheadOK
    <2>2. n \in S \ t.page
      BY <1>4, <2>1 DEF S
    <2>3. QED BY <1>4, <2>2
  <1>10. reader'.there \subseteq Listed' /\ reader'.pc \notin {"idle", "refused"}
    BY <1>1, <1>2, <1>4, <1>6
  <1>11. reader'.page \subseteq {n \in Listed : Beyond(n)}
    BY <1>1, <1>4 DEF S
  <1>12. QED BY <1>1, <1>2, <1>5, <1>8, <1>9, <1>10, <1>11 DEF PageInv

\* Where the row of the cursor is gone, the reader is turned away, or the list ends.
LEMMA CursorGoneStep ==
  ASSUME PageInv, CursorGone
  PROVE  PageInv'
  <1>1. /\ reader.pc = "paging" /\ UNCHANGED <<now, list, row, writer>>
        /\ \/ reader' = [NotReading EXCEPT !.pc = "refused"]
           \/ reader' = [Turned({}, 1) EXCEPT !.cut = TRUE]
    BY DEF CursorGone
  <1>2. /\ PageTypeOK /\ Len(row) <= MaxRows /\ reader \in Reader /\ reader.there \subseteq Listed
        /\ reader.shown \subseteq Stored
    BY DEF PageInv, PageTypeOK
  <1>3. Listed' = Listed /\ Stored' = Stored
    BY <1>1 DEF Listed, Stored
  <1>4. CASE reader' = [NotReading EXCEPT !.pc = "refused"]
    <2>1. 0 \in Times /\ 0 \in 0..MaxRows
      BY ClockIsNatural, PageBounds DEF Times
    <2>2. /\ reader' \in Reader /\ reader'.pc = "refused" /\ reader'.page = {} /\ reader'.shown = {}
          /\ reader'.there = {}
      BY <1>4, <2>1 DEF NotReading, Reader
    <2>3. PageTypeOK'
      BY <1>1, <1>2, <2>2 DEF PageTypeOK
    <2>4. ShownOK' /\ AheadOK'
      BY <2>2 DEF ShownOK, AheadOK
    <2>5. QED BY <1>1, <1>2, <2>2, <2>3, <2>4 DEF PageInv
  <1>5. CASE reader' = [Turned({}, 1) EXCEPT !.cut = TRUE]
    <2> DEFINE S == {}
               t == Turned(S, 1)
    <2>1. S \in SUBSET Stored /\ 1 \in Nat \ {0}
      OBVIOUS
    <2> HIDE DEF S
    <2>2. /\ t.page \in SUBSET S /\ t.shown = reader.shown \cup t.page /\ t.from = 0
          /\ t.there = reader.there /\ t.ends = reader.ends /\ t.cut = reader.cut
          /\ t \in Reader
          /\ \/ /\ t.pc = "done" /\ t.page = S
             \/ /\ t.pc = "paging" /\ t.cursor \in t.page
                /\ \A m \in t.page : m = t.cursor \/ Precedes(m, t.cursor)
                /\ \A n \in S \ t.page : Precedes(t.cursor, n)
      BY <1>2, <2>1, TurnedFacts
    <2> HIDE DEF t
    <2>3. reader' = [t EXCEPT !.cut = TRUE] /\ S = {}
      BY <1>5 DEF t, S
    <2>4. /\ reader' \in Reader /\ reader'.pc = "done" /\ reader'.page = {} /\ reader'.shown = reader.shown
          /\ reader'.there = reader.there /\ reader'.cut
      BY <2>2, <2>3 DEF Reader
    <2>5. PageTypeOK'
      BY <1>1, <1>2, <1>3, <2>4 DEF PageTypeOK
    <2>6. ShownOK' /\ AheadOK'
      BY <2>4 DEF ShownOK, AheadOK
    <2>7. QED BY <1>1, <1>2, <1>3, <2>4, <2>5, <2>6 DEF PageInv
  <1>6. QED BY <1>1, <1>4, <1>5

\* The invariant of the pages is inductive.
LEMMA PageStep == PageInv /\ [PageNext]_pageVars => PageInv'
  BY PageWritingStep, FirstPageStep, NextPageStep, CursorFoundStep, CursorGoneStep DEF PageNext, PageReading

\* What the reader of a list has seen, and what lies ahead, agree with the rows in
\* every reachable state.
THEOREM PageInvariant == PageSpec => []PageInv
  BY PageInitHolds, PageStep, PTL DEF PageSpec

\* The types; what is shown was there, and the cursor is a row of the page.
THEOREM PageTyped == PageSpec => []PageTypeOK
  <1>1. PageInv => PageTypeOK
    BY DEF PageInv
  <1>2. QED BY <1>1, PageInvariant, PTL

\* Whoever has turned all pages of a list has seen every row that was there from
\* the first page on and has not moved, but for those of the millisecond of a cursor.
THEOREM PagesMissNothing == PageSpec => []PagesCover
  <1>1. PageInv => PagesCover
    BY DEF PageInv, AheadOK, PagesCover
  <1>2. QED BY <1>1, PageInvariant, PTL

\* No page shows a row again, unless rows of the list move, or it ascends and the
\* row has the millisecond of the cursor.
THEOREM PagesAdvance == PageSpec => PagesGoOn
  <1>1. ASSUME PageInv, [PageNext]_pageVars, reader.pc = "querying", reader'.pc \in {"paging", "done"},
               "move" \notin list.changes, NEW n \in reader'.page \cap reader.shown
        PROVE  list.ascending /\ Date(row[n].at) = reader.from
    <2>1. ~(PageTick \/ PageWriting \/ UNCHANGED pageVars)
      BY <1>1, PageWritingStep
    <2>2. ~CursorFound /\ ~CursorGone /\ \A limit \in 1..MaxLimit : ~FirstPage(limit)
      BY <1>1 DEF CursorFound, CursorGone, FirstPage
    <2>3. PICK limit \in 1..MaxLimit : NextPage(limit)
      BY <1>1, <2>1, <2>2 DEF PageNext, PageReading
    <2>4. Beyond(n)
      BY <1>1, <2>3, NextPageStep
    <2>5. QED BY <1>1, <2>4, ShownBefore
  <1>2. PageInv /\ [PageNext]_pageVars =>
          [reader.pc = "querying" /\ reader'.pc \in {"paging", "done"} /\ "move" \notin list.changes =>
             \A n \in reader'.page \cap reader.shown :
               list.ascending /\ Date(row[n].at) = reader.from]_pageVars
    BY <1>1
  <1>3. QED BY <1>2, PageInvariant, PTL DEF PagesGoOn, PageSpec
====
