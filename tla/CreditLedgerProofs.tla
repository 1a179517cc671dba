-------------------------- MODULE CreditLedgerProofs --------------------------
(***************************************************************************)
(* Lemmas about CreditLedger, for every set of grants, refunds and         *)
(* reservations: sums over finite sets, what is left of a grant and of a   *)
(* purchase, and what a charge takes.                                      *)
(***************************************************************************)
EXTENDS CreditLedger, FiniteSetTheorems, WellFoundedInduction, TLAPS

-----------------------------------------------------------------------------
(***************************************************************************)
(* Induction: the theorems of the library take an operator, so that a set  *)
(* of numbers stands for it here.                                          *)
(***************************************************************************)

\* A set of natural numbers that is not empty has a least member.
LEMMA LeastNumber ==
  ASSUME NEW S \in SUBSET Nat, S # {}
  PROVE  \E m \in S : \A n \in S : m <= n
  <1>1. PICK m \in S : \A n \in S : ~(<<n, m>> \in OpToRel(<, Nat))
    BY NatLessThanWellFounded, WFMin
  <1>2. \A k, n \in Nat : <<n, k>> \in OpToRel(<, Nat) <=> n < k
    BY DEF OpToRel
  <1>3. ASSUME NEW n \in S PROVE m <= n
    <2>1. m \in Nat /\ n \in Nat
      OBVIOUS
    <2>2. ~(n < m)
      BY <1>1, <1>2, <2>1
    <2>3. QED BY <2>1, <2>2
  <1>4. QED BY <1>3

\* Induction: a set with 0 and the successors of its members is all of Nat.
LEMMA CountingUp ==
  ASSUME NEW G \in SUBSET Nat, 0 \in G, \A n \in G : n + 1 \in G
  PROVE  G = Nat
  <1>1. SUFFICES ASSUME Nat \ G # {} PROVE FALSE
    OBVIOUS
  <1> DEFINE B == Nat \ G
  <1>2. B \in SUBSET Nat /\ B # {}
    BY <1>1
  <1>3. PICK m \in B : \A n \in B : m <= n
    <2> HIDE DEF B
    <2> QED BY <1>2, LeastNumber
  <1>4. m \in Nat \ {0}
    OBVIOUS
  <1>5. m - 1 \in Nat /\ m - 1 < m
    BY <1>4
  <1>6. m - 1 \in G
    BY <1>3, <1>5
  <1>7. (m - 1) + 1 \in G
    BY <1>6
  <1>8. QED BY <1>7, <1>4

Chosen(s) == CHOOSE x \in s : TRUE

SumEquation(g, f, S) ==
  g = [s \in SUBSET S |-> IF s = {} THEN 0 ELSE f[Chosen(s)] + g[s \ {Chosen(s)}]]

\* SumFunctionOnSet is a recursive function over subsets, chosen by its equation.
LEMMA SumIsSums ==
  ASSUME NEW S, NEW f
  PROVE  SumFunctionOnSet(f, S) = (CHOOSE g : SumEquation(g, f, S))[S]
  BY DEF SumFunctionOnSet, FoldFunctionOnSet, MapThenFoldSet, SumEquation, Chosen

LEMMA ChosenMember == ASSUME NEW s, s # {} PROVE Chosen(s) \in s
  BY DEF Chosen

NoBigger(S, n) == {s \in SUBSET S : Cardinality(s) <= n}

\* Some function satisfies that equation.
LEMMA SumExists ==
  ASSUME NEW S, IsFiniteSet(S), NEW f, \A x \in S : f[x] \in Int
  PROVE  \E g \in [SUBSET S -> Int] : SumEquation(g, f, S)
  <1> DEFINE P(n, g) == \A s \in NoBigger(S, n) :
                    g[s] = IF s = {} THEN 0 ELSE f[Chosen(s)] + g[s \ {Chosen(s)}]
             G == {n \in Nat : \E g \in [NoBigger(S, n) -> Int] : P(n, g)}
  <1>0. \A s \in SUBSET S : IsFiniteSet(s) /\ Cardinality(s) \in Nat
    BY FS_Subset, FS_CardinalityType
  <1>r. \A s \in SUBSET S : s # {} =>
          /\ s \ {Chosen(s)} \in SUBSET S
          /\ Cardinality(s \ {Chosen(s)}) = Cardinality(s) - 1
          /\ f[Chosen(s)] \in Int
    BY <1>0, ChosenMember, FS_RemoveElement
  <1>1. 0 \in G
    <2> DEFINE g == [s \in NoBigger(S, 0) |-> 0]
    <2>1. \A s \in NoBigger(S, 0) : s = {}
      BY <1>0, FS_EmptySet DEF NoBigger
    <2>2. P(0, g) /\ g \in [NoBigger(S, 0) -> Int]
      BY <2>1
    <2>3. QED BY <2>2
  <1>2. ASSUME NEW n \in G PROVE n + 1 \in G
    <2>1. n \in Nat /\ n + 1 \in Nat
      OBVIOUS
    <2>2. PICK g \in [NoBigger(S, n) -> Int] : P(n, g)
      OBVIOUS
    <2> DEFINE h == [s \in NoBigger(S, n + 1) |->
                       IF s \in NoBigger(S, n) THEN g[s] ELSE f[Chosen(s)] + g[s \ {Chosen(s)}]]
    <2>3. \A s \in NoBigger(S, n + 1) : s # {} => s \ {Chosen(s)} \in NoBigger(S, n)
      BY <1>0, <1>r, <2>1 DEF NoBigger
    <2>4. {} \in NoBigger(S, n) /\ \A s \in NoBigger(S, n) : s \in NoBigger(S, n + 1)
      BY <1>0, <2>1, FS_EmptySet DEF NoBigger
    <2>5. h \in [NoBigger(S, n + 1) -> Int]
      <3>1. ASSUME NEW s \in NoBigger(S, n + 1), s \notin NoBigger(S, n)
            PROVE  f[Chosen(s)] + g[s \ {Chosen(s)}] \in Int
        <4>1. s # {} /\ s \in SUBSET S
          BY <2>4, <3>1 DEF NoBigger
        <4>2. g[s \ {Chosen(s)}] \in Int
          BY <2>3, <4>1
        <4>3. f[Chosen(s)] \in Int
          BY <4>1, <1>r
        <4>4. QED BY <4>2, <4>3
      <3>2. QED BY <3>1
    <2>6. P(n + 1, h)
      <3>1. SUFFICES ASSUME NEW s \in NoBigger(S, n + 1)
            PROVE  h[s] = IF s = {} THEN 0 ELSE f[Chosen(s)] + h[s \ {Chosen(s)}]
        OBVIOUS
      <3>2. CASE s = {}
        BY <2>2, <2>4, <3>2
      <3>3. CASE s # {}
        <4>1. s \ {Chosen(s)} \in NoBigger(S, n)
          BY <2>3, <3>3
        <4>2. h[s \ {Chosen(s)}] = g[s \ {Chosen(s)}]
          BY <4>1, <2>4
        <4>3. CASE s \in NoBigger(S, n)
          BY <4>2, <4>3, <2>2, <3>3
        <4>4. CASE s \notin NoBigger(S, n)
          BY <4>2, <4>4, <3>3
        <4>5. QED BY <4>3, <4>4
      <3>4. QED BY <3>2, <3>3
    <2>7. QED BY <2>1, <2>5, <2>6
  <1>3. G = Nat
    <2>1. G \in SUBSET Nat
      OBVIOUS
    <2> HIDE DEF G
    <2>2. QED BY <1>1, <1>2, <2>1, CountingUp
  <1>4. Cardinality(S) \in G
    BY <1>3, <1>0
  <1>5. PICK g \in [NoBigger(S, Cardinality(S)) -> Int] : P(Cardinality(S), g)
    BY <1>4
  <1>6. NoBigger(S, Cardinality(S)) = SUBSET S
    BY FS_Subset DEF NoBigger
  <1>7. g = [s \in SUBSET S |-> IF s = {} THEN 0 ELSE f[Chosen(s)] + g[s \ {Chosen(s)}]]
    BY <1>5, <1>6
  <1>8. QED BY <1>5, <1>6, <1>7 DEF SumEquation

Sums(f, S) == CHOOSE g : SumEquation(g, f, S)

\* The chosen function solves the equation, so sums are numbers and can be unfolded.
LEMMA SumsSolve ==
  ASSUME NEW S, IsFiniteSet(S), NEW f, \A x \in S : f[x] \in Int
  PROVE  /\ Sums(f, S) \in [SUBSET S -> Int]
         /\ \A s \in SUBSET S : Sums(f, S)[s] = IF s = {} THEN 0 ELSE f[Chosen(s)] + Sums(f, S)[s \ {Chosen(s)}]
  <1>1. PICK g \in [SUBSET S -> Int] : SumEquation(g, f, S)
    BY SumExists
  <1>2. SumEquation(Sums(f, S), f, S)
    BY <1>1 DEF Sums
  <1> DEFINE h == Sums(f, S)
  <1>3. h = [s \in SUBSET S |-> IF s = {} THEN 0 ELSE f[Chosen(s)] + h[s \ {Chosen(s)}]]
    BY <1>2 DEF SumEquation
  <1> HIDE DEF h
  <1>4. \A s \in SUBSET S : h[s] = IF s = {} THEN 0 ELSE f[Chosen(s)] + h[s \ {Chosen(s)}]
    BY <1>3
  <1> DEFINE G == {n \in Nat : \A s \in NoBigger(S, n) : h[s] \in Int}
  <1>5. \A s \in SUBSET S : IsFiniteSet(s) /\ Cardinality(s) \in Nat /\ (Cardinality(s) = 0 => s = {})
    BY FS_Subset, FS_CardinalityType, FS_EmptySet
  <1>6. 0 \in G
    BY <1>4, <1>5 DEF NoBigger
  <1>7. ASSUME NEW n \in G PROVE n + 1 \in G
    <2>1. ASSUME NEW s \in NoBigger(S, n + 1), s # {} PROVE h[s] \in Int
      <3>1. s \in SUBSET S /\ Chosen(s) \in s /\ IsFiniteSet(s) /\ Cardinality(s) \in Nat /\ n \in Nat
        BY <1>5, <2>1, ChosenMember DEF NoBigger
      <3>2. Cardinality(s \ {Chosen(s)}) = Cardinality(s) - 1
        BY <3>1, FS_RemoveElement
      <3>3. s \ {Chosen(s)} \in NoBigger(S, n)
        BY <3>1, <3>2 DEF NoBigger
      <3>4. h[s \ {Chosen(s)}] \in Int /\ f[Chosen(s)] \in Int
        BY <3>1, <3>3
      <3>5. h[s] = f[Chosen(s)] + h[s \ {Chosen(s)}]
        BY <1>4, <2>1, <3>1
      <3> DEFINE one == f[Chosen(s)]
                 rest == h[s \ {Chosen(s)}]
      <3>6. one \in Int /\ rest \in Int /\ h[s] = one + rest
        BY <3>4, <3>5
      <3> HIDE DEF one, rest
      <3>7. QED BY <3>6
    <2>2. ASSUME NEW s \in NoBigger(S, n + 1), s = {} PROVE h[s] \in Int
      <3>1. h[{}] = 0
        BY <1>4
      <3>2. QED BY <2>2, <3>1
    <2>3. QED BY <2>1, <2>2
  <1>8. G = Nat
    <2>1. G \in SUBSET Nat
      OBVIOUS
    <2> HIDE DEF G
    <2>2. QED BY <1>6, <1>7, <2>1, CountingUp
  <1>9. \A s \in SUBSET S : h[s] \in Int
    BY <1>5, <1>8 DEF NoBigger
  <1>10. h \in [SUBSET S -> Int]
    BY <1>3, <1>9
  <1>11. QED BY <1>4, <1>10 DEF h

\* a smaller iteration is part of a bigger one
LEMMA SumsAgree ==
  ASSUME NEW S, IsFiniteSet(S), NEW f, \A x \in S : f[x] \in Int, NEW T \in SUBSET S
  PROVE  \A s \in SUBSET T : Sums(f, S)[s] = Sums(f, T)[s]
  <1> DEFINE h == Sums(f, S)
             k == Sums(f, T)
  <1>1. \A s \in SUBSET S : h[s] = IF s = {} THEN 0 ELSE f[Chosen(s)] + h[s \ {Chosen(s)}]
    BY SumsSolve
  <1>2. IsFiniteSet(T) /\ \A x \in T : f[x] \in Int
    BY FS_Subset
  <1>3. \A s \in SUBSET T : k[s] = IF s = {} THEN 0 ELSE f[Chosen(s)] + k[s \ {Chosen(s)}]
    BY <1>2, SumsSolve
  <1> HIDE DEF h, k
  <1> DEFINE G == {n \in Nat : \A s \in NoBigger(T, n) : h[s] = k[s]}
  <1>5. \A s \in SUBSET T : IsFiniteSet(s) /\ Cardinality(s) \in Nat /\ (Cardinality(s) = 0 => s = {})
    BY <1>2, FS_Subset, FS_CardinalityType, FS_EmptySet
  <1>6. 0 \in G
    BY <1>1, <1>3, <1>5 DEF NoBigger
  <1>7. ASSUME NEW n \in G PROVE n + 1 \in G
    <2>1. ASSUME NEW s \in NoBigger(T, n + 1), s # {} PROVE h[s] = k[s]
      <3>1. s \in SUBSET T /\ Chosen(s) \in s /\ IsFiniteSet(s) /\ Cardinality(s) \in Nat /\ n \in Nat
        BY <1>5, <2>1, ChosenMember DEF NoBigger
      <3>2. Cardinality(s \ {Chosen(s)}) = Cardinality(s) - 1
        BY <3>1, FS_RemoveElement
      <3>3. s \ {Chosen(s)} \in NoBigger(T, n)
        BY <3>1, <3>2 DEF NoBigger
      <3>4. h[s \ {Chosen(s)}] = k[s \ {Chosen(s)}]
        BY <3>1, <3>3
      <3>5. h[s] = f[Chosen(s)] + h[s \ {Chosen(s)}] /\ k[s] = f[Chosen(s)] + k[s \ {Chosen(s)}]
        BY <1>1, <1>3, <2>1, <3>1
      <3>6. QED BY <3>4, <3>5
    <2>2. ASSUME NEW s \in NoBigger(T, n + 1), s = {} PROVE h[s] = k[s]
      BY <1>1, <1>3, <2>2
    <2>3. QED BY <2>1, <2>2
  <1>8. G = Nat
    <2>1. G \in SUBSET Nat
      OBVIOUS
    <2> HIDE DEF G
    <2>2. QED BY <1>6, <1>7, <2>1, CountingUp
  <1>9. \A s \in SUBSET T : h[s] = k[s]
    BY <1>5, <1>8 DEF NoBigger
  <1>10. QED BY <1>9 DEF h, k

\* A sum is that of some member and the rest.
LEMMA SumOfChosen ==
  ASSUME NEW S, IsFiniteSet(S), NEW f, \A x \in S : f[x] \in Int
  PROVE  /\ SumFunctionOnSet(f, S) \in Int
         /\ S = {} => SumFunctionOnSet(f, S) = 0
         /\ S # {} => SumFunctionOnSet(f, S) = f[Chosen(S)] + SumFunctionOnSet(f, S \ {Chosen(S)})
  <1>1. \A T : SumFunctionOnSet(f, T) = Sums(f, T)[T]
    BY SumIsSums DEF Sums
  <1>2. /\ Sums(f, S)[S] \in Int
        /\ Sums(f, S)[S] = IF S = {} THEN 0 ELSE f[Chosen(S)] + Sums(f, S)[S \ {Chosen(S)}]
    <2>1. S \in SUBSET S
      OBVIOUS
    <2>2. Sums(f, S)[S] \in Int
      BY <2>1, SumsSolve
    <2>3. Sums(f, S)[S] = IF S = {} THEN 0 ELSE f[Chosen(S)] + Sums(f, S)[S \ {Chosen(S)}]
      BY <2>1, SumsSolve
    <2>4. QED BY <2>2, <2>3
  <1>3. Sums(f, S)[S \ {Chosen(S)}] = Sums(f, S \ {Chosen(S)})[S \ {Chosen(S)}]
    <2> DEFINE T == S \ {Chosen(S)}
    <2>1. T \in SUBSET S /\ T \in SUBSET T
      OBVIOUS
    <2> HIDE DEF T
    <2>2. Sums(f, S)[T] = Sums(f, T)[T]
      BY <2>1, SumsAgree
    <2>3. QED BY <2>2 DEF T
  <1>4. QED BY <1>1, <1>2, <1>3

\* It does not matter which member is taken out first.
LEMMA SumRemove ==
  ASSUME NEW S, IsFiniteSet(S), NEW f, \A x \in S : f[x] \in Int, NEW x \in S
  PROVE  SumFunctionOnSet(f, S) = f[x] + SumFunctionOnSet(f, S \ {x})
  <1> DEFINE Sm(T) == SumFunctionOnSet(f, T)
  <1>f. ASSUME NEW T \in SUBSET S PROVE IsFiniteSet(T) /\ Cardinality(T) \in Nat /\ \A y \in T : f[y] \in Int
    BY FS_Subset, FS_CardinalityType
  <1>0. ASSUME NEW T \in SUBSET S
        PROVE  Sm(T) \in Int /\ (T # {} => Sm(T) = f[Chosen(T)] + Sm(T \ {Chosen(T)}))
    BY <1>f, SumOfChosen
  <1> HIDE DEF Sm
  <1> DEFINE G == {n \in Nat : \A T \in NoBigger(S, n) : \A y \in T : Sm(T) = f[y] + Sm(T \ {y})}
  <1>1. 0 \in G
    <2>1. ASSUME NEW T \in NoBigger(S, 0) PROVE T = {}
      BY <1>f, FS_EmptySet DEF NoBigger
    <2>2. QED BY <2>1
  <1>2. ASSUME NEW n \in G PROVE n + 1 \in G
    <2>1. ASSUME NEW T \in NoBigger(S, n + 1), NEW y \in T PROVE Sm(T) = f[y] + Sm(T \ {y})
      <3> DEFINE z == Chosen(T)
      <3>1. T \in SUBSET S /\ z \in T /\ IsFiniteSet(T) /\ Cardinality(T) \in Nat /\ n \in Nat
        BY <1>f, ChosenMember DEF NoBigger
      <3> HIDE DEF z
      <3>2. Sm(T) = f[z] + Sm(T \ {z})
        BY <1>0, <3>1 DEF z
      <3>3. CASE y = z
        BY <3>2, <3>3
      <3>4. CASE y # z
        <4>1. Cardinality(T \ {z}) = Cardinality(T) - 1 /\ Cardinality(T \ {y}) = Cardinality(T) - 1
          BY <3>1, FS_RemoveElement
        <4>2. T \ {z} \in NoBigger(S, n) /\ T \ {y} \in NoBigger(S, n) /\ y \in T \ {z} /\ z \in T \ {y}
          BY <3>1, <3>4, <4>1 DEF NoBigger
        <4>3. Sm(T \ {z}) = f[y] + Sm((T \ {z}) \ {y})
          BY <4>2
        <4>4. Sm(T \ {y}) = f[z] + Sm((T \ {y}) \ {z})
          BY <4>2
        <4>5. (T \ {y}) \ {z} = (T \ {z}) \ {y}
          OBVIOUS
        <4>6. f[y] \in Int /\ f[z] \in Int /\ Sm((T \ {z}) \ {y}) \in Int
          BY <1>0, <3>1
        <4> DEFINE rest == Sm((T \ {z}) \ {y})
        <4>7. Sm(T) = f[z] + (f[y] + rest) /\ Sm(T \ {y}) = f[z] + rest
          BY <3>2, <4>3, <4>4, <4>5
        <4>8. rest \in Int
          BY <4>6
        <4> HIDE DEF rest
        <4>9. f[z] + (f[y] + rest) = f[y] + (f[z] + rest)
          BY <4>6, <4>8
        <4>10. QED BY <4>7, <4>9
      <3>5. QED BY <3>3, <3>4
    <2>2. n + 1 \in Nat
      OBVIOUS
    <2>3. QED BY <2>1, <2>2
  <1>3. G = Nat
    <2>1. G \in SUBSET Nat
      OBVIOUS
    <2> HIDE DEF G
    <2>2. QED BY <1>1, <1>2, <2>1, CountingUp
  <1>4. S \in NoBigger(S, Cardinality(S)) /\ Cardinality(S) \in G
    BY <1>3, <1>f DEF NoBigger
  <1>5. Sm(S) = f[x] + Sm(S \ {x})
    BY <1>4
  <1>6. QED BY <1>5 DEF Sm

\* What holds of no element, and of one more with each element, holds of the set.
LEMMA FiniteInduction ==
  ASSUME NEW S, IsFiniteSet(S), NEW F \in SUBSET SUBSET S, {} \in F,
         \A T \in F : \A x \in S \ T : T \cup {x} \in F
  PROVE  S \in F
  <1> DEFINE G == {n \in Nat : \A T \in NoBigger(S, n) : T \in F}
  <1>1. ASSUME NEW T \in SUBSET S
        PROVE  IsFiniteSet(T) /\ Cardinality(T) \in Nat /\ (Cardinality(T) = 0 => T = {})
    BY FS_Subset, FS_CardinalityType, FS_EmptySet
  <1>2. 0 \in G
    <2>1. ASSUME NEW T \in NoBigger(S, 0) PROVE T = {}
      BY <1>1 DEF NoBigger
    <2>2. QED BY <2>1
  <1>3. ASSUME NEW n \in G PROVE n + 1 \in G
    <2>1. ASSUME NEW T \in NoBigger(S, n + 1), T # {} PROVE T \in F
      <3> DEFINE x == Chosen(T)
      <3>1. T \in SUBSET S /\ x \in T /\ IsFiniteSet(T) /\ Cardinality(T) \in Nat /\ n \in Nat
        BY <1>1, <2>1, ChosenMember DEF NoBigger
      <3> HIDE DEF x
      <3>2. Cardinality(T \ {x}) = Cardinality(T) - 1
        BY <3>1, FS_RemoveElement
      <3>3. T \ {x} \in NoBigger(S, n)
        BY <2>1, <3>1, <3>2 DEF NoBigger
      <3>4. T \ {x} \in F /\ x \in S \ (T \ {x}) /\ T = (T \ {x}) \cup {x}
        BY <3>1, <3>3
      <3>5. QED BY <3>4
    <2>2. n + 1 \in Nat
      OBVIOUS
    <2>3. QED BY <2>1, <2>2
  <1>4. G = Nat
    <2>1. G \in SUBSET Nat
      OBVIOUS
    <2> HIDE DEF G
    <2>2. QED BY <1>2, <1>3, <2>1, CountingUp
  <1>5. S \in NoBigger(S, Cardinality(S)) /\ Cardinality(S) \in G
    BY <1>1, <1>4 DEF NoBigger
  <1>6. QED BY <1>5

LEMMA SumEmpty ==
  ASSUME NEW f
  PROVE  SumFunctionOnSet(f, {}) = 0
  BY SumOfChosen, FS_EmptySet

LEMMA SumInt ==
  ASSUME NEW S, IsFiniteSet(S), NEW f, \A x \in S : f[x] \in Int
  PROVE  SumFunctionOnSet(f, S) \in Int
  BY SumOfChosen

LEMMA SumAdd ==
  ASSUME NEW S, IsFiniteSet(S), NEW f, NEW x, x \notin S, \A y \in S \cup {x} : f[y] \in Int
  PROVE  SumFunctionOnSet(f, S \cup {x}) = f[x] + SumFunctionOnSet(f, S)
  <1> DEFINE T == S \cup {x}
  <1>1. IsFiniteSet(T) /\ x \in T /\ T \ {x} = S /\ \A y \in T : f[y] \in Int
    BY FS_AddElement
  <1> HIDE DEF T
  <1>2. SumFunctionOnSet(f, T) = f[x] + SumFunctionOnSet(f, T \ {x})
    BY <1>1, SumRemove
  <1>3. QED BY <1>1, <1>2 DEF T

LEMMA SumSingle ==
  ASSUME NEW f, NEW x, f[x] \in Int
  PROVE  SumFunctionOnSet(f, {x}) = f[x]
  <1>1. SumFunctionOnSet(f, {x}) = f[x] + SumFunctionOnSet(f, {x} \ {x})
    BY SumRemove, FS_Singleton
  <1>2. {x} \ {x} = {}
    OBVIOUS
  <1>3. QED BY <1>1, <1>2, SumEmpty

LEMMA SumNat ==
  ASSUME NEW S, IsFiniteSet(S), NEW f, \A x \in S : f[x] \in Nat
  PROVE  SumFunctionOnSet(f, S) \in Nat
  <1> DEFINE F == {T \in SUBSET S : SumFunctionOnSet(f, T) \in Nat}
  <1>1. {} \in F
    BY SumEmpty
  <1>2. ASSUME NEW T \in F, NEW x \in S \ T PROVE T \cup {x} \in F
    <2>1. T \in SUBSET S /\ SumFunctionOnSet(f, T) \in Nat /\ f[x] \in Nat
      OBVIOUS
    <2>2. IsFiniteSet(T)
      BY <2>1, FS_Subset
    <2>3. SumFunctionOnSet(f, T \cup {x}) = f[x] + SumFunctionOnSet(f, T)
      BY <2>1, <2>2, SumAdd
    <2>4. QED BY <2>1, <2>3
  <1>3. F \in SUBSET SUBSET S
    OBVIOUS
  <1> HIDE DEF F
  <1>4. S \in F
    BY <1>1, <1>2, <1>3, FiniteInduction
  <1>5. QED BY <1>4 DEF F

\* The sum of what is left of each member after a part is taken.
LEMMA SumMinus ==
  ASSUME NEW S, IsFiniteSet(S), NEW f, NEW g, NEW h,
         \A x \in S : f[x] \in Int /\ g[x] \in Int /\ h[x] = f[x] - g[x]
  PROVE  SumFunctionOnSet(h, S) = SumFunctionOnSet(f, S) - SumFunctionOnSet(g, S)
  <1> DEFINE Diff(T) == SumFunctionOnSet(h, T) = SumFunctionOnSet(f, T) - SumFunctionOnSet(g, T)
             F == {T \in SUBSET S : Diff(T)}
  <1>1. {} \in F
    BY SumEmpty
  <1>2. ASSUME NEW T \in F, NEW x \in S \ T PROVE T \cup {x} \in F
    <2>1. T \in SUBSET S /\ Diff(T)
      OBVIOUS
    <2>2. IsFiniteSet(T) /\ \A y \in T \cup {x} : f[y] \in Int /\ g[y] \in Int /\ h[y] \in Int
      BY <2>1, FS_Subset
    <2>3. SumFunctionOnSet(f, T \cup {x}) = f[x] + SumFunctionOnSet(f, T)
      BY <2>1, <2>2, SumAdd
    <2>4. SumFunctionOnSet(g, T \cup {x}) = g[x] + SumFunctionOnSet(g, T)
      BY <2>1, <2>2, SumAdd
    <2>5. SumFunctionOnSet(h, T \cup {x}) = h[x] + SumFunctionOnSet(h, T)
      BY <2>1, <2>2, SumAdd
    <2>6. SumFunctionOnSet(f, T) \in Int /\ SumFunctionOnSet(g, T) \in Int
      BY <2>2, SumInt
    <2>7. h[x] = f[x] - g[x] /\ f[x] \in Int /\ g[x] \in Int
      OBVIOUS
    <2>8. Diff(T \cup {x})
      BY <2>1, <2>3, <2>4, <2>5, <2>6, <2>7
    <2>9. QED BY <2>1, <2>8
  <1>3. F \in SUBSET SUBSET S
    OBVIOUS
  <1> HIDE DEF F
  <1>4. S \in F
    BY <1>1, <1>2, <1>3, FiniteInduction
  <1>5. QED BY <1>4 DEF F

\* Sums grow with their terms.
LEMMA SumLeq ==
  ASSUME NEW S, IsFiniteSet(S), NEW f, NEW g,
         \A x \in S : f[x] \in Int /\ g[x] \in Int /\ f[x] <= g[x]
  PROVE  SumFunctionOnSet(f, S) <= SumFunctionOnSet(g, S)
  <1> DEFINE h == [x \in S |-> g[x] - f[x]]
  <1>1. \A x \in S : h[x] = g[x] - f[x] /\ h[x] \in Nat
    OBVIOUS
  <1> HIDE DEF h
  <1>2. SumFunctionOnSet(h, S) = SumFunctionOnSet(g, S) - SumFunctionOnSet(f, S)
    BY <1>1, SumMinus
  <1>3. SumFunctionOnSet(h, S) \in Nat /\ SumFunctionOnSet(f, S) \in Int /\ SumFunctionOnSet(g, S) \in Int
    BY <1>1, SumNat, SumInt
  <1>4. QED BY <1>2, <1>3

\* A sum depends on the terms of its members only.
LEMMA SumSame ==
  ASSUME NEW S, IsFiniteSet(S), NEW f, NEW g, \A x \in S : f[x] \in Int /\ f[x] = g[x]
  PROVE  SumFunctionOnSet(f, S) = SumFunctionOnSet(g, S)
  <1>1. SumFunctionOnSet(f, S) <= SumFunctionOnSet(g, S) /\ SumFunctionOnSet(g, S) <= SumFunctionOnSet(f, S)
    BY SumLeq
  <1>2. SumFunctionOnSet(f, S) \in Int /\ SumFunctionOnSet(g, S) \in Int
    BY SumInt
  <1>3. QED BY <1>1, <1>2

LEMMA SumZero ==
  ASSUME NEW S, IsFiniteSet(S), NEW f, \A x \in S : f[x] = 0
  PROVE  SumFunctionOnSet(f, S) = 0
  <1>1. SumFunctionOnSet(f, S) = SumFunctionOnSet(f, S) - SumFunctionOnSet(f, S)
    BY SumMinus
  <1>2. SumFunctionOnSet(f, S) \in Int
    BY SumInt
  <1>3. QED BY <1>1, <1>2

\* A sum of natural numbers is no less than one of them,
LEMMA SumMember ==
  ASSUME NEW S, IsFiniteSet(S), NEW f, \A x \in S : f[x] \in Nat, NEW x \in S
  PROVE  f[x] <= SumFunctionOnSet(f, S)
  <1>1. SumFunctionOnSet(f, S) = f[x] + SumFunctionOnSet(f, S \ {x})
    BY SumRemove
  <1>2. IsFiniteSet(S \ {x})
    BY FS_RemoveElement
  <1>3. SumFunctionOnSet(f, S \ {x}) \in Nat
    BY <1>2, SumNat
  <1>4. QED BY <1>1, <1>3

\* and it grows with each one that is added.
LEMMA SumGrows ==
  ASSUME NEW S, IsFiniteSet(S), NEW T \in SUBSET S, NEW f, \A x \in S : f[x] \in Nat
  PROVE  SumFunctionOnSet(f, T) <= SumFunctionOnSet(f, S)
  <1> DEFINE m(U) == SumFunctionOnSet(f, U)
             F == {U \in SUBSET S : m(T) <= m(T \cup U)}
  <1>1. \A U \in SUBSET S : IsFiniteSet(U) /\ m(U) \in Nat
    BY FS_Subset, SumNat
  <1>2. {} \in F
    <2>1. T \cup {} = T
      OBVIOUS
    <2>2. QED BY <1>1, <2>1
  <1>3. ASSUME NEW U \in F, NEW x \in S \ U PROVE U \cup {x} \in F
    <2> DEFINE V == T \cup U
    <2>1. V \in SUBSET S /\ IsFiniteSet(V) /\ T \cup (U \cup {x}) = V \cup {x} /\ m(T) <= m(V)
      BY <1>1
    <2>2. CASE x \in V
      <3>1. V \cup {x} = V
        BY <2>2
      <3>2. QED BY <2>1, <3>1
    <2>3. CASE x \notin V
      <3> HIDE DEF V
      <3>0. \A y \in V \cup {x} : f[y] \in Int
        BY <2>1
      <3>1. SumFunctionOnSet(f, V \cup {x}) = f[x] + SumFunctionOnSet(f, V)
        BY <2>1, <2>3, <3>0, SumAdd
      <3>2. m(T) \in Nat /\ m(V) \in Nat /\ f[x] \in Nat
        BY <1>1, <2>1
      <3>3. m(T) <= m(V \cup {x})
        BY <2>1, <3>1, <3>2
      <3>4. m(T) <= m(T \cup (U \cup {x}))
        BY <2>1, <3>3
      <3> HIDE DEF m
      <3>5. QED BY <3>4
    <2>4. QED BY <2>2, <2>3
  <1>4. F \in SUBSET SUBSET S
    OBVIOUS
  <1> HIDE DEF F
  <1>5. S \in F
    BY <1>2, <1>3, <1>4, FiniteInduction
  <1>6. T \cup S = S
    OBVIOUS
  <1>7. QED BY <1>5, <1>6 DEF F

-----------------------------------------------------------------------------
(***************************************************************************)
(* What is left of grants and of purchases                                 *)
(***************************************************************************)

NotBelowZero(n) == IF n < 0 THEN 0 ELSE n

LEMMA MaxOfZero ==
  ASSUME NEW n \in Int
  PROVE  Max({0, n}) = NotBelowZero(n)
  BY DEF Max, NotBelowZero

\* The assumptions on the amounts of grants and prices, one by one.
LEMMA AmountsAreNat ==
  FreeAmount \in Nat \ {0} /\ PaidAmount \in Nat \ {0} /\ ReplyPrice \in Nat \ {0}
  BY AmountsArePositive

\* The refunds of a purchase whose status is in a set.
Having(p, statuses) == {r \in Refunds : refund[r].purchase = p /\ refund[r].status \in statuses}

\* What refunds hold together is a number.
LEMMA RefundSets ==
  ASSUME CreditTypeOK, NEW S \in SUBSET Refunds
  PROVE  /\ IsFiniteSet(S)
         /\ \A r \in S : CreditsOf[r] = refund[r].credits /\ CreditsOf[r] \in Nat
         /\ SumFunctionOnSet(CreditsOf, S) \in Nat
  <1>1. IsFiniteSet(S)
    BY LedgerIsFinite, FS_Subset
  <1>2. \A r \in S : CreditsOf[r] = refund[r].credits /\ CreditsOf[r] \in Nat
    BY DEF CreditsOf, CreditTypeOK, Refund
  <1>3. SumFunctionOnSet(CreditsOf, S) \in Nat
    BY <1>1, <1>2, SumNat
  <1>4. QED BY <1>1, <1>2, <1>3

\* What is locked, left and owed of a purchase.
PurchaseCredits(p) ==
  /\ Locked(p) \in Nat
  /\ Unrecovered(p) = NotBelowZero(PaidAmount - used[p] - recovered[p])
  /\ Available(p) = NotBelowZero(PaidAmount - used[p] - recovered[p] - Locked(p))
  /\ Debt(p) = NotBelowZero(recovered[p] - NotBelowZero(PaidAmount - used[p]))
  /\ Left[p] = Available(p) /\ Available(p) \in Nat
  /\ Debts[p] = Debt(p) /\ Debt(p) \in Nat

FreeCredits(g) == Left[g] = Available(g) /\ Available(g) = Unused(g) /\ Unused(g) \in Nat

CreditFacts ==
  /\ \A p \in Purchases : PurchaseCredits(p)
  /\ \A g \in Free : FreeCredits(g)

\* What is left of each grant, in plain arithmetic.
LEMMA TypesGiveFacts == CreditTypeOK => CreditFacts
  <1> SUFFICES ASSUME CreditTypeOK PROVE CreditFacts
    OBVIOUS
  <1>1. ASSUME NEW p \in Purchases PROVE PurchaseCredits(p)
    <2> DEFINE lock == Locked(p)
    <2>1. lock \in Nat
      <3>1. {r \in Refunds : refund[r].purchase = p /\ refund[r].status \in Locking} \in SUBSET Refunds
        OBVIOUS
      <3>2. QED BY <3>1, RefundSets DEF Locked
    <2> HIDE DEF lock
    <2>2. p \in Grants /\ p \notin Free /\ p \notin expired /\ used[p] \in Nat /\ recovered[p] \in Nat
      BY GrantsAreDistinct DEF CreditTypeOK, Grants
    <2>3. PaidAmount \in Nat
      BY AmountsAreNat
    <2>4. Unused(p) = NotBelowZero(PaidAmount - used[p])
      <3>1. PaidAmount - used[p] \in Int
        BY <2>2, <2>3
      <3>2. QED BY <2>2, <3>1, MaxOfZero DEF Unused, Amount
    <2>5. Unrecovered(p) = NotBelowZero(PaidAmount - used[p] - recovered[p])
      BY <2>2, <2>3, <2>4 DEF Unrecovered, Smaller, NotBelowZero
    <2>6. Available(p) = Unrecovered(p) - Smaller(Unrecovered(p), lock)
      BY <2>2 DEF Available, lock
    <2>7. Available(p) = NotBelowZero(PaidAmount - used[p] - recovered[p] - lock)
      BY <2>1, <2>2, <2>3, <2>5, <2>6 DEF Smaller, NotBelowZero
    <2>8. Debt(p) = NotBelowZero(recovered[p] - NotBelowZero(PaidAmount - used[p]))
      BY <2>2, <2>3, <2>4 DEF Debt, Smaller, NotBelowZero
    <2>9. Available(p) \in Nat /\ Debt(p) \in Nat
      BY <2>1, <2>2, <2>3, <2>7, <2>8 DEF NotBelowZero
    <2>10. Left[p] = Available(p) /\ Debts[p] = Debt(p)
      BY <2>2 DEF Left, Debts
    <2>11. QED BY <2>1, <2>5, <2>7, <2>8, <2>9, <2>10 DEF PurchaseCredits, lock
  <1>2. ASSUME NEW g \in Free PROVE FreeCredits(g)
    <2>1. g \in Grants /\ used[g] \in Nat /\ FreeAmount - used[g] \in Int
      BY AmountsAreNat DEF Grants, CreditTypeOK
    <2>2. Max({0, FreeAmount - used[g]}) \in Nat
      BY <2>1, MaxOfZero DEF NotBelowZero
    <2>3. QED
      BY <2>1, <2>2 DEF FreeCredits, Left, Available, Unused, Amount
  <1>3. QED BY <1>1, <1>2 DEF CreditFacts

LEMMA LeftIsNat ==
  ASSUME CreditFacts, NEW g \in Grants
  PROVE  Left[g] = Available(g) /\ Left[g] \in Nat
  BY DEF CreditFacts, PurchaseCredits, FreeCredits, Grants

\* The grants there are, free or bought, are finitely many.
LEMMA GrantedSets ==
  ASSUME NEW S \in SUBSET Grants
  PROVE  Granted(S) \in SUBSET S /\ IsFiniteSet(Granted(S))
  <1>1. Granted(S) \in SUBSET S /\ Granted(S) \in SUBSET (Free \cup Purchases)
    BY DEF Granted, Grants
  <1>2. QED BY <1>1, LedgerIsFinite, FS_Subset

\* No refund locks credits of p.
LEMMA NothingLocked ==
  ASSUME CreditTypeOK, NEW p \in Purchases, Having(p, Locking) = {}
  PROVE  Locked(p) = 0
  BY SumEmpty DEF Locked, Having

\* A refund that locks credits is counted in what is locked.
LEMMA LockedAtLeast ==
  ASSUME CreditTypeOK, NEW p \in Purchases, NEW r \in Having(p, Locking)
  PROVE  refund[r].credits <= Locked(p)
  <1> DEFINE S == Having(p, Locking)
  <1>1. S \in SUBSET Refunds /\ r \in S
    BY DEF Having
  <1>2. Locked(p) = SumFunctionOnSet(CreditsOf, S)
    BY DEF Locked, Having
  <1> HIDE DEF S
  <1>3. IsFiniteSet(S) /\ \A s \in S : CreditsOf[s] \in Nat /\ CreditsOf[s] = refund[s].credits
    BY <1>1, RefundSets
  <1>4. CreditsOf[r] <= SumFunctionOnSet(CreditsOf, S)
    BY <1>1, <1>3, SumMember
  <1>5. QED BY <1>1, <1>2, <1>3, <1>4

-----------------------------------------------------------------------------
(***************************************************************************)
(* What a charge takes                                                     *)
(***************************************************************************)

\* Every part of a charge is there to be taken.
LEMMA PartBounded ==
  ASSUME CreditFacts, NEW kind \in {Free, Purchases}, NEW g \in kind, NEW n \in Int
  PROVE  Part(g, kind, n) \in 0..Available(g)
  <1> DEFINE earlier == {f \in Granted(kind) : Before(f, g)}
             missing == n - SumFunctionOnSet(Left, earlier)
  <1>1. kind \in SUBSET Grants /\ g \in Grants
    BY DEF Grants
  <1>2. earlier \in SUBSET Granted(kind) /\ earlier \in SUBSET Grants
    BY <1>1, GrantedSets
  <1>3. IsFiniteSet(earlier)
    BY <1>1, <1>2, GrantedSets, FS_Subset
  <1>4. \A f \in earlier : Left[f] \in Int
    BY <1>2, LeftIsNat
  <1>5. missing \in Int
    <2> HIDE DEF earlier
    <2>1. QED BY <1>3, <1>4, SumInt
  <1>6. Part(g, kind, n) = Smaller(Available(g), Max({0, missing}))
    BY DEF Part
  <1>7. Available(g) \in Nat
    BY <1>1, LeftIsNat
  <1> HIDE DEF missing
  <1>8. QED BY <1>5, <1>6, <1>7, MaxOfZero DEF Smaller, NotBelowZero

\* A charge takes no more of a free grant than it has left.
LEMMA FreePartBounded ==
  ASSUME CreditFacts, NEW n \in Int
  PROVE  /\ \A g \in Granted(Free) : FreePart(n)[g] \in 0..Available(g)
         /\ SumFunctionOnSet(FreePart(n), Granted(Free)) \in Int
  <1>1. Granted(Free) \in SUBSET Free /\ IsFiniteSet(Granted(Free))
    BY GrantedSets DEF Grants
  <1>2. ASSUME NEW g \in Granted(Free) PROVE FreePart(n)[g] \in 0..Available(g)
    <2>1. FreePart(n)[g] = Part(g, Free, n)
      BY DEF FreePart
    <2>2. QED BY <1>1, <2>1, PartBounded
  <1>3. ASSUME NEW g \in Granted(Free) PROVE FreePart(n)[g] \in Int
    <2>1. Available(g) \in Nat
      BY <1>1, LeftIsNat DEF Grants
    <2>2. QED BY <1>2, <2>1
  <1>4. SumFunctionOnSet(FreePart(n), Granted(Free)) \in Int
    BY <1>1, <1>3, SumInt
  <1>5. QED BY <1>2, <1>4

\* Balances are numbers, and the paid one may be negative.
LEMMA BalancesAreInt ==
  ASSUME CreditFacts
  PROVE  /\ FreeBalance \in Nat
         /\ SumFunctionOnSet(Left, Granted(Purchases)) \in Nat
         /\ PaidBalance \in Int
  <1>1. /\ Granted(Free) \in SUBSET Grants /\ IsFiniteSet(Granted(Free))
        /\ Granted(Purchases) \in SUBSET Purchases /\ IsFiniteSet(Granted(Purchases))
    BY GrantedSets DEF Grants
  <1>2. FreeBalance \in Nat
    BY <1>1, LeftIsNat, SumNat DEF FreeBalance
  <1>3. SumFunctionOnSet(Left, Granted(Purchases)) \in Nat
    BY <1>1, LeftIsNat, SumNat DEF Grants
  <1>4. SumFunctionOnSet(Debts, Granted(Purchases)) \in Nat
    BY <1>1, SumNat DEF CreditFacts, PurchaseCredits
  <1>5. QED BY <1>2, <1>3, <1>4 DEF PaidBalance

\* A charge takes no more of any grant than the grant has left.
LEMMA ChargeBounded ==
  ASSUME CreditFacts, NEW n \in Int, NEW g \in Grants
  PROVE  Charge(n)[g] \in 0..Available(g)
  <1> DEFINE rest == n - SumFunctionOnSet(FreePart(n), Granted(Free))
             paidPart == Smaller(rest, Max({0, PaidBalance}))
  <1>1. rest \in Int
    BY FreePartBounded
  <1>2. paidPart \in Int
    <2> HIDE DEF rest
    <2>1. Max({0, PaidBalance}) \in Int
      BY BalancesAreInt, MaxOfZero DEF NotBelowZero
    <2>2. QED BY <1>1, <2>1 DEF Smaller
  <1>3. Charge(n)[g] = IF g \in Granted(Free) THEN FreePart(n)[g]
                       ELSE IF g \in Granted(Purchases) THEN Part(g, Purchases, paidPart)
                       ELSE 0
    BY DEF Charge
  <1> HIDE DEF rest, paidPart
  <1>4. CASE g \in Granted(Free)
    BY <1>3, <1>4, FreePartBounded
  <1>5. CASE g \notin Granted(Free) /\ g \in Granted(Purchases)
    <2>1. g \in Purchases
      BY <1>5, GrantedSets DEF Grants
    <2>2. Part(g, Purchases, paidPart) \in 0..Available(g)
      BY <1>2, <2>1, PartBounded
    <2>3. QED BY <1>3, <1>5, <2>2
  <1>6. CASE g \notin Granted(Free) /\ g \notin Granted(Purchases)
    <2>1. Available(g) \in Nat
      BY LeftIsNat
    <2>2. QED BY <1>3, <1>6, <2>1
  <1>7. QED BY <1>4, <1>5, <1>6

\* No grant is in the ledger twice.
NoRepeats == \A i, j \in DOMAIN granted : granted[i] = granted[j] => i = j

\* The grants of a kind among the first m.
Upto(kind, m) == {g \in kind : \E i \in 1..m : granted[i] = g}

\* The grants of a kind, counted one after the other as allocateUsage does.
LEMMA UptoFacts ==
  ASSUME CreditTypeOK, NoRepeats, NEW kind \in {Free, Purchases}
  PROVE  /\ Upto(kind, 0) = {}
         /\ Upto(kind, Len(granted)) = Granted(kind)
         /\ \A m \in 0..Len(granted) : Upto(kind, m) \in SUBSET Granted(kind)
         /\ \A m \in Nat : m + 1 <= Len(granted) =>
              /\ granted[m + 1] \notin Upto(kind, m)
              /\ granted[m + 1] \notin kind => Upto(kind, m + 1) = Upto(kind, m)
              /\ granted[m + 1] \in kind => Upto(kind, m + 1) = Upto(kind, m) \cup {granted[m + 1]}
              /\ {f \in Granted(kind) : Before(f, granted[m + 1])} = Upto(kind, m)
  <1>1. granted \in Seq(Grants) /\ Len(granted) \in Nat /\ DOMAIN granted = 1..Len(granted)
    BY DEF CreditTypeOK
  <1>2. Upto(kind, 0) = {}
    BY DEF Upto
  <1>3. Upto(kind, Len(granted)) = Granted(kind)
    BY DEF Upto, Granted, Contains
  <1>4. ASSUME NEW m \in 0..Len(granted) PROVE Upto(kind, m) \in SUBSET Granted(kind)
    BY <1>1 DEF Upto, Granted, Contains
  <1>5. ASSUME NEW m \in Nat, m + 1 <= Len(granted)
        PROVE  /\ granted[m + 1] \notin Upto(kind, m)
               /\ granted[m + 1] \notin kind => Upto(kind, m + 1) = Upto(kind, m)
               /\ granted[m + 1] \in kind => Upto(kind, m + 1) = Upto(kind, m) \cup {granted[m + 1]}
               /\ {f \in Granted(kind) : Before(f, granted[m + 1])} = Upto(kind, m)
    <2>1. /\ m + 1 \in DOMAIN granted /\ 1..m \subseteq DOMAIN granted /\ m + 1 \notin 1..m
          /\ 1..(m + 1) = 1..m \cup {m + 1}
      BY <1>1, <1>5
    <2>2. granted[m + 1] \notin Upto(kind, m)
      BY <2>1 DEF Upto, NoRepeats
    <2>3. Upto(kind, m + 1) = Upto(kind, m) \cup ({granted[m + 1]} \cap kind)
      BY <2>1 DEF Upto
    <2>4. ASSUME NEW f \in Granted(kind)
          PROVE  Before(f, granted[m + 1]) <=> f \in Upto(kind, m)
      <3>1. f \in kind
        BY DEF Granted
      <3>2. ASSUME Before(f, granted[m + 1]) PROVE f \in Upto(kind, m)
        <4>1. PICK i, j \in DOMAIN granted : i < j /\ granted[i] = f /\ granted[j] = granted[m + 1]
          BY <3>2 DEF Before
        <4>2. j = m + 1
          BY <2>1, <4>1 DEF NoRepeats
        <4>3. i \in 1..m
          BY <1>1, <4>1, <4>2
        <4>4. QED BY <3>1, <4>1, <4>3 DEF Upto
      <3>3. ASSUME f \in Upto(kind, m) PROVE Before(f, granted[m + 1])
        <4>1. PICK i \in 1..m : granted[i] = f
          BY <3>3 DEF Upto
        <4>2. i \in DOMAIN granted /\ i < m + 1
          BY <1>1, <1>5, <4>1
        <4>3. QED BY <2>1, <4>1, <4>2 DEF Before
      <3>4. QED BY <3>2, <3>3
    <2>5. {f \in Granted(kind) : Before(f, granted[m + 1])} = Upto(kind, m)
      <3>1. m \in 0..Len(granted)
        BY <1>1, <1>5
      <3>2. QED BY <1>4, <2>4, <3>1
    <2>6. QED BY <2>2, <2>3, <2>5
  <1>6. QED BY <1>2, <1>3, <1>4, <1>5

\* The walk over the grants of a kind takes what is asked for, or all there is.
LEMMA PartsSum ==
  ASSUME CreditTypeOK, NoRepeats, NEW kind \in {Free, Purchases}, NEW n \in Nat,
         NEW h, \A g \in Granted(kind) : h[g] = Part(g, kind, n)
  PROVE  /\ SumFunctionOnSet(h, Granted(kind)) = Smaller(n, SumFunctionOnSet(Left, Granted(kind)))
         /\ SumFunctionOnSet(Left, Granted(kind)) \in Nat
  <1> DEFINE part(m) == SumFunctionOnSet(h, Upto(kind, m))
             left(m) == SumFunctionOnSet(Left, Upto(kind, m))
             G == {m \in Nat : m <= Len(granted) => part(m) = Smaller(n, left(m))}
  <1>1. CreditFacts /\ kind \in SUBSET Grants /\ Len(granted) \in Nat
    BY TypesGiveFacts DEF Grants, CreditTypeOK
  <1>2. ASSUME NEW m \in 0..Len(granted)
        PROVE  /\ Upto(kind, m) \in SUBSET Granted(kind) /\ IsFiniteSet(Upto(kind, m))
               /\ left(m) \in Nat
    <2>1. Upto(kind, m) \in SUBSET Granted(kind) /\ IsFiniteSet(Granted(kind)) /\ Granted(kind) \in SUBSET kind
      BY <1>1, UptoFacts, GrantedSets
    <2>2. IsFiniteSet(Upto(kind, m))
      BY <2>1, FS_Subset
    <2>3. \A g \in Upto(kind, m) : Left[g] \in Nat
      BY <1>1, <2>1, LeftIsNat
    <2>4. left(m) \in Nat
      BY <2>2, <2>3, SumNat
    <2>5. QED BY <2>1, <2>2, <2>4
  <1>3. ASSUME NEW g \in Granted(kind)
        PROVE  g \in kind /\ Available(g) \in Nat /\ Left[g] = Available(g) /\ h[g] \in Nat
    <2>1. g \in kind /\ g \in Grants
      BY <1>1, GrantedSets
    <2>2. Available(g) \in Nat /\ Left[g] = Available(g)
      BY <1>1, <2>1, LeftIsNat
    <2>3. h[g] \in 0..Available(g)
      BY <1>1, <2>1, PartBounded
    <2>4. QED BY <2>1, <2>2, <2>3
  <1>4. 0 \in G
    <2>1. Upto(kind, 0) = {}
      BY UptoFacts
    <2>2. part(0) = 0 /\ left(0) = 0
      BY <2>1, SumEmpty
    <2>3. QED BY <2>2 DEF Smaller
  <1>5. ASSUME NEW m \in G PROVE m + 1 \in G
    <2> SUFFICES ASSUME m + 1 <= Len(granted) PROVE part(m + 1) = Smaller(n, left(m + 1))
      OBVIOUS
    <2> DEFINE g == granted[m + 1]
    <2>1. m \in Nat /\ m \in 0..Len(granted) /\ m + 1 \in 0..Len(granted) /\ part(m) = Smaller(n, left(m))
      BY <1>1
    <2>2. /\ g \notin Upto(kind, m)
          /\ g \notin kind => Upto(kind, m + 1) = Upto(kind, m)
          /\ g \in kind => Upto(kind, m + 1) = Upto(kind, m) \cup {g}
          /\ {f \in Granted(kind) : Before(f, g)} = Upto(kind, m)
      BY <2>1, UptoFacts
    <2> HIDE DEF g
    <2>3. CASE g \notin kind
      BY <2>1, <2>2, <2>3
    <2>4. CASE g \in kind
      <3>1. g \in Granted(kind)
        <4>1. g \in Upto(kind, m + 1)
          BY <2>2, <2>4
        <4>2. QED BY <1>2, <2>1, <4>1
      <3>2. /\ IsFiniteSet(Upto(kind, m)) /\ left(m) \in Nat
            /\ \A y \in Upto(kind, m) \cup {g} : h[y] \in Int /\ Left[y] \in Int
        <4>1. Upto(kind, m) \in SUBSET Granted(kind) /\ IsFiniteSet(Upto(kind, m)) /\ left(m) \in Nat
          BY <1>2, <2>1
        <4>2. \A y \in Granted(kind) : h[y] \in Int /\ Left[y] \in Int
          BY <1>3
        <4>3. QED BY <3>1, <4>1, <4>2
      <3>3. part(m + 1) = h[g] + part(m)
        BY <2>2, <2>4, <3>2, SumAdd
      <3>4. left(m + 1) = Left[g] + left(m)
        BY <2>2, <2>4, <3>2, SumAdd
      <3>5. h[g] = Smaller(Available(g), NotBelowZero(n - left(m)))
        <4> DEFINE missing == n - left(m)
        <4>1. h[g] = Smaller(Available(g), Max({0, missing}))
          BY <2>2, <3>1 DEF Part
        <4>2. missing \in Int
          BY <3>2
        <4> HIDE DEF missing
        <4>3. h[g] = Smaller(Available(g), NotBelowZero(missing))
          BY <4>1, <4>2, MaxOfZero
        <4>4. QED BY <4>3 DEF missing
      <3>6. Available(g) \in Nat /\ Left[g] = Available(g)
        BY <1>3, <3>1
      <3> HIDE DEF part, left
      <3>7. QED BY <2>1, <3>2, <3>3, <3>4, <3>5, <3>6 DEF Smaller, NotBelowZero
    <2>5. QED BY <2>3, <2>4
  <1>6. G = Nat
    <2>1. G \in SUBSET Nat
      OBVIOUS
    <2> HIDE DEF G
    <2>2. QED BY <1>4, <1>5, <2>1, CountingUp
  <1>7. part(Len(granted)) = Smaller(n, left(Len(granted)))
    BY <1>1, <1>6
  <1>8. left(Len(granted)) \in Nat
    BY <1>1, <1>2
  <1>9. Upto(kind, Len(granted)) = Granted(kind)
    BY UptoFacts
  <1>10. QED BY <1>7, <1>8, <1>9

\* What a charge takes of free and of paid grants: the free ones first, and of the
\* paid ones no more than their balance.
LEMMA ChargeSums ==
  ASSUME CreditTypeOK, NoRepeats, NEW n \in Nat
  PROVE  /\ SumFunctionOnSet(Charge(n), Granted(Free)) = Smaller(n, FreeBalance)
         /\ SumFunctionOnSet(Charge(n), Granted(Purchases))
              = Smaller(n - Smaller(n, FreeBalance), NotBelowZero(PaidBalance))
         /\ FreeBalance \in Nat /\ PaidBalance \in Int
  <1> DEFINE F == SumFunctionOnSet(FreePart(n), Granted(Free))
             rest == n - F
             paidPart == Smaller(rest, Max({0, PaidBalance}))
  <1>1. CreditFacts
    BY TypesGiveFacts
  <1>2. FreeBalance \in Nat /\ PaidBalance \in Int
    BY <1>1, BalancesAreInt
  <1>3. F = Smaller(n, FreeBalance)
    <2>1. \A g \in Granted(Free) : FreePart(n)[g] = Part(g, Free, n)
      BY DEF FreePart
    <2>2. QED BY <2>1, PartsSum DEF FreeBalance
  <1>4. rest = n - Smaller(n, FreeBalance) /\ rest \in Nat
    <2> HIDE DEF F
    <2>1. QED BY <1>2, <1>3 DEF Smaller
  <1>5. paidPart = Smaller(rest, NotBelowZero(PaidBalance)) /\ paidPart \in Nat
    <2> HIDE DEF rest
    <2>1. Max({0, PaidBalance}) = NotBelowZero(PaidBalance) /\ NotBelowZero(PaidBalance) \in Nat
      BY <1>2, MaxOfZero DEF NotBelowZero
    <2>2. QED BY <1>4, <2>1 DEF Smaller
  <1>6. ASSUME NEW g \in Grants
        PROVE  Charge(n)[g] = IF g \in Granted(Free) THEN FreePart(n)[g]
                              ELSE IF g \in Granted(Purchases) THEN Part(g, Purchases, paidPart)
                              ELSE 0
    BY DEF Charge
  <1> HIDE DEF paidPart, rest
  <1>7. /\ Granted(Free) \in SUBSET Free /\ IsFiniteSet(Granted(Free)) /\ Free \in SUBSET Grants
        /\ Granted(Purchases) \in SUBSET Purchases /\ Purchases \in SUBSET Grants
    BY GrantedSets DEF Grants
  <1>8. SumFunctionOnSet(Charge(n), Granted(Free)) = F
    <2>1. \A g \in Granted(Free) : Charge(n)[g] = FreePart(n)[g] /\ Charge(n)[g] \in Int
      <3>1. \A g \in Granted(Free) : Charge(n)[g] = FreePart(n)[g]
        BY <1>6, <1>7
      <3>2. \A g \in Granted(Free) : Charge(n)[g] \in 0..Available(g)
        BY <1>1, <1>7, ChargeBounded
      <3>3. \A g \in Granted(Free) : Available(g) \in Nat
        BY <1>1, <1>7, LeftIsNat
      <3>4. QED BY <3>1, <3>2, <3>3
    <2>2. QED BY <1>7, <2>1, SumSame
  <1>9. SumFunctionOnSet(Charge(n), Granted(Purchases))
          = Smaller(paidPart, SumFunctionOnSet(Left, Granted(Purchases)))
    <2>1. \A p \in Granted(Purchases) : Charge(n)[p] = Part(p, Purchases, paidPart)
      BY <1>6, <1>7, GrantsAreDistinct
    <2>2. QED BY <1>5, <2>1, PartsSum
  <1>10. PaidBalance <= SumFunctionOnSet(Left, Granted(Purchases)) /\ SumFunctionOnSet(Left, Granted(Purchases)) \in Nat
    <2>1. IsFiniteSet(Granted(Purchases)) /\ \A p \in Granted(Purchases) : Debts[p] \in Nat
      BY <1>1, <1>7, GrantedSets DEF CreditFacts, PurchaseCredits
    <2>2. SumFunctionOnSet(Debts, Granted(Purchases)) \in Nat
      BY <2>1, SumNat
    <2>3. SumFunctionOnSet(Left, Granted(Purchases)) \in Nat
      BY <1>1, BalancesAreInt
    <2>4. QED BY <2>2, <2>3 DEF PaidBalance
  <1>11. Smaller(paidPart, SumFunctionOnSet(Left, Granted(Purchases))) = paidPart
    <2> DEFINE P == SumFunctionOnSet(Left, Granted(Purchases))
    <2>1. PaidBalance <= P /\ P \in Nat
      BY <1>10
    <2> HIDE DEF P
    <2>2. Smaller(paidPart, P) = paidPart
      BY <1>2, <1>4, <1>5, <2>1 DEF Smaller, NotBelowZero
    <2>3. QED BY <2>2 DEF P
  <1> HIDE DEF F
  <1>12. QED BY <1>2, <1>3, <1>4, <1>5, <1>8, <1>9, <1>11

\* The check at the end of allocateUsage passes exactly if the balances together
\* are enough.
LEMMA CoveredIfEnough ==
  ASSUME CreditTypeOK, NoRepeats, NEW n \in Nat
  PROVE  Covered(n) <=> n <= FreeBalance + NotBelowZero(PaidBalance)
  BY ChargeSums DEF Covered, Smaller, NotBelowZero

\* Paid credits are taken only when all free ones are.
LEMMA FreeCreditsFirst ==
  ASSUME CreditTypeOK, NoRepeats, NEW n \in Nat, NEW p \in Purchases, Charge(n)[p] > 0, NEW g \in Granted(Free)
  PROVE  Charge(n)[g] = Available(g)
  <1> DEFINE S == Granted(Free)
             c == Charge(n)
  <1>1. /\ CreditFacts /\ g \in Grants /\ S \in SUBSET Grants /\ IsFiniteSet(S)
        /\ Granted(Purchases) \in SUBSET Grants /\ IsFiniteSet(Granted(Purchases))
    BY TypesGiveFacts, GrantedSets DEF Grants
  <1>2. ASSUME NEW x \in Grants PROVE c[x] \in Nat /\ Left[x] \in Nat /\ c[x] <= Left[x] /\ Left[x] = Available(x)
    <2>1. c[x] \in 0..Available(x)
      BY <1>1, ChargeBounded
    <2>2. Left[x] = Available(x) /\ Left[x] \in Nat
      BY <1>1, LeftIsNat
    <2>3. QED BY <2>1, <2>2
  <1> HIDE DEF c
  <1>3. p \in Granted(Purchases)
    <2>1. p \notin Granted(Free) /\ p \in Grants
      BY GrantsAreDistinct DEF Granted, Grants
    <2>2. QED BY <2>1 DEF Charge
  <1>4. SumFunctionOnSet(c, Granted(Purchases)) > 0
    <2>1. c[p] <= SumFunctionOnSet(c, Granted(Purchases))
      BY <1>1, <1>2, <1>3, SumMember
    <2>2. SumFunctionOnSet(c, Granted(Purchases)) \in Nat
      BY <1>1, <1>2, SumNat
    <2>3. c[p] > 0 /\ c[p] \in Nat
      BY <1>1, <1>2, <1>3 DEF c
    <2>4. QED BY <2>1, <2>2, <2>3
  <1>5. SumFunctionOnSet(c, S) = SumFunctionOnSet(Left, S)
    <2>1. SumFunctionOnSet(c, S) = FreeBalance
      BY <1>4, ChargeSums DEF c, Smaller, NotBelowZero
    <2>2. QED BY <2>1 DEF FreeBalance
  <1> HIDE DEF S
  <1>6. g \in S
    BY DEF S
  <1>7. /\ IsFiniteSet(S \ {g})
        /\ SumFunctionOnSet(c, S) = c[g] + SumFunctionOnSet(c, S \ {g})
        /\ SumFunctionOnSet(Left, S) = Left[g] + SumFunctionOnSet(Left, S \ {g})
    <2>1. IsFiniteSet(S \ {g})
      BY <1>1, FS_RemoveElement
    <2>2. \A x \in S : c[x] \in Int /\ Left[x] \in Int
      BY <1>1, <1>2
    <2>3. QED BY <1>1, <1>6, <2>1, <2>2, SumRemove
  <1>8. SumFunctionOnSet(c, S \ {g}) <= SumFunctionOnSet(Left, S \ {g})
    <2>1. \A x \in S \ {g} : c[x] \in Int /\ Left[x] \in Int /\ c[x] <= Left[x]
      BY <1>1, <1>2
    <2>2. QED BY <1>7, <2>1, SumLeq
  <1>9. SumFunctionOnSet(c, S \ {g}) \in Int /\ SumFunctionOnSet(Left, S \ {g}) \in Int
    <2>1. \A x \in S \ {g} : c[x] \in Int /\ Left[x] \in Int
      BY <1>1, <1>2
    <2>2. QED BY <1>7, <2>1, SumInt
  <1>10. c[g] \in Nat /\ Left[g] \in Nat /\ c[g] <= Left[g] /\ Left[g] = Available(g)
    BY <1>1, <1>2
  <1>11. c[g] = Left[g]
    <2> DEFINE others == SumFunctionOnSet(c, S \ {g})
               left == SumFunctionOnSet(Left, S \ {g})
    <2>1. c[g] + others = Left[g] + left
      BY <1>5, <1>7
    <2>2. others \in Int /\ left \in Int /\ others <= left
      BY <1>8, <1>9
    <2> HIDE DEF others, left
    <2>3. \A a, b \in Nat, m, n1 \in Int : a + m = b + n1 /\ m <= n1 /\ a <= b => a = b
      OBVIOUS
    <2>4. QED BY <1>10, <2>1, <2>2, <2>3
  <1>12. QED BY <1>10, <1>11 DEF c

=============================================================================
