---------------------------- MODULE CpuBudgetProofs ----------------------------
(* Proofs about the CPU memory budget, for every set of threads and bitmaps,   *)
(* every budget and every limit.                                               *)
EXTENDS CpuBudget, FiniteSetTheorems, TLAPS

(* Induction over the subsets of a finite set, the conclusion a membership.    *)
LEMMA SubsetInduction ==
  ASSUME NEW S, IsFiniteSet(S), NEW T,
         \A U \in SUBSET S : (\A V \in SUBSET U : V # U => V \in T) => U \in T
  PROVE  S \in T
<1> DEFINE R == StrictSubsetOrdering(S)
           F == FiniteSubsetsOf(S)
           Bad == {U \in F : U \notin T}
<1>1. IsWellFoundedOn(R, F)
  BY FS_StrictSubsetOrderingWellFounded
<1>2. S \in F
  BY DEF FiniteSubsetsOf
<1>3. \A U \in F : U \in SUBSET S /\ \A V \in SUBSET U : V \in F
  BY FS_Subset DEF FiniteSubsetsOf
<1>4. \A U \in F : \A V \in SUBSET U : V # U => <<V, U>> \in R
  BY <1>3 DEF StrictSubsetOrdering
<1>5. SUFFICES ASSUME S \notin T PROVE FALSE
  OBVIOUS
<1>6. Bad \subseteq F /\ Bad # {}
  BY <1>2, <1>5
<1>7. PICK U \in Bad : \A V \in Bad : <<V, U>> \notin R
  <2> HIDE DEF R, F, Bad
  <2> QED BY <1>1, <1>6, WFMin
<1>8. U \in F /\ U \notin T
  OBVIOUS
<1>9. \A V \in SUBSET U : V # U => V \in T
  <2>1. \A V \in F : V \notin T => V \in Bad
    OBVIOUS
  <2> HIDE DEF R, F, Bad
  <2> SUFFICES ASSUME NEW V \in SUBSET U, V # U, V \notin T PROVE FALSE
    OBVIOUS
  <2>2. V \in F
    BY <1>3, <1>8
  <2>3. <<V, U>> \in R
    BY <1>4, <1>8
  <2> QED BY <1>7, <2>1, <2>2, <2>3
<1> HIDE DEF R, F, Bad
<1>10. U \in SUBSET S
  BY <1>3, <1>8
<1> QED
  BY <1>8, <1>9, <1>10

(* Induction over the natural numbers in the same form. *)
LEMMA NatInduct ==
  ASSUME NEW T, 0 \in T, \A n \in Nat : n \in T => n + 1 \in T, NEW m \in Nat
  PROVE  m \in T
<1> DEFINE S == 1 .. m
           C == {U \in SUBSET S : Cardinality(U) \in T}
<1>1. IsFiniteSet(S) /\ Cardinality(S) = m
  BY FS_Interval
<1>2. \A U \in SUBSET S : (\A V \in SUBSET U : V # U => V \in C) => U \in C
  <2> SUFFICES ASSUME NEW U \in SUBSET S, \A V \in SUBSET U : V # U => V \in C
               PROVE  Cardinality(U) \in T
    OBVIOUS
  <2>1. IsFiniteSet(U)
    BY <1>1, FS_Subset
  <2>2. CASE U = {}
    BY <2>2, FS_EmptySet
  <2>3. CASE U # {}
    <3>1. PICK x \in U : TRUE
      BY <2>3
    <3>2. /\ Cardinality(U \ {x}) = Cardinality(U) - 1
          /\ Cardinality(U) \in Nat /\ Cardinality(U \ {x}) \in Nat
      BY <2>1, FS_RemoveElement, FS_CardinalityType
    <3>3. Cardinality(U \ {x}) \in T
      <4>1. U \ {x} \in SUBSET U /\ U \ {x} # U
        BY <3>1
      <4> QED BY <4>1
    <3>4. Cardinality(U) = Cardinality(U \ {x}) + 1
      BY <3>2
    <3> QED BY <3>2, <3>3, <3>4
  <2> QED BY <2>2, <2>3
<1>3. S \in C
  <2> HIDE DEF C, S
  <2> QED BY <1>1, <1>2, SubsetInduction
<1> QED BY <1>1, <1>3

-----------------------------------------------------------------------------
(* Sums over a finite set.                                                     *)
Pick(U) == CHOOSE x \in U : TRUE
\* g gives the sum of f over every subset of S.
SumsOf(g, f, S) ==
  g = [U \in SUBSET S |-> IF U = {} THEN 0 ELSE f[Pick(U)] + g[U \ {Pick(U)}]]

LEMMA SumsExist ==
  ASSUME NEW S, IsFiniteSet(S), NEW f
  PROVE  \E g : SumsOf(g, f, S)
<1> DEFINE D(n) == {U \in SUBSET S : Cardinality(U) <= n}
           Body(g, U) == IF U = {} THEN 0 ELSE f[Pick(U)] + g[U \ {Pick(U)}]
           P(n) == \E g : g = [U \in D(n) |-> Body(g, U)]
           T == {n \in Nat : P(n)}
<1>0. \A U \in SUBSET S : IsFiniteSet(U) /\ Cardinality(U) \in Nat
  BY FS_Subset, FS_CardinalityType
<1>1. 0 \in T
  <2>1. \A U \in D(0) : U = {}
    BY <1>0, FS_EmptySet
  <2>2. [U \in D(0) |-> 0] = [U \in D(0) |-> Body([W \in D(0) |-> 0], U)]
    BY <2>1
  <2> QED BY <2>2
<1>2. \A n \in Nat : n \in T => n + 1 \in T
  <2> SUFFICES ASSUME NEW n \in Nat, P(n) PROVE P(n + 1)
    <3> HIDE DEF P
    <3> QED OBVIOUS
  <2>1. PICK g : g = [U \in D(n) |-> Body(g, U)]
    OBVIOUS
  <2> DEFINE h == [U \in D(n + 1) |-> Body(g, U)]
  <2>2. \A U \in D(n + 1) : U # {} =>
            /\ Pick(U) \in U /\ U \ {Pick(U)} \in D(n)
            /\ U \ {Pick(U)} \in D(n + 1)
    <3> SUFFICES ASSUME NEW U \in D(n + 1), U # {}
                 PROVE  /\ Pick(U) \in U /\ U \ {Pick(U)} \in D(n)
                        /\ U \ {Pick(U)} \in D(n + 1)
      OBVIOUS
    <3>1. Pick(U) \in U
      BY DEF Pick
    <3>2. Cardinality(U \ {Pick(U)}) = Cardinality(U) - 1
      BY <1>0, <3>1, FS_RemoveElement
    <3>3. U \ {Pick(U)} \in SUBSET S
      OBVIOUS
    <3>4. Cardinality(U) \in Nat /\ Cardinality(U) <= n + 1
      BY <1>0
    <3>5. Cardinality(U) - 1 <= n /\ Cardinality(U) - 1 <= n + 1
      BY <3>4
    <3> QED BY <3>1, <3>2, <3>3, <3>5
  <2>3. \A U \in D(n) : g[U] = Body(g, U) /\ h[U] = Body(g, U)
    <3>1. \A U \in D(n) : U \in D(n + 1)
      BY <1>0
    <3>2. \A U \in D(n) : g[U] = Body(g, U)
      BY <2>1
    <3> QED BY <3>1, <3>2
  <2>4. \A U \in D(n + 1) : Body(g, U) = Body(h, U)
    <3> SUFFICES ASSUME NEW U \in D(n + 1), U # {}
                 PROVE  g[U \ {Pick(U)}] = h[U \ {Pick(U)}]
      OBVIOUS
    <3> QED BY <2>2, <2>3
  <2>5. h = [U \in D(n + 1) |-> Body(h, U)]
    BY <2>4
  <2> QED BY <2>5
<1>3. P(Cardinality(S))
  <2>1. Cardinality(S) \in Nat
    BY FS_CardinalityType
  <2> HIDE DEF T
  <2>2. Cardinality(S) \in T
    BY <1>1, <1>2, <2>1, NatInduct
  <2> USE DEF T
  <2> QED BY <2>2
<1>4. D(Cardinality(S)) = SUBSET S
  BY FS_Subset
<1> QED
  <2> HIDE DEF D
  <2> QED BY <1>3, <1>4 DEF SumsOf

LEMMA SumIs ==
  ASSUME NEW S, IsFiniteSet(S), NEW f
  PROVE  \E g : SumsOf(g, f, S) /\ Sum(f, S) = g[S]
<1>1. Sum(f, S) = (CHOOSE g : SumsOf(g, f, S))[S]
  BY DEF Sum, MapThenSumSet, MapThenFoldSet, SumsOf, Pick
<1> QED BY <1>1, SumsExist

\* The sums of a function over the subsets of S, one element at a time.
Adding(g, f, S) ==
  /\ g[{}] = 0
  /\ \A U \in SUBSET S : U # {} =>
         /\ Pick(U) \in U /\ U \ {Pick(U)} \in SUBSET S
         /\ g[U] = f[Pick(U)] + g[U \ {Pick(U)}]

LEMMA SumsStep ==
  ASSUME NEW S, NEW f, NEW g, SumsOf(g, f, S)
  PROVE  Adding(g, f, S)
<1>1. \A U \in SUBSET S : g[U] = IF U = {} THEN 0
                                 ELSE f[Pick(U)] + g[U \ {Pick(U)}]
  BY DEF SumsOf
<1>2. \A U \in SUBSET S : U # {} => Pick(U) \in U
  BY DEF Pick
<1> QED BY <1>1, <1>2 DEF Adding

\* Two functions that differ at x only have sums that differ by that term.
LEMMA SumsChange ==
  ASSUME NEW S, IsFiniteSet(S), NEW f \in [S -> Nat], NEW h \in [S -> Nat],
         NEW x \in S, \A y \in S : y # x => h[y] = f[y],
         NEW g, SumsOf(g, f, S), NEW k, SumsOf(k, h, S)
  PROVE  /\ g[S] \in Nat /\ k[S] \in Nat
         /\ g[S] + h[x] = k[S] + f[x]
<1>a. Adding(g, f, S) /\ Adding(k, h, S)
  BY SumsStep
<1> DEFINE T == {U \in SUBSET S :
                   /\ g[U] \in Nat /\ k[U] \in Nat
                   /\ x \in U => g[U] + h[x] = k[U] + f[x]
                   /\ x \notin U => g[U] = k[U]}
<1>1. \A U \in SUBSET S : (\A V \in SUBSET U : V # U => V \in T) => U \in T
  <2> SUFFICES ASSUME NEW U \in SUBSET S, \A V \in SUBSET U : V # U => V \in T
               PROVE  U \in T
    OBVIOUS
  <2>1. CASE U = {}
    BY <1>a, <2>1 DEF Adding
  <2>2. CASE U # {}
    <3> DEFINE p == Pick(U)
               V == U \ {p}
    <3>1. p \in U /\ g[U] = f[p] + g[V] /\ k[U] = h[p] + k[V]
      <4>2. p \in U /\ g[U] = f[p] + g[V]
        BY <2>2, <1>a DEF Adding
      <4>3. k[U] = h[p] + k[V]
        BY <2>2, <1>a DEF Adding
      <4> QED BY <4>2, <4>3
    <3>2. V \in T
      BY <3>1
    <3>3. f[p] \in Nat /\ h[p] \in Nat /\ g[V] \in Nat /\ k[V] \in Nat
          /\ f[x] \in Nat /\ h[x] \in Nat
      BY <3>1, <3>2
    <3>4. CASE p = x
      <4>1. g[V] = k[V]
        BY <3>2, <3>4
      <4>2. g[U] + h[x] = k[U] + f[x] /\ g[U] \in Nat /\ k[U] \in Nat
        <5> HIDE DEF p, V, T
        <5> QED BY <3>1, <3>3, <3>4, <4>1
      <4> QED BY <3>1, <3>4, <4>2
    <3>5. CASE p # x
      <4>1. f[p] = h[p] /\ (x \in U <=> x \in V)
        BY <3>1, <3>5
      <4>2. /\ x \in V => g[V] + h[x] = k[V] + f[x]
            /\ x \notin V => g[V] = k[V]
        BY <3>2
      <4>3. g[U] \in Nat /\ k[U] \in Nat
        <5> HIDE DEF p, V, T
        <5> QED BY <3>1, <3>3
      <4>4. x \in U => g[U] + h[x] = k[U] + f[x]
        <5> HIDE DEF p, V, T
        <5> QED BY <3>1, <3>3, <4>1, <4>2
      <4>5. x \notin U => g[U] = k[U]
        <5> HIDE DEF p, V, T
        <5> QED BY <3>1, <3>3, <4>1, <4>2
      <4> QED BY <4>3, <4>4, <4>5
    <3> QED BY <3>4, <3>5
  <2> QED BY <2>1, <2>2
<1>2. S \in T
  <2> HIDE DEF T
  <2> QED BY <1>1, SubsetInduction
<1> QED BY <1>2

LEMMA SumChange ==
  ASSUME NEW S, IsFiniteSet(S), NEW f \in [S -> Nat], NEW h \in [S -> Nat],
         NEW x \in S, \A y \in S : y # x => h[y] = f[y]
  PROVE  /\ Sum(f, S) \in Nat /\ Sum(h, S) \in Nat
         /\ Sum(f, S) + h[x] = Sum(h, S) + f[x]
<1>1. PICK g : SumsOf(g, f, S) /\ Sum(f, S) = g[S]
  BY SumIs
<1>2. PICK k : SumsOf(k, h, S) /\ Sum(h, S) = k[S]
  BY SumIs
<1> QED BY <1>1, <1>2, SumsChange

\* A sum is no larger than the sum of a function nowhere smaller.
LEMMA SumMonotone ==
  ASSUME NEW S, IsFiniteSet(S), NEW f \in [S -> Nat], NEW h \in [S -> Nat],
         \A y \in S : f[y] <= h[y]
  PROVE  Sum(f, S) \in Nat /\ Sum(h, S) \in Nat /\ Sum(f, S) <= Sum(h, S)
<1>1. PICK g : SumsOf(g, f, S) /\ Sum(f, S) = g[S]
  BY SumIs
<1>2. PICK k : SumsOf(k, h, S) /\ Sum(h, S) = k[S]
  BY SumIs
<1>a. Adding(g, f, S) /\ Adding(k, h, S)
  BY <1>1, <1>2, SumsStep
<1> DEFINE T == {U \in SUBSET S : g[U] \in Nat /\ k[U] \in Nat /\ g[U] <= k[U]}
<1>3. \A U \in SUBSET S : (\A V \in SUBSET U : V # U => V \in T) => U \in T
  <2> SUFFICES ASSUME NEW U \in SUBSET S, \A V \in SUBSET U : V # U => V \in T
               PROVE  U \in T
    OBVIOUS
  <2>1. CASE U = {}
    BY <1>a, <2>1 DEF Adding
  <2>2. CASE U # {}
    <3> DEFINE p == Pick(U)
               V == U \ {p}
    <3>1. p \in U /\ g[U] = f[p] + g[V] /\ k[U] = h[p] + k[V]
      BY <1>a, <2>2 DEF Adding
    <3>2. V \in T
      BY <3>1
    <3>3. f[p] \in Nat /\ h[p] \in Nat /\ f[p] <= h[p]
          /\ g[V] \in Nat /\ k[V] \in Nat /\ g[V] <= k[V]
      BY <3>1, <3>2
    <3>4. g[U] \in Nat /\ k[U] \in Nat /\ g[U] <= k[U]
      <4> HIDE DEF p, V, T
      <4> QED BY <3>1, <3>3
    <3> QED BY <3>4
  <2> QED BY <2>1, <2>2
<1>4. S \in T
  <2> HIDE DEF T
  <2> QED BY <1>3, SubsetInduction
<1> QED BY <1>1, <1>2, <1>4

\* A sum whose terms are all zero is zero.
LEMMA SumZero ==
  ASSUME NEW S, IsFiniteSet(S), NEW f \in [S -> Nat], \A y \in S : f[y] = 0
  PROVE  Sum(f, S) = 0
<1>1. PICK g : SumsOf(g, f, S) /\ Sum(f, S) = g[S]
  BY SumIs
<1>a. Adding(g, f, S)
  BY <1>1, SumsStep
<1> DEFINE T == {U \in SUBSET S : g[U] = 0}
<1>2. \A U \in SUBSET S : (\A V \in SUBSET U : V # U => V \in T) => U \in T
  <2> SUFFICES ASSUME NEW U \in SUBSET S, \A V \in SUBSET U : V # U => V \in T
               PROVE  U \in T
    OBVIOUS
  <2>1. CASE U = {}
    BY <1>a, <2>1 DEF Adding
  <2>2. CASE U # {}
    <3>1. /\ Pick(U) \in U
          /\ g[U] = f[Pick(U)] + g[U \ {Pick(U)}]
      BY <1>a, <2>2 DEF Adding
    <3>2. U \ {Pick(U)} \in T /\ f[Pick(U)] = 0
      BY <3>1
    <3> QED BY <3>1, <3>2
  <2> QED BY <2>1, <2>2
<1>3. S \in T
  <2> HIDE DEF T
  <2> QED BY <1>2, SubsetInduction
<1> QED BY <1>1, <1>3

\* A sum is at least each of its terms, and equal to the only one that is not zero.
LEMMA SumTerm ==
  ASSUME NEW S, IsFiniteSet(S), NEW f \in [S -> Nat], NEW x \in S
  PROVE  /\ Sum(f, S) \in Nat /\ f[x] <= Sum(f, S)
         /\ (\A y \in S : y # x => f[y] = 0) => Sum(f, S) = f[x]
<1> DEFINE h == [y \in S |-> IF y = x THEN 0 ELSE f[y]]
<1>1. h \in [S -> Nat] /\ h[x] = 0 /\ \A y \in S : y # x => h[y] = f[y]
  OBVIOUS
<1> HIDE DEF h
<1>2. /\ Sum(f, S) \in Nat /\ Sum(h, S) \in Nat
      /\ Sum(f, S) + h[x] = Sum(h, S) + f[x]
  BY <1>1, SumChange
<1>3. f[x] \in Nat
  OBVIOUS
<1>4. ASSUME \A y \in S : y # x => f[y] = 0 PROVE Sum(h, S) = 0
  <2>1. \A y \in S : h[y] = 0
    BY <1>1, <1>4
  <2> QED BY <1>1, <2>1, SumZero
<1>5. Sum(f, S) = Sum(h, S) + f[x]
  BY <1>1, <1>2, <1>3
<1> QED BY <1>2, <1>3, <1>4, <1>5

\* Terms of at most one, each of which has elements of L for itself, add up to no
\* more than L has elements.
LEMMA SumFits ==
  ASSUME NEW S, IsFiniteSet(S), NEW f \in [S -> Nat], NEW L, IsFiniteSet(L),
         NEW Q \in [S -> SUBSET L],
         \A x \in S : f[x] # 0 => f[x] = 1 /\ Q[x] # {},
         \A x, y \in S : x # y => Q[x] \cap Q[y] = {}
  PROVE  Sum(f, S) \in Nat /\ Sum(f, S) <= Cardinality(L)
<1> DEFINE W(U) == UNION {Q[x] : x \in U}
<1>1. PICK g : SumsOf(g, f, S) /\ Sum(f, S) = g[S]
  BY SumIs
<1>a. Adding(g, f, S)
  BY <1>1, SumsStep
<1>b. \A V \in SUBSET L : IsFiniteSet(V) /\ Cardinality(V) \in Nat
  BY FS_Subset, FS_CardinalityType
<1>c. \A U \in SUBSET S : W(U) \in SUBSET L
  OBVIOUS
<1> DEFINE T == {U \in SUBSET S : g[U] \in Nat /\ g[U] <= Cardinality(W(U))}
<1>2. \A U \in SUBSET S : (\A V \in SUBSET U : V # U => V \in T) => U \in T
  <2> SUFFICES ASSUME NEW U \in SUBSET S, \A V \in SUBSET U : V # U => V \in T
               PROVE  U \in T
    OBVIOUS
  <2>1. CASE U = {}
    <3>1. g[U] = 0
      BY <1>a, <2>1 DEF Adding
    <3>2. Cardinality(W(U)) \in Nat
      BY <1>b, <1>c
    <3> HIDE DEF W
    <3> QED BY <3>1, <3>2
  <2>2. CASE U # {}
    <3> DEFINE p == Pick(U)
               V == U \ {p}
    <3>1. p \in U /\ g[U] = f[p] + g[V]
      BY <1>a, <2>2 DEF Adding
    <3>2. V \in T /\ V \in SUBSET S
      BY <3>1
    <3>3. f[p] \in Nat /\ g[V] \in Nat /\ g[V] <= Cardinality(W(V))
      BY <3>1, <3>2
    <3>4. /\ W(V) \in SUBSET W(U) /\ Q[p] \in SUBSET W(U)
          /\ W(V) \cap Q[p] = {}
      BY <3>1
    <3>5. /\ IsFiniteSet(W(U)) /\ IsFiniteSet(W(V))
          /\ Cardinality(W(U)) \in Nat /\ Cardinality(W(V)) \in Nat
      BY <1>b, <1>c, <3>2
    <3> HIDE DEF W
    <3>6. Cardinality(W(V)) <= Cardinality(W(U))
      BY <3>4, <3>5, FS_Subset
    <3>7. CASE f[p] = 0
      <4> HIDE DEF p, V, T
      <4>1. g[U] \in Nat /\ g[U] <= Cardinality(W(U))
        BY <3>1, <3>3, <3>5, <3>6, <3>7
      <4> QED BY <4>1 DEF T
    <3>8. CASE f[p] # 0
      <4>1. f[p] = 1 /\ \E q \in Q[p] : TRUE
        BY <3>1, <3>8
      <4>2. PICK q \in Q[p] : TRUE
        BY <4>1
      <4> DEFINE X == W(V) \cup {q}
      <4> HIDE DEF p, V, T
      <4>3. q \notin W(V) /\ X \in SUBSET W(U)
        BY <3>4, <4>2
      <4>4. Cardinality(X) = Cardinality(W(V)) + 1
        BY <3>5, <4>3, FS_AddElement
      <4>5. Cardinality(X) <= Cardinality(W(U))
        BY <3>5, <4>3, FS_Subset
      <4>6. g[U] \in Nat /\ g[U] <= Cardinality(W(U))
        BY <3>1, <3>3, <3>5, <4>1, <4>4, <4>5
      <4> QED BY <4>6 DEF T
    <3> QED BY <3>7, <3>8
  <2> QED BY <2>1, <2>2
<1>3. S \in T
  <2> HIDE DEF T
  <2> QED BY <1>2, SubsetInduction
<1>4. Cardinality(W(S)) <= Cardinality(L) /\ Cardinality(W(S)) \in Nat
      /\ Cardinality(L) \in Nat
  BY <1>b, <1>c, FS_Subset
<1> HIDE DEF W
<1> QED BY <1>1, <1>3, <1>4
-----------------------------------------------------------------------------
(* The inductive invariant.  A thread that trims or refreshes the ring inside   *)
(* an enforcement goes back to it; one that does so on its own account does     *)
(* not hold the flag.                                                          *)
Nested == {"headroom", "limit", "trim", "trimTotal", "unlockRing"}
Afters == {"idle", "trimFreeType", "stampGeneration"}
\* The steps of a thread that owns a bitmap it has not inserted.
Owning == {"built", "insert"}
Locals == [total : Nat, generation : Nat, limit : Nat, bitmap : SUBSET Bitmaps]
Stages == {"category", "total", "generation"}

Role(e, t, p, a) ==
  /\ p \in {"idle", "built", "insert", "claim"} => e # t
  /\ p \in Enforcing => e = t
  /\ p \in Nested => (e = t <=> a # "idle")
  /\ p \notin Nested => a = "idle"

CountersOK ==
  /\ bytes \in [Categories -> Nat] /\ total \in Nat /\ generation \in Nat
  /\ lastGeneration \in Nat /\ lastTotal \in Nat

CacheOK ==
  /\ lru \in Seq(Bitmaps) /\ \A i, j \in DOMAIN lru : lru[i] = lru[j] => i = j
  /\ reduced \in BOOLEAN
  /\ held \in [Threads -> SUBSET Bitmaps]
  /\ metadata \in [Threads -> 0..MaxMetadata] /\ ring \in 0..MaxRing

ControlOK ==
  /\ pc \in [Threads -> Steps] /\ after \in [Threads -> Afters]
  /\ seen \in [Threads -> Locals]
  /\ lock \in Threads \cup {NoThread} /\ ringLock \in Threads \cup {NoThread}
  /\ enforcer \in Threads \cup {NoThread}
  /\ \A t \in Threads : lock = t <=> pc[t] \in Trimming
  /\ \A t \in Threads : ringLock = t <=> pc[t] = "unlockRing"
  /\ \A t \in Threads : Role(enforcer, t, pc[t], after[t])

\* A list of changes is empty, one change, or two of which the second releases
\* or follows a release; none is for zero bytes.
ChangesOK(ch) ==
  /\ ch \in Seq(Changes) /\ Len(ch) <= 2
  /\ \A i \in DOMAIN ch : ch[i].amount >= 1
  /\ 2 \in DOMAIN ch => ~ch[1].adds

WorkOK ==
  /\ update \in [Threads -> Seq(Changes)] /\ stage \in [Threads -> Stages]
  /\ \A t \in Threads : ChangesOK(update[t])
  /\ \A t \in Threads : update[t] = <<>> => stage[t] = "category"

\* The bitmap a thread is about to insert is its own and not yet in the cache.
Inserting(t) ==
  /\ pc[t] \in Owning =>
         \E b \in held[t] : seen[t].bitmap = {b} /\ ~InCache(b)
  /\ pc[t] \notin Owning => seen[t].bitmap = {}

\* No two threads own the same bitmap.
Apart == \A s, t \in Threads : s # t => seen[s].bitmap \cap seen[t].bitmap = {}

\* An addition still to be applied is for something that is there.
Covered(t) ==
  \A i \in DOMAIN update[t] : update[t][i].adds =>
      IF update[t][i].category = "GlyphBitmap"
      THEN /\ update[t][i].amount = 1
           /\ pc[t] \in Owning \/ (pc[t] = "headroom" /\ lru # <<>>)
      ELSE update[t][i].amount = IF pc[t] = "unlockRing" THEN ring ELSE metadata[t]

IInv ==
  /\ CountersOK /\ CacheOK /\ ControlOK /\ WorkOK
  /\ \A t \in Threads : Inserting(t) /\ Covered(t)
  /\ Apart

-----------------------------------------------------------------------------
(* What the three kinds of state need of a step of thread t.                   *)
\* The locks and the flag pass between t and nobody.
Handover(l, m, t) == m = l \/ (l \in {t, NoThread} /\ m \in {t, NoThread})

\* Thread t goes to step p, to return to a, with locals v, and has exactly the
\* locks and the role of that step.
Moves(t, p, a, v) ==
  /\ pc' = [pc EXCEPT ![t] = p] /\ after' = [after EXCEPT ![t] = a]
  /\ seen' = [seen EXCEPT ![t] = v]
  /\ Handover(lock, lock', t) /\ Handover(ringLock, ringLock', t)
  /\ Handover(enforcer, enforcer', t)
  /\ lock' = t <=> p \in Trimming
  /\ ringLock' = t <=> p = "unlockRing"
  /\ Role(enforcer', t, p, a)

\* What t finds in the cache after its step was there before, or t owned it; what
\* it owns with locals v it owned before, or nobody referred to it.
Entries(t)  == \A i \in DOMAIN lru' : InCache(lru'[i]) \/ lru'[i] \in seen[t].bitmap
Owned(t, v) == \A b \in v.bitmap : b \in seen[t].bitmap \/ ~Alive(b)

LEMMA ControlStep ==
  ASSUME ControlOK, NEW t \in Threads, NEW p \in Steps, NEW a \in Afters,
         NEW v \in Locals, Moves(t, p, a, v)
  PROVE  ControlOK'
<1>1. /\ pc' \in [Threads -> Steps] /\ after' \in [Threads -> Afters]
      /\ seen' \in [Threads -> Locals]
  BY DEF ControlOK, Moves
<1>2. /\ lock' \in Threads \cup {NoThread} /\ ringLock' \in Threads \cup {NoThread}
      /\ enforcer' \in Threads \cup {NoThread}
  BY DEF ControlOK, Handover, Moves
<1>3. /\ pc'[t] = p /\ after'[t] = a
      /\ \A s \in Threads : s # t => pc'[s] = pc[s] /\ after'[s] = after[s]
  BY DEF ControlOK, Moves
<1>4. \A s \in Threads : s # t => /\ lock' = s <=> lock = s
                                  /\ ringLock' = s <=> ringLock = s
                                  /\ enforcer' = s <=> enforcer = s
  BY BudgetAssumption DEF Handover, Moves
<1>5. \A s \in Threads : lock' = s <=> pc'[s] \in Trimming
  BY <1>3, <1>4 DEF ControlOK, Moves
<1>6. \A s \in Threads : ringLock' = s <=> pc'[s] = "unlockRing"
  BY <1>3, <1>4 DEF ControlOK, Moves
<1>7. \A s \in Threads : Role(enforcer', s, pc'[s], after'[s])
  <2> SUFFICES ASSUME NEW s \in Threads, s # t
               PROVE  Role(enforcer', s, pc[s], after[s])
    BY <1>3 DEF Moves
  <2>1. Role(enforcer, s, pc[s], after[s]) /\ (enforcer' = s <=> enforcer = s)
    BY <1>4 DEF ControlOK
  <2> QED BY <2>1 DEF Role
<1> QED BY <1>1, <1>2, <1>5, <1>6, <1>7 DEF ControlOK

\* The other threads' pending work stays what it was when t changes the cache or
\* the ring only under its own, or nobody's, lock.
LEMMA OtherThreads ==
  ASSUME ControlOK, NEW t \in Threads, NEW s \in Threads, s # t,
         Inserting(s), Covered(s), seen[s].bitmap \cap seen[t].bitmap = {},
         Entries(t), pc'[s] = pc[s], seen'[s] = seen[s], held'[s] = held[s],
         update'[s] = update[s], metadata'[s] = metadata[s],
         lru' = lru \/ lock \in {t, NoThread},
         ring' = ring \/ ringLock \in {t, NoThread}
  PROVE  Inserting(s)' /\ Covered(s)'
<1>1. pc[s] = "headroom" => lru' = lru
  BY BudgetAssumption DEF ControlOK, Trimming
<1>2. pc[s] = "unlockRing" => ring' = ring
  BY BudgetAssumption DEF ControlOK
<1>3. Inserting(s)'
  <2>1. CASE pc[s] \in Owning
    <3>1. PICK b \in held[s] : seen[s].bitmap = {b} /\ ~InCache(b)
      BY <2>1 DEF Inserting
    <3>2. b \notin seen[t].bitmap
      BY <3>1
    <3>3. \A i \in DOMAIN lru' : lru'[i] # b
      BY <3>1, <3>2 DEF Entries
    <3>4. ~InCache(b)'
      BY <3>3 DEF InCache
    <3> QED BY <2>1, <3>1, <3>4 DEF Inserting
  <2>2. CASE pc[s] \notin Owning
    BY <2>2 DEF Inserting
  <2> QED BY <2>1, <2>2
<1>4. Covered(s)'
  BY <1>1, <1>2 DEF Covered
<1> QED BY <1>3, <1>4

\* The threads stay apart when t takes only a bitmap nobody referred to.
LEMMA ApartStep ==
  ASSUME IInv, NEW t \in Threads, NEW v \in Locals, Owned(t, v),
         seen' = [seen EXCEPT ![t] = v]
  PROVE  Apart'
<1>1. /\ seen'[t] = v
      /\ \A s \in Threads : s # t => seen'[s] = seen[s]
  BY DEF IInv, ControlOK
<1>2. ASSUME NEW s \in Threads, s # t PROVE seen[s].bitmap \cap v.bitmap = {}
  <2>1. seen[s].bitmap \subseteq held[s]
    BY DEF IInv, Inserting
  <2>2. seen[s].bitmap \cap seen[t].bitmap = {}
    BY <1>2 DEF IInv, Apart
  <2>3. \A b \in held[s] : Alive(b)
    BY DEF Alive
  <2> QED BY <2>1, <2>2, <2>3 DEF Owned
<1>3. \A s, r \in Threads : s # t /\ r # t /\ s # r =>
          seen[s].bitmap \cap seen[r].bitmap = {}
  BY DEF IInv, Apart
<1> QED BY <1>1, <1>2, <1>3 DEF Apart

LEMMA SameEntries ==
  /\ \A t \in Threads : lru' = lru => Entries(t)
  /\ \A t \in Threads : \A v : v.bitmap = {} \/ v.bitmap = seen[t].bitmap => Owned(t, v)
  BY DEF Entries, Owned, InCache

LEMMA WorkStep ==
  ASSUME WorkOK, NEW t \in Threads, NEW ch, ChangesOK(ch), update[t] = <<>>,
         Does(t, ch)
  PROVE  WorkOK'
<1>1. ch \in Seq(Changes)
  BY DEF ChangesOK
<1>2. /\ update' \in [Threads -> Seq(Changes)] /\ update'[t] = ch /\ stage' = stage
      /\ \A s \in Threads : s # t => update'[s] = update[s]
  BY <1>1 DEF WorkOK, Does
<1> QED BY <1>2 DEF WorkOK

\* A step of t that leaves it nothing to apply, or the changes of one lease.
LEMMA StepOK ==
  ASSUME IInv, NEW t \in Threads, NEW p \in Steps, NEW a \in Afters,
         NEW v \in Locals, Moves(t, p, a, v),
         NEW ch, ChangesOK(ch), update[t] = <<>>, Does(t, ch),
         CountersOK', CacheOK',
         \A s \in Threads : s # t => held'[s] = held[s] /\ metadata'[s] = metadata[s],
         lru' = lru \/ lock \in {t, NoThread},
         ring' = ring \/ ringLock \in {t, NoThread},
         Entries(t), Owned(t, v), Inserting(t)', Covered(t)'
  PROVE  IInv'
<1>1. ControlOK'
  BY ControlStep DEF IInv
<1>2. WorkOK'
  BY WorkStep DEF IInv
<1>3. ASSUME NEW s \in Threads, s # t PROVE Inserting(s)' /\ Covered(s)'
  <2>1. pc'[s] = pc[s] /\ seen'[s] = seen[s]
    BY <1>3 DEF IInv, ControlOK, Moves
  <2>2. update'[s] = update[s]
    BY <1>3 DEF IInv, WorkOK, Does
  <2>3. /\ ControlOK /\ Inserting(s) /\ Covered(s)
        /\ seen[s].bitmap \cap seen[t].bitmap = {}
    BY <1>3 DEF IInv, Apart
  <2> QED BY <1>3, <2>1, <2>2, <2>3, OtherThreads
<1>4. Apart'
  BY ApartStep DEF Moves
<1> QED BY <1>1, <1>2, <1>3, <1>4 DEF IInv

LEMMA NoChanges ==
  /\ ChangesOK(<<>>)
  /\ \A t \in Threads : update[t] = <<>> /\ WorkOK /\ UNCHANGED work
         => Does(t, <<>>)
<1>1. ChangesOK(<<>>)
  BY DEF ChangesOK
<1> QED BY <1>1 DEF work, Does, WorkOK

\* A step that moves t and leaves the leases alone.
LEMMA ControlOnly ==
  ASSUME IInv, NEW t \in Threads, update[t] = <<>>,
         NEW p \in Steps \ {"built", "insert"}, NEW a \in Afters,
         NEW v \in Locals, v.bitmap = {}, Moves(t, p, a, v),
         UNCHANGED <<counters, lru, held, metadata, ring, work>>,
         reduced' \in BOOLEAN, lastGeneration' \in Nat, lastTotal' \in Nat
  PROVE  IInv'
<1>1. CountersOK'
  BY DEF IInv, CountersOK, counters
<1>2. CacheOK'
  BY DEF IInv, CacheOK
<1>3. Inserting(t)'
  BY DEF IInv, ControlOK, Moves, Inserting, Owning
<1>6. Entries(t) /\ Owned(t, v)
  BY SameEntries
<1>4. ChangesOK(<<>>) /\ Does(t, <<>>) /\ update'[t] = <<>>
  BY NoChanges DEF IInv, work
<1>5. Covered(t)'
  BY <1>4 DEF Covered
<1> QED BY <1>1, <1>2, <1>3, <1>4, <1>5, <1>6, StepOK

\* What a thread with nothing left to apply holds and knows at its step.
LEMMA AtStep ==
  ASSUME IInv, NEW t \in Threads, NEW step, At(t, step)
  PROVE  /\ pc[t] = step /\ step \in Steps /\ update[t] = <<>>
         /\ after[t] \in Afters /\ seen[t] \in Locals
         /\ lock = t <=> step \in Trimming
         /\ ringLock = t <=> step = "unlockRing"
         /\ Role(enforcer, t, step, after[t])
         /\ step \notin {"built", "insert"} => seen[t].bitmap = {}
         /\ pc = [pc EXCEPT ![t] = step] /\ after = [after EXCEPT ![t] = after[t]]
         /\ seen = [seen EXCEPT ![t] = seen[t]]
         /\ t # NoThread
  BY BudgetAssumption DEF IInv, At, ControlOK, Inserting, Owning

\* A trim that ends goes back to its caller, or the call ends.
LEMMA ResumeOK ==
  ASSUME IInv, NEW t \in Threads, update[t] = <<>>, pc[t] \in Nested,
         Resume(t), enforcer' = enforcer,
         IF pc[t] = "unlockRing" THEN ringLock' = NoThread /\ lock' = lock
         ELSE lock' = NoThread /\ ringLock' = ringLock,
         UNCHANGED <<counters, lru, held, metadata, ring, work, reduced,
                     lastGeneration, lastTotal>>
  PROVE  IInv'
<1>1. At(t, pc[t])
  BY DEF At
<1> DEFINE p == after[t]
           v == IF after[t] = "idle" THEN Nothing ELSE seen[t]
<1>2. p \in Steps \ {"built", "insert"} /\ v \in Locals /\ v.bitmap = {} /\ "idle" \in Afters
  BY <1>1, AtStep DEF Afters, Steps, Nothing, Locals, Nested
<1>3. /\ pc' = [pc EXCEPT ![t] = p] /\ after' = [after EXCEPT ![t] = "idle"]
      /\ seen' = [seen EXCEPT ![t] = v]
  BY <1>1, AtStep DEF Resume, Return, Goto
<1>4. /\ lock' # t /\ ringLock' # t
      /\ Handover(lock, lock', t) /\ Handover(ringLock, ringLock', t)
  BY <1>1, AtStep DEF Handover, Nested, Trimming
<1>5. Role(enforcer, t, p, "idle")
  BY <1>1, AtStep DEF Role, Nested, Afters, Enforcing
<1>6. Moves(t, p, "idle", v)
  <2>1. p \notin Trimming /\ p # "unlockRing"
    BY <1>1, AtStep DEF Afters, Trimming
  <2> HIDE DEF p, v
  <2> QED BY <1>3, <1>4, <1>5, <2>1 DEF Moves, Handover
<1>7. reduced' \in BOOLEAN /\ lastGeneration' \in Nat /\ lastTotal' \in Nat
  BY DEF IInv, CacheOK, CountersOK
<1> HIDE DEF p, v
<1> QED BY <1>2, <1>6, <1>7, ControlOnly

-----------------------------------------------------------------------------
(* The inductive invariant holds at first and is kept, one lemma per action.   *)
LEMMA InitOK == Init => IInv
<1> SUFFICES ASSUME Init PROVE IInv
  OBVIOUS
<1>1. CountersOK
  BY DEF Init, CountersOK
<1>2. CacheOK
  <2>1. 0 \in 0..MaxMetadata /\ 0 \in 0..MaxRing
    BY BudgetAssumption
  <2>2. lru \in Seq(Bitmaps) /\ \A i, j \in DOMAIN lru : lru[i] = lru[j] => i = j
    BY DEF Init
  <2>3. held \in [Threads -> SUBSET Bitmaps] /\ reduced \in BOOLEAN
    BY DEF Init
  <2>4. metadata \in [Threads -> 0..MaxMetadata] /\ ring \in 0..MaxRing
    BY <2>1 DEF Init
  <2> QED BY <2>2, <2>3, <2>4 DEF CacheOK
<1>3. ControlOK
  BY BudgetAssumption DEF Init, ControlOK, Steps, Afters, Locals, Nothing, Trimming,
     Role, Enforcing, Nested
<1>4. WorkOK
  BY DEF Init, WorkOK, ChangesOK, Stages
<1>5. \A t \in Threads : Inserting(t) /\ Covered(t)
  BY DEF Init, Inserting, Covered, Owning, Nothing
<1>6. Apart
  BY DEF Init, Apart, Nothing
<1> QED BY <1>1, <1>2, <1>3, <1>4, <1>5, <1>6 DEF IInv

\* What a step that changes no lease leaves alone.
LEMMA Kept ==
  ASSUME IInv
  PROVE  /\ total \in Nat /\ bytes["GlyphBitmap"] \in Nat /\ generation \in Nat
         /\ lastGeneration \in Nat /\ lastTotal \in Nat
         /\ reduced \in BOOLEAN
         /\ Budget \in Nat /\ BitmapLimit \in Nat /\ ReducedLimit \in Nat
  BY BudgetAssumption DEF IInv, CountersOK, CacheOK, Categories

LEMMA ReadHeadroomTotalOK ==
  ASSUME IInv, NEW t \in Threads, ReadHeadroomTotal(t)
  PROVE  IInv'
<1> DEFINE v == [seen[t] EXCEPT !.total = total]
<1>1. At(t, "headroom")
  BY DEF ReadHeadroomTotal
<1>2. v \in Locals /\ v.bitmap = {}
  BY <1>1, AtStep, Kept DEF Locals
<1>3. seen' = [seen EXCEPT ![t] = v]
  BY DEF ReadHeadroomTotal
<1>4. Moves(t, "limit", after[t], v)
  <2> HIDE DEF v
  <2> QED BY <1>1, <1>3, AtStep DEF ReadHeadroomTotal, Goto, Moves, Handover, cache,
             stamps, other, Role, Trimming, Enforcing, Nested
<1>5. "limit" \in Steps \ {"built", "insert"} /\ after[t] \in Afters /\ update[t] = <<>>
  BY <1>1, AtStep DEF Steps
<1>6. /\ UNCHANGED <<counters, lru, held, metadata, ring, work>>
      /\ reduced' \in BOOLEAN /\ lastGeneration' \in Nat /\ lastTotal' \in Nat
  BY Kept DEF ReadHeadroomTotal, cache, stamps, other
<1> HIDE DEF v
<1> QED BY <1>2, <1>4, <1>5, <1>6, ControlOnly

LEMMA ReadHeadroomCategoryOK ==
  ASSUME IInv, NEW t \in Threads, ReadHeadroomCategory(t)
  PROVE  IInv'
<1> DEFINE n == ResolveHeadroom(seen[t].total, bytes["GlyphBitmap"], Limit)
           v == [seen[t] EXCEPT !.limit = n]
<1>1. At(t, "limit")
  BY DEF ReadHeadroomCategory
<1>2. n \in Nat
  <2>1. seen[t].total \in Nat /\ Limit \in Nat
    BY <1>1, AtStep, Kept DEF Locals, Limit
  <2>2. \A x, y, z \in Nat : ResolveHeadroom(x, y, z) \in Nat
    BY Kept DEF ResolveHeadroom, Smaller
  <2> QED BY <2>1, <2>2, Kept
<1>3. v \in Locals /\ v.bitmap = {}
  <2> HIDE DEF n
  <2> QED BY <1>1, <1>2, AtStep DEF Locals
<1>4. seen' = [seen EXCEPT ![t] = v]
  BY DEF ReadHeadroomCategory
<1>5. Moves(t, "trim", after[t], v)
  <2> HIDE DEF v, n
  <2> QED BY <1>1, <1>4, AtStep DEF ReadHeadroomCategory, Goto, Moves, Handover,
             cache, stamps, other, Role, Trimming, Enforcing, Nested
<1>6. "trim" \in Steps \ {"built", "insert"} /\ after[t] \in Afters /\ update[t] = <<>>
  BY <1>1, AtStep DEF Steps
<1>7. /\ UNCHANGED <<counters, lru, held, metadata, ring, work>>
      /\ reduced' \in BOOLEAN /\ lastGeneration' \in Nat /\ lastTotal' \in Nat
  <2> HIDE DEF v, n
  <2> QED BY Kept DEF ReadHeadroomCategory, cache, stamps, other
<1> HIDE DEF v
<1> QED BY <1>3, <1>5, <1>6, <1>7, ControlOnly

LEMMA UnlockRingOK ==
  ASSUME IInv, NEW t \in Threads, UnlockRing(t)
  PROVE  IInv'
<1>1. At(t, "unlockRing")
  BY DEF UnlockRing
<1> QED BY <1>1, AtStep, ResumeOK DEF UnlockRing, Nested, cache, stamps

LEMMA SetBitmapCacheReducedAfterPrewarmOK ==
  ASSUME IInv, NEW t \in Threads, SetBitmapCacheReducedAfterPrewarm(t)
  PROVE  IInv'
<1>1. At(t, "idle")
  BY DEF SetBitmapCacheReducedAfterPrewarm
<1>2. Moves(t, "headroom", "idle", seen[t])
  BY <1>1, AtStep DEF SetBitmapCacheReducedAfterPrewarm, StartTrim, Goto, Moves,
     Handover, stamps, other, Role, Trimming, Enforcing, Nested
<1>3. reduced' \in BOOLEAN
  BY DEF SetBitmapCacheReducedAfterPrewarm
<1>4. /\ "headroom" \in Steps \ {"built", "insert"} /\ "idle" \in Afters
      /\ seen[t] \in Locals /\ seen[t].bitmap = {} /\ update[t] = <<>>
  BY <1>1, AtStep DEF Steps, Afters
<1>5. /\ UNCHANGED <<counters, lru, held, metadata, ring, work>>
      /\ lastGeneration' \in Nat /\ lastTotal' \in Nat
  BY Kept DEF SetBitmapCacheReducedAfterPrewarm, stamps, other
<1> QED BY <1>2, <1>3, <1>4, <1>5, ControlOnly

LEMMA TrimFreeTypeCpuCachesOK ==
  ASSUME IInv, NEW t \in Threads, TrimFreeTypeCpuCaches(t)
  PROVE  IInv'
<1>1. At(t, "trimFreeType")
  BY DEF TrimFreeTypeCpuCaches
<1>2. Moves(t, "headroom", "stampGeneration", seen[t])
  BY <1>1, AtStep DEF TrimFreeTypeCpuCaches, StartTrim, Goto, Moves,
     Handover, stamps, other, Role, Trimming, Enforcing, Nested
<1>3. /\ UNCHANGED <<counters, lru, held, metadata, ring, work>>
      /\ reduced' \in BOOLEAN /\ lastGeneration' \in Nat /\ lastTotal' \in Nat
  BY Kept DEF TrimFreeTypeCpuCaches, stamps, other
<1>4. /\ "headroom" \in Steps \ {"built", "insert"} /\ "stampGeneration" \in Afters
      /\ seen[t] \in Locals /\ seen[t].bitmap = {} /\ update[t] = <<>>
  BY <1>1, AtStep DEF Steps, Afters
<1> QED BY <1>2, <1>3, <1>4, ControlOnly

\* A step of the enforcement that neither trims nor ends the call.
LEMMA EnforceStep ==
  ASSUME IInv, NEW t \in Threads, NEW step, At(t, step),
         step \notin Trimming \cup {"unlockRing"},
         NEW p \in Steps \ (Trimming \cup {"built", "unlockRing"}),
         NEW v \in Locals, v.bitmap = {}, Role(enforcer', t, p, "idle"),
         Handover(enforcer, enforcer', t),
         pc' = [pc EXCEPT ![t] = p], seen' = [seen EXCEPT ![t] = v],
         UNCHANGED <<counters, cache, other, after, work>>,
         lastGeneration' \in Nat, lastTotal' \in Nat
  PROVE  IInv'
<1>1. after[t] = "idle"
  BY AtStep DEF Role, Nested, Trimming
<1>2. Moves(t, p, "idle", v)
  BY <1>1, AtStep DEF Moves, Handover, cache, other
<1>3. p \in Steps \ {"built", "insert"} /\ "idle" \in Afters /\ update[t] = <<>>
  BY AtStep DEF Trimming, Afters
<1>4. /\ UNCHANGED <<counters, lru, held, metadata, ring, work>>
      /\ reduced' \in BOOLEAN
  BY Kept DEF cache, other
<1> QED BY <1>2, <1>3, <1>4, ControlOnly

LEMMA ReadTotalOK ==
  ASSUME IInv, NEW t \in Threads, ReadTotal(t)
  PROVE  IInv'
<1>1. PICK step \in {"idle", "claimed"} : At(t, step)
  BY DEF ReadTotal
<1>2. step \notin Trimming \cup {"unlockRing"}
  BY DEF Trimming
<1>3. lastGeneration' \in Nat /\ lastTotal' \in Nat
  BY Kept DEF ReadTotal
<1>4. UNCHANGED <<counters, cache, other, after, work>>
  BY DEF ReadTotal
<1>5. CASE total <= Budget
  <2>1. Nothing \in Locals /\ Nothing.bitmap = {}
    BY DEF Nothing, Locals
  <2>2. /\ pc' = [pc EXCEPT ![t] = "idle"] /\ seen' = [seen EXCEPT ![t] = Nothing]
        /\ enforcer' = IF enforcer = t THEN NoThread ELSE enforcer
    BY <1>5 DEF ReadTotal, NothingToDo, Return, Goto
  <2>3. Role(enforcer', t, "idle", "idle") /\ Handover(enforcer, enforcer', t)
    BY <1>1, <2>2, AtStep DEF Role, Enforcing, Nested, Handover
  <2> QED BY <1>1, <1>2, <1>3, <1>4, <2>1, <2>2, <2>3, EnforceStep
          DEF Steps, Trimming
<1>6. CASE ~(total <= Budget)
  <2> DEFINE v == [seen[t] EXCEPT !.total = total]
  <2>1. v \in Locals /\ v.bitmap = {}
    BY <1>1, AtStep, Kept DEF Locals
  <2>2. /\ pc' = [pc EXCEPT ![t] = "generation"] /\ seen' = [seen EXCEPT ![t] = v]
        /\ enforcer' = enforcer
    BY <1>6 DEF ReadTotal, Goto
  <2>3. Role(enforcer', t, "generation", "idle") /\ Handover(enforcer, enforcer', t)
    BY <2>2 DEF Role, Enforcing, Nested, Handover
  <2> HIDE DEF v
  <2> QED BY <1>1, <1>2, <1>3, <1>4, <2>1, <2>2, <2>3, EnforceStep
          DEF Steps, Trimming
<1> QED BY <1>5, <1>6

LEMMA ReadGenerationOK ==
  ASSUME IInv, NEW t \in Threads, ReadGeneration(t)
  PROVE  IInv'
<1> DEFINE v == [seen[t] EXCEPT !.generation = generation]
<1>1. At(t, "generation")
  BY DEF ReadGeneration
<1>2. v \in Locals /\ v.bitmap = {}
  BY <1>1, AtStep, Kept DEF Locals
<1>3. /\ pc' = [pc EXCEPT ![t] = "compare"] /\ seen' = [seen EXCEPT ![t] = v]
      /\ enforcer' = enforcer
  BY DEF ReadGeneration, Goto, stamps
<1>4. Role(enforcer', t, "compare", "idle") /\ Handover(enforcer, enforcer', t)
  BY <1>3 DEF Role, Enforcing, Nested, Handover
<1>5. lastGeneration' \in Nat /\ lastTotal' \in Nat
  BY Kept DEF ReadGeneration, stamps
<1> HIDE DEF v
<1> QED BY <1>1, <1>2, <1>3, <1>4, <1>5, EnforceStep
        DEF ReadGeneration, Steps, Trimming

\* A check that goes on leaves the locals and the flag alone.
LEMMA NextCheckOK ==
  ASSUME IInv, NEW t \in Threads, NEW step \in {"compare", "compareTotal"},
         At(t, step), NEW p \in {"compareTotal", "trimRing", "claim"},
         p = "trimRing" => enforcer = t, p = "claim" => enforcer # t,
         NextCheck(t, p),
         UNCHANGED <<counters, lastGeneration, lastTotal, cache, other, after, work>>
  PROVE  IInv'
<1>1. /\ pc' = [pc EXCEPT ![t] = p] /\ seen' = [seen EXCEPT ![t] = seen[t]]
      /\ enforcer' = enforcer
  BY AtStep DEF NextCheck, Goto
<1>2. Role(enforcer', t, p, "idle") /\ Handover(enforcer, enforcer', t)
  BY <1>1 DEF Role, Enforcing, Nested, Handover
<1>3. lastGeneration' \in Nat /\ lastTotal' \in Nat
  BY Kept
<1>4. seen[t] \in Locals /\ seen[t].bitmap = {}
  BY AtStep
<1> QED BY <1>1, <1>2, <1>3, <1>4, EnforceStep DEF Steps, Trimming

LEMMA ProceedOK ==
  ASSUME IInv, NEW t \in Threads, NEW step \in {"compare", "compareTotal"},
         At(t, step), Proceed(t),
         UNCHANGED <<counters, lastGeneration, lastTotal, cache, other, after, work>>
  PROVE  IInv'
  BY NextCheckOK DEF Proceed

LEMMA CompareGenerationOK ==
  ASSUME IInv, NEW t \in Threads, CompareGeneration(t)
  PROVE  IInv'
  BY NextCheckOK, ProceedOK DEF CompareGeneration

LEMMA CompareTotalOK ==
  ASSUME IInv, NEW t \in Threads, CompareTotal(t)
  PROVE  IInv'
<1>1. CASE lastTotal = seen[t].total
  <2>1. Nothing \in Locals /\ Nothing.bitmap = {}
    BY DEF Nothing, Locals
  <2>2. /\ pc' = [pc EXCEPT ![t] = "idle"] /\ seen' = [seen EXCEPT ![t] = Nothing]
        /\ enforcer' = IF enforcer = t THEN NoThread ELSE enforcer
    BY <1>1 DEF CompareTotal, NothingToDo, Return, Goto
  <2>3. Role(enforcer', t, "idle", "idle") /\ Handover(enforcer, enforcer', t)
    BY <2>2, BudgetAssumption DEF Role, Enforcing, Nested, Handover
  <2>4. lastGeneration' \in Nat /\ lastTotal' \in Nat
    BY Kept DEF CompareTotal
  <2> QED BY <2>1, <2>2, <2>3, <2>4, EnforceStep DEF CompareTotal, Steps, Trimming
<1>2. CASE lastTotal # seen[t].total
  BY <1>2, ProceedOK DEF CompareTotal
<1> QED BY <1>1, <1>2

LEMMA ClaimEnforcementOK ==
  ASSUME IInv, NEW t \in Threads, ClaimEnforcement(t)
  PROVE  IInv'
<1> DEFINE p == IF enforcer = NoThread THEN "claimed" ELSE "idle"
<1>1. At(t, "claim")
  BY DEF ClaimEnforcement
<1>2. Nothing \in Locals /\ Nothing.bitmap = {}
  BY DEF Nothing, Locals
<1>3. /\ pc' = [pc EXCEPT ![t] = p] /\ seen' = [seen EXCEPT ![t] = Nothing]
      /\ enforcer' = IF enforcer = NoThread THEN t ELSE enforcer
  BY DEF ClaimEnforcement, Goto
<1>4. Role(enforcer', t, p, "idle") /\ Handover(enforcer, enforcer', t)
  BY <1>1, <1>3, AtStep DEF Role, Enforcing, Nested, Handover
<1>5. lastGeneration' \in Nat /\ lastTotal' \in Nat
  BY Kept DEF ClaimEnforcement
<1> QED BY <1>1, <1>2, <1>3, <1>4, <1>5, EnforceStep
        DEF ClaimEnforcement, Steps, Trimming

LEMMA StampGenerationOK ==
  ASSUME IInv, NEW t \in Threads, StampGeneration(t)
  PROVE  IInv'
<1>1. At(t, "stampGeneration")
  BY DEF StampGeneration
<1>2. /\ pc' = [pc EXCEPT ![t] = "stampTotal"] /\ seen' = [seen EXCEPT ![t] = seen[t]]
      /\ enforcer' = enforcer
  BY <1>1, AtStep DEF StampGeneration, Goto
<1>3. Role(enforcer', t, "stampTotal", "idle") /\ Handover(enforcer, enforcer', t)
  BY <1>1, <1>2, AtStep DEF Role, Enforcing, Nested, Handover
<1>4. lastGeneration' \in Nat /\ lastTotal' \in Nat
  BY Kept DEF StampGeneration
<1>5. seen[t] \in Locals /\ seen[t].bitmap = {}
  BY <1>1, AtStep
<1> QED BY <1>1, <1>2, <1>3, <1>4, <1>5, EnforceStep
        DEF StampGeneration, Steps, Trimming

LEMMA StampTotalOK ==
  ASSUME IInv, NEW t \in Threads, StampTotal(t)
  PROVE  IInv'
<1>1. At(t, "stampTotal")
  BY DEF StampTotal
<1>2. /\ pc' = [pc EXCEPT ![t] = "release"] /\ seen' = [seen EXCEPT ![t] = seen[t]]
      /\ enforcer' = enforcer
  BY <1>1, AtStep DEF StampTotal, Goto
<1>3. Role(enforcer', t, "release", "idle") /\ Handover(enforcer, enforcer', t)
  BY <1>1, <1>2, AtStep DEF Role, Enforcing, Nested, Handover
<1>4. lastGeneration' \in Nat /\ lastTotal' \in Nat
  BY Kept DEF StampTotal
<1>5. seen[t] \in Locals /\ seen[t].bitmap = {}
  BY <1>1, AtStep
<1> QED BY <1>1, <1>2, <1>3, <1>4, <1>5, EnforceStep
        DEF StampTotal, Steps, Trimming

LEMMA ReleaseEnforcementOK ==
  ASSUME IInv, NEW t \in Threads, ReleaseEnforcement(t)
  PROVE  IInv'
<1>1. At(t, "release")
  BY DEF ReleaseEnforcement
<1>2. Nothing \in Locals /\ Nothing.bitmap = {}
  BY DEF Nothing, Locals
<1>3. /\ pc' = [pc EXCEPT ![t] = "idle"] /\ seen' = [seen EXCEPT ![t] = Nothing]
      /\ enforcer' = NoThread
  BY DEF ReleaseEnforcement, Return, Goto
<1>4. Role(enforcer', t, "idle", "idle") /\ Handover(enforcer, enforcer', t)
  BY <1>1, <1>3, AtStep DEF Role, Enforcing, Nested, Handover
<1>5. lastGeneration' \in Nat /\ lastTotal' \in Nat
  BY Kept DEF ReleaseEnforcement
<1> QED BY <1>1, <1>2, <1>3, <1>4, <1>5, EnforceStep
        DEF ReleaseEnforcement, Steps, Trimming

\* A list of one change, and of two.
One(ch, u)    == ch \in Seq(Changes) /\ Len(ch) = 1 /\ ch[1] = u
Two(ch, u, w) == ch \in Seq(Changes) /\ Len(ch) = 2 /\ ch[1] = u /\ ch[2] = w

LEMMA Lists ==
  ASSUME NEW u \in Changes, NEW w \in Changes
  PROVE  /\ One(<<u>>, u) /\ One(<<u>> \o <<>>, u) /\ One(<<>> \o <<u>>, u)
         /\ Two(<<u>> \o <<w>>, u, w)
<1>1. One(<<u>>, u) /\ One(<<u>> \o <<>>, u)
  BY DEF One
<1>2. One(<<>> \o <<u>>, u)
  BY DEF One
<1>3. Two(<<u>> \o <<w>>, u, w)
  BY DEF Two
<1> QED BY <1>1, <1>2, <1>3

LEMMA ListsOK ==
  /\ \A ch : \A u \in Changes : u.amount >= 1 /\ One(ch, u) => ChangesOK(ch)
  /\ \A ch : \A u, w \in Changes :
         u.amount >= 1 /\ w.amount >= 1 /\ ~u.adds /\ Two(ch, u, w) => ChangesOK(ch)
<1>1. ASSUME NEW ch, NEW u \in Changes, u.amount >= 1, One(ch, u)
      PROVE  ChangesOK(ch)
  BY <1>1 DEF One, ChangesOK
<1>2. ASSUME NEW ch, NEW u \in Changes, NEW w \in Changes, u.amount >= 1,
             w.amount >= 1, ~u.adds, Two(ch, u, w)
      PROVE  ChangesOK(ch)
  <2>1. \A i \in DOMAIN ch : i = 1 \/ i = 2
    BY <1>2 DEF Two
  <2> QED BY <1>2, <2>1 DEF Two, ChangesOK
<1> QED BY <1>1, <1>2

\* Bitmaps are leased and released one byte at a time.
LEMMA BitmapChanges ==
  LET u == Add("GlyphBitmap", 1)
      w == Remove("GlyphBitmap", 1)
  IN  /\ u \in Changes /\ w \in Changes
      /\ One(<<u>>, u) /\ ChangesOK(<<u>>)
      /\ One(<<w>>, w) /\ ChangesOK(<<w>>)
      /\ One(<<w>> \o <<>>, w) /\ ChangesOK(<<w>> \o <<>>)
      /\ Two(<<w>> \o <<w>>, w, w) /\ ChangesOK(<<w>> \o <<w>>)
<1> DEFINE u == Add("GlyphBitmap", 1)
           w == Remove("GlyphBitmap", 1)
<1>1. /\ u \in Changes /\ w \in Changes /\ u.amount >= 1 /\ w.amount >= 1 /\ ~w.adds
  BY DEF Add, Remove, Changes, Categories
<1> HIDE DEF u, w
<1>2. /\ One(<<u>>, u) /\ One(<<w>>, w) /\ One(<<w>> \o <<>>, w)
      /\ Two(<<w>> \o <<w>>, w, w)
  BY <1>1, Lists
<1>3. /\ ChangesOK(<<u>>) /\ ChangesOK(<<w>>) /\ ChangesOK(<<w>> \o <<>>)
      /\ ChangesOK(<<w>> \o <<w>>)
  BY <1>1, <1>2, ListsOK
<1> QED BY <1>1, <1>2, <1>3 DEF u, w

\* Metadata is released as it was leased and leased anew.
LEMMA ResetLeaseIs ==
  ASSUME NEW m \in Nat, NEW n \in Nat
  PROVE  LET ch == ResetLease("RuntimeMetadata", m, n)
             u  == Remove("RuntimeMetadata", m)
             w  == Add("RuntimeMetadata", n)
         IN  /\ u \in Changes /\ w \in Changes
             /\ m = n => ch = <<>>
             /\ m # n /\ m = 0 => One(ch, w)
             /\ m # n /\ n = 0 => One(ch, u)
             /\ m # n /\ m # 0 /\ n # 0 => Two(ch, u, w)
<1> DEFINE u == Remove("RuntimeMetadata", m)
           w == Add("RuntimeMetadata", n)
<1>1. u \in Changes /\ w \in Changes
  BY DEF Add, Remove, Changes, Categories
<1>2. ResetLease("RuntimeMetadata", m, n) =
        IF m = n THEN <<>>
        ELSE (IF m = 0 THEN <<>> ELSE <<u>>) \o (IF n = 0 THEN <<>> ELSE <<w>>)
  BY DEF ResetLease
<1> HIDE DEF u, w
<1>3. LET ch == ResetLease("RuntimeMetadata", m, n)
      IN  /\ m = n => ch = <<>>
          /\ m # n /\ m = 0 => One(ch, w)
          /\ m # n /\ n = 0 => One(ch, u)
          /\ m # n /\ m # 0 /\ n # 0 => Two(ch, u, w)
  BY <1>1, <1>2, Lists
<1> QED BY <1>1, <1>3 DEF u, w

LEMMA ResetLeaseOK ==
  ASSUME NEW m \in Nat, NEW n \in Nat, NEW ch,
         ch = ResetLease("RuntimeMetadata", m, n)
  PROVE  /\ ChangesOK(ch)
         /\ \A i \in DOMAIN ch : ch[i].category = "RuntimeMetadata"
                                 /\ (ch[i].adds => ch[i].amount = n)
<1> DEFINE u  == Remove("RuntimeMetadata", m)
           w  == Add("RuntimeMetadata", n)
<1>1. /\ u \in Changes /\ w \in Changes
      /\ m = n => ch = <<>>
      /\ m # n /\ m = 0 => One(ch, w)
      /\ m # n /\ n = 0 => One(ch, u)
      /\ m # n /\ m # 0 /\ n # 0 => Two(ch, u, w)
  BY ResetLeaseIs
<1>2. /\ u.amount = m /\ ~u.adds /\ u.category = "RuntimeMetadata"
      /\ w.amount = n /\ w.adds /\ w.category = "RuntimeMetadata"
  BY DEF Add, Remove
<1> HIDE DEF u, w
<1>3. CASE m = n
  BY <1>1, <1>3, NoChanges
<1>4. CASE m # n /\ m = 0
  BY <1>1, <1>2, <1>4, ListsOK DEF One
<1>5. CASE m # n /\ n = 0
  BY <1>1, <1>2, <1>5, ListsOK DEF One
<1>6. CASE m # n /\ m # 0 /\ n # 0
  <2>1. ChangesOK(ch)
    BY <1>1, <1>2, <1>6, ListsOK
  <2>2. \A i \in DOMAIN ch : i = 1 \/ i = 2
    BY <1>1, <1>6 DEF Two
  <2> QED BY <1>1, <1>2, <1>6, <2>1, <2>2 DEF Two
<1> QED BY <1>3, <1>4, <1>5, <1>6

-----------------------------------------------------------------------------
\* A bitmap nobody refers to is built, under the mutex or by a helper.
LEMMA BuiltOK ==
  ASSUME IInv, NEW t \in Threads, NEW b \in Bitmaps, NEW p \in Owning,
         At(t, "idle"), ~Alive(b),
         IF p = "insert" THEN lock = NoThread /\ lock' = t ELSE lock' = lock,
         held' = [held EXCEPT ![t] = @ \cup {b}],
         Does(t, <<Add("GlyphBitmap", 1)>>),
         seen' = [seen EXCEPT ![t].bitmap = {b}], Goto(t, p),
         UNCHANGED <<counters, stamps, lru, reduced, other, after>>
  PROVE  IInv'
<1> DEFINE ch == <<Add("GlyphBitmap", 1)>>
           v == [seen[t] EXCEPT !.bitmap = {b}]
<1>1. /\ seen' = [seen EXCEPT ![t] = v] /\ Does(t, ch)
      /\ pc' = [pc EXCEPT ![t] = p] /\ ~InCache(b)
  BY DEF Goto, Alive
<1>2. v \in Locals /\ v.bitmap = {b}
  BY AtStep DEF Locals
<1> HIDE DEF v, ch
<1>3. Moves(t, p, "idle", v)
  BY <1>1, AtStep DEF Owning, Moves, Handover, stamps, other, Role, Trimming, Enforcing,
     Nested
<1>4. CountersOK' /\ CacheOK'
  BY DEF IInv, CountersOK, CacheOK, counters, stamps, other
<1>5. ChangesOK(ch)
  BY BitmapChanges DEF ch
<1>6. Inserting(t)'
  <2>1. pc'[t] = p /\ seen'[t] = v /\ b \in held'[t] /\ lru' = lru
    BY <1>1 DEF IInv, ControlOK, CacheOK
  <2> QED BY <1>1, <1>2, <2>1 DEF Inserting, InCache
<1>7. Covered(t)'
  <2>1. pc'[t] = p /\ update'[t] = ch
    BY <1>1 DEF IInv, ControlOK, WorkOK, Does
  <2>2. \A i \in DOMAIN ch : ch[i].category = "GlyphBitmap" /\ ch[i].amount = 1
    BY DEF ch, Add
  <2> QED BY <2>1, <2>2 DEF Covered
<1>8. \A s \in Threads : s # t => held'[s] = held[s] /\ metadata'[s] = metadata[s]
  BY DEF IInv, CacheOK, other
<1>9. Entries(t) /\ Owned(t, v)
  BY <1>2, SameEntries DEF Owned
<1>10. p \in Steps /\ "idle" \in Afters /\ update[t] = <<>>
  BY AtStep DEF Owning, Steps, Afters
<1>11. lru' = lru /\ ring' = ring
  BY DEF other
<1> QED BY <1>1, <1>2, <1>3, <1>4, <1>5, <1>6, <1>7, <1>8, <1>9, <1>10, <1>11, StepOK

LEMMA BuildGlyphBitmapOK ==
  ASSUME IInv, NEW t \in Threads, NEW b \in Bitmaps, BuildGlyphBitmap(t, b)
  PROVE  IInv'
  BY BuiltOK DEF BuildGlyphBitmap, MayAllocate, Owning

LEMMA RasterizeForBatchOK ==
  ASSUME IInv, NEW t \in Threads, NEW b \in Bitmaps, RasterizeForBatch(t, b)
  PROVE  IInv'
  BY BuiltOK DEF RasterizeForBatch, MayAllocate, Owning

LEMMA LoseBatchOK ==
  ASSUME IInv, NEW t \in Threads, LoseBatch(t)
  PROVE  IInv'
<1>1. At(t, "built")
  BY DEF LoseBatch
<1>2. Nothing \in Locals /\ Nothing.bitmap = {}
  BY DEF Nothing, Locals
<1>3. /\ pc' = [pc EXCEPT ![t] = "idle"] /\ seen' = [seen EXCEPT ![t] = Nothing]
      /\ enforcer' = enforcer
  BY DEF LoseBatch, Return, Goto, stamps
<1>4. Role(enforcer', t, "idle", "idle") /\ Handover(enforcer, enforcer', t)
  BY <1>1, <1>3, AtStep DEF Role, Enforcing, Nested, Handover
<1>5. lastGeneration' \in Nat /\ lastTotal' \in Nat
  BY Kept DEF LoseBatch, stamps
<1> QED BY <1>1, <1>2, <1>3, <1>4, <1>5, EnforceStep DEF LoseBatch, Steps, Trimming

LEMMA InsertGlyphBitmapOK ==
  ASSUME IInv, NEW t \in Threads, InsertGlyphBitmap(t)
  PROVE  IInv'
<1> DEFINE ch == <<Add("GlyphBitmap", 1)>>
           v == [seen[t] EXCEPT !.bitmap = {}]
<1>1. /\ At(t, "insert") /\ lock' = lock /\ held' = held
      /\ Does(t, ch) /\ seen' = [seen EXCEPT ![t] = v]
      /\ pc' = [pc EXCEPT ![t] = "headroom"] /\ after' = [after EXCEPT ![t] = "idle"]
      /\ UNCHANGED <<counters, stamps, reduced, other>>
  BY DEF InsertGlyphBitmap, Goto
<1>2. PICK b \in Bitmaps : b \in seen[t].bitmap /\ ~InCache(b) /\ lru' = <<b>> \o lru
  <2>1. PICK b \in seen[t].bitmap : lru' = <<b>> \o lru
    BY DEF InsertGlyphBitmap
  <2>2. Inserting(t) /\ pc[t] = "insert" /\ seen[t].bitmap \subseteq Bitmaps
    BY <1>1, AtStep DEF IInv, Locals
  <2> QED BY <2>1, <2>2 DEF Inserting, Owning
<1>3. v \in Locals /\ v.bitmap = {}
  BY <1>1, AtStep DEF Locals
<1> HIDE DEF v, ch
<1>4. Moves(t, "headroom", "idle", v)
  BY <1>1, AtStep DEF Moves, Handover, stamps, other, Role, Trimming, Enforcing, Nested
<1>5. /\ lru' \in Seq(Bitmaps) /\ Len(lru') = Len(lru) + 1 /\ lru' # <<>>
      /\ \A i, j \in DOMAIN lru' : lru'[i] = lru'[j] => i = j
      /\ Entries(t)
  <2>1. lru \in Seq(Bitmaps) /\ \A i, j \in DOMAIN lru : lru[i] = lru[j] => i = j
    BY DEF IInv, CacheOK
  <2>2. /\ lru' \in Seq(Bitmaps) /\ Len(lru') = Len(lru) + 1 /\ lru'[1] = b
        /\ \A i \in 2..Len(lru) + 1 : lru'[i] = lru[i - 1]
    BY <1>2, <2>1
  <2>3. \A i \in 2..Len(lru) + 1 : lru'[i] # b
    BY <1>2, <2>1, <2>2 DEF InCache
  <2>4. \A i, j \in 2..Len(lru) + 1 : lru'[i] = lru'[j] => i = j
    <3> SUFFICES ASSUME NEW i \in 2..Len(lru) + 1, NEW j \in 2..Len(lru) + 1,
                        lru[i - 1] = lru[j - 1]
                 PROVE  i = j
      BY <2>2
    <3>1. i - 1 \in DOMAIN lru /\ j - 1 \in DOMAIN lru
      BY <2>1
    <3>2. i - 1 = j - 1
      BY <2>1, <3>1
    <3> QED BY <3>2
  <2>5. DOMAIN lru' = {1} \cup 2..Len(lru) + 1
    BY <2>1, <2>2
  <2>6. Entries(t)
    <3>1. \A i \in 2..Len(lru) + 1 : i - 1 \in DOMAIN lru
      BY <2>1
    <3>2. \A i \in 2..Len(lru) + 1 : InCache(lru'[i])
      BY <2>2, <3>1 DEF InCache
    <3> QED BY <1>2, <2>2, <2>5, <3>2 DEF Entries
  <2> HIDE DEF InCache
  <2> QED BY <2>2, <2>3, <2>4, <2>5, <2>6
<1>6. CountersOK' /\ CacheOK'
  BY <1>1, <1>5 DEF IInv, CountersOK, CacheOK, counters, stamps, other
<1>7. ChangesOK(ch)
  BY BitmapChanges DEF ch
<1>8. Inserting(t)'
  <2>1. pc'[t] = "headroom" /\ seen'[t] = v
    BY <1>1 DEF IInv, ControlOK
  <2> QED BY <1>3, <2>1 DEF Inserting, Owning
<1>9. Covered(t)'
  <2>1. pc'[t] = "headroom" /\ update'[t] = ch
    BY <1>1 DEF IInv, ControlOK, WorkOK, Does
  <2>2. \A i \in DOMAIN ch : ch[i].category = "GlyphBitmap" /\ ch[i].amount = 1
    BY DEF ch, Add
  <2> QED BY <1>5, <2>1, <2>2 DEF Covered
<1>10. lock \in {t, NoThread}
  BY <1>1, AtStep DEF Trimming
<1>11. Owned(t, v)
  BY <1>3, SameEntries
<1> QED BY <1>1, <1>3, <1>4, <1>5, <1>6, <1>7, <1>8, <1>9, <1>10, <1>11, AtStep, StepOK
        DEF Steps, Afters, other

\* The bitmap found moves to the front: the cache holds the same bitmaps.
In(s, b) == \E i \in DOMAIN s : s[i] = b
MovedToFront(q, s, k) ==
  q = <<s[k]>> \o SubSeq(s, 1, k - 1) \o SubSeq(s, k + 1, Len(s))

LEMMA MovedToFrontIs ==
  ASSUME NEW s \in Seq(Bitmaps), NEW k \in DOMAIN s, NEW q, MovedToFront(q, s, k)
  PROVE  /\ q \in Seq(Bitmaps) /\ Len(q) = Len(s)
         /\ \A i \in 1..Len(s) :
                q[i] = s[IF i = 1 THEN k ELSE IF i <= k THEN i - 1 ELSE i]
         /\ \A c : In(q, c) <=> In(s, c)
<1> DEFINE b == s[k]
           Was(i) == IF i = 1 THEN k ELSE IF i <= k THEN i - 1 ELSE i
<1>1. /\ q \in Seq(Bitmaps) /\ Len(q) = Len(s)
      /\ \A i \in 1..Len(s) : q[i] = s[Was(i)] /\ Was(i) \in 1..Len(s)
  <2>1. k \in 1..Len(s) /\ Len(s) \in Nat
    OBVIOUS
  <2> DEFINE x == SubSeq(s, 1, k - 1)
             y == SubSeq(s, k + 1, Len(s))
             z == <<b>> \o x
  <2>2. /\ x \in Seq(Bitmaps) /\ Len(x) = k - 1
        /\ \A i \in 1..k - 1 : x[i] = s[i]
    BY <2>1
  <2>3. /\ y \in Seq(Bitmaps) /\ Len(y) = Len(s) - k
        /\ \A i \in 1..Len(s) - k : y[i] = s[i + k]
    BY <2>1
  <2>4. q = z \o y
    BY DEF MovedToFront
  <2> HIDE DEF x, y
  <2>5. /\ z \in Seq(Bitmaps) /\ Len(z) = k /\ z[1] = b
        /\ \A i \in 2..k : z[i] = x[i - 1]
    BY <2>1, <2>2
  <2> HIDE DEF z
  <2>6. /\ q \in Seq(Bitmaps) /\ Len(q) = Len(s)
        /\ \A i \in 1..k : q[i] = z[i]
        /\ \A i \in k + 1..Len(s) : q[i] = y[i - k]
    BY <2>1, <2>3, <2>4, <2>5
  <2>7. ASSUME NEW i \in 1..Len(s)
        PROVE  q[i] = s[Was(i)] /\ Was(i) \in 1..Len(s)
    <3>1. CASE i = 1
      BY <2>1, <2>5, <2>6, <3>1
    <3>2. CASE i # 1 /\ i <= k
      BY <2>1, <2>2, <2>5, <2>6, <3>2
    <3>3. CASE ~(i <= k)
      <4>1. i - k \in 1..Len(s) - k /\ (i - k) + k = i /\ i \in k + 1..Len(s)
        BY <2>1, <3>3
      <4>2. q[i] = y[i - k] /\ y[i - k] = s[(i - k) + k]
        BY <2>3, <2>6, <4>1
      <4>3. Was(i) = i
        BY <2>1, <3>3
      <4> QED BY <4>1, <4>2, <4>3
    <3> QED BY <3>1, <3>2, <3>3
  <2> QED BY <2>6, <2>7
<1>2. \A c : In(q, c) <=> In(s, c)
  <2>1. DOMAIN q = 1..Len(s) /\ DOMAIN s = 1..Len(s)
        /\ k \in 1..Len(s) /\ Len(s) \in Nat
    BY <1>1
  <2>2. ASSUME NEW c, In(q, c) PROVE In(s, c)
    BY <1>1, <2>1, <2>2 DEF In
  <2>3. ASSUME NEW c, In(s, c) PROVE In(q, c)
    <3>1. PICK i \in 1..Len(s) : s[i] = c
      BY <2>1, <2>3 DEF In
    <3>2. \E j \in 1..Len(s) : Was(j) = i
      <4>1. CASE i = k
        BY <2>1, <4>1
      <4>2. CASE i < k
        <5>1. i + 1 \in 1..Len(s) /\ Was(i + 1) = i
          BY <2>1, <4>2
        <5> QED BY <5>1
      <4>3. CASE i > k
        <5>1. Was(i) = i
          BY <2>1, <4>3
        <5> QED BY <5>1
      <4> QED BY <2>1, <4>1, <4>2, <4>3
    <3> HIDE DEF Was
    <3> QED BY <1>1, <2>1, <3>1, <3>2 DEF In
  <2> QED BY <2>2, <2>3
<1> QED BY <1>1, <1>2

\* The cache stays well-formed, and holds what it held.
LEMMA TouchedOK ==
  ASSUME IInv, NEW k \in DOMAIN lru, lru' = Touched(k)
  PROVE  /\ lru' \in Seq(Bitmaps) /\ Len(lru') = Len(lru) /\ lru' # <<>>
         /\ \A i, j \in DOMAIN lru' : lru'[i] = lru'[j] => i = j
         /\ \A t \in Threads : Entries(t)
<1>3. lru \in Seq(Bitmaps) /\ \A i, j \in DOMAIN lru : lru[i] = lru[j] => i = j
  BY DEF IInv, CacheOK
<1> DEFINE Was(i) == IF i = 1 THEN k ELSE IF i <= k THEN i - 1 ELSE i
<1>4. /\ lru' \in Seq(Bitmaps) /\ Len(lru') = Len(lru)
      /\ \A i \in 1..Len(lru) : lru'[i] = lru[Was(i)] /\ Was(i) \in 1..Len(lru)
  <2>1. k \in 1..Len(lru) /\ Len(lru) \in Nat
    BY <1>3
  <2>2. \A i \in 1..Len(lru) : Was(i) \in 1..Len(lru)
    BY <2>1
  <2>3. MovedToFront(lru', lru, k)
    BY DEF MovedToFront, Touched
  <2> QED BY <1>3, <2>2, <2>3, MovedToFrontIs
<1>1. DOMAIN lru' = 1..Len(lru) /\ DOMAIN lru = 1..Len(lru)
  BY <1>3, <1>4
<1>5. \A i, j \in DOMAIN lru' : lru'[i] = lru'[j] => i = j
  <2> SUFFICES ASSUME NEW i \in 1..Len(lru), NEW j \in 1..Len(lru),
                      lru'[i] = lru'[j]
               PROVE  i = j
    BY <1>1
  <2>2. Was(i) = Was(j)
    <3>1. /\ lru[Was(i)] = lru[Was(j)]
          /\ Was(i) \in DOMAIN lru /\ Was(j) \in DOMAIN lru
      BY <1>1, <1>4
    <3> HIDE DEF Was
    <3> QED BY <1>3, <3>1
  <2>3. k \in 1..Len(lru) /\ Len(lru) \in Nat
    BY <1>3
  <2> QED BY <2>2, <2>3
<1>6. \A t \in Threads : Entries(t)
  <2> HIDE DEF Was
  <2> QED BY <1>1, <1>4 DEF Entries, InCache
<1>7. lru' # <<>>
  BY <1>3, <1>4
<1> QED BY <1>4, <1>5, <1>6, <1>7

LEMMA FindCachedGlyphBitmapOK ==
  ASSUME IInv, NEW t \in Threads, NEW b \in Bitmaps, FindCachedGlyphBitmap(t, b)
  PROVE  IInv'
<1>1. /\ At(t, "idle") /\ lock = NoThread
      /\ held' = [held EXCEPT ![t] = @ \cup {b}]
      /\ UNCHANGED <<counters, stamps, reduced, lock, other, control, work>>
  BY DEF FindCachedGlyphBitmap
<1>2. PICK k \in DOMAIN lru : lru' = Touched(k)
  BY DEF FindCachedGlyphBitmap
<1>3. /\ lru' \in Seq(Bitmaps) /\ Entries(t)
      /\ \A i, j \in DOMAIN lru' : lru'[i] = lru'[j] => i = j
  BY <1>2, TouchedOK
<1>6. CountersOK' /\ CacheOK'
  BY <1>1, <1>3 DEF IInv, CountersOK, CacheOK, counters, stamps, other
<1>7. Moves(t, "idle", "idle", seen[t])
  BY <1>1, AtStep DEF Moves, Handover, stamps, other, control, Role, Nested, Trimming
<1>8. ChangesOK(<<>>) /\ Does(t, <<>>) /\ update'[t] = <<>>
  BY <1>1, AtStep, NoChanges DEF IInv, work
<1>9. Inserting(t)' /\ Covered(t)'
  BY <1>1, <1>8, AtStep DEF Inserting, Covered, Owning, control
<1>10. \A s \in Threads : s # t => held'[s] = held[s] /\ metadata'[s] = metadata[s]
  BY <1>1 DEF IInv, CacheOK, other
<1>11. Owned(t, seen[t])
  BY SameEntries
<1> QED BY <1>1, <1>3, <1>6, <1>7, <1>8, <1>9, <1>10, <1>11, AtStep, StepOK
        DEF Steps, Afters, other

\* The batch's thread takes the mutex again, and its glyph is new or found.
LEMMA InsertBatchOK ==
  ASSUME IInv, NEW t \in Threads, InsertBatch(t)
  PROVE  IInv'
<1>1. /\ At(t, "built") /\ lock = NoThread /\ lock' = t
      /\ UNCHANGED <<counters, stamps, reduced, other, after, work>>
  BY DEF InsertBatch
<1>2. /\ ChangesOK(<<>>) /\ Does(t, <<>>) /\ update'[t] = <<>>
      /\ \A s \in Threads : s # t => metadata'[s] = metadata[s]
      /\ ring' = ring /\ after[t] = "idle" /\ Covered(t)'
  <2>1. after[t] = "idle"
    BY <1>1, AtStep DEF Role, Nested
  <2>2. update'[t] = <<>>
    BY <1>1, AtStep DEF work
  <2> QED BY <1>1, <2>1, <2>2, AtStep, NoChanges DEF IInv, other, Covered, work
<1>3. CASE Goto(t, "insert") /\ UNCHANGED <<lru, held, seen>>
  <2>1. Moves(t, "insert", "idle", seen[t])
    BY <1>1, <1>2, <1>3, AtStep DEF Goto, Moves, Handover, stamps, other, Role, Trimming,
       Enforcing, Nested
  <2>2. CountersOK' /\ CacheOK'
    BY <1>1, <1>3 DEF IInv, CountersOK, CacheOK, counters, stamps, other
  <2>3. Inserting(t)'
    BY <1>1, <1>3 DEF IInv, Inserting, InCache, Owning, At, ControlOK, Goto
  <2>4. Entries(t) /\ Owned(t, seen[t])
    BY <1>3, SameEntries
  <2> QED BY <1>1, <1>2, <1>3, <2>1, <2>2, <2>3, <2>4, AtStep, StepOK DEF Steps, Afters
<1>4. CASE /\ \E i \in DOMAIN lru :
                  /\ lru' = Touched(i)
                  /\ held' = [held EXCEPT ![t] = @ \cup {lru[i]}]
           /\ seen' = [seen EXCEPT ![t].bitmap = {}]
           /\ Goto(t, "headroom")
  <2> DEFINE v == [seen[t] EXCEPT !.bitmap = {}]
  <2>1. PICK k \in DOMAIN lru : /\ lru' = Touched(k)
                                /\ held' = [held EXCEPT ![t] = @ \cup {lru[k]}]
    BY <1>4
  <2>2. /\ lru' \in Seq(Bitmaps) /\ Entries(t)
        /\ \A i, j \in DOMAIN lru' : lru'[i] = lru'[j] => i = j
    BY <2>1, TouchedOK
  <2>8. /\ held' \in [Threads -> SUBSET Bitmaps]
        /\ \A s \in Threads : s # t => held'[s] = held[s]
    <3>1. lru[k] \in Bitmaps /\ held \in [Threads -> SUBSET Bitmaps]
      BY <2>1 DEF IInv, CacheOK
    <3> QED BY <2>1, <3>1
  <2>3. v \in Locals /\ v.bitmap = {} /\ seen' = [seen EXCEPT ![t] = v]
        /\ pc' = [pc EXCEPT ![t] = "headroom"]
    BY <1>1, <1>4, AtStep DEF Locals, Goto
  <2> HIDE DEF v
  <2>4. Moves(t, "headroom", "idle", v)
    BY <1>1, <1>2, <2>3, AtStep DEF Moves, Handover, stamps, other, Role, Trimming,
       Enforcing, Nested
  <2>5. CountersOK' /\ CacheOK'
    BY <1>1, <2>2, <2>8 DEF IInv, CountersOK, CacheOK, counters, stamps, other
  <2>6. Inserting(t)'
    BY <2>3 DEF IInv, ControlOK, Inserting, Owning
  <2>7. Owned(t, v)
    BY <2>3, SameEntries
  <2> QED BY <1>1, <1>2, <2>2, <2>3, <2>4, <2>5, <2>6, <2>7, <2>8, AtStep, StepOK
          DEF Steps, Afters
<1> QED BY <1>3, <1>4 DEF InsertBatch

LEMMA DropBitmapOK ==
  ASSUME IInv, NEW t \in Threads, NEW b \in Bitmaps, DropBitmap(t, b)
  PROVE  IInv'
<1>1. /\ At(t, "idle") /\ held' = [held EXCEPT ![t] = @ \ {b}]
      /\ UNCHANGED <<counters, stamps, lru, reduced, lock, other, control>>
  BY DEF DropBitmap
<1>2. PICK ch \in {<<>>, <<Remove("GlyphBitmap", 1)>>} : Does(t, ch)
  BY DEF DropBitmap
<1>3. ChangesOK(ch) /\ \A i \in DOMAIN ch : ~ch[i].adds
  <2>1. CASE ch = <<>>
    BY <2>1, NoChanges
  <2>2. CASE ch = <<Remove("GlyphBitmap", 1)>>
    <3>1. ChangesOK(ch) /\ One(ch, Remove("GlyphBitmap", 1))
      BY <2>2, BitmapChanges
    <3>2. ~Remove("GlyphBitmap", 1).adds
      BY DEF Remove
    <3> QED BY <3>1, <3>2 DEF One
  <2> QED BY <2>1, <2>2
<1>4. CountersOK' /\ CacheOK'
  BY <1>1 DEF IInv, CountersOK, CacheOK, counters, stamps, other
<1>5. Moves(t, "idle", "idle", seen[t])
  BY <1>1, AtStep DEF Moves, Handover, stamps, other, control, Role, Nested, Trimming
<1>6. update'[t] = ch
  BY <1>2 DEF IInv, WorkOK, Does
<1>7. Inserting(t)' /\ Covered(t)'
  BY <1>1, <1>3, <1>6, AtStep DEF Inserting, Covered, Owning, control
<1>8. \A s \in Threads : s # t => held'[s] = held[s] /\ metadata'[s] = metadata[s]
  BY <1>1 DEF IInv, CacheOK, other
<1>9. Entries(t) /\ Owned(t, seen[t])
  BY <1>1, SameEntries
<1> QED BY <1>1, <1>2, <1>3, <1>4, <1>5, <1>7, <1>8, <1>9, AtStep, StepOK
        DEF Steps, Afters, other

LEMMA ResizeMetadataOK ==
  ASSUME IInv, NEW t \in Threads, NEW n \in 0..MaxMetadata, ResizeMetadata(t, n)
  PROVE  IInv'
<1> DEFINE ch == ResetLease("RuntimeMetadata", metadata[t], n)
<1>1. /\ At(t, "idle") /\ metadata' = [metadata EXCEPT ![t] = n] /\ Does(t, ch)
      /\ UNCHANGED <<counters, stamps, cache, ring, ringLock, control>>
  BY DEF ResizeMetadata
<1>2. MaxMetadata \in Nat /\ metadata \in [Threads -> 0..MaxMetadata]
  BY BudgetAssumption DEF IInv, CacheOK
<1>3. /\ ChangesOK(ch)
      /\ \A i \in DOMAIN ch : /\ ch[i].category = "RuntimeMetadata"
                              /\ ch[i].adds => ch[i].amount = n
  BY <1>2, ResetLeaseOK
<1> HIDE DEF ch
<1>4. CountersOK' /\ CacheOK'
  BY <1>1 DEF IInv, CountersOK, CacheOK, counters, stamps, cache
<1>5. Moves(t, "idle", "idle", seen[t])
  BY <1>1, AtStep DEF Moves, Handover, stamps, cache, control, Role, Nested, Trimming
<1>6. update'[t] = ch /\ metadata'[t] = n
  BY <1>1, <1>2 DEF IInv, WorkOK, Does
<1>7. Inserting(t)' /\ Covered(t)'
  BY <1>1, <1>3, <1>6, AtStep DEF Inserting, Covered, Owning, control
<1>8. \A s \in Threads : s # t => held'[s] = held[s] /\ metadata'[s] = metadata[s]
  BY <1>1, <1>2 DEF cache
<1>9. Entries(t) /\ Owned(t, seen[t])
  BY <1>1, SameEntries DEF cache
<1> QED BY <1>1, <1>3, <1>4, <1>5, <1>7, <1>8, <1>9, AtStep, StepOK
        DEF Steps, Afters, cache

LEMMA RefreshRingOK ==
  ASSUME IInv, NEW t \in Threads, NEW n \in 0..MaxRing,
         NEW step \in {"idle", "trimRing"}, At(t, step),
         NEW a \in Afters, a # "idle" <=> step = "trimRing", RefreshRing(t, n, a)
  PROVE  IInv'
<1> DEFINE ch == ResetLease("RuntimeMetadata", ring, n)
<1>1. /\ ring' = n /\ ringLock = NoThread /\ ringLock' = t /\ Does(t, ch)
      /\ pc' = [pc EXCEPT ![t] = "unlockRing"] /\ after' = [after EXCEPT ![t] = a]
      /\ UNCHANGED <<counters, stamps, cache, metadata, seen>>
  BY DEF RefreshRing, Goto
<1>2. MaxRing \in Nat /\ ring \in 0..MaxRing
  BY BudgetAssumption DEF IInv, CacheOK
<1>3. /\ ChangesOK(ch)
      /\ \A i \in DOMAIN ch : /\ ch[i].category = "RuntimeMetadata"
                              /\ ch[i].adds => ch[i].amount = n
  BY <1>2, ResetLeaseOK
<1> HIDE DEF ch
<1>4. CountersOK' /\ CacheOK'
  BY <1>1 DEF IInv, CountersOK, CacheOK, counters, stamps, cache
<1>5. Moves(t, "unlockRing", a, seen[t])
  BY <1>1, AtStep DEF Moves, Handover, stamps, cache, Role, Nested, Trimming, Enforcing
<1>6. update'[t] = ch /\ pc'[t] = "unlockRing" /\ seen' = seen
  BY <1>1 DEF IInv, WorkOK, ControlOK, Does
<1>7. Inserting(t)' /\ Covered(t)'
  BY <1>1, <1>3, <1>6, AtStep DEF Inserting, Covered, Owning
<1>8. held' = held /\ metadata' = metadata /\ lru' = lru
  BY <1>1 DEF cache
<1>9. Entries(t) /\ Owned(t, seen[t])
  BY <1>8, SameEntries
<1> QED BY <1>1, <1>3, <1>4, <1>5, <1>7, <1>8, <1>9, AtStep, StepOK DEF Steps

LEMMA UseRingOK ==
  ASSUME IInv, NEW t \in Threads, UseRing(t)
  PROVE  IInv'
  BY RefreshRingOK DEF UseRing, MayAllocate, Afters

LEMMA TrimNativeFontCpuCachesOK ==
  ASSUME IInv, NEW t \in Threads, TrimNativeFontCpuCaches(t)
  PROVE  IInv'
<1>1. At(t, "trimRing")
  BY DEF TrimNativeFontCpuCaches
<1>2. PICK n \in 0..ring : RefreshRing(t, n, "trimFreeType")
  BY DEF TrimNativeFontCpuCaches
<1>3. n \in 0..MaxRing
  BY BudgetAssumption DEF IInv, CacheOK
<1> QED BY <1>1, <1>2, <1>3, RefreshRingOK DEF Afters

LEMMA EvictOK ==
  ASSUME IInv, NEW t \in Threads, NEW step \in {"trim", "trimTotal"}, At(t, step),
         lru # <<>>, Evict(t), UNCHANGED <<counters, stamps, other>>
  PROVE  IInv'
<1>1. /\ lru' = SubSeq(lru, 1, Len(lru) - 1) /\ pc' = [pc EXCEPT ![t] = "trim"]
      /\ UNCHANGED <<reduced, lock, held, after, seen>>
  BY DEF Evict, Goto
<1>2. PICK ch \in {<<Remove("GlyphBitmap", 1)>> \o <<>>,
                   <<Remove("GlyphBitmap", 1)>> \o <<Remove("GlyphBitmap", 1)>>} :
        Does(t, ch)
  BY DEF Evict
<1>3. ChangesOK(ch) /\ \A i \in DOMAIN ch : ~ch[i].adds
  <2>1. ASSUME NEW u, ~u.adds, One(ch, u) \/ Two(ch, u, u)
        PROVE  \A i \in DOMAIN ch : ~ch[i].adds
    <3>1. \A i \in DOMAIN ch : i = 1 \/ (i = 2 /\ Two(ch, u, u))
      BY <2>1 DEF One, Two
    <3> QED BY <2>1, <3>1 DEF One, Two
  <2>2. /\ ChangesOK(ch) /\ ~Remove("GlyphBitmap", 1).adds
        /\ \/ One(ch, Remove("GlyphBitmap", 1))
           \/ Two(ch, Remove("GlyphBitmap", 1), Remove("GlyphBitmap", 1))
    BY BitmapChanges DEF Remove
  <2> QED BY <2>1, <2>2
<1>4. CountersOK' /\ CacheOK'
  <2>1. lru \in Seq(Bitmaps) /\ \A i, j \in DOMAIN lru : lru[i] = lru[j] => i = j
    BY DEF IInv, CacheOK
  <2>2. /\ lru' \in Seq(Bitmaps) /\ \A i \in DOMAIN lru' : lru'[i] = lru[i]
        /\ DOMAIN lru' \subseteq DOMAIN lru
    BY <1>1, <2>1
  <2>3. \A i, j \in DOMAIN lru' : lru'[i] = lru'[j] => i = j
    BY <2>1, <2>2
  <2> QED BY <1>1, <2>2, <2>3 DEF IInv, CountersOK, CacheOK, counters, stamps, other
<1>5. Moves(t, "trim", after[t], seen[t])
  BY <1>1, AtStep DEF Moves, Handover, stamps, other, Role, Nested, Trimming, Enforcing
<1>6. update'[t] = ch /\ pc'[t] = "trim" /\ seen' = seen
  BY <1>1, <1>2 DEF IInv, WorkOK, ControlOK, Does
<1>7. Inserting(t)' /\ Covered(t)'
  BY <1>1, <1>3, <1>6, AtStep DEF Inserting, Covered, Owning
<1>8. lock = t
  BY AtStep DEF Trimming
<1>9. Entries(t) /\ Owned(t, seen[t])
  <2>1. lru \in Seq(Bitmaps)
    BY DEF IInv, CacheOK
  <2>2. /\ \A i \in DOMAIN lru' : lru'[i] = lru[i]
        /\ DOMAIN lru' \subseteq DOMAIN lru
    BY <1>1, <2>1
  <2> QED BY <2>2, SameEntries DEF Entries, InCache
<1> QED BY <1>1, <1>2, <1>3, <1>4, <1>5, <1>7, <1>8, <1>9, AtStep, StepOK
        DEF Steps, other

LEMMA TrimDoneOK ==
  ASSUME IInv, NEW t \in Threads, NEW step \in {"trim", "trimTotal"}, At(t, step),
         TrimDone(t), UNCHANGED <<counters, stamps, other>>
  PROVE  IInv'
<1>1. pc[t] \in Nested /\ pc[t] # "unlockRing" /\ update[t] = <<>>
  BY AtStep DEF Nested
<1> QED BY <1>1, ResumeOK DEF TrimDone, stamps, other

LEMMA TrimByCategoryOK ==
  ASSUME IInv, NEW t \in Threads, TrimByCategory(t)
  PROVE  IInv'
<1>1. At(t, "trim") /\ UNCHANGED <<counters, stamps, other>>
  BY DEF TrimByCategory
<1>2. CASE lru # <<>> /\ Evict(t)
  BY <1>1, <1>2, EvictOK
<1>3. CASE TrimDone(t)
  BY <1>1, <1>3, TrimDoneOK
<1>4. CASE Goto(t, "trimTotal") /\ UNCHANGED <<cache, after, seen, work>>
  <2>1. Moves(t, "trimTotal", after[t], seen[t])
    BY <1>1, <1>4, AtStep DEF Goto, Moves, Handover, cache, stamps, other, Role,
       Trimming, Enforcing, Nested
  <2>2. /\ "trimTotal" \in Steps \ {"built", "insert"} /\ after[t] \in Afters
        /\ seen[t] \in Locals /\ seen[t].bitmap = {} /\ update[t] = <<>>
    BY <1>1, AtStep DEF Steps
  <2>3. /\ UNCHANGED <<counters, lru, held, metadata, ring, work>>
        /\ reduced' \in BOOLEAN /\ lastGeneration' \in Nat /\ lastTotal' \in Nat
    BY <1>1, <1>4, Kept DEF cache, stamps, other
  <2> QED BY <2>1, <2>2, <2>3, ControlOnly
<1> QED BY <1>2, <1>3, <1>4 DEF TrimByCategory

LEMMA TrimByTotalOK ==
  ASSUME IInv, NEW t \in Threads, TrimByTotal(t)
  PROVE  IInv'
<1>1. At(t, "trimTotal") /\ UNCHANGED <<counters, stamps, other>>
  BY DEF TrimByTotal
<1>2. CASE lru # <<>> /\ Evict(t)
  BY <1>1, <1>2, EvictOK
<1>3. CASE TrimDone(t)
  BY <1>1, <1>3, TrimDoneOK
<1> QED BY <1>2, <1>3 DEF TrimByTotal

-----------------------------------------------------------------------------
(* Applying a lease change, one counter at a time.                             *)
LEMMA HeadOK ==
  ASSUME IInv, NEW t \in Threads, update[t] # <<>>
  PROVE  LET u == Head(update[t])
         IN  /\ u \in Changes /\ u = update[t][1] /\ u.amount >= 1
             /\ u.category \in Categories /\ u.amount \in Nat /\ u.adds \in BOOLEAN
             /\ bytes[u.category] \in Nat /\ 1 \in DOMAIN update[t]
             /\ Tail(update[t]) \in Seq(Changes)
             /\ Len(update[t]) \in {1, 2} /\ Len(Tail(update[t])) = Len(update[t]) - 1
             /\ 2 \in DOMAIN update[t] => Tail(update[t])[1] = update[t][2]
             /\ 1 \in DOMAIN Tail(update[t]) => 2 \in DOMAIN update[t]
             /\ 2 \notin DOMAIN Tail(update[t])
<1>1. /\ update[t] \in Seq(Changes) /\ Len(update[t]) <= 2
      /\ \A i \in DOMAIN update[t] : update[t][i].amount >= 1
  BY DEF IInv, WorkOK, ChangesOK
<1>2. Len(update[t]) \in {1, 2} /\ 1 \in DOMAIN update[t]
  <2>1. Len(update[t]) \in Nat /\ DOMAIN update[t] = 1..Len(update[t])
    BY <1>1
  <2>2. Len(update[t]) # 0
    BY <1>1
  <2> DEFINE n == Len(update[t])
  <2>3. n \in Nat /\ n # 0 /\ n <= 2
    BY <1>1, <2>1, <2>2
  <2> HIDE DEF n
  <2>4. (n = 1 \/ n = 2) /\ 1 \in 1..n
    BY <2>3
  <2> QED BY <2>1, <2>4 DEF n
<1>3. Head(update[t]) = update[t][1] /\ update[t][1] \in Changes
  BY <1>1, <1>2
<1>4. /\ Tail(update[t]) \in Seq(Changes)
      /\ Len(Tail(update[t])) = Len(update[t]) - 1
      /\ 2 \in DOMAIN update[t] => Tail(update[t])[1] = update[t][2]
      /\ 1 \in DOMAIN Tail(update[t]) => 2 \in DOMAIN update[t]
      /\ 2 \notin DOMAIN Tail(update[t])
  BY <1>1, <1>2
<1>5. update[t][1].category \in Categories /\ update[t][1].amount \in Nat
      /\ update[t][1].adds \in BOOLEAN
  BY <1>3 DEF Changes
<1>6. bytes[update[t][1].category] \in Nat
  BY <1>5 DEF IInv, CountersOK
<1> QED BY <1>1, <1>2, <1>3, <1>4, <1>5, <1>6

LEMMA AccountStep ==
  ASSUME IInv, NEW t \in Threads, NEW ch, ChangesOK(ch), NEW st \in Stages,
         ch = <<>> => st = "category",
         update' = [update EXCEPT ![t] = ch], stage' = [stage EXCEPT ![t] = st],
         \A i \in DOMAIN ch : ch[i].adds => \E k \in DOMAIN update[t] : ch[i] = update[t][k],
         UNCHANGED <<lastGeneration, lastTotal, enforcer, cache, other, control>>,
         CountersOK'
  PROVE  IInv'
<1>1. CacheOK' /\ ControlOK'
  BY DEF IInv, CacheOK, ControlOK, cache, other, control
<1>2. /\ update'[t] = ch /\ stage'[t] = st /\ ch \in Seq(Changes)
      /\ \A s \in Threads : s # t => update'[s] = update[s] /\ stage'[s] = stage[s]
  BY DEF IInv, WorkOK, ChangesOK
<1>3. WorkOK'
  <2>1. update' \in [Threads -> Seq(Changes)] /\ stage' \in [Threads -> Stages]
    BY <1>2 DEF IInv, WorkOK
  <2>2. \A s \in Threads : ChangesOK(update'[s])
                           /\ (update'[s] = <<>> => stage'[s] = "category")
    BY <1>2 DEF IInv, WorkOK
  <2> QED BY <2>1, <2>2 DEF WorkOK
<1>4. ASSUME NEW s \in Threads PROVE Inserting(s)' /\ Covered(s)'
  <2>1. Inserting(s) /\ Covered(s)
    BY DEF IInv
  <2>2. \A i \in DOMAIN update'[s] : update'[s][i].adds =>
            \E k \in DOMAIN update[s] : update'[s][i] = update[s][k]
    BY <1>2
  <2>3. Inserting(s)'
    BY <2>1 DEF Inserting, InCache, cache, control
  <2>4. Covered(s)'
    <3> SUFFICES ASSUME NEW i \in DOMAIN update'[s], update'[s][i].adds
                 PROVE  IF update'[s][i].category = "GlyphBitmap"
                        THEN /\ update'[s][i].amount = 1
                             /\ pc[s] \in Owning \/ (pc[s] = "headroom" /\ lru # <<>>)
                        ELSE update'[s][i].amount =
                               IF pc[s] = "unlockRing" THEN ring ELSE metadata[s]
      BY DEF Covered, cache, other, control
    <3> QED BY <2>1, <2>2 DEF Covered
  <2> QED BY <2>3, <2>4
<1>5. Apart'
  BY DEF IInv, Apart, control
<1> QED BY <1>1, <1>3, <1>4, <1>5 DEF IInv

LEMMA TailOK ==
  ASSUME IInv, NEW t \in Threads, update[t] # <<>>
  PROVE  /\ ChangesOK(Tail(update[t]))
         /\ \A i \in DOMAIN Tail(update[t]) :
                \E k \in DOMAIN update[t] : Tail(update[t])[i] = update[t][k]
<1> DEFINE ch == Tail(update[t])
<1>1. /\ ch \in Seq(Changes) /\ Len(ch) <= 1
      /\ 1 \in DOMAIN ch => 2 \in DOMAIN update[t] /\ ch[1] = update[t][2]
      /\ 2 \notin DOMAIN ch
  BY HeadOK
<1>2. \A i \in DOMAIN update[t] : update[t][i].amount >= 1
  BY DEF IInv, WorkOK, ChangesOK
<1> HIDE DEF ch
<1>3. \A i \in DOMAIN ch : i = 1
  BY <1>1
<1>4. ChangesOK(ch)
  BY <1>1, <1>2, <1>3 DEF ChangesOK
<1> QED BY <1>1, <1>3, <1>4 DEF ch

LEMMA AccountCategoryOK ==
  ASSUME IInv, NEW t \in Threads, AccountCategory(t)
  PROVE  IInv'
<1> DEFINE u == Head(update[t])
           e == Effect(u)
<1>1. /\ update[t] # <<>> /\ stage[t] = "category"
      /\ bytes' = [bytes EXCEPT ![u.category] = Applied(u, @)]
      /\ UNCHANGED <<total, generation, stamps, cache, other, control>>
  BY DEF AccountCategory
<1>2. /\ u \in Changes /\ u = update[t][1] /\ u.amount >= 1
      /\ u.category \in Categories /\ u.amount \in Nat /\ u.adds \in BOOLEAN
      /\ bytes[u.category] \in Nat
  BY <1>1, HeadOK
<1>3. CountersOK'
  <2>1. Applied(u, bytes[u.category]) \in Nat
    <3> HIDE DEF u
    <3> QED BY <1>2 DEF Applied, Saturating
  <2> HIDE DEF u
  <2> QED BY <1>1, <1>2, <2>1 DEF IInv, CountersOK, stamps
<1>4. e \in Changes /\ (e.amount # 0 => e.amount >= 1) /\ e.adds = u.adds
      /\ (u.adds => e = u)
  <2> HIDE DEF u
  <2>1. Smaller(u.amount, bytes[u.category]) \in Nat
    BY <1>2 DEF Smaller
  <2>2. CASE u.adds
    BY <1>2, <2>2 DEF Effect
  <2>3. CASE ~u.adds
    <3>1. e = [u EXCEPT !.amount = Smaller(u.amount, bytes[u.category])]
      BY <2>3 DEF Effect
    <3> HIDE DEF e
    <3>2. e \in Changes /\ e.adds = u.adds
      BY <1>2, <2>1, <3>1 DEF Changes
    <3>3. e.amount \in Nat
      BY <3>2 DEF Changes
    <3> QED BY <2>3, <3>2, <3>3
  <2> QED BY <2>2, <2>3
<1>5. CASE e.amount = 0
  <2>1. update' = [update EXCEPT ![t] = Tail(update[t])]
        /\ stage' = [stage EXCEPT ![t] = "category"]
    <3>1. stage' = stage
      BY <1>5 DEF AccountCategory
    <3>2. stage = [stage EXCEPT ![t] = "category"]
      BY <1>1 DEF IInv, WorkOK
    <3> QED BY <1>5, <3>1, <3>2 DEF AccountCategory
  <2>2. UNCHANGED <<lastGeneration, lastTotal, enforcer, cache, other, control>>
    BY <1>1 DEF stamps
  <2>3. PICK ch : ch = Tail(update[t])
    OBVIOUS
  <2>4. /\ ChangesOK(ch) /\ update' = [update EXCEPT ![t] = ch]
        /\ stage' = [stage EXCEPT ![t] = "category"]
        /\ \A i \in DOMAIN ch : \E k \in DOMAIN update[t] : ch[i] = update[t][k]
    BY <1>1, <2>1, <2>3, TailOK
  <2> HIDE DEF u, e
  <2> QED BY <1>3, <2>2, <2>4, AccountStep DEF Stages
<1>6. CASE e.amount # 0
  <2> DEFINE ch == [update[t] EXCEPT ![1] = e]
  <2>1. update' = [update EXCEPT ![t] = ch] /\ stage' = [stage EXCEPT ![t] = "total"]
    <3>1. update' = [update EXCEPT ![t][1] = e]
      BY <1>6 DEF AccountCategory
    <3> HIDE DEF e
    <3> QED BY <1>6, <3>1 DEF AccountCategory, e
  <2>2. ChangesOK(update[t])
    BY DEF IInv, WorkOK
  <2> HIDE DEF e, u
  <2>3. /\ ch \in Seq(Changes) /\ Len(ch) = Len(update[t])
        /\ DOMAIN ch = DOMAIN update[t] /\ ch[1] = e
        /\ \A i \in DOMAIN ch : i # 1 => ch[i] = update[t][i]
    BY <1>1, <1>4, <2>2 DEF ChangesOK
  <2> HIDE DEF ch
  <2>4. ChangesOK(ch)
    BY <1>2, <1>4, <1>6, <2>2, <2>3 DEF ChangesOK
  <2>5. \A i \in DOMAIN ch : ch[i].adds => \E k \in DOMAIN update[t] : ch[i] = update[t][k]
    BY <1>2, <1>4, <2>3
  <2>6. ch # <<>>
    BY <1>1, <2>2, <2>3 DEF ChangesOK
  <2> QED BY <1>1, <1>3, <2>1, <2>4, <2>5, <2>6, AccountStep DEF Stages, stamps
<1> QED BY <1>5, <1>6

LEMMA AccountTotalOK ==
  ASSUME IInv, NEW t \in Threads, AccountTotal(t)
  PROVE  IInv'
<1> DEFINE u == Head(update[t])
<1>1. /\ update[t] # <<>> /\ total' = Applied(u, total)
      /\ stage' = [stage EXCEPT ![t] = "generation"]
      /\ UNCHANGED <<bytes, generation, update, stamps, cache, other, control>>
  BY DEF AccountTotal
<1>2. u.amount \in Nat /\ total \in Nat
  BY <1>1, HeadOK, Kept
<1>3. Applied(u, total) \in Nat
  <2> HIDE DEF u
  <2> QED BY <1>2 DEF Applied, Saturating
<1>4. CountersOK'
  BY <1>1, <1>3 DEF IInv, CountersOK, stamps
<1>5. ChangesOK(update[t]) /\ update' = [update EXCEPT ![t] = update[t]]
  BY <1>1 DEF IInv, WorkOK
<1> QED BY <1>1, <1>4, <1>5, AccountStep DEF Stages, stamps

LEMMA AccountGenerationOK ==
  ASSUME IInv, NEW t \in Threads, AccountGeneration(t)
  PROVE  IInv'
<1>1. /\ update[t] # <<>> /\ generation' = generation + 1
      /\ stage' = [stage EXCEPT ![t] = "category"]
      /\ update' = [update EXCEPT ![t] = Tail(update[t])]
      /\ UNCHANGED <<bytes, total, stamps, cache, other, control>>
  BY DEF AccountGeneration
<1>2. CountersOK'
  BY <1>1 DEF IInv, CountersOK, stamps
<1>3. UNCHANGED <<lastGeneration, lastTotal, enforcer, cache, other, control>>
  BY <1>1 DEF stamps
<1>4. PICK ch : ch = Tail(update[t])
  OBVIOUS
<1>5. /\ ChangesOK(ch) /\ update' = [update EXCEPT ![t] = ch]
      /\ stage' = [stage EXCEPT ![t] = "category"]
      /\ \A i \in DOMAIN ch : \E k \in DOMAIN update[t] : ch[i] = update[t][k]
  BY <1>1, <1>4, TailOK
<1> QED BY <1>2, <1>3, <1>5, AccountStep DEF Stages

\* The inductive invariant is kept by every step.
LEMMA IInvKept == IInv /\ [Next]_vars => IInv'
<1> SUFFICES ASSUME IInv, [Next]_vars PROVE IInv'
  OBVIOUS
<1>1. ASSUME NEW t \in Threads, Account(t) PROVE IInv'
  BY <1>1, AccountCategoryOK, AccountTotalOK, AccountGenerationOK DEF Account
<1>2. ASSUME NEW t \in Threads, Use(t) PROVE IInv'
  BY <1>2, BuildGlyphBitmapOK, RasterizeForBatchOK, InsertBatchOK, LoseBatchOK,
     FindCachedGlyphBitmapOK, DropBitmapOK,
     InsertGlyphBitmapOK, ResizeMetadataOK, UseRingOK,
     SetBitmapCacheReducedAfterPrewarmOK DEF Use
<1>3. ASSUME NEW t \in Threads, Trim(t) PROVE IInv'
  BY <1>3, ReadHeadroomTotalOK, ReadHeadroomCategoryOK, TrimByCategoryOK,
     TrimByTotalOK, UnlockRingOK DEF Trim
<1>4. ASSUME NEW t \in Threads, Enforce(t) PROVE IInv'
  BY <1>4, ReadTotalOK, ReadGenerationOK, CompareGenerationOK, CompareTotalOK,
     ClaimEnforcementOK, TrimNativeFontCpuCachesOK, TrimFreeTypeCpuCachesOK,
     StampGenerationOK, StampTotalOK, ReleaseEnforcementOK DEF Enforce, Check
<1>5. CASE UNCHANGED vars
  <2>1. CountersOK'
    BY <1>5 DEF IInv, vars, counters, stamps, CountersOK
  <2>2. CacheOK'
    BY <1>5 DEF IInv, vars, cache, other, CacheOK
  <2>3. ControlOK'
    BY <1>5 DEF IInv, vars, stamps, cache, other, control, ControlOK
  <2>4. WorkOK'
    BY <1>5 DEF IInv, vars, work, WorkOK
  <2>5. \A t \in Threads : Inserting(t)'
    BY <1>5 DEF IInv, vars, cache, control, Inserting, InCache
  <2>6. \A t \in Threads : Covered(t)'
    BY <1>5 DEF IInv, vars, cache, other, control, work, Covered
  <2>7. Apart'
    BY <1>5 DEF IInv, vars, control, Apart
  <2> QED BY <2>1, <2>2, <2>3, <2>4, <2>5, <2>6, <2>7 DEF IInv
<1> QED BY <1>1, <1>2, <1>3, <1>4, <1>5 DEF Next

-----------------------------------------------------------------------------
(* Sums of what the threads still have to apply, and of what is leased.        *)
Both(ch, c, adds) == Part(ch, 1, c, adds) + Part(ch, 2, c, adds)
Dones == {{"total", "generation"}, {"generation"}}
\* What one change adds to, or removes from, a category.
Bytes(u, c, adds) == IF u.category = c /\ u.adds = adds THEN u.amount ELSE 0

LEMMA Parts ==
  ASSUME NEW c, NEW adds
  PROVE  /\ Both(<<>>, c, adds) = 0
         /\ \A ch : ch \in Seq(Changes) =>
                /\ Part(ch, 1, c, adds) \in Nat /\ Part(ch, 2, c, adds) \in Nat
                /\ Both(ch, c, adds) \in Nat
<1>1. ASSUME NEW ch \in Seq(Changes)
      PROVE  /\ Part(ch, 1, c, adds) \in Nat /\ Part(ch, 2, c, adds) \in Nat
             /\ Both(ch, c, adds) \in Nat
  <2>1. \A i \in DOMAIN ch : ch[i].amount \in Nat
    <3>1. \A i \in DOMAIN ch : ch[i] \in Changes
      OBVIOUS
    <3> QED BY <3>1 DEF Changes
  <2>2. Part(ch, 1, c, adds) \in Nat /\ Part(ch, 2, c, adds) \in Nat
    BY <2>1 DEF Part
  <2> QED BY <2>2 DEF Both
<1>2. Both(<<>>, c, adds) = 0
  BY DEF Both, Part
<1> QED BY <1>1, <1>2

LEMMA BothOne ==
  ASSUME NEW ch, NEW u, One(ch, u), NEW c, NEW adds
  PROVE  Both(ch, c, adds) = Bytes(u, c, adds)
<1>1. Part(ch, 1, c, adds) = Bytes(u, c, adds) /\ Part(ch, 2, c, adds) = 0
  BY DEF One, Part, Bytes
<1>2. Part(ch, 1, c, adds) \in Nat
  BY Parts DEF One
<1> QED BY <1>1, <1>2 DEF Both

LEMMA BothTwo ==
  ASSUME NEW ch, NEW u, NEW w, Two(ch, u, w), NEW c, NEW adds
  PROVE  Both(ch, c, adds) = Bytes(u, c, adds) + Bytes(w, c, adds)
  BY DEF Two, Part, Both, Bytes

LEMMA DueNat ==
  ASSUME WorkOK, NEW t \in Threads, NEW c, NEW adds, NEW done
  PROVE  Due(t, c, adds, done) \in Nat
<1>1. update[t] \in Seq(Changes)
  BY DEF WorkOK
<1>2. Part(update[t], 1, c, adds) \in Nat /\ Part(update[t], 2, c, adds) \in Nat
  BY <1>1, Parts
<1> QED BY <1>2 DEF Due

\* Only what t has to apply changes.
LEMMA OutstandingChange ==
  ASSUME WorkOK, WorkOK', NEW t \in Threads, NEW c, NEW adds, NEW done,
         \A s \in Threads : s # t => update'[s] = update[s] /\ stage'[s] = stage[s]
  PROVE  /\ Outstanding(c, adds, done) \in Nat /\ Outstanding(c, adds, done)' \in Nat
         /\ Due(t, c, adds, done) \in Nat /\ Due(t, c, adds, done)' \in Nat
         /\ Outstanding(c, adds, done) + Due(t, c, adds, done)'
              = Outstanding(c, adds, done)' + Due(t, c, adds, done)
<1> DEFINE f == [s \in Threads |-> Due(s, c, adds, done)]
           h == [s \in Threads |-> Due(s, c, adds, done)']
<1>1. \A s \in Threads : Due(s, c, adds, done) \in Nat /\ Due(s, c, adds, done)' \in Nat
  <2>1. \A s \in Threads : Due(s, c, adds, done) \in Nat
    BY DueNat
  <2>2. \A s \in Threads : Due(s, c, adds, done)' \in Nat
    <3> SUFFICES ASSUME NEW s \in Threads PROVE Due(s, c, adds, done)' \in Nat
      OBVIOUS
    <3>1. update'[s] \in Seq(Changes)
      BY DEF WorkOK
    <3>2. /\ Part(update'[s], 1, c, adds) \in Nat
          /\ Part(update'[s], 2, c, adds) \in Nat
      BY <3>1, Parts
    <3> QED BY <3>2 DEF Due
  <2> QED BY <2>1, <2>2
<1>2. f \in [Threads -> Nat] /\ h \in [Threads -> Nat]
  BY <1>1
<1>3. \A s \in Threads : s # t => h[s] = f[s]
  BY DEF Due
<1>4. f[t] = Due(t, c, adds, done) /\ h[t] = Due(t, c, adds, done)'
  OBVIOUS
<1>5. Outstanding(c, adds, done) = Sum(f, Threads)
      /\ Outstanding(c, adds, done)' = Sum(h, Threads)
  BY DEF Outstanding
<1> HIDE DEF f, h
<1>6. /\ Sum(f, Threads) \in Nat /\ Sum(h, Threads) \in Nat
      /\ Sum(f, Threads) + h[t] = Sum(h, Threads) + f[t]
  BY <1>2, <1>3, SumChange, BudgetAssumption
<1> QED BY <1>1, <1>4, <1>5, <1>6

LEMMA OutstandingNat ==
  ASSUME WorkOK, NEW c, NEW adds, NEW done
  PROVE  /\ Outstanding(c, adds, done) \in Nat
         /\ \A t \in Threads : Due(t, c, adds, done) <= Outstanding(c, adds, done)
<1> DEFINE f == [s \in Threads |-> Due(s, c, adds, done)]
<1>1. f \in [Threads -> Nat] /\ \A s \in Threads : f[s] = Due(s, c, adds, done)
  BY DueNat
<1>2. Outstanding(c, adds, done) = Sum(f, Threads)
  BY DEF Outstanding
<1> HIDE DEF f
<1>3. \A t \in Threads : Sum(f, Threads) \in Nat /\ f[t] <= Sum(f, Threads)
  BY <1>1, SumTerm, BudgetAssumption
<1>4. Sum(f, Threads) \in Nat
  BY <1>1, SumMonotone, BudgetAssumption
<1> QED BY <1>1, <1>2, <1>3, <1>4

LEMMA LiveFinite ==
  IsFiniteSet(Live) /\ Cardinality(Live) \in Nat
<1>1. IsFiniteSet(Live)
  BY FS_Subset, BudgetAssumption DEF Live
<1> QED BY <1>1, FS_CardinalityType

LEMMA MetadataSum ==
  ASSUME CacheOK
  PROVE  /\ metadata \in [Threads -> Nat] /\ ring \in Nat
         /\ Sum(metadata, Threads) \in Nat
<1>1. metadata \in [Threads -> Nat] /\ ring \in Nat
  BY BudgetAssumption DEF CacheOK
<1>2. \A s \in Threads : metadata[s] <= metadata[s]
  BY <1>1
<1> QED BY <1>1, <1>2, SumMonotone, BudgetAssumption

LEMMA LeasedNat ==
  ASSUME CacheOK, NEW c
  PROVE  Leased(c) \in Nat
<1>1. Len(lru) \in Nat
  BY DEF CacheOK
<1> QED BY <1>1, LiveFinite, MetadataSum DEF Leased

LEMMA LeasedNats == CacheOK => \A c : Leased(c) \in Nat
  BY LeasedNat

LEMMA LeasedNatsNext == CacheOK' => (\A c : Leased(c) \in Nat)'
  BY LeasedNats, PTL

-----------------------------------------------------------------------------
(* The accounts balance.                                                       *)
\* One counter's account: what it holds and will be given is what is leased and
\* will be released.
Even(b, o, l, x) ==
  b \in Nat /\ o \in Nat /\ l \in Nat /\ x \in Nat /\ b + o = l + x
\* The same of the total, over the two categories.
EvenTotal(b, o, p, l, x, m, y) ==
  /\ b \in Nat /\ o \in Nat /\ p \in Nat /\ l \in Nat /\ x \in Nat
  /\ m \in Nat /\ y \in Nat
  /\ b + o + p = l + x + m + y

LEMMA EvenStep ==
  \A b, o, l, x, m, a, r :
      Even(b, o, l, x) /\ Even(m, r, l, a) => Even(b, o + a, m, x + r)
  BY DEF Even

LEMMA EvenTotalStep ==
  ASSUME NEW b, NEW o, NEW p, NEW l, NEW x, NEW m, NEW y,
         EvenTotal(b, o, p, l, x, m, y),
         NEW ll, NEW r, NEW a, Even(ll, r, l, a),
         NEW mm, NEW s, NEW c, Even(mm, s, m, c)
  PROVE  EvenTotal(b, o + a, p + c, ll, x + r, mm, y + s)
  BY DEF Even, EvenTotal

Accounts ==
  /\ \A c \in Categories :
         Even(bytes[c], Outstanding(c, TRUE, {"total", "generation"}),
              Leased(c), Outstanding(c, FALSE, {"total", "generation"}))
  /\ EvenTotal(total, Outstanding("GlyphBitmap", TRUE, {"generation"}),
               Outstanding("RuntimeMetadata", TRUE, {"generation"}),
               Leased("GlyphBitmap"), Outstanding("GlyphBitmap", FALSE, {"generation"}),
               Leased("RuntimeMetadata"),
               Outstanding("RuntimeMetadata", FALSE, {"generation"}))

LEMMA AccountsBalance == CountersOK /\ CacheOK /\ WorkOK => (AccountingBalances <=> Accounts)
<1> SUFFICES ASSUME CountersOK, CacheOK, WorkOK PROVE AccountingBalances <=> Accounts
  OBVIOUS
<1>1. /\ total \in Nat /\ \A c \in Categories : bytes[c] \in Nat
      /\ \A c : Leased(c) \in Nat
      /\ \A c, adds, done : Outstanding(c, adds, done) \in Nat
  BY LeasedNat, OutstandingNat DEF CountersOK
<1> QED BY <1>1 DEF AccountingBalances, Accounts, Even, EvenTotal

LEMMA AccountsBalanceNext ==
  CountersOK' /\ CacheOK' /\ WorkOK' => (AccountingBalances' <=> Accounts')
  BY AccountsBalance, PTL

\* A step that changes the lease of t, and what it will apply, by the same bytes.
LeasesMove(ch) ==
  \A c \in Categories : Even(Leased(c)', Both(ch, c, FALSE), Leased(c), Both(ch, c, TRUE))

LEMMA LeaseStep ==
  ASSUME IInv, IInv', AccountingBalances, NEW t \in Threads, update[t] = <<>>,
         NEW ch, ChangesOK(ch), Does(t, ch), UNCHANGED <<bytes, total>>, LeasesMove(ch)
  PROVE  AccountingBalances'
<1>1. /\ WorkOK /\ WorkOK' /\ Accounts
      /\ Accounts' => AccountingBalances'
  BY AccountsBalance, AccountsBalanceNext DEF IInv
<1>2. /\ update'[t] = ch /\ stage' = stage /\ stage[t] = "category" /\ ch \in Seq(Changes)
      /\ \A s \in Threads : s # t => update'[s] = update[s] /\ stage'[s] = stage[s]
  BY <1>1 DEF WorkOK, Does, ChangesOK
<1>3. ASSUME NEW c, NEW adds, NEW done \in Dones
      PROVE  Outstanding(c, adds, done)' = Outstanding(c, adds, done) + Both(ch, c, adds)
  <2>1. "category" \notin done
    BY DEF Dones
  <2>2. Due(t, c, adds, done) = 0
    <3>1. Due(t, c, adds, done) = Both(<<>>, c, adds)
      BY <1>2, <2>1 DEF Due, Both
    <3> QED BY <3>1, Parts
  <2>3. Due(t, c, adds, done)' = Both(ch, c, adds)
    BY <1>2, <2>1 DEF Due, Both
  <2>4. Both(ch, c, adds) \in Nat
    BY <1>2, Parts
  <2>5. /\ Outstanding(c, adds, done) \in Nat /\ Outstanding(c, adds, done)' \in Nat
        /\ Outstanding(c, adds, done) + Due(t, c, adds, done)'
             = Outstanding(c, adds, done)' + Due(t, c, adds, done)
    BY <1>1, <1>2, OutstandingChange
  <2> QED BY <2>2, <2>3, <2>4, <2>5
<1>4. {"total", "generation"} \in Dones /\ {"generation"} \in Dones
  BY DEF Dones
<1>5. ASSUME NEW c \in Categories
      PROVE  Even(bytes'[c], Outstanding(c, TRUE, {"total", "generation"})',
                  Leased(c)', Outstanding(c, FALSE, {"total", "generation"})')
  <2>1. Even(bytes[c],
             Outstanding(c, TRUE, {"total", "generation"}) + Both(ch, c, TRUE),
             Leased(c)',
             Outstanding(c, FALSE, {"total", "generation"}) + Both(ch, c, FALSE))
    BY <1>1, EvenStep DEF Accounts, LeasesMove
  <2>2. /\ Outstanding(c, TRUE, {"total", "generation"})'
             = Outstanding(c, TRUE, {"total", "generation"}) + Both(ch, c, TRUE)
        /\ Outstanding(c, FALSE, {"total", "generation"})'
             = Outstanding(c, FALSE, {"total", "generation"}) + Both(ch, c, FALSE)
        /\ bytes'[c] = bytes[c]
    BY <1>3, <1>4
  <2> QED BY <2>1, <2>2
<1>6. EvenTotal(total', Outstanding("GlyphBitmap", TRUE, {"generation"})',
               Outstanding("RuntimeMetadata", TRUE, {"generation"})',
               Leased("GlyphBitmap")', Outstanding("GlyphBitmap", FALSE, {"generation"})',
               Leased("RuntimeMetadata")',
               Outstanding("RuntimeMetadata", FALSE, {"generation"})')
  <2> DEFINE o(c) == Outstanding(c, TRUE, {"generation"})
             x(c) == Outstanding(c, FALSE, {"generation"})
             a(c) == Both(ch, c, TRUE)
             r(c) == Both(ch, c, FALSE)
  <2>1. EvenTotal(total, o("GlyphBitmap"), o("RuntimeMetadata"),
                  Leased("GlyphBitmap"), x("GlyphBitmap"),
                  Leased("RuntimeMetadata"), x("RuntimeMetadata"))
    BY <1>1 DEF Accounts
  <2>2. /\ Even(Leased("GlyphBitmap")', r("GlyphBitmap"),
                Leased("GlyphBitmap"), a("GlyphBitmap"))
        /\ Even(Leased("RuntimeMetadata")', r("RuntimeMetadata"),
                Leased("RuntimeMetadata"), a("RuntimeMetadata"))
    BY DEF LeasesMove, Categories
  <2>3. \A c : /\ Outstanding(c, TRUE, {"generation"})' = o(c) + a(c)
               /\ Outstanding(c, FALSE, {"generation"})' = x(c) + r(c)
    BY <1>3, <1>4
  <2> HIDE DEF o, x, a, r
  <2>4. EvenTotal(total, o("GlyphBitmap") + a("GlyphBitmap"),
                  o("RuntimeMetadata") + a("RuntimeMetadata"),
                  Leased("GlyphBitmap")', x("GlyphBitmap") + r("GlyphBitmap"),
                  Leased("RuntimeMetadata")', x("RuntimeMetadata") + r("RuntimeMetadata"))
    BY <2>1, <2>2, EvenTotalStep
  <2> QED BY <2>3, <2>4
<1> QED BY <1>1, <1>5, <1>6 DEF Accounts

\* A step that changes no lease and applies nothing.
LEMMA SameLeases ==
  ASSUME AccountingBalances, UNCHANGED <<bytes, total, update, stage>>,
         \A c \in Categories : Leased(c)' = Leased(c)
  PROVE  AccountingBalances'
<1>1. \A c, adds, done : Outstanding(c, adds, done)' = Outstanding(c, adds, done)
  BY DEF Outstanding, Due
<1>2. "GlyphBitmap" \in Categories /\ "RuntimeMetadata" \in Categories
  BY DEF Categories
<1> QED BY <1>1, <1>2 DEF AccountingBalances

LEMMA LeasedKept ==
  /\ UNCHANGED <<metadata, ring>> => Leased("RuntimeMetadata")' = Leased("RuntimeMetadata")
  /\ UNCHANGED <<lru, held>> => Leased("GlyphBitmap")' = Leased("GlyphBitmap")
  BY DEF Leased, Live, Alive, InCache

LEMMA Untouched ==
  ASSUME AccountingBalances,
         UNCHANGED <<bytes, total, lru, held, metadata, ring, update, stage>>
  PROVE  AccountingBalances'
<1>1. \A c \in Categories : Leased(c)' = Leased(c)
  BY LeasedKept DEF Categories
<1> QED BY <1>1, SameLeases

-----------------------------------------------------------------------------
(* The steps that change a lease.                                              *)
\* A list that adds and removes only this of the bitmaps, and no metadata.
Amounts(ch, n, k) ==
  /\ Both(ch, "GlyphBitmap", TRUE) = n /\ Both(ch, "GlyphBitmap", FALSE) = k
  /\ Both(ch, "RuntimeMetadata", TRUE) = 0 /\ Both(ch, "RuntimeMetadata", FALSE) = 0

LEMMA BitmapAmounts ==
  /\ Amounts(<<>>, 0, 0)
  /\ \A ch : One(ch, Add("GlyphBitmap", 1)) => Amounts(ch, 1, 0)
  /\ \A ch : One(ch, Remove("GlyphBitmap", 1)) => Amounts(ch, 0, 1)
  /\ \A ch : Two(ch, Remove("GlyphBitmap", 1), Remove("GlyphBitmap", 1))
                 => Amounts(ch, 0, 2)
<1> DEFINE u == Add("GlyphBitmap", 1)
           w == Remove("GlyphBitmap", 1)
<1>1. /\ Bytes(u, "GlyphBitmap", TRUE) = 1 /\ Bytes(u, "GlyphBitmap", FALSE) = 0
      /\ Bytes(u, "RuntimeMetadata", TRUE) = 0
      /\ Bytes(u, "RuntimeMetadata", FALSE) = 0
  BY DEF Add, Bytes
<1>2. /\ Bytes(w, "GlyphBitmap", TRUE) = 0 /\ Bytes(w, "GlyphBitmap", FALSE) = 1
      /\ Bytes(w, "RuntimeMetadata", TRUE) = 0
      /\ Bytes(w, "RuntimeMetadata", FALSE) = 0
  BY DEF Remove, Bytes
<1>3. Amounts(<<>>, 0, 0)
  BY Parts DEF Amounts
<1> HIDE DEF u, w
<1>4. ASSUME NEW ch, One(ch, u) PROVE Amounts(ch, 1, 0)
  <2>1. \A c, adds : Both(ch, c, adds) = Bytes(u, c, adds)
    BY <1>4, BothOne
  <2> QED BY <1>1, <2>1 DEF Amounts
<1>5. ASSUME NEW ch, One(ch, w) PROVE Amounts(ch, 0, 1)
  <2>1. \A c, adds : Both(ch, c, adds) = Bytes(w, c, adds)
    BY <1>5, BothOne
  <2> QED BY <1>2, <2>1 DEF Amounts
<1>6. ASSUME NEW ch, Two(ch, w, w) PROVE Amounts(ch, 0, 2)
  <2>1. \A c, adds : Both(ch, c, adds) = Bytes(w, c, adds) + Bytes(w, c, adds)
    BY <1>6, BothTwo
  <2>2. Both(ch, "GlyphBitmap", TRUE) = 0 + 0 /\ Both(ch, "GlyphBitmap", FALSE) = 1 + 1
    BY <1>2, <2>1
  <2>3. /\ Both(ch, "RuntimeMetadata", TRUE) = 0 + 0
        /\ Both(ch, "RuntimeMetadata", FALSE) = 0 + 0
    BY <1>2, <2>1
  <2>4. 0 + 0 = 0 /\ 1 + 1 = 2
    OBVIOUS
  <2> QED BY <2>2, <2>3, <2>4, Zenon DEF Amounts
<1> QED BY <1>3, <1>4, <1>5, <1>6 DEF u, w

\* The lease of the bitmaps and their cache entries moves by the bytes of ch.
LEMMA BitmapLease ==
  ASSUME CacheOK, CacheOK', metadata' = metadata, ring' = ring,
         NEW ch, NEW n \in Nat, NEW k \in Nat, Amounts(ch, n, k),
         Cardinality(Live') + Len(lru') + k = Cardinality(Live) + Len(lru) + n
  PROVE  LeasesMove(ch)
<1>1. Leased("GlyphBitmap") \in Nat /\ Leased("RuntimeMetadata") \in Nat
  BY LeasedNat
<1>2. (\A c : Leased(c) \in Nat)'
  BY LeasedNatsNext
<1>3. Leased("RuntimeMetadata")' = Leased("RuntimeMetadata")
  BY LeasedKept
<1>4. /\ Leased("GlyphBitmap")' = Cardinality(Live') + Len(lru')
      /\ Leased("GlyphBitmap") = Cardinality(Live) + Len(lru)
  BY DEF Leased
<1>5. Even(Leased("RuntimeMetadata")', 0, Leased("RuntimeMetadata"), 0)
  BY <1>1, <1>3 DEF Even
<1>6. Even(Leased("GlyphBitmap")', k, Leased("GlyphBitmap"), n)
  BY <1>1, <1>2, <1>4 DEF Even
<1> QED BY <1>5, <1>6 DEF LeasesMove, Categories, Amounts

\* A metadata lease of m bytes made one of n.
Resets(ch, m, n) ==
  /\ Both(ch, "RuntimeMetadata", TRUE) = n /\ Both(ch, "RuntimeMetadata", FALSE) = m
  /\ Both(ch, "GlyphBitmap", TRUE) = 0 /\ Both(ch, "GlyphBitmap", FALSE) = 0

LEMMA ResetLeaseBytes ==
  ASSUME NEW m \in Nat, NEW n \in Nat, m # n, NEW ch,
         ch = ResetLease("RuntimeMetadata", m, n)
  PROVE  Resets(ch, m, n)
<1> DEFINE u == Remove("RuntimeMetadata", m)
           w == Add("RuntimeMetadata", n)
<1>1. /\ m = 0 => One(ch, w)
      /\ n = 0 => One(ch, u)
      /\ m # 0 /\ n # 0 => Two(ch, u, w)
  BY ResetLeaseIs
<1>2. /\ Bytes(u, "RuntimeMetadata", FALSE) = m /\ Bytes(u, "RuntimeMetadata", TRUE) = 0
      /\ Bytes(u, "GlyphBitmap", FALSE) = 0 /\ Bytes(u, "GlyphBitmap", TRUE) = 0
  BY DEF Remove, Bytes
<1>3. /\ Bytes(w, "RuntimeMetadata", FALSE) = 0 /\ Bytes(w, "RuntimeMetadata", TRUE) = n
      /\ Bytes(w, "GlyphBitmap", FALSE) = 0 /\ Bytes(w, "GlyphBitmap", TRUE) = 0
  BY DEF Add, Bytes
<1> HIDE DEF u, w
<1>4. CASE m = 0
  <2>1. \A c, adds : Both(ch, c, adds) = Bytes(w, c, adds)
    BY <1>1, <1>4, BothOne
  <2> QED BY <1>3, <1>4, <2>1 DEF Resets
<1>5. CASE n = 0
  <2>1. \A c, adds : Both(ch, c, adds) = Bytes(u, c, adds)
    BY <1>1, <1>5, BothOne
  <2> QED BY <1>2, <1>5, <2>1 DEF Resets
<1>6. CASE m # 0 /\ n # 0
  <2>1. \A c, adds : Both(ch, c, adds) = Bytes(u, c, adds) + Bytes(w, c, adds)
    BY <1>1, <1>6, BothTwo
  <2>2. /\ Both(ch, "RuntimeMetadata", TRUE) = 0 + n
        /\ Both(ch, "RuntimeMetadata", FALSE) = m + 0
    BY <1>2, <1>3, <2>1
  <2>3. Both(ch, "GlyphBitmap", TRUE) = 0 + 0 /\ Both(ch, "GlyphBitmap", FALSE) = 0 + 0
    BY <1>2, <1>3, <2>1
  <2>4. 0 + 0 = 0 /\ 0 + n = n /\ m + 0 = m
    OBVIOUS
  <2> QED BY <2>2, <2>3, <2>4, Zenon DEF Resets
<1> QED BY <1>4, <1>5, <1>6

LEMMA MetadataLease ==
  ASSUME CacheOK, lru' = lru, held' = held, NEW ch, NEW m, NEW n, Resets(ch, m, n),
         Even(Leased("RuntimeMetadata")', m, Leased("RuntimeMetadata"), n)
  PROVE  LeasesMove(ch)
<1>1. Leased("GlyphBitmap")' = Leased("GlyphBitmap") /\ Leased("GlyphBitmap") \in Nat
  BY LeasedKept, LeasedNat
<1>2. Even(Leased("GlyphBitmap")', 0, Leased("GlyphBitmap"), 0)
  BY <1>1 DEF Even
<1> QED BY <1>2 DEF LeasesMove, Categories, Resets

\* A bitmap nobody refers to is leased.
Leases(t, b) ==
  /\ update[t] = <<>> /\ ~Alive(b) /\ Does(t, <<Add("GlyphBitmap", 1)>>)
  /\ held' = [held EXCEPT ![t] = @ \cup {b}]
  /\ UNCHANGED <<bytes, total, lru, metadata, ring>>

LEMMA BuiltBalances ==
  ASSUME IInv, IInv', AccountingBalances, NEW t \in Threads, NEW b \in Bitmaps,
         Leases(t, b)
  PROVE  AccountingBalances'
<1> DEFINE ch == <<Add("GlyphBitmap", 1)>>
<1>1. /\ update[t] = <<>> /\ ~Alive(b) /\ Does(t, ch)
      /\ held' = [held EXCEPT ![t] = @ \cup {b}]
      /\ UNCHANGED <<bytes, total, lru, metadata, ring>>
  BY DEF Leases
<1>2. ChangesOK(ch) /\ One(ch, Add("GlyphBitmap", 1))
  BY BitmapChanges
<1> HIDE DEF ch
<1>3. Amounts(ch, 1, 0)
  BY <1>2, BitmapAmounts
<1>4. held \in [Threads -> SUBSET Bitmaps] /\ Len(lru) \in Nat /\ CacheOK /\ CacheOK'
  BY DEF IInv, CacheOK
<1>5. Live' = Live \cup {b} /\ b \notin Live
  <2>1. \A c : InCache(c)' <=> InCache(c)
    BY <1>1 DEF InCache
  <2>2. \A s \in Threads : held'[s] = IF s = t THEN held[s] \cup {b} ELSE held[s]
    BY <1>1, <1>4
  <2>3. \A c \in Bitmaps : Alive(c)' <=> (Alive(c) \/ c = b)
    BY <2>1, <2>2 DEF Alive
  <2> QED BY <1>1, <2>3 DEF Live
<1>6. Cardinality(Live') = Cardinality(Live) + 1 /\ Cardinality(Live) \in Nat
  BY <1>5, LiveFinite, FS_AddElement
<1>7. LeasesMove(ch)
  <2>1. lru' = lru
    BY <1>1
  <2>2. Cardinality(Live') + Len(lru') + 0 = Cardinality(Live) + Len(lru) + 1
    BY <1>4, <1>6, <2>1
  <2> QED BY <1>1, <1>3, <1>4, <2>2, BitmapLease
<1> QED BY <1>1, <1>2, <1>7, LeaseStep

LEMMA BuildGlyphBitmapBalances ==
  ASSUME IInv, IInv', AccountingBalances, NEW t \in Threads, NEW b \in Bitmaps,
         BuildGlyphBitmap(t, b) \/ RasterizeForBatch(t, b)
  PROVE  AccountingBalances'
<1>1. Leases(t, b)
  BY DEF Leases, BuildGlyphBitmap, RasterizeForBatch, MayAllocate, At, counters, other
<1> QED BY <1>1, BuiltBalances

LEMMA InsertGlyphBitmapBalances ==
  ASSUME IInv, IInv', AccountingBalances, NEW t \in Threads, InsertGlyphBitmap(t)
  PROVE  AccountingBalances'
<1> DEFINE ch == <<Add("GlyphBitmap", 1)>>
<1>1. /\ At(t, "insert") /\ update[t] = <<>> /\ Does(t, ch)
      /\ UNCHANGED <<bytes, total, held, metadata, ring>>
  BY DEF InsertGlyphBitmap, At, counters, other
<1>2. ChangesOK(ch) /\ One(ch, Add("GlyphBitmap", 1))
  BY BitmapChanges
<1> HIDE DEF ch
<1>3. Amounts(ch, 1, 0)
  BY <1>2, BitmapAmounts
<1>4. lru \in Seq(Bitmaps) /\ CacheOK /\ CacheOK'
  BY DEF IInv, CacheOK
<1>5. PICK b \in held[t] : lru' = <<b>> \o lru
  <2>1. PICK b \in seen[t].bitmap : lru' = <<b>> \o lru
    BY DEF InsertGlyphBitmap
  <2>2. Inserting(t) /\ pc[t] = "insert"
    BY <1>1, AtStep DEF IInv
  <2> QED BY <2>1, <2>2 DEF Inserting, Owning
<1>6. b \in Bitmaps
  BY <1>5 DEF IInv, CacheOK
<1>7. Len(lru') = Len(lru) + 1 /\ Len(lru) \in Nat
  BY <1>4, <1>5, <1>6
<1>8. Live' = Live
  <2>1. \A c : InCache(c)' <=> InCache(c) \/ c = b
    <3>1. /\ DOMAIN lru' = 1..Len(lru) + 1 /\ DOMAIN lru = 1..Len(lru)
          /\ lru'[1] = b /\ \A i \in 1..Len(lru) : lru'[i + 1] = lru[i]
      BY <1>4, <1>5, <1>6
    <3>2. \A i \in 1..Len(lru) + 1 : i = 1 \/ i - 1 \in 1..Len(lru)
      BY <1>7
    <3>3. \A i \in 1..Len(lru) + 1 : i = 1 \/ lru'[i] = lru[i - 1]
      BY <1>7, <3>1, <3>2
    <3>4. 1 \in 1..Len(lru) + 1 /\ \A i \in 1..Len(lru) : i + 1 \in 1..Len(lru) + 1
      BY <1>7
    <3>5. ASSUME NEW c, InCache(c)' PROVE InCache(c) \/ c = b
      BY <3>1, <3>2, <3>3, <3>5 DEF InCache
    <3>6. ASSUME NEW c, InCache(c) \/ c = b PROVE InCache(c)'
      BY <3>1, <3>4, <3>6 DEF InCache
    <3> QED BY <3>5, <3>6
  <2>2. \A c : Alive(c)' <=> Alive(c)
    BY <1>1, <1>5, <2>1 DEF Alive
  <2> QED BY <2>2 DEF Live
<1>9. LeasesMove(ch)
  <2>1. Cardinality(Live') + Len(lru') + 0 = Cardinality(Live) + Len(lru) + 1
    BY <1>7, <1>8, LiveFinite
  <2> QED BY <1>1, <1>3, <1>4, <2>1, BitmapLease
<1> QED BY <1>1, <1>2, <1>9, LeaseStep

LEMMA DropBitmapBalances ==
  ASSUME IInv, IInv', AccountingBalances, NEW t \in Threads, NEW b \in Bitmaps,
         DropBitmap(t, b)
  PROVE  AccountingBalances'
<1> DEFINE Kept1 == InCache(b) \/ \E s \in Threads \ {t} : b \in held[s]
<1>1. /\ update[t] = <<>> /\ b \in held[t]
      /\ held' = [held EXCEPT ![t] = @ \ {b}]
      /\ UNCHANGED <<bytes, total, lru, metadata, ring>>
      /\ Does(t, IF Kept1 THEN <<>> ELSE <<Remove("GlyphBitmap", 1)>>)
  BY DEF DropBitmap, At, counters, other
<1>2. held \in [Threads -> SUBSET Bitmaps] /\ Len(lru) \in Nat /\ CacheOK /\ CacheOK'
  BY DEF IInv, CacheOK
<1>3. \A c : Alive(c)' <=> IF c = b THEN Kept1 ELSE Alive(c)
  <2>1. \A c : InCache(c)' <=> InCache(c)
    BY <1>1 DEF InCache
  <2>2. \A s \in Threads : held'[s] = IF s = t THEN held[s] \ {b} ELSE held[s]
    BY <1>1, <1>2
  <2> QED BY <2>1, <2>2 DEF Alive
<1>4. Alive(b) /\ b \in Live
  BY <1>1 DEF Alive, Live
<1> HIDE DEF Kept1
<1>5. CASE Kept1
  <2>1. Live' = Live
    BY <1>3, <1>4, <1>5 DEF Live
  <2>2. lru' = lru
    BY <1>1
  <2>3. Cardinality(Live') + Len(lru') + 0 = Cardinality(Live) + Len(lru) + 0
    BY <2>1, <2>2
  <2>4. LeasesMove(<<>>)
    BY <1>1, <1>2, <2>3, BitmapAmounts, BitmapLease
  <2> QED BY <1>1, <1>5, <2>4, NoChanges, LeaseStep
<1>6. CASE ~Kept1
  <2> DEFINE ch == <<Remove("GlyphBitmap", 1)>>
  <2>1. ChangesOK(ch) /\ One(ch, Remove("GlyphBitmap", 1)) /\ Does(t, ch)
    BY <1>1, <1>6, BitmapChanges
  <2> HIDE DEF ch
  <2>2. Live' = Live \ {b}
    BY <1>3, <1>4, <1>6 DEF Live
  <2>3. Cardinality(Live') = Cardinality(Live) - 1 /\ Cardinality(Live') \in Nat
        /\ Cardinality(Live) \in Nat
    BY <1>4, <2>2, LiveFinite, FS_RemoveElement, FS_CardinalityType
  <2>4. Amounts(ch, 0, 1)
    BY <2>1, BitmapAmounts
  <2>a. lru' = lru
    BY <1>1
  <2>5. Cardinality(Live') + Len(lru') + 1 = Cardinality(Live) + Len(lru) + 0
    BY <1>2, <2>3, <2>a
  <2>6. LeasesMove(ch)
    BY <1>1, <1>2, <2>4, <2>5, BitmapLease
  <2> QED BY <1>1, <2>1, <2>6, LeaseStep
<1> QED BY <1>5, <1>6

LEMMA TouchedHolds ==
  ASSUME IInv, NEW k \in DOMAIN lru, lru' = Touched(k)
  PROVE  Len(lru') = Len(lru) /\ \A c : InCache(c)' <=> InCache(c)
<1>1. lru \in Seq(Bitmaps)
  BY DEF IInv, CacheOK
<1>2. MovedToFront(lru', lru, k)
  BY DEF MovedToFront, Touched
<1>3. Len(lru') = Len(lru) /\ \A c : In(lru', c) <=> In(lru, c)
  BY <1>1, <1>2, MovedToFrontIs
<1> QED BY <1>3 DEF InCache, In

LEMMA FindCachedGlyphBitmapBalances ==
  ASSUME IInv, IInv', AccountingBalances, NEW t \in Threads, NEW b \in Bitmaps,
         FindCachedGlyphBitmap(t, b)
  PROVE  AccountingBalances'
<1>1. /\ held' = [held EXCEPT ![t] = @ \cup {b}]
      /\ UNCHANGED <<bytes, total, metadata, ring, update, stage>>
  BY DEF FindCachedGlyphBitmap, counters, other, work
<1>2. PICK k \in DOMAIN lru : lru[k] = b /\ lru' = Touched(k)
  BY DEF FindCachedGlyphBitmap
<1>3. /\ Len(lru') = Len(lru) /\ \A c : InCache(c)' <=> InCache(c)
  BY <1>2, TouchedHolds
<1>4. Live' = Live
  <2>1. InCache(b)
    BY <1>2 DEF InCache
  <2>2. \A c : Alive(c)' <=> Alive(c)
    <3>1. \A s \in Threads : held'[s] = IF s = t THEN held[s] \cup {b} ELSE held[s]
      BY <1>1 DEF IInv, CacheOK
    <3> QED BY <1>3, <2>1, <3>1 DEF Alive
  <2> QED BY <2>2 DEF Live
<1>5. Leased("GlyphBitmap")' = Leased("GlyphBitmap")
  BY <1>3, <1>4 DEF Leased
<1>6. \A c \in Categories : Leased(c)' = Leased(c)
  BY <1>1, <1>5, LeasedKept DEF Categories
<1> QED BY <1>1, <1>6, SameLeases

LEMMA InsertBatchBalances ==
  ASSUME IInv, IInv', AccountingBalances, NEW t \in Threads, InsertBatch(t)
  PROVE  AccountingBalances'
<1>1. UNCHANGED <<bytes, total, metadata, ring, update, stage>>
  BY DEF InsertBatch, counters, other, work
<1>2. CASE UNCHANGED <<lru, held>>
  BY <1>1, <1>2, LeasedKept, SameLeases DEF Categories
<1>3. CASE \E i \in DOMAIN lru : /\ lru' = Touched(i)
                                 /\ held' = [held EXCEPT ![t] = @ \cup {lru[i]}]
  <2>1. PICK k \in DOMAIN lru : /\ lru' = Touched(k)
                                /\ held' = [held EXCEPT ![t] = @ \cup {lru[k]}]
    BY <1>3
  <2>2. /\ Len(lru') = Len(lru) /\ \A c : InCache(c)' <=> InCache(c)
    BY <2>1, TouchedHolds
  <2>3. \A s \in Threads : held'[s] = IF s = t THEN held[s] \cup {lru[k]} ELSE held[s]
    BY <2>1 DEF IInv, CacheOK
  <2>4. InCache(lru[k])
    BY DEF InCache
  <2>5. \A c : Alive(c)' <=> Alive(c)
    BY <2>2, <2>3, <2>4 DEF Alive
  <2>6. Leased("GlyphBitmap")' = Leased("GlyphBitmap")
    <3>1. Live' = Live
      BY <2>5 DEF Live
    <3> QED BY <2>2, <3>1 DEF Leased
  <2> QED BY <1>1, <2>6, LeasedKept, SameLeases DEF Categories
<1> QED BY <1>2, <1>3 DEF InsertBatch

LEMMA ResizeMetadataBalances ==
  ASSUME IInv, IInv', AccountingBalances, NEW t \in Threads, NEW n \in 0..MaxMetadata,
         ResizeMetadata(t, n)
  PROVE  AccountingBalances'
<1> DEFINE ch == ResetLease("RuntimeMetadata", metadata[t], n)
<1>1. /\ update[t] = <<>> /\ n # metadata[t] /\ Does(t, ch)
      /\ metadata' = [metadata EXCEPT ![t] = n]
      /\ UNCHANGED <<bytes, total, lru, held, ring>>
  BY DEF ResizeMetadata, At, counters, cache
<1>2. CacheOK /\ CacheOK' /\ n \in Nat
  BY BudgetAssumption DEF IInv
<1>3. /\ metadata \in [Threads -> Nat] /\ ring \in Nat
      /\ Sum(metadata, Threads) \in Nat
  BY <1>2, MetadataSum
<1>4. metadata' \in [Threads -> Nat] /\ metadata'[t] = n
      /\ \A s \in Threads : s # t => metadata'[s] = metadata[s]
  BY <1>1, <1>2, <1>3
<1>5. /\ Sum(metadata', Threads) \in Nat
      /\ Sum(metadata, Threads) + n = Sum(metadata', Threads) + metadata[t]
  BY <1>3, <1>4, SumChange, BudgetAssumption
<1>6. ChangesOK(ch) /\ Resets(ch, metadata[t], n)
  BY <1>1, <1>2, <1>3, ResetLeaseOK, ResetLeaseBytes
<1> HIDE DEF ch
<1>7. LeasesMove(ch)
  <2>1. /\ Leased("RuntimeMetadata") = ring + Sum(metadata, Threads)
        /\ Leased("RuntimeMetadata")' = ring + Sum(metadata', Threads)
    BY <1>1 DEF Leased
  <2>2. metadata[t] \in Nat
    BY <1>3
  <2>3. Even(Leased("RuntimeMetadata")', metadata[t], Leased("RuntimeMetadata"), n)
    BY <1>2, <1>3, <1>5, <2>1, <2>2 DEF Even
  <2> QED BY <1>1, <1>2, <1>6, <2>3, MetadataLease
<1> QED BY <1>1, <1>6, <1>7, LeaseStep

LEMMA RefreshRingBalances ==
  ASSUME IInv, IInv', AccountingBalances, NEW t \in Threads, NEW n \in 0..MaxRing,
         update[t] = <<>>, NEW step, RefreshRing(t, n, step)
  PROVE  AccountingBalances'
<1> DEFINE ch == ResetLease("RuntimeMetadata", ring, n)
<1>1. /\ Does(t, ch) /\ ring' = n
      /\ UNCHANGED <<bytes, total, lru, held, metadata>>
  BY DEF RefreshRing, counters, cache
<1>2. CacheOK /\ CacheOK' /\ n \in Nat
  BY BudgetAssumption DEF IInv
<1>3. ring \in Nat /\ Sum(metadata, Threads) \in Nat
  BY <1>2, MetadataSum
<1>4. CASE ring = n
  <2>1. ch = <<>> /\ Does(t, <<>>)
    BY <1>1, <1>4 DEF ResetLease
  <2>2. UNCHANGED <<update, stage>>
    BY <2>1 DEF Does, IInv, WorkOK
  <2> QED BY <1>1, <1>4, <2>2, Untouched
<1>5. CASE ring # n
  <2>1. ChangesOK(ch) /\ Resets(ch, ring, n)
    BY <1>2, <1>3, <1>5, ResetLeaseOK, ResetLeaseBytes
  <2> HIDE DEF ch
  <2>2. /\ Leased("RuntimeMetadata") = ring + Sum(metadata, Threads)
        /\ Leased("RuntimeMetadata")' = n + Sum(metadata, Threads)
    BY <1>1 DEF Leased
  <2>3. Even(Leased("RuntimeMetadata")', ring, Leased("RuntimeMetadata"), n)
    BY <1>2, <1>3, <2>2 DEF Even
  <2>4. LeasesMove(ch)
    BY <1>1, <1>2, <2>1, <2>3, MetadataLease
  <2> QED BY <1>1, <2>1, <2>4, LeaseStep
<1> QED BY <1>4, <1>5

\* The last entry goes; no other is for the same bitmap.
Shortened(q, s) == q = SubSeq(s, 1, Len(s) - 1)

LEMMA Below ==
  ASSUME NEW n \in Nat, n # 0
  PROVE  /\ n - 1 \in Nat /\ n - 1 + 1 = n /\ n \in 1..n
         /\ \A i \in 1..n : i \in 1..(n - 1) \/ i = n
         /\ \A i \in 1..(n - 1) : i \in 1..n /\ i # n
  OBVIOUS

LEMMA ShortenedIs ==
  ASSUME NEW s \in Seq(Bitmaps), s # <<>>, NEW q, Shortened(q, s)
  PROVE  /\ Len(s) \in Nat /\ Len(s) # 0 /\ DOMAIN s = 1..Len(s)
         /\ Len(q) = Len(s) - 1 /\ DOMAIN q = 1..(Len(s) - 1)
         /\ \A i \in 1..(Len(s) - 1) : q[i] = s[i]
<1>1. Len(s) \in Nat /\ Len(s) # 0 /\ DOMAIN s = 1..Len(s)
  OBVIOUS
<1>2. /\ Len(q) = Len(s) - 1 /\ DOMAIN q = 1..(Len(s) - 1)
      /\ \A i \in 1..(Len(s) - 1) : q[i] = s[i]
  BY <1>1 DEF Shortened
<1> QED BY <1>1, <1>2

LEMMA LastDropped ==
  ASSUME NEW s \in Seq(Bitmaps), \A i, j \in DOMAIN s : s[i] = s[j] => i = j,
         s # <<>>, NEW q, Shortened(q, s)
  PROVE  /\ Len(q) \in Nat /\ Len(q) + 1 = Len(s) /\ s[Len(s)] \in Bitmaps
         /\ \A c : In(q, c) <=> In(s, c) /\ c # s[Len(s)]
         /\ In(s, s[Len(s)])
<1> DEFINE n == Len(s)
<1>1. /\ n \in Nat /\ n # 0 /\ DOMAIN s = 1..n
      /\ Len(q) = n - 1 /\ DOMAIN q = 1..(n - 1)
      /\ \A i \in 1..(n - 1) : q[i] = s[i]
  BY ShortenedIs
<1>2. s[n] \in Bitmaps
  BY <1>1
<1> HIDE DEF n
<1>3. /\ n - 1 \in Nat /\ n - 1 + 1 = n /\ n \in 1..n
      /\ \A i \in 1..n : i \in 1..(n - 1) \/ i = n
      /\ \A i \in 1..(n - 1) : i \in 1..n /\ i # n
  BY <1>1, Below
<1>4. \A c : In(q, c) <=> In(s, c) /\ c # s[n]
  <2>1. ASSUME NEW c, In(q, c) PROVE In(s, c) /\ c # s[n]
    <3>1. PICK i \in 1..(n - 1) : q[i] = c
      BY <1>1, <2>1 DEF In
    <3>2. i \in 1..n /\ i # n /\ s[i] = c
      BY <1>1, <1>3, <3>1
    <3> QED BY <1>1, <1>3, <3>2 DEF In
  <2>2. ASSUME NEW c, In(s, c), c # s[n] PROVE In(q, c)
    <3>1. PICK i \in 1..n : s[i] = c
      BY <1>1, <2>2 DEF In
    <3>2. i \in 1..(n - 1) /\ q[i] = c
      BY <1>1, <1>3, <2>2, <3>1
    <3> QED BY <1>1, <3>2 DEF In
  <2> QED BY <2>1, <2>2
<1>5. In(s, s[n])
  BY <1>1, <1>3 DEF In
<1>6. Len(q) \in Nat /\ Len(q) + 1 = n
  BY <1>1, <1>3
<1> QED BY <1>2, <1>4, <1>5, <1>6 DEF n

LEMMA EvictBalances ==
  ASSUME IInv, IInv', AccountingBalances, NEW t \in Threads, update[t] = <<>>,
         lru # <<>>, Evict(t), UNCHANGED <<counters, other>>
  PROVE  AccountingBalances'
<1> DEFINE b == lru[Len(lru)]
           Needed == \E s \in Threads : b \in held[s]
           ch == <<Remove("GlyphBitmap", 1)>>
                   \o (IF Needed THEN <<>> ELSE <<Remove("GlyphBitmap", 1)>>)
<1>1. /\ Shortened(lru', lru) /\ Does(t, ch) /\ held' = held
      /\ bytes' = bytes /\ total' = total /\ metadata' = metadata /\ ring' = ring
  BY DEF Evict, counters, other, Shortened
<1>2. CacheOK /\ CacheOK'
  BY DEF IInv
<1>3. /\ Len(lru') \in Nat /\ Len(lru') + 1 = Len(lru) /\ b \in Bitmaps
      /\ \A c : In(lru', c) <=> In(lru, c) /\ c # b
      /\ In(lru, b)
  <2>1. lru \in Seq(Bitmaps) /\ \A i, j \in DOMAIN lru : lru[i] = lru[j] => i = j
    BY <1>2 DEF CacheOK
  <2>2. Shortened(lru', lru)
    BY <1>1
  <2> QED BY <2>1, <2>2, LastDropped
<1>4. \A c : Alive(c)' <=> IF c = b THEN Needed ELSE Alive(c)
  <2>1. \A c : (InCache(c)' <=> In(lru', c)) /\ (InCache(c) <=> In(lru, c))
    BY DEF InCache, In
  <2> HIDE DEF b
  <2> QED BY <1>1, <1>3, <2>1 DEF Alive
<1>5. Alive(b) /\ b \in Live
  BY <1>3 DEF Alive, Live, InCache, In
<1>6. ChangesOK(ch) /\ Amounts(ch, 0, IF Needed THEN 1 ELSE 2)
  <2>1. CASE Needed
    <3>1. ch = <<Remove("GlyphBitmap", 1)>> \o <<>>
      BY <2>1
    <3>2. ChangesOK(ch) /\ Amounts(ch, 0, 1)
      BY <3>1, BitmapChanges, BitmapAmounts
    <3> QED BY <2>1, <3>2
  <2>2. CASE ~Needed
    <3>1. ch = <<Remove("GlyphBitmap", 1)>> \o <<Remove("GlyphBitmap", 1)>>
      BY <2>2
    <3>2. ChangesOK(ch) /\ Amounts(ch, 0, 2)
      BY <3>1, BitmapChanges, BitmapAmounts
    <3> QED BY <2>2, <3>2
  <2> QED BY <2>1, <2>2
<1> HIDE DEF b, Needed, ch
<1>7. LeasesMove(ch)
  <2>1. CASE Needed
    <3>1. Live' = Live
      BY <1>4, <1>5, <2>1 DEF Live
    <3>2. Cardinality(Live') + Len(lru') + 1 = Cardinality(Live) + Len(lru) + 0
      <4> HIDE DEF Live
      <4> QED BY <1>3, <3>1, LiveFinite
    <3>3. Amounts(ch, 0, 1)
      BY <1>6, <2>1
    <3> QED BY <1>1, <1>2, <3>2, <3>3, BitmapLease
  <2>2. CASE ~Needed
    <3>1. Live' = Live \ {b}
      BY <1>4, <1>5, <2>2 DEF Live
    <3>2. /\ Cardinality(Live') = Cardinality(Live) - 1
          /\ Cardinality(Live') \in Nat /\ Cardinality(Live) \in Nat
      BY <1>5, <3>1, LiveFinite, FS_RemoveElement, FS_CardinalityType
    <3>3. Cardinality(Live') + Len(lru') + 2 = Cardinality(Live) + Len(lru) + 0
      BY <1>3, <3>2
    <3>4. Amounts(ch, 0, 2)
      BY <1>6, <2>2
    <3> QED BY <1>1, <1>2, <3>3, <3>4, BitmapLease
  <2> QED BY <2>1, <2>2
<1> QED BY <1>1, <1>6, <1>7, LeaseStep

-----------------------------------------------------------------------------
(* What is still to be added is leased already, so a removal always finds its   *)
(* bytes in the counter.                                                       *)
Addition(t, c, n) ==
  \/ n = 0
  \/ \E i \in DOMAIN update[t] :
         /\ update[t][i].adds = TRUE /\ update[t][i].category = c
         /\ n = update[t][i].amount

LEMMA DueIs ==
  ASSUME IInv, NEW t \in Threads, NEW c, NEW done, NEW n, n = Due(t, c, TRUE, done)
  PROVE  Addition(t, c, n)
<1>1. update[t] \in Seq(Changes) /\ (2 \in DOMAIN update[t] => ~update[t][1].adds)
  BY DEF IInv, WorkOK, ChangesOK
<1>2. \A i \in DOMAIN update[t] : update[t][i] \in Changes
  BY <1>1
<1>3. \A i \in DOMAIN update[t] : update[t][i].amount \in Nat /\ update[t][i].adds \in BOOLEAN
  BY <1>2 DEF Changes
<1> DEFINE x == Part(update[t], 1, c, TRUE)
           y == Part(update[t], 2, c, TRUE)
<1>4. \/ x = 0
      \/ /\ 1 \in DOMAIN update[t] /\ update[t][1].adds = TRUE /\ update[t][1].category = c
         /\ x = update[t][1].amount
  BY DEF Part
<1>5. \/ y = 0
      \/ /\ 2 \in DOMAIN update[t] /\ update[t][2].adds = TRUE /\ update[t][2].category = c
         /\ y = update[t][2].amount
  BY DEF Part
<1>6. x \in Nat /\ y \in Nat
  BY <1>1, Parts
<1>7. x = 0 \/ y = 0
  BY <1>1, <1>4, <1>5
<1>8. Due(t, c, TRUE, done) = (IF stage[t] \in done THEN 0 ELSE x) + y
  BY DEF Due
<1> HIDE DEF x, y
<1>9. Due(t, c, TRUE, done) = 0 \/ (Due(t, c, TRUE, done) = x /\ x # 0)
      \/ (Due(t, c, TRUE, done) = y /\ y # 0)
  <2>1. x + y = x \/ x + y = y
    BY <1>6, <1>7
  <2>2. 0 + y = y
    BY <1>6
  <2>3. Due(t, c, TRUE, done) \in {x + y, 0 + y}
    BY <1>8, Zenon
  <2>4. Due(t, c, TRUE, done) \in {x, y}
    BY <2>1, <2>2, <2>3, Zenon
  <2> QED BY <2>4, Zenon
<1> QED BY <1>4, <1>5, <1>9 DEF Addition

\* An owner's addition is for its own bitmap; the lock's holder at the headroom
\* step has just put an entry into the cache.
LEMMA GlyphCovered ==
  ASSUME IInv, NEW done \in Dones
  PROVE  Outstanding("GlyphBitmap", TRUE, done) <= Leased("GlyphBitmap")
<1> DEFINE f == [t \in Threads |-> Due(t, "GlyphBitmap", TRUE, done)]
           h == [t \in Threads |-> IF pc[t] \in Owning THEN f[t] ELSE 0]
           Q == [t \in Threads |-> seen[t].bitmap]
<1>1. /\ f \in [Threads -> Nat]
      /\ \A t \in Threads : f[t] = Due(t, "GlyphBitmap", TRUE, done)
      /\ Outstanding("GlyphBitmap", TRUE, done) = Sum(f, Threads)
  BY DueNat DEF Outstanding, IInv
<1> HIDE DEF f
<1>2. /\ h \in [Threads -> Nat]
      /\ \A t \in Threads : h[t] = IF pc[t] \in Owning THEN f[t] ELSE 0
  BY <1>1
<1>3. ASSUME NEW t \in Threads, f[t] # 0
      PROVE  f[t] = 1 /\ (pc[t] \in Owning \/ (pc[t] = "headroom" /\ lru # <<>>))
  <2>1. f[t] = Due(t, "GlyphBitmap", TRUE, done)
    BY <1>1
  <2>2. Addition(t, "GlyphBitmap", f[t])
    BY <2>1, DueIs
  <2>3. PICK i \in DOMAIN update[t] :
            /\ update[t][i].adds = TRUE /\ update[t][i].category = "GlyphBitmap"
            /\ f[t] = update[t][i].amount
    BY <1>3, <2>2, Zenon DEF Addition
  <2> QED BY <2>3 DEF IInv, Covered
<1>4. /\ Leased("GlyphBitmap") = Cardinality(Live) + Len(lru)
      /\ lru \in Seq(Bitmaps) /\ Len(lru) \in Nat
  BY DEF Leased, IInv, CacheOK
<1>5. ASSUME NEW t \in Threads PROVE Q[t] \in SUBSET Live
  <2>1. seen[t].bitmap \subseteq held[t] /\ held[t] \subseteq Bitmaps
    BY DEF IInv, Inserting, CacheOK
  <2> QED BY <2>1 DEF Live, Alive
<1>6. Q \in [Threads -> SUBSET Live]
  BY <1>5
<1>7. \A t \in Threads : h[t] # 0 => h[t] = 1 /\ Q[t] # {}
  <2> SUFFICES ASSUME NEW t \in Threads, h[t] # 0 PROVE h[t] = 1 /\ Q[t] # {}
    OBVIOUS
  <2>1. pc[t] \in Owning /\ h[t] = f[t]
    BY <1>2
  <2>2. seen[t].bitmap # {}
    BY <2>1 DEF IInv, Inserting
  <2> QED BY <1>3, <2>1, <2>2
<1>8. \A s, t \in Threads : s # t => Q[s] \cap Q[t] = {}
  BY DEF IInv, Apart
<1> HIDE DEF h, Q
<1>9. Sum(h, Threads) \in Nat /\ Sum(h, Threads) <= Cardinality(Live)
  BY <1>2, <1>6, <1>7, <1>8, LiveFinite, SumFits, BudgetAssumption
<1>10. CASE \A t \in Threads : f[t] # 0 => pc[t] \in Owning
  <2>1. \A t \in Threads : f[t] <= h[t]
    BY <1>1, <1>2, <1>10
  <2>2. Sum(f, Threads) \in Nat /\ Sum(f, Threads) <= Sum(h, Threads)
    BY <1>1, <1>2, <2>1, SumMonotone, BudgetAssumption
  <2>3. Outstanding("GlyphBitmap", TRUE, done) = Sum(f, Threads)
    BY <1>1
  <2>4. \A m, n, c, l \in Nat : m <= n /\ n <= c => m <= c + l
    OBVIOUS
  <2>5. Sum(f, Threads) <= Cardinality(Live) + Len(lru)
    BY <1>4, <1>9, <2>2, <2>4, LiveFinite, Zenon
  <2> QED BY <1>4, <2>3, <2>5, Zenon
<1>11. CASE \E t \in Threads : f[t] # 0 /\ pc[t] \notin Owning
  <2>1. PICK t \in Threads : f[t] # 0 /\ pc[t] \notin Owning
    BY <1>11
  <2>2. f[t] = 1 /\ pc[t] = "headroom" /\ Len(lru) >= 1
    BY <1>3, <1>4, <2>1
  <2>a. ASSUME NEW s \in Threads, s # t PROVE h[s] = f[s]
    <3>1. pc[s] # "headroom"
      BY <2>2, <2>a DEF IInv, ControlOK, Trimming
    <3> QED BY <1>2, <1>3, <3>1
  <2>4. /\ Sum(f, Threads) \in Nat
        /\ Sum(f, Threads) + h[t] = Sum(h, Threads) + f[t]
    BY <1>1, <1>2, <2>a, SumChange, BudgetAssumption
  <2>5. h[t] = 0
    BY <1>2, <2>1
  <2>3. Outstanding("GlyphBitmap", TRUE, done) = Sum(f, Threads)
    BY <1>1
  <2>6. \A m, n, c, l \in Nat : m + 0 = n + 1 /\ n <= c /\ l >= 1 => m <= c + l
    OBVIOUS
  <2>7. Sum(f, Threads) + 0 = Sum(h, Threads) + 1
    BY <2>2, <2>4, <2>5, Zenon
  <2>8. Sum(f, Threads) <= Cardinality(Live) + Len(lru)
    BY <1>4, <1>9, <2>2, <2>4, <2>6, <2>7, LiveFinite, Zenon
  <2> QED BY <1>4, <2>3, <2>8, Zenon
<1> QED BY <1>10, <1>11

LEMMA MetadataCovered ==
  ASSUME IInv, NEW done \in Dones
  PROVE  Outstanding("RuntimeMetadata", TRUE, done) <= Leased("RuntimeMetadata")
<1> DEFINE f == [t \in Threads |-> Due(t, "RuntimeMetadata", TRUE, done)]
           g == [t \in Threads |-> IF pc[t] = "unlockRing" THEN ring ELSE metadata[t]]
<1>1. /\ f \in [Threads -> Nat]
      /\ \A t \in Threads : f[t] = Due(t, "RuntimeMetadata", TRUE, done)
      /\ Outstanding("RuntimeMetadata", TRUE, done) = Sum(f, Threads)
  BY DueNat DEF Outstanding, IInv
<1>2. /\ metadata \in [Threads -> Nat] /\ ring \in Nat /\ Sum(metadata, Threads) \in Nat
      /\ g \in [Threads -> Nat]
      /\ \A t \in Threads : g[t] = IF pc[t] = "unlockRing" THEN ring ELSE metadata[t]
  BY MetadataSum DEF IInv
<1>3. Leased("RuntimeMetadata") = ring + Sum(metadata, Threads)
  BY DEF Leased
<1> HIDE DEF f, g
<1>4. ASSUME NEW t \in Threads PROVE f[t] <= g[t]
  <2>1. CASE f[t] = 0
    BY <1>2, <2>1
  <2>2. CASE f[t] # 0
    <3>a. f[t] = Due(t, "RuntimeMetadata", TRUE, done)
      BY <1>1
    <3>b. Addition(t, "RuntimeMetadata", f[t])
      BY <3>a, DueIs
    <3>1. PICK i \in DOMAIN update[t] :
              /\ update[t][i].adds = TRUE /\ update[t][i].category = "RuntimeMetadata"
              /\ f[t] = update[t][i].amount
      BY <2>2, <3>b, Zenon DEF Addition
    <3>2. update[t][i].amount = g[t]
      BY <1>2, <3>1 DEF IInv, Covered
    <3>3. f[t] = g[t] /\ g[t] \in Nat
      BY <1>2, <3>1, <3>2
    <3> QED BY <3>3
  <2> QED BY <2>1, <2>2
<1>5. Sum(f, Threads) \in Nat /\ Sum(g, Threads) \in Nat /\ Sum(f, Threads) <= Sum(g, Threads)
  BY <1>1, <1>2, <1>4, SumMonotone, BudgetAssumption
<1>6. Sum(g, Threads) <= ring + Sum(metadata, Threads)
  <2>1. CASE \E t \in Threads : pc[t] = "unlockRing"
    <3>1. PICK t \in Threads : pc[t] = "unlockRing"
      BY <2>1
    <3>2. \A s \in Threads : s # t => pc[s] # "unlockRing"
      BY <3>1 DEF IInv, ControlOK
    <3>3. g[t] = ring /\ \A s \in Threads : s # t => g[s] = metadata[s]
      BY <1>2, <3>1, <3>2
    <3>4. Sum(metadata, Threads) + g[t] = Sum(g, Threads) + metadata[t]
      BY <1>2, <3>3, SumChange, BudgetAssumption
    <3>5. metadata[t] \in Nat
      BY <1>2
    <3> QED BY <1>2, <1>5, <3>3, <3>4, <3>5
  <2>2. CASE ~\E t \in Threads : pc[t] = "unlockRing"
    <3>1. \A s \in Threads : g[s] <= metadata[s]
      BY <1>2, <2>2
    <3>2. Sum(g, Threads) <= Sum(metadata, Threads)
      BY <1>2, <3>1, SumMonotone, BudgetAssumption
    <3> QED BY <1>2, <1>5, <3>2
  <2> QED BY <2>1, <2>2
<1>7. Sum(f, Threads) <= ring + Sum(metadata, Threads)
  <2>1. ring + Sum(metadata, Threads) \in Nat
    BY <1>2
  <2> QED BY <1>5, <1>6, <2>1
<1> QED BY <1>1, <1>3, <1>7

LEMMA AdditionsCovered ==
  ASSUME IInv, NEW c \in Categories, NEW done \in Dones
  PROVE  Outstanding(c, TRUE, done) <= Leased(c)
  BY GlyphCovered, MetadataCovered DEF Categories

\* A change applied to a counter: with the additions still to come covered by
\* what is leased, the counter holds what a removal takes.
LEMMA EvenApplied ==
  ASSUME NEW n \in Nat, NEW v, NEW o \in Nat, NEW l, NEW x \in Nat, o <= l
  PROVE  /\ Even(v, o + n, l, x + 0) => Even(v + n, o, l, x)
         /\ Even(v, o + 0, l, x + n) =>
                Even(Saturating(v, n), o, l, x) /\ n <= v /\ v \in Nat
  BY DEF Even, Saturating

LEMMA EvenTotalApplied ==
  ASSUME NEW n \in Nat, NEW v, NEW o \in Nat, NEW l, NEW x \in Nat, o <= l,
         NEW p \in Nat, NEW m, NEW y \in Nat, p <= m
  PROVE  /\ EvenTotal(v, o + n, p + 0, l, x + 0, m, y + 0)
                => EvenTotal(v + n, o, p, l, x, m, y)
         /\ EvenTotal(v, o + 0, p + n, l, x + 0, m, y + 0)
                => EvenTotal(v + n, o, p, l, x, m, y)
         /\ EvenTotal(v, o + 0, p + 0, l, x + n, m, y + 0)
                => EvenTotal(Saturating(v, n), o, p, l, x, m, y)
         /\ EvenTotal(v, o + 0, p + 0, l, x + 0, m, y + n)
                => EvenTotal(Saturating(v, n), o, p, l, x, m, y)
  BY DEF EvenTotal, Saturating

\* The first update of t has been applied as far as "done": it no longer counts.
LEMMA Discharged ==
  ASSUME WorkOK, WorkOK', NEW t \in Threads, NEW done,
         \A s \in Threads : s # t => update'[s] = update[s] /\ stage'[s] = stage[s],
         1 \in DOMAIN update[t], update'[t] = update[t],
         stage[t] \notin done, stage'[t] \in done, NEW c, NEW adds
  PROVE  Outstanding(c, adds, done)
           = Outstanding(c, adds, done)' + Bytes(update[t][1], c, adds)
<1> DEFINE x == Bytes(update[t][1], c, adds)
           y == Part(update[t], 2, c, adds)
<1>1. Part(update[t], 1, c, adds) = x
  BY DEF Part, Bytes
<1>2. Due(t, c, adds, done) = x + y
  BY <1>1 DEF Due
<1>3. Due(t, c, adds, done)' = 0 + y
  BY DEF Due
<1>4. x \in Nat /\ y \in Nat
  <2>1. update[t] \in Seq(Changes)
    BY DEF WorkOK
  <2>2. Part(update[t], 1, c, adds) \in Nat /\ y \in Nat
    BY <2>1, Parts
  <2> QED BY <1>1, <2>2
<1>5. /\ Outstanding(c, adds, done) \in Nat /\ Outstanding(c, adds, done)' \in Nat
      /\ Outstanding(c, adds, done) + Due(t, c, adds, done)'
           = Outstanding(c, adds, done)' + Due(t, c, adds, done)
  BY OutstandingChange
<1> HIDE DEF x, y
<1>6. PICK o : o = Outstanding(c, adds, done)
  OBVIOUS
<1>7. PICK p : p = Outstanding(c, adds, done)'
  OBVIOUS
<1>8. o \in Nat /\ p \in Nat /\ o + (0 + y) = p + (x + y)
  BY <1>2, <1>3, <1>5, <1>6, <1>7
<1>9. o = p + x
  BY <1>4, <1>8
<1> QED BY <1>6, <1>7, <1>9 DEF x

\* What t has to apply counts as before.
LEMMA StillDue ==
  ASSUME WorkOK, WorkOK', NEW t \in Threads, NEW done, NEW c, NEW adds,
         \A s \in Threads : s # t => update'[s] = update[s] /\ stage'[s] = stage[s],
         Due(t, c, adds, done)' = Due(t, c, adds, done)
  PROVE  Outstanding(c, adds, done)' = Outstanding(c, adds, done)
<1>1. /\ Outstanding(c, adds, done) \in Nat /\ Outstanding(c, adds, done)' \in Nat
      /\ Due(t, c, adds, done) \in Nat
      /\ Outstanding(c, adds, done) + Due(t, c, adds, done)'
           = Outstanding(c, adds, done)' + Due(t, c, adds, done)
  BY OutstandingChange
<1>2. PICK d : d = Due(t, c, adds, done)
  OBVIOUS
<1>3. d \in Nat /\ Outstanding(c, adds, done) + d = Outstanding(c, adds, done)' + d
  BY <1>1, <1>2
<1> QED BY <1>1, <1>3

\* What is leased moves only with the resources, not with the accounts.
LEMMA LeasedSame ==
  UNCHANGED <<cache, other>> => \A c : Leased(c)' = Leased(c)
<1> SUFFICES ASSUME UNCHANGED <<cache, other>> PROVE \A c : Leased(c)' = Leased(c)
  OBVIOUS
<1>1. UNCHANGED <<lru, held, metadata, ring>>
  BY DEF cache, other
<1> QED BY <1>1 DEF Leased, Live, Alive, InCache

LEMMA BytesOf ==
  ASSUME NEW u, u.amount \in Nat, u.adds \in BOOLEAN, NEW c
  PROVE  /\ u.category # c => Bytes(u, c, TRUE) = 0 /\ Bytes(u, c, FALSE) = 0
         /\ u.category = c /\ u.adds => Bytes(u, c, TRUE) = u.amount /\ Bytes(u, c, FALSE) = 0
         /\ u.category = c /\ ~u.adds => Bytes(u, c, TRUE) = 0 /\ Bytes(u, c, FALSE) = u.amount
  BY DEF Bytes

LEMMA TotalApplied ==
  ASSUME NEW u, u.amount \in Nat, u.adds \in BOOLEAN, u.category \in Categories,
         NEW v, NEW o \in Nat, NEW l, NEW x \in Nat, o <= l,
         NEW p \in Nat, NEW m, NEW y \in Nat, p <= m,
         EvenTotal(v, o + Bytes(u, "GlyphBitmap", TRUE),
                   p + Bytes(u, "RuntimeMetadata", TRUE),
                   l, x + Bytes(u, "GlyphBitmap", FALSE),
                   m, y + Bytes(u, "RuntimeMetadata", FALSE))
  PROVE  EvenTotal(Applied(u, v), o, p, l, x, m, y)
<1> DEFINE n == u.amount
<1>1. Applied(u, v) = IF u.adds THEN v + n ELSE Saturating(v, n)
  BY DEF Applied
<1>2. n \in Nat
  OBVIOUS
<1>3. CASE u.adds /\ u.category = "GlyphBitmap"
  <2>1. /\ Bytes(u, "GlyphBitmap", TRUE) = n /\ Bytes(u, "GlyphBitmap", FALSE) = 0
        /\ Bytes(u, "RuntimeMetadata", TRUE) = 0 /\ Bytes(u, "RuntimeMetadata", FALSE) = 0
    BY <1>3, BytesOf
  <2> HIDE DEF n
  <2>2. EvenTotal(v, o + n, p + 0, l, x + 0, m, y + 0)
    BY <2>1
  <2>3. EvenTotal(v + n, o, p, l, x, m, y)
    BY <1>2, <2>2, EvenTotalApplied
  <2> QED BY <1>1, <1>3, <2>3
<1>4. CASE u.adds /\ u.category = "RuntimeMetadata"
  <2>1. /\ Bytes(u, "GlyphBitmap", TRUE) = 0 /\ Bytes(u, "GlyphBitmap", FALSE) = 0
        /\ Bytes(u, "RuntimeMetadata", TRUE) = n /\ Bytes(u, "RuntimeMetadata", FALSE) = 0
    BY <1>4, BytesOf
  <2> HIDE DEF n
  <2>2. EvenTotal(v, o + 0, p + n, l, x + 0, m, y + 0)
    BY <2>1
  <2>3. EvenTotal(v + n, o, p, l, x, m, y)
    BY <1>2, <2>2, EvenTotalApplied
  <2> QED BY <1>1, <1>4, <2>3
<1>5. CASE ~u.adds /\ u.category = "GlyphBitmap"
  <2>1. /\ Bytes(u, "GlyphBitmap", TRUE) = 0 /\ Bytes(u, "GlyphBitmap", FALSE) = n
        /\ Bytes(u, "RuntimeMetadata", TRUE) = 0 /\ Bytes(u, "RuntimeMetadata", FALSE) = 0
    BY <1>5, BytesOf
  <2> HIDE DEF n
  <2>2. EvenTotal(v, o + 0, p + 0, l, x + n, m, y + 0)
    BY <2>1
  <2>3. EvenTotal(Saturating(v, n), o, p, l, x, m, y)
    BY <1>2, <2>2, EvenTotalApplied
  <2> QED BY <1>1, <1>5, <2>3
<1>6. CASE ~u.adds /\ u.category = "RuntimeMetadata"
  <2>1. /\ Bytes(u, "GlyphBitmap", TRUE) = 0 /\ Bytes(u, "GlyphBitmap", FALSE) = 0
        /\ Bytes(u, "RuntimeMetadata", TRUE) = 0 /\ Bytes(u, "RuntimeMetadata", FALSE) = n
    BY <1>6, BytesOf
  <2> HIDE DEF n
  <2>2. EvenTotal(v, o + 0, p + 0, l, x + 0, m, y + n)
    BY <2>1
  <2>3. EvenTotal(Saturating(v, n), o, p, l, x, m, y)
    BY <1>2, <2>2, EvenTotalApplied
  <2> QED BY <1>1, <1>6, <2>3
<1> QED BY <1>3, <1>4, <1>5, <1>6 DEF Categories

LEMMA OutstandingNats == WorkOK => \A c, adds, done : Outstanding(c, adds, done) \in Nat
  BY OutstandingNat

LEMMA OutstandingNatNext ==
  WorkOK' => (\A c, adds, done : Outstanding(c, adds, done) \in Nat)'
  BY OutstandingNats, PTL

LEMMA AllCovered ==
  IInv => \A c \in Categories, done \in Dones : Outstanding(c, TRUE, done) <= Leased(c)
  BY AdditionsCovered

LEMMA AdditionsCoveredNext ==
  IInv' => (\A c \in Categories, done \in Dones : Outstanding(c, TRUE, done) <= Leased(c))'
  BY AllCovered, PTL

LEMMA AccountGenerationBalances ==
  ASSUME IInv, IInv', AccountingBalances, NEW t \in Threads, AccountGeneration(t)
  PROVE  AccountingBalances'
<1>1. /\ update[t] # <<>> /\ stage[t] = "generation"
      /\ stage' = [stage EXCEPT ![t] = "category"]
      /\ update' = [update EXCEPT ![t] = Tail(update[t])]
      /\ UNCHANGED <<bytes, total, cache, other>>
  BY DEF AccountGeneration
<1>2. /\ WorkOK /\ WorkOK' /\ Accounts /\ (Accounts' => AccountingBalances')
  BY AccountsBalance, AccountsBalanceNext DEF IInv
<1>3. PICK ch : ch = Tail(update[t])
  OBVIOUS
<1>4. /\ update'[t] = ch /\ stage'[t] = "category"
      /\ \A s \in Threads : s # t => update'[s] = update[s] /\ stage'[s] = stage[s]
  BY <1>1, <1>2, <1>3 DEF WorkOK
<1>5. /\ 2 \in DOMAIN update[t] => ch[1] = update[t][2]
      /\ 1 \in DOMAIN ch <=> 2 \in DOMAIN update[t]
      /\ 2 \notin DOMAIN ch /\ ch \in Seq(Changes)
  <2>1. /\ ch \in Seq(Changes) /\ Len(update[t]) \in {1, 2} /\ Len(ch) = Len(update[t]) - 1
        /\ 2 \in DOMAIN update[t] => ch[1] = update[t][2]
        /\ 1 \in DOMAIN ch => 2 \in DOMAIN update[t]
        /\ 2 \notin DOMAIN ch
    BY <1>1, <1>3, HeadOK
  <2>2. DOMAIN ch = 1..Len(ch) /\ DOMAIN update[t] = 1..Len(update[t])
    BY <2>1, <1>2 DEF WorkOK
  <2>3. 2 \in DOMAIN update[t] => 1 \in DOMAIN ch
    BY <2>1, <2>2
  <2> QED BY <2>1, <2>3
<1>6. ASSUME NEW c, NEW adds, NEW done \in Dones
      PROVE  Outstanding(c, adds, done)' = Outstanding(c, adds, done)
  <2> DEFINE y == Part(update[t], 2, c, adds)
  <2>1. "generation" \in done /\ "category" \notin done
    BY DEF Dones
  <2>2. Part(ch, 1, c, adds) = y /\ Part(ch, 2, c, adds) = 0
    BY <1>5 DEF Part
  <2>3. Due(t, c, adds, done) = 0 + y
    BY <1>1, <2>1 DEF Due
  <2>4. Due(t, c, adds, done)' = y + 0
    BY <1>4, <2>1, <2>2 DEF Due
  <2>5. y \in Nat
    BY <1>5, <2>2, Parts
  <2> HIDE DEF y
  <2>6. 0 + y = y + 0
    BY <2>5
  <2> QED BY <1>2, <1>4, <2>3, <2>4, <2>6, StillDue
<1>7. {"total", "generation"} \in Dones /\ {"generation"} \in Dones
  BY DEF Dones
<1>8. /\ \A c : Leased(c)' = Leased(c)
      /\ \A c, adds : Outstanding(c, adds, {"generation"})' = Outstanding(c, adds, {"generation"})
      /\ \A c, adds : Outstanding(c, adds, {"total", "generation"})'
                        = Outstanding(c, adds, {"total", "generation"})
  BY <1>1, <1>6, <1>7, LeasedSame
<1>9. bytes' = bytes /\ total' = total
  BY <1>1
<1>10. Accounts'
  BY <1>2, <1>8, <1>9, Zenon DEF Accounts
<1> QED BY <1>2, <1>10

LEMMA AccountTotalBalances ==
  ASSUME IInv, IInv', AccountingBalances, NEW t \in Threads, AccountTotal(t)
  PROVE  AccountingBalances'
<1> DEFINE d == {"generation"}
           e == {"total", "generation"}
           g == "GlyphBitmap"
           r == "RuntimeMetadata"
<1>1. /\ update[t] # <<>> /\ stage[t] = "total"
      /\ total' = Applied(Head(update[t]), total)
      /\ stage' = [stage EXCEPT ![t] = "generation"]
      /\ UNCHANGED <<bytes, update, cache, other>>
  BY DEF AccountTotal
<1>2. /\ WorkOK /\ WorkOK' /\ CacheOK /\ Accounts /\ (Accounts' => AccountingBalances')
  BY AccountsBalance, AccountsBalanceNext DEF IInv
<1>3. /\ update'[t] = update[t] /\ stage'[t] = "generation"
      /\ \A s \in Threads : s # t => update'[s] = update[s] /\ stage'[s] = stage[s]
  BY <1>1, <1>2 DEF WorkOK
<1>4. PICK u : u = update[t][1]
  OBVIOUS
<1>5. /\ u.amount \in Nat /\ u.adds \in BOOLEAN /\ u.category \in Categories
      /\ total' = Applied(u, total) /\ 1 \in DOMAIN update[t]
  BY <1>1, <1>4, HeadOK
<1>6. /\ "total" \notin d /\ "generation" \in d /\ d \in Dones
      /\ "total" \in e /\ "generation" \in e /\ e \in Dones
  BY DEF Dones
<1> HIDE DEF d, e
<1>7. ASSUME NEW c, NEW adds
      PROVE  /\ Outstanding(c, adds, e)' = Outstanding(c, adds, e)
             /\ Outstanding(c, adds, d)
                  = Outstanding(c, adds, d)' + Bytes(u, c, adds)
  <2>1. Due(t, c, adds, e)' = Due(t, c, adds, e)
    BY <1>1, <1>3, <1>6 DEF Due
  <2>2. Outstanding(c, adds, e)' = Outstanding(c, adds, e)
    BY <1>2, <1>3, <2>1, StillDue
  <2>3. stage[t] \notin d /\ stage'[t] \in d
    BY <1>1, <1>3, <1>6
  <2>4. Outstanding(c, adds, d) = Outstanding(c, adds, d)' + Bytes(u, c, adds)
    BY <1>2, <1>3, <1>4, <1>5, <2>3, Discharged
  <2> QED BY <2>2, <2>4
<1>8. /\ \A c : Leased(c)' = Leased(c)
      /\ bytes' = bytes
  BY <1>1, LeasedSame
<1>9. \A c \in Categories : Even(bytes'[c], Outstanding(c, TRUE, e)',
                                 Leased(c)', Outstanding(c, FALSE, e)')
  BY <1>2, <1>7, <1>8 DEF Accounts, e
<1>10. EvenTotal(total, Outstanding(g, TRUE, d), Outstanding(r, TRUE, d),
                 Leased(g), Outstanding(g, FALSE, d), Leased(r), Outstanding(r, FALSE, d))
  BY <1>2 DEF Accounts, d
<1>11. EvenTotal(total', Outstanding(g, TRUE, d)', Outstanding(r, TRUE, d)',
                 Leased(g)', Outstanding(g, FALSE, d)', Leased(r)',
                 Outstanding(r, FALSE, d)')
  <2>1. \A c, adds : Outstanding(c, adds, d)' \in Nat
    BY <1>2, OutstandingNatNext
  <2>2. Outstanding(g, TRUE, d)' <= Leased(g)' /\ Outstanding(r, TRUE, d)' <= Leased(r)'
    BY <1>6, AdditionsCoveredNext DEF Categories
  <2>3. EvenTotal(total, Outstanding(g, TRUE, d)' + Bytes(u, g, TRUE),
                  Outstanding(r, TRUE, d)' + Bytes(u, r, TRUE),
                  Leased(g)', Outstanding(g, FALSE, d)' + Bytes(u, g, FALSE),
                  Leased(r)', Outstanding(r, FALSE, d)' + Bytes(u, r, FALSE))
    BY <1>7, <1>8, <1>10
  <2>4. PICK o : o = Outstanding(g, TRUE, d)'
    OBVIOUS
  <2>5. PICK p : p = Outstanding(r, TRUE, d)'
    OBVIOUS
  <2>6. PICK x : x = Outstanding(g, FALSE, d)'
    OBVIOUS
  <2>7. PICK y : y = Outstanding(r, FALSE, d)'
    OBVIOUS
  <2>8. PICK l : l = Leased(g)'
    OBVIOUS
  <2>9. PICK m : m = Leased(r)'
    OBVIOUS
  <2>10. /\ o \in Nat /\ p \in Nat /\ x \in Nat /\ y \in Nat /\ o <= l /\ p <= m
         /\ EvenTotal(total, o + Bytes(u, g, TRUE), p + Bytes(u, r, TRUE),
                      l, x + Bytes(u, g, FALSE), m, y + Bytes(u, r, FALSE))
    BY <2>1, <2>2, <2>3, <2>4, <2>5, <2>6, <2>7, <2>8, <2>9
  <2>11. EvenTotal(total', o, p, l, x, m, y)
    BY <1>5, <2>10, TotalApplied
  <2> QED BY <2>4, <2>5, <2>6, <2>7, <2>8, <2>9, <2>11
<1>12. Accounts'
  BY <1>9, <1>11 DEF Accounts, d, e
<1> QED BY <1>2, <1>12

\* A removal finds its bytes in the category's counter: it is not cut.
LEMMA RemovalFits ==
  ASSUME IInv, AccountingBalances, NEW t \in Threads, stage[t] = "category",
         1 \in DOMAIN update[t], ~update[t][1].adds, update[t][1].category \in Categories
  PROVE  update[t][1].amount <= bytes[update[t][1].category]
<1> DEFINE e == {"total", "generation"}
           c == update[t][1].category
           n == update[t][1].amount
<1>1. WorkOK /\ CacheOK /\ Accounts
  BY AccountsBalance DEF IInv
<1>2. update[t] \in Seq(Changes) /\ update[t][1] \in Changes /\ n \in Nat
      /\ update[t][1].adds = FALSE
  <2>1. update[t] \in Seq(Changes)
    BY <1>1 DEF WorkOK
  <2>2. update[t][1] \in Changes
    BY <2>1
  <2> QED BY <2>1, <2>2 DEF Changes
<1>3. e \in Dones /\ "category" \notin e
  BY DEF Dones
<1>4. Even(bytes[c], Outstanding(c, TRUE, e), Leased(c), Outstanding(c, FALSE, e))
  BY <1>1 DEF Accounts
<1>5. Outstanding(c, TRUE, e) <= Leased(c)
  BY <1>3, AllCovered
<1> HIDE DEF e
<1>6. Due(t, c, FALSE, e) <= Outstanding(c, FALSE, e)
      /\ Due(t, c, FALSE, e) \in Nat
  BY <1>1, OutstandingNat, DueNat
<1>7. Due(t, c, FALSE, e) = n + Part(update[t], 2, c, FALSE)
  <2>1. Part(update[t], 1, c, FALSE) = n
    BY <1>2 DEF Part
  <2>2. stage[t] \notin e
    BY <1>3
  <2> QED BY <2>1, <2>2 DEF Due
<1>8. Part(update[t], 2, c, FALSE) \in Nat
  BY <1>2, Parts
<1> HIDE DEF c, n
<1>9. PICK y : y = Part(update[t], 2, c, FALSE)
  OBVIOUS
<1>10. PICK x : x = Outstanding(c, FALSE, e)
  OBVIOUS
<1>11. PICK o : o = Outstanding(c, TRUE, e)
  OBVIOUS
<1>12. PICK l : l = Leased(c)
  OBVIOUS
<1>13. n + y <= x /\ o <= l /\ Even(bytes[c], o, l, x) /\ n \in Nat /\ y \in Nat
  BY <1>2, <1>4, <1>5, <1>6, <1>7, <1>8, <1>9, <1>10, <1>11, <1>12
<1>14. n <= bytes[c]
  BY <1>13 DEF Even
<1> QED BY <1>14 DEF c, n

LEMMA TotalFits ==
  ASSUME IInv, AccountingBalances, NEW t \in Threads, stage[t] = "total",
         1 \in DOMAIN update[t], ~update[t][1].adds, update[t][1].category \in Categories
  PROVE  update[t][1].amount <= total
<1> DEFINE d == {"generation"}
           g == "GlyphBitmap"
           r == "RuntimeMetadata"
           c == update[t][1].category
           n == update[t][1].amount
<1>1. WorkOK /\ CacheOK /\ Accounts
  BY AccountsBalance DEF IInv
<1>2. update[t] \in Seq(Changes) /\ update[t][1] \in Changes /\ n \in Nat
      /\ update[t][1].adds = FALSE
  <2>1. update[t] \in Seq(Changes)
    BY <1>1 DEF WorkOK
  <2>2. update[t][1] \in Changes
    BY <2>1
  <2> QED BY <2>1, <2>2 DEF Changes
<1>3. d \in Dones /\ "total" \notin d
  BY DEF Dones
<1>4. EvenTotal(total, Outstanding(g, TRUE, d), Outstanding(r, TRUE, d),
                Leased(g), Outstanding(g, FALSE, d), Leased(r), Outstanding(r, FALSE, d))
  BY <1>1 DEF Accounts
<1>5. Outstanding(g, TRUE, d) <= Leased(g) /\ Outstanding(r, TRUE, d) <= Leased(r)
  BY <1>3, AllCovered DEF Categories
<1> HIDE DEF d
<1>6. Due(t, c, FALSE, d) <= Outstanding(c, FALSE, d)
  BY <1>1, OutstandingNat
<1>7. Due(t, c, FALSE, d) = n + Part(update[t], 2, c, FALSE)
  <2>1. Part(update[t], 1, c, FALSE) = n
    BY <1>2 DEF Part
  <2>2. stage[t] \notin d
    BY <1>3
  <2> QED BY <2>1, <2>2 DEF Due
<1>8. Part(update[t], 2, c, FALSE) \in Nat
  BY <1>2, Parts
<1>9. c = g \/ c = r
  BY DEF Categories
<1> HIDE DEF c, n
<1>10. PICK y : y = Part(update[t], 2, c, FALSE)
  OBVIOUS
<1>11. PICK x : x = Outstanding(g, FALSE, d)
  OBVIOUS
<1>12. PICK z : z = Outstanding(r, FALSE, d)
  OBVIOUS
<1>13. PICK o : o = Outstanding(g, TRUE, d)
  OBVIOUS
<1>14. PICK p : p = Outstanding(r, TRUE, d)
  OBVIOUS
<1>15. PICK l : l = Leased(g)
  OBVIOUS
<1>16. PICK m : m = Leased(r)
  OBVIOUS
<1>17. n + y <= x \/ n + y <= z
  BY <1>6, <1>7, <1>9, <1>10, <1>11, <1>12
<1>18. o <= l /\ p <= m /\ EvenTotal(total, o, p, l, x, m, z) /\ n \in Nat /\ y \in Nat
  BY <1>2, <1>4, <1>5, <1>8, <1>10, <1>11, <1>12, <1>13, <1>14, <1>15, <1>16
<1>19. n <= total
  BY <1>17, <1>18 DEF EvenTotal
<1> QED BY <1>19 DEF n

LEMMA AccountCategoryBalances ==
  ASSUME IInv, IInv', AccountingBalances, NEW t \in Threads, AccountCategory(t)
  PROVE  AccountingBalances'
<1> DEFINE d == {"generation"}
           e == {"total", "generation"}
<1>1. /\ update[t] # <<>> /\ stage[t] = "category"
      /\ UNCHANGED <<total, cache, other>>
  BY DEF AccountCategory
<1>2. /\ WorkOK /\ WorkOK' /\ CacheOK /\ CountersOK
      /\ Accounts /\ (Accounts' => AccountingBalances')
  BY AccountsBalance, AccountsBalanceNext DEF IInv
<1>3. PICK u : u = update[t][1]
  OBVIOUS
<1>4. /\ u.amount \in Nat /\ u.amount >= 1 /\ u.adds \in BOOLEAN
      /\ u.category \in Categories /\ u \in Changes
      /\ u = Head(update[t]) /\ 1 \in DOMAIN update[t]
  BY <1>1, <1>3, HeadOK
<1>5. ~u.adds => u.amount <= bytes[u.category]
  BY <1>1, <1>3, <1>4, RemovalFits
<1>6. Effect(u) = u /\ u.amount # 0
  <2>1. CASE u.adds
    BY <1>4, <2>1 DEF Effect
  <2>2. CASE ~u.adds
    <3>1. Smaller(u.amount, bytes[u.category]) = u.amount
      BY <1>5, <2>2 DEF Smaller
    <3>2. Effect(u) = [u EXCEPT !.amount = u.amount]
      BY <2>2, <3>1 DEF Effect
    <3> QED BY <1>4, <3>2 DEF Changes
  <2> QED BY <2>1, <2>2
<1>7. /\ bytes' = [bytes EXCEPT ![u.category] = Applied(u, bytes[u.category])]
      /\ update' = [update EXCEPT ![t][1] = u]
      /\ stage' = [stage EXCEPT ![t] = "total"]
  BY <1>4, <1>6 DEF AccountCategory
<1>8. /\ update'[t] = update[t] /\ stage'[t] = "total"
      /\ \A s \in Threads : s # t => update'[s] = update[s] /\ stage'[s] = stage[s]
  <2>1. update[t] \in Seq(Changes) /\ update \in [Threads -> Seq(Changes)]
        /\ stage \in [Threads -> Stages]
    BY <1>2 DEF WorkOK
  <2>2. [update[t] EXCEPT ![1] = u] = update[t]
    BY <1>3, <2>1
  <2>3. update' = [update EXCEPT ![t] = update[t]]
    BY <1>7, <2>2
  <2> QED BY <1>7, <2>1, <2>3
<1>9. /\ "total" \notin d /\ "category" \notin d /\ d \in Dones
      /\ "total" \in e /\ "category" \notin e /\ e \in Dones
  BY DEF Dones
<1> HIDE DEF d, e
<1>10. ASSUME NEW c, NEW adds
       PROVE  /\ Outstanding(c, adds, d)' = Outstanding(c, adds, d)
              /\ Outstanding(c, adds, e)
                   = Outstanding(c, adds, e)' + Bytes(u, c, adds)
  <2>1. Due(t, c, adds, d)' = Due(t, c, adds, d)
    BY <1>1, <1>8, <1>9 DEF Due
  <2>2. Outstanding(c, adds, d)' = Outstanding(c, adds, d)
    BY <1>2, <1>8, <2>1, StillDue
  <2>3. stage[t] \notin e /\ stage'[t] \in e
    BY <1>1, <1>8, <1>9
  <2>4. Outstanding(c, adds, e) = Outstanding(c, adds, e)' + Bytes(u, c, adds)
    BY <1>2, <1>3, <1>4, <1>8, <2>3, Discharged
  <2> QED BY <2>2, <2>4
<1>11. /\ \A c : Leased(c)' = Leased(c)
       /\ total' = total
  BY <1>1, LeasedSame
<1>12. ASSUME NEW c \in Categories
       PROVE  Even(bytes'[c], Outstanding(c, TRUE, e)',
                   Leased(c)', Outstanding(c, FALSE, e)')
  <2>1. PICK o : o = Outstanding(c, TRUE, e)'
    OBVIOUS
  <2>2. PICK x : x = Outstanding(c, FALSE, e)'
    OBVIOUS
  <2>3. PICK l : l = Leased(c)'
    OBVIOUS
  <2>4. Even(bytes[c], o + Bytes(u, c, TRUE), l, x + Bytes(u, c, FALSE))
    BY <1>2, <1>10, <1>11, <2>1, <2>2, <2>3 DEF Accounts, e
  <2>5. o \in Nat /\ x \in Nat /\ o <= l
    BY <1>2, <1>9, <2>1, <2>2, <2>3, OutstandingNatNext, AdditionsCoveredNext
  <2>6. bytes'[c] = IF c = u.category THEN Applied(u, bytes[c]) ELSE bytes[c]
    BY <1>2, <1>7 DEF CountersOK
  <2>7. Even(bytes'[c], o, l, x)
    <3>1. CASE c # u.category
      <4>1. Bytes(u, c, TRUE) = 0 /\ Bytes(u, c, FALSE) = 0
        BY <1>4, <3>1, BytesOf
      <4>2. o + 0 = o /\ x + 0 = x
        BY <2>5
      <4> QED BY <2>4, <2>6, <3>1, <4>1, <4>2
    <3>2. CASE c = u.category /\ u.adds
      <4>1. Bytes(u, c, TRUE) = u.amount /\ Bytes(u, c, FALSE) = 0
        BY <1>4, <3>2, BytesOf
      <4>2. Even(bytes[c] + u.amount, o, l, x)
        BY <1>4, <2>4, <2>5, <4>1, EvenApplied
      <4> QED BY <2>6, <3>2, <4>2 DEF Applied
    <3>3. CASE c = u.category /\ ~u.adds
      <4>1. Bytes(u, c, TRUE) = 0 /\ Bytes(u, c, FALSE) = u.amount
        BY <1>4, <3>3, BytesOf
      <4>2. Even(Saturating(bytes[c], u.amount), o, l, x)
        BY <1>4, <2>4, <2>5, <4>1, EvenApplied
      <4> QED BY <2>6, <3>3, <4>2 DEF Applied
    <3> QED BY <3>1, <3>2, <3>3
  <2> QED BY <2>1, <2>2, <2>3, <2>7
<1>13. Accounts'
  BY <1>2, <1>10, <1>11, <1>12 DEF Accounts, d, e
<1> QED BY <1>2, <1>13

-----------------------------------------------------------------------------
(* Theorems.                                                                   *)
LEMMA InitBalances == Init => AccountingBalances
<1> SUFFICES ASSUME Init PROVE AccountingBalances
  OBVIOUS
<1>1. IInv
  BY InitOK
<1>2. \A c, adds, done : Outstanding(c, adds, done) = 0
  <2> TAKE c, adds, done
  <2> DEFINE f == [t \in Threads |-> Due(t, c, adds, done)]
  <2>1. \A t \in Threads : Due(t, c, adds, done) = 0
    <3> TAKE t \in Threads
    <3>1. update[t] = <<>> /\ stage[t] = "category"
      BY DEF Init
    <3>2. Part(update[t], 1, c, adds) = 0 /\ Part(update[t], 2, c, adds) = 0
      BY <3>1 DEF Part
    <3>3. Due(t, c, adds, done) = 0 + 0
      BY <3>2 DEF Due
    <3> QED BY <3>3
  <2>2. f \in [Threads -> Nat] /\ \A t \in Threads : f[t] = 0
    BY <2>1
  <2>3. Outstanding(c, adds, done) = Sum(f, Threads)
    BY DEF Outstanding
  <2> HIDE DEF f
  <2> QED BY <2>2, <2>3, SumZero, BudgetAssumption
<1>3. Leased("GlyphBitmap") = 0
  <2>1. Live = {}
    BY DEF Init, Live, Alive, InCache
  <2>2. Cardinality(Live) = 0 /\ Len(lru) = 0
    BY <2>1, FS_EmptySet DEF Init
  <2> QED BY <2>2 DEF Leased
<1>4. Leased("RuntimeMetadata") = 0
  <2>1. metadata \in [Threads -> Nat] /\ \A t \in Threads : metadata[t] = 0
    BY DEF Init
  <2>2. Sum(metadata, Threads) = 0 /\ ring = 0
    BY <2>1, SumZero, BudgetAssumption DEF Init
  <2> QED BY <2>2 DEF Leased
<1>5. total = 0 /\ \A c \in Categories : bytes[c] = 0
  BY DEF Init
<1>6. \A c \in Categories : Leased(c) = 0
  BY <1>3, <1>4 DEF Categories
<1>7. 0 \in Nat /\ 0 + 0 = 0 + 0 /\ 0 + 0 + 0 = 0 + 0 + 0 + 0
  OBVIOUS
<1>8. Accounts
  <2>1. Even(0, 0, 0, 0) /\ EvenTotal(0, 0, 0, 0, 0, 0, 0)
    BY <1>7 DEF Even, EvenTotal
  <2>2. \A c \in Categories :
            Even(bytes[c], Outstanding(c, TRUE, {"total", "generation"}),
                 Leased(c), Outstanding(c, FALSE, {"total", "generation"}))
    BY <1>2, <1>5, <1>6, <2>1
  <2> QED BY <1>2, <1>3, <1>4, <1>5, <2>1, <2>2 DEF Accounts
<1> QED BY <1>1, <1>8, AccountsBalance DEF IInv

LEMMA BalanceKept ==
  ASSUME IInv, IInv', AccountingBalances, [Next]_vars
  PROVE  AccountingBalances'
<1>1. ASSUME NEW t \in Threads, Account(t) PROVE AccountingBalances'
  BY <1>1, AccountCategoryBalances, AccountTotalBalances, AccountGenerationBalances
     DEF Account
<1>2. ASSUME NEW t \in Threads, Use(t) PROVE AccountingBalances'
  <2>1. ASSUME UseRing(t) PROVE AccountingBalances'
    <3>1. update[t] = <<>> /\ \E n \in 0..MaxRing : RefreshRing(t, n, "idle")
      BY <2>1 DEF UseRing, MayAllocate, At
    <3> QED BY <3>1, RefreshRingBalances
  <2>2. ASSUME SetBitmapCacheReducedAfterPrewarm(t) PROVE AccountingBalances'
    BY <2>2, Untouched DEF SetBitmapCacheReducedAfterPrewarm, counters, other, work
  <2>3. ASSUME LoseBatch(t) PROVE AccountingBalances'
    BY <2>3, Untouched DEF LoseBatch, counters, cache, other, work
  <2> QED BY <1>2, <2>1, <2>2, <2>3, BuildGlyphBitmapBalances, InsertBatchBalances,
             FindCachedGlyphBitmapBalances, DropBitmapBalances, InsertGlyphBitmapBalances, ResizeMetadataBalances
          DEF Use
<1>3. ASSUME NEW t \in Threads, Trim(t) PROVE AccountingBalances'
  <2>1. ASSUME ReadHeadroomTotal(t) \/ ReadHeadroomCategory(t) PROVE AccountingBalances'
    BY <2>1, Untouched DEF ReadHeadroomTotal, ReadHeadroomCategory, counters, cache,
       other, work
  <2>2. ASSUME TrimDone(t), UNCHANGED <<counters, other>> PROVE AccountingBalances'
    BY <2>2, Untouched DEF TrimDone, counters, other, work
  <2>3. ASSUME TrimByCategory(t) PROVE AccountingBalances'
    <3>1. update[t] = <<>> /\ UNCHANGED <<counters, other>>
      BY <2>3 DEF TrimByCategory, At
    <3>2. CASE lru # <<>> /\ Evict(t)
      BY <3>1, <3>2, EvictBalances
    <3>3. CASE TrimDone(t)
      BY <2>2, <3>1, <3>3
    <3>4. CASE UNCHANGED <<cache, after, seen, work>>
      BY <3>1, <3>4, Untouched DEF counters, cache, other, work
    <3> QED BY <2>3, <3>2, <3>3, <3>4 DEF TrimByCategory
  <2>4. ASSUME TrimByTotal(t) PROVE AccountingBalances'
    <3>1. update[t] = <<>> /\ UNCHANGED <<counters, other>>
      BY <2>4 DEF TrimByTotal, At
    <3>2. CASE lru # <<>> /\ Evict(t)
      BY <3>1, <3>2, EvictBalances
    <3>3. CASE TrimDone(t)
      BY <2>2, <3>1, <3>3
    <3> QED BY <2>4, <3>2, <3>3 DEF TrimByTotal
  <2>5. ASSUME UnlockRing(t) PROVE AccountingBalances'
    BY <2>5, Untouched DEF UnlockRing, counters, cache, work
  <2> QED BY <1>3, <2>1, <2>3, <2>4, <2>5 DEF Trim
<1>4. ASSUME NEW t \in Threads, Enforce(t) PROVE AccountingBalances'
  <2>1. ASSUME Check(t) PROVE AccountingBalances'
    BY <2>1, Untouched DEF Check, ReadTotal, ReadGeneration, CompareGeneration,
       CompareTotal, counters, cache, other, work
  <2>2. ASSUME \/ ClaimEnforcement(t) \/ StampGeneration(t) \/ StampTotal(t)
               \/ ReleaseEnforcement(t)
        PROVE  AccountingBalances'
    BY <2>2, Untouched DEF ClaimEnforcement, StampGeneration, StampTotal,
       ReleaseEnforcement, counters, cache, other, work
  <2>3. ASSUME TrimFreeTypeCpuCaches(t) PROVE AccountingBalances'
    BY <2>3, Untouched DEF TrimFreeTypeCpuCaches, counters, other, work
  <2>4. ASSUME TrimNativeFontCpuCaches(t) PROVE AccountingBalances'
    <3>1. update[t] = <<>> /\ ring \in 0..MaxRing
      BY <2>4 DEF TrimNativeFontCpuCaches, At, IInv, CacheOK
    <3>2. PICK n \in 0..ring : RefreshRing(t, n, "trimFreeType")
      BY <2>4 DEF TrimNativeFontCpuCaches
    <3>3. n \in 0..MaxRing
      BY <3>1, BudgetAssumption
    <3> QED BY <3>1, <3>2, <3>3, RefreshRingBalances
  <2> QED BY <1>4, <2>1, <2>2, <2>3, <2>4 DEF Enforce
<1>5. CASE UNCHANGED vars
  BY <1>5, Untouched DEF vars, counters, cache, other, work
<1> QED BY <1>1, <1>2, <1>3, <1>4, <1>5 DEF Next

\* Whatever the threads do, a thread inside TrimBitmapCache or the ring's region
\* holds its mutex and nobody else does, the thread between its test_and_set and
\* its clear holds the enforcement flag, and a bitmap has at most one entry in the
\* cache (font_cpu_budget.cpp, font_freetype_cache.cpp): the type invariant.
THEOREM TypeCorrect == Spec => []TypeOK
<1>1. IInv => TypeOK
  BY DEF IInv, CountersOK, CacheOK, ControlOK, WorkOK, ChangesOK, TypeOK, Role, Locals,
     Afters, Stages, Enforcing
<1> QED BY <1>1, InitOK, IInvKept, PTL DEF Spec

\* In every state of every interleaving of the leases' relaxed exchanges, each
\* counter and what is still to be applied to it are what is allocated: the
\* clamp of RemoveCpuMemoryUsage never cuts a release short.
THEOREM AccountingBalancesHolds == Spec => []AccountingBalances
<1>1. IInv /\ AccountingBalances /\ [Next]_vars => (IInv /\ AccountingBalances)'
  BY IInvKept, BalanceKept
<1> QED BY <1>1, InitOK, InitBalances, PTL DEF Spec

\* A release about to be applied finds its bytes, in its category's counter and
\* then in the total: RemoveCpuMemoryUsage clamps nothing.
RemovalsFit ==
  \A t \in Threads :
      update[t] # <<>> /\ ~Head(update[t]).adds =>
          /\ stage[t] = "category" =>
                 Head(update[t]).amount <= bytes[Head(update[t]).category]
          /\ stage[t] = "total" => Head(update[t]).amount <= total

\* No release is cut, whatever other releases and additions are half applied:
\* RemoveCpuMemoryUsage (font_cpu_budget.cpp) subtracts exactly, clamp or not.
THEOREM NothingSaturates == Spec => []RemovalsFit
<1>1. IInv /\ AccountingBalances => RemovalsFit
  <2> SUFFICES ASSUME IInv, AccountingBalances, NEW t \in Threads,
                      update[t] # <<>>, ~Head(update[t]).adds
               PROVE  /\ stage[t] = "category" =>
                             Head(update[t]).amount <= bytes[Head(update[t]).category]
                      /\ stage[t] = "total" => Head(update[t]).amount <= total
    BY DEF RemovalsFit
  <2>1. /\ Head(update[t]) = update[t][1] /\ 1 \in DOMAIN update[t]
        /\ update[t][1].category \in Categories
    BY HeadOK
  <2> QED BY <2>1, RemovalFits, TotalFits
<1>2. IInv /\ AccountingBalances /\ [Next]_vars => (IInv /\ AccountingBalances)'
  BY IInvKept, BalanceKept
<1> QED BY <1>1, <1>2, InitOK, InitBalances, PTL DEF Spec
=============================================================================
