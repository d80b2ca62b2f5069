------------------------ MODULE PrewarmSessionProofs ------------------------
(* Proofs about the transaction of PrewarmSession, for every set of fonts,     *)
(* every profile, every group and all retry budgets.  First what a transaction *)
(* holds, then where its jobs are: the queues as sets and as sequences, the    *)
(* inductive invariant IInv, one lemma for each action, and the theorems.      *)
EXTENDS PrewarmSession, FiniteSetTheorems, TLAPS

-----------------------------------------------------------------------------
(* What a transaction holds.                                                   *)

Holdings == <<policy, reserve, prewarmActive, workerThread>>
Released == ~policy /\ ~reserve /\ ~prewarmActive /\ ~workerThread

\* The policy is off from the flush on; once the fonts are prewarmed nothing is
\* held between transactions, nor after a failure for good; the worker is idle
\* only without a session.
HoldInv ==
    /\ phase \in {"profiles", "groups", "pools", "masks", "budget", "files",
                  "complete"} => ~policy
    /\ phase = "idle" /\ configuredPrewarmed /\ ~restartPending => Released
    /\ terminal => Released
    /\ status # "active" => Released

LEMMA AbortReleases ==
  ASSUME AbortPrewarmTransaction PROVE HoldInv'
  BY DEF AbortPrewarmTransaction, CloseTransaction, ClearSession, HoldInv, Released

LEMMA RestartKeepsHoldInv ==
  ASSUME ~terminal, NEW count, Restart(count) PROVE HoldInv'
  BY DEF Restart, ClearSession, HoldInv

LEMMA ResetKeepsHoldInv ==
  ASSUME ~terminal, ResetPrewarmTransactionForRetry PROVE HoldInv'
  BY AbortReleases, RestartKeepsHoldInv DEF ResetPrewarmTransactionForRetry

LEMMA RetryKeepsHoldInv ==
  ASSUME ~terminal, RetryWithoutJobs PROVE HoldInv'
  BY RestartKeepsHoldInv
     DEF RetryWithoutJobs, CloseTransaction, ClearSession, HoldInv, Released

LEMMA HoldStep ==
  ASSUME HoldInv, [Next]_vars PROVE HoldInv'
<1> USE DEF HoldInv
<1>1. CASE PumpThrows
  BY <1>1, ResetKeepsHoldInv, RestartKeepsHoldInv
     DEF PumpThrows, Pumped, ForcePrewarmTransactionRetryState
<1>2. CASE BeginSession
  <2>1. ~terminal /\ phase = "idle"
    BY <1>2 DEF BeginSession, Pumped
  <2>2. CASE RetryWithoutJobs
    BY <2>1, <2>2, RetryKeepsHoldInv
  <2>3. CASE phase' = "restore" /\ status' = "active" /\ terminal' = terminal
    BY <2>1, <2>3
  <2>4. CASE /\ configuredPrewarmed /\ ~restartPending
             /\ UNCHANGED <<Holdings, phase, configuredPrewarmed, restartPending, terminal>>
    BY <2>1, <2>4 DEF Holdings, Released
  <2> QED
    BY <1>2, <2>2, <2>3, <2>4
       DEF BeginSession, Proceed, Holdings, runVars, sessionVars
<1>3. CASE AbortPrewarmTransaction
  BY <1>3, AbortReleases
<1>4. CASE ResetPrewarmTransactionForRetry /\ ~terminal
  BY <1>4, ResetKeepsHoldInv
<1>5. CASE /\ phase' \in {"restore", "begin", "generate", "finalize", "flush"}
           /\ status' = "active" /\ ~terminal /\ terminal' = terminal
  BY <1>5
<1>6. CASE CleanupFlush
  BY <1>6 DEF CleanupFlush, PolicyEnded, Proceed, Stepping, Pumped, runVars
<1>7. CASE CleanupProfiles \/ CleanupStep
  <2>1. ~policy /\ UNCHANGED policy /\ ~terminal /\ UNCHANGED terminal
    BY <1>7 DEF CleanupProfiles, CleanupStep, Stepping, Pumped, runVars
  <2>2. phase' # "idle" /\ status' = "active"
    BY <1>7 DEF CleanupProfiles, CleanupStep, Proceed
  <2> QED
    BY <2>1, <2>2
<1>8. CASE CompletePrewarm
  <2>1. ~policy /\ UNCHANGED policy
    BY <1>8 DEF CompletePrewarm, Stepping
  <2> QED
    BY <1>8, <2>1 DEF CompletePrewarm, ClearSession, Released
<1>9. CASE ShutdownFontPrewarm
  BY <1>9 DEF ShutdownFontPrewarm, ClearSession, Released
<1>10. CASE \/ UNCHANGED vars
            \/ \E f \in Fonts : ActivateFreeTypeFont(f) \/ DrainPendingFontPrewarm(f)
  <2>1. UNCHANGED <<Holdings, phase, status, configuredPrewarmed, restartPending, terminal>>
    BY <1>10 DEF vars, ActivateFreeTypeFont, DrainPendingFontPrewarm, Holdings,
       runVars, sessionVars
  <2> QED
    BY <2>1 DEF Holdings, Released
<1>11. CASE RestoreDone \/ RestoreOnePrewarmSnapshot \/ GenerationDone
            \/ BeginNextPrewarmFont \/ GenerateOnePrewarmBatch \/ FinalizeFailed
            \/ FinalizeActivePrewarmFont
  BY <1>3, <1>5, <1>11 DEF RestoreDone, RestoreOnePrewarmSnapshot, GenerationDone,
     BeginNextPrewarmFont, GenerateOnePrewarmBatch, FinalizeFailed,
     FinalizeActivePrewarmFont, Proceed, RequestFails, RolledBack, Stepping, Pumped,
     runVars
<1>12. CASE FinishIncrementalSession
  <2>1. ~policy /\ ~terminal
    BY <1>12 DEF FinishIncrementalSession, Stepping, Pumped
  <2>2. CASE Proceed("complete") /\ UNCHANGED <<policy, terminal>>
    BY <2>1, <2>2 DEF Proceed
  <2> QED
    BY <1>4, <1>12, <2>1, <2>2 DEF FinishIncrementalSession, runVars
<1>13. CASE PumpFails
  BY <1>13 DEF PumpFails, runVars, sessionVars, Released
<1>14. CASE PumpFontPrewarm
  BY <1>1, <1>2, <1>6, <1>7, <1>8, <1>11, <1>12, <1>13, <1>14 DEF PumpFontPrewarm
<1> QED
  BY <1>9, <1>10, <1>14 DEF Next

\* Every way out of a transaction gives back the atlas-only policy, the reserved
\* memory, the activity flag and the worker's identity.
THEOREM ResourcesReleasedHolds == Spec => []ResourcesReleased
<1>1. Init => HoldInv
  BY DEF Init, HoldInv
<1>2. HoldInv /\ [Next]_vars => HoldInv'
  BY HoldStep
<1>3. HoldInv => ResourcesReleased
  BY DEF HoldInv, Released, ResourcesReleased
<1> QED
  BY <1>1, <1>2, <1>3, PTL DEF Spec

-----------------------------------------------------------------------------
(* Induction over the subsets of a finite set, the conclusion a membership.    *)
LEMMA SubsetInduction ==
  ASSUME NEW S, IsFiniteSet(S), NEW T,
         \A U \in SUBSET S : (\A V \in SUBSET U : V # U => V \in T) => U \in T
  PROVE  S \in T
<1> DEFINE R == StrictSubsetOrdering(S)
           F == FiniteSubsetsOf(S)
           Bad == {U \in F : U \notin T}
<1>1. IsWellFoundedOn(R, F)
  BY FS_StrictSubsetOrderingWellFounded
<1>2. S \in F
  BY DEF FiniteSubsetsOf
<1>3. \A U \in F : U \in SUBSET S /\ \A V \in SUBSET U : V \in F
  BY FS_Subset DEF FiniteSubsetsOf
<1>4. \A U \in F : \A V \in SUBSET U : V # U => <<V, U>> \in R
  BY <1>3 DEF StrictSubsetOrdering
<1>5. SUFFICES ASSUME S \notin T PROVE FALSE
  OBVIOUS
<1>6. Bad \subseteq F /\ Bad # {}
  BY <1>2, <1>5
<1>7. PICK U \in Bad : \A V \in Bad : <<V, U>> \notin R
  <2> HIDE DEF R, F, Bad
  <2> QED BY <1>1, <1>6, WFMin
<1>8. U \in F /\ U \notin T
  OBVIOUS
<1>9. \A V \in SUBSET U : V # U => V \in T
  <2>1. \A V \in F : V \notin T => V \in Bad
    OBVIOUS
  <2> HIDE DEF R, F, Bad
  <2> SUFFICES ASSUME NEW V \in SUBSET U, V # U, V \notin T PROVE FALSE
    OBVIOUS
  <2>2. V \in F
    BY <1>3, <1>8
  <2>3. <<V, U>> \in R
    BY <1>4, <1>8
  <2> QED BY <1>7, <2>1, <2>2, <2>3
<1> HIDE DEF R, F, Bad
<1>10. U \in SUBSET S
  BY <1>3, <1>8
<1> QED
  BY <1>8, <1>9, <1>10

(* Induction over the natural numbers in the same form. *)
LEMMA NatInduct ==
  ASSUME NEW T, 0 \in T, \A n \in Nat : n \in T => n + 1 \in T, NEW m \in Nat
  PROVE  m \in T
<1> DEFINE S == 1 .. m
           C == {U \in SUBSET S : Cardinality(U) \in T}
<1>1. IsFiniteSet(S) /\ Cardinality(S) = m
  BY FS_Interval
<1>2. \A U \in SUBSET S : (\A V \in SUBSET U : V # U => V \in C) => U \in C
  <2> SUFFICES ASSUME NEW U \in SUBSET S, \A V \in SUBSET U : V # U => V \in C
               PROVE  Cardinality(U) \in T
    OBVIOUS
  <2>1. IsFiniteSet(U)
    BY <1>1, FS_Subset
  <2>2. CASE U = {}
    BY <2>2, FS_EmptySet
  <2>3. CASE U # {}
    <3>1. PICK x \in U : TRUE
      BY <2>3
    <3>2. /\ Cardinality(U \ {x}) = Cardinality(U) - 1
          /\ Cardinality(U) \in Nat /\ Cardinality(U \ {x}) \in Nat
      BY <2>1, FS_RemoveElement, FS_CardinalityType
    <3>3. Cardinality(U \ {x}) \in T
      <4>1. U \ {x} \in SUBSET U /\ U \ {x} # U
        BY <3>1
      <4> QED BY <4>1
    <3>4. Cardinality(U) = Cardinality(U \ {x}) + 1
      BY <3>2
    <3> QED BY <3>2, <3>3, <3>4
  <2> QED BY <2>2, <2>3
<1>3. S \in C
  <2> HIDE DEF C, S
  <2> QED BY <1>1, <1>2, SubsetInduction
<1> QED BY <1>1, <1>3

-----------------------------------------------------------------------------
(* The fold of QueueConfiguredFontPrewarms.                                    *)
\* A finite set of numbers has a largest.
LEMMA MaxIs ==
  ASSUME NEW S \in SUBSET Nat, IsFiniteSet(S), S # {}
  PROVE  Max(S) \in S
<1> DEFINE Has(U) == \E x \in U : \A y \in U : x >= y
           T == {U \in SUBSET S : U = {} \/ Has(U)}
<1>1. \A U \in SUBSET S : (\A V \in SUBSET U : V # U => V \in T) => U \in T
  <2> SUFFICES ASSUME NEW U \in SUBSET S, \A V \in SUBSET U : V # U => V \in T, U # {}
               PROVE  Has(U)
    OBVIOUS
  <2>1. PICK x \in U : TRUE
    OBVIOUS
  <2>2. U \ {x} \in T
    OBVIOUS
  <2>3. CASE U \ {x} = {}
    <3>1. \A y \in U : y = x /\ y \in Nat
      BY <2>3
    <3> QED BY <2>1, <3>1
  <2>4. CASE U \ {x} # {}
    <3>1. PICK m \in U \ {x} : \A y \in U \ {x} : m >= y
      BY <2>2, <2>4
    <3>2. x \in Nat /\ m \in Nat /\ m \in U /\ \A y \in U : y \in Nat /\ (y = x \/ m >= y)
      BY <3>1
    <3>3. CASE m >= x
      BY <3>2, <3>3
    <3>4. CASE ~(m >= x)
      <4>1. \A y \in U : x >= y
        BY <3>2, <3>4
      <4> QED BY <4>1
    <3> QED BY <3>3, <3>4
  <2> QED BY <2>3, <2>4
<1>2. S \in T
  <2> HIDE DEF T
  <2> QED BY <1>1, SubsetInduction
<1> QED BY <1>2 DEF Max

\* g gives the queue after the jobs of every set of positions of s.
FoldsOf(g, base, s, S) ==
  g = [U \in SUBSET S |-> IF U = {} THEN base ELSE Enqueue(g[U \ {Max(U)}], s[Max(U)])]

LEMMA FoldsExist ==
  ASSUME NEW S \in SUBSET Nat, IsFiniteSet(S), NEW base, NEW s
  PROVE  \E g : FoldsOf(g, base, s, S)
<1> DEFINE D(n) == {U \in SUBSET S : Cardinality(U) <= n}
           Body(g, U) == IF U = {} THEN base
                         ELSE Enqueue(g[U \ {Max(U)}], s[Max(U)])
           P(n) == \E g : g = [U \in D(n) |-> Body(g, U)]
           T == {n \in Nat : P(n)}
<1>0. \A U \in SUBSET S : IsFiniteSet(U) /\ Cardinality(U) \in Nat
  BY FS_Subset, FS_CardinalityType
<1>1. 0 \in T
  <2>1. \A U \in D(0) : U = {}
    BY <1>0, FS_EmptySet
  <2>2. [U \in D(0) |-> base] = [U \in D(0) |-> Body([W \in D(0) |-> base], U)]
    BY <2>1
  <2> QED BY <2>2
<1>2. \A n \in Nat : n \in T => n + 1 \in T
  <2> SUFFICES ASSUME NEW n \in Nat, P(n) PROVE P(n + 1)
    <3> HIDE DEF P
    <3> QED OBVIOUS
  <2>1. PICK g : g = [U \in D(n) |-> Body(g, U)]
    OBVIOUS
  <2> DEFINE h == [U \in D(n + 1) |-> Body(g, U)]
  <2>2. \A U \in D(n + 1) : U # {} =>
            /\ U \ {Max(U)} \in D(n) /\ U \ {Max(U)} \in D(n + 1)
    <3> SUFFICES ASSUME NEW U \in D(n + 1), U # {}
                 PROVE  U \ {Max(U)} \in D(n) /\ U \ {Max(U)} \in D(n + 1)
      OBVIOUS
    <3>1. Max(U) \in U
      BY <1>0, MaxIs
    <3>2. Cardinality(U \ {Max(U)}) = Cardinality(U) - 1
      BY <1>0, <3>1, FS_RemoveElement
    <3>3. U \ {Max(U)} \in SUBSET S
      OBVIOUS
    <3>4. Cardinality(U) \in Nat /\ Cardinality(U) <= n + 1
      BY <1>0
    <3>5. Cardinality(U) - 1 <= n /\ Cardinality(U) - 1 <= n + 1
      BY <3>4
    <3> QED BY <3>2, <3>3, <3>5
  <2>3. \A U \in D(n) : g[U] = Body(g, U) /\ h[U] = Body(g, U)
    <3>1. \A U \in D(n) : U \in D(n + 1)
      BY <1>0
    <3>2. \A U \in D(n) : g[U] = Body(g, U)
      BY <2>1
    <3> QED BY <3>1, <3>2
  <2>4. \A U \in D(n + 1) : Body(g, U) = Body(h, U)
    <3> SUFFICES ASSUME NEW U \in D(n + 1), U # {}
                 PROVE  g[U \ {Max(U)}] = h[U \ {Max(U)}]
      OBVIOUS
    <3> QED BY <2>2, <2>3
  <2>5. h = [U \in D(n + 1) |-> Body(h, U)]
    BY <2>4
  <2> QED BY <2>5
<1>3. P(Cardinality(S))
  <2>1. Cardinality(S) \in Nat
    BY FS_CardinalityType
  <2> HIDE DEF T
  <2>2. Cardinality(S) \in T
    BY <1>1, <1>2, <2>1, NatInduct
  <2> USE DEF T
  <2> QED BY <2>2
<1>4. D(Cardinality(S)) = SUBSET S
  BY FS_Subset
<1> QED
  <2> HIDE DEF D
  <2> QED BY <1>3, <1>4 DEF FoldsOf

LEMMA FoldIs ==
  ASSUME NEW base, NEW s, DOMAIN s \subseteq Nat, IsFiniteSet(DOMAIN s)
  PROVE  \E g : FoldsOf(g, base, s, DOMAIN s)
                /\ FoldLeft(Enqueue, base, s) = g[DOMAIN s]
<1>1. FoldLeft(Enqueue, base, s) = (CHOOSE g : FoldsOf(g, base, s, DOMAIN s))[DOMAIN s]
  BY DEF FoldLeft, MapThenFoldSet, FoldsOf
<1> QED BY <1>1, FoldsExist

\* Jobs queued are configured fonts.
LEMMA EnqueueIn ==
  ASSUME NEW q \in SUBSET Fonts, NEW f \in Fonts
  PROVE  Enqueue(q, f) \in SUBSET Fonts
  BY DEF Enqueue

LEMMA FoldIn ==
  ASSUME NEW base \in SUBSET Fonts, NEW s, DOMAIN s \subseteq Nat, IsFiniteSet(DOMAIN s),
         \A i \in DOMAIN s : s[i] \in Fonts
  PROVE  FoldLeft(Enqueue, base, s) \in SUBSET Fonts
<1> DEFINE S == DOMAIN s
<1>1. PICK g : FoldsOf(g, base, s, S) /\ FoldLeft(Enqueue, base, s) = g[S]
  BY FoldIs
<1> HIDE DEF S
<1>2. S \subseteq Nat /\ IsFiniteSet(S) /\ \A i \in S : s[i] \in Fonts
  BY DEF S
<1>3. \A U \in SUBSET S :
          g[U] = IF U = {} THEN base ELSE Enqueue(g[U \ {Max(U)}], s[Max(U)])
  BY <1>1 DEF FoldsOf
<1> DEFINE T == {U \in SUBSET S : g[U] \in SUBSET Fonts}
<1>4. \A U \in SUBSET S : (\A V \in SUBSET U : V # U => V \in T) => U \in T
  <2> SUFFICES ASSUME NEW U \in SUBSET S, \A V \in SUBSET U : V # U => V \in T
               PROVE  g[U] \in SUBSET Fonts
    OBVIOUS
  <2>1. CASE U = {}
    BY <1>3, <2>1
  <2>2. CASE U # {}
    <3>1. IsFiniteSet(U) /\ U \in SUBSET Nat
      BY <1>2, FS_Subset
    <3>2. Max(U) \in U
      BY <2>2, <3>1, MaxIs
    <3>3. g[U \ {Max(U)}] \in SUBSET Fonts
      <4>1. U \ {Max(U)} \in SUBSET U /\ U \ {Max(U)} # U
        BY <3>2
      <4>2. U \ {Max(U)} \in T
        BY <4>1
      <4> QED BY <4>2
    <3>4. s[Max(U)] \in Fonts
      BY <1>2, <3>2
    <3>5. Enqueue(g[U \ {Max(U)}], s[Max(U)]) \in SUBSET Fonts
      BY <3>3, <3>4, EnqueueIn
    <3> QED BY <1>3, <2>2, <3>5
  <2> QED BY <2>1, <2>2
<1>5. S \in T
  <2> HIDE DEF T
  <2> QED BY <1>2, <1>4, SubsetInduction
<1> QED BY <1>1, <1>5

-----------------------------------------------------------------------------
(* SortPrewarmJobsByDependencies: the order is total, so a set of fonts has    *)
(* one enumeration in that order.                                              *)
LEMMA BeforeTotal ==
  /\ \A f, g \in Fonts : f # g => Before(f, g) \/ Before(g, f)
  /\ \A f, g, h \in Fonts : Before(f, g) /\ Before(g, h) => Before(f, h)
  /\ \A f, g \in Fonts : Before(f, g) => ~Before(g, f)
  /\ \A f \in Fonts : ~Before(f, f)
<1>1. \A f \in Fonts : f \in Nat /\ Owner[f] \in Nat
  BY SessionAssumption
<1> QED BY <1>1 DEF Before

Sorted(q, S) ==
  /\ q \in [1..Cardinality(S) -> S]
  /\ \A i, j \in DOMAIN q : i < j => Before(q[i], q[j])

LEMMA SortedExists ==
  ASSUME NEW S \in SUBSET Fonts
  PROVE  \E q : Sorted(q, S)
<1> DEFINE n == Cardinality(S)
           L(x) == {y \in S : Before(y, x)}
           R == [x \in S |-> Cardinality(L(x)) + 1]
<1>1. IsFiniteSet(S) /\ n \in Nat /\ IsFiniteSet(1..n) /\ Cardinality(1..n) = n
  <2>1. IsFiniteSet(S) /\ n \in Nat
    BY SessionAssumption, FS_Subset, FS_CardinalityType
  <2> HIDE DEF n
  <2>2. IsFiniteSet(1..n) /\ Cardinality(1..n) = n
    BY <2>1, FS_Interval
  <2> QED BY <2>1, <2>2
<1>2. \A x \in S : IsFiniteSet(L(x)) /\ Cardinality(L(x)) \in Nat
  BY <1>1, FS_Subset, FS_CardinalityType
<1>3. ASSUME NEW x \in S PROVE R[x] \in 1..n
  <2>1. L(x) \cup {x} \in SUBSET S
    OBVIOUS
  <2>2. x \notin L(x)
    BY BeforeTotal
  <2>3. Cardinality(L(x) \cup {x}) = Cardinality(L(x)) + 1
    <3> HIDE DEF L
    <3> QED BY <1>2, <2>2, FS_AddElement
  <2>4. Cardinality(L(x) \cup {x}) <= n
    BY <1>1, <2>1, FS_Subset
  <2>5. R[x] = Cardinality(L(x)) + 1
    OBVIOUS
  <2> HIDE DEF R, L, n
  <2> QED BY <1>1, <1>2, <2>3, <2>4, <2>5
<1>4. ASSUME NEW x \in S, NEW y \in S, Before(x, y) PROVE R[x] < R[y]
  <2>1. L(x) \cup {x} \in SUBSET L(y)
    BY <1>4, BeforeTotal
  <2>2. x \notin L(x)
    BY BeforeTotal
  <2>3. R[x] = Cardinality(L(x)) + 1 /\ R[y] = Cardinality(L(y)) + 1
    OBVIOUS
  <2> HIDE DEF L, R
  <2>4. Cardinality(L(x) \cup {x}) = Cardinality(L(x)) + 1
    BY <1>2, <2>2, FS_AddElement
  <2>5. Cardinality(L(x) \cup {x}) <= Cardinality(L(y))
    BY <1>2, <2>1, FS_Subset
  <2> QED BY <1>2, <2>3, <2>4, <2>5
<1>5. R \in [S -> 1..n]
  BY <1>3
<1> HIDE DEF R
<1>6. \A x, y \in S : R[x] = R[y] => x = y
  <2> SUFFICES ASSUME NEW x \in S, NEW y \in S, R[x] = R[y], x # y PROVE FALSE
    OBVIOUS
  <2>1. R[x] < R[y] \/ R[y] < R[x]
    BY <1>4, BeforeTotal
  <2>2. R[x] \in Nat /\ R[y] \in Nat
    BY <1>5
  <2> QED BY <2>1, <2>2
<1>7. \A i \in 1..n : \E x \in S : R[x] = i
  <2>1. R \in Injection(S, 1..n)
    BY <1>5, <1>6 DEF Injection, IsInjective
  <2>2. R \in Surjection(S, 1..n)
    BY <1>1, <2>1, FS_Injection
  <2> QED BY <2>2 DEF Surjection
<1> DEFINE q == [i \in 1..n |-> CHOOSE x \in S : R[x] = i]
<1>8. \A i \in 1..n : q[i] \in S /\ R[q[i]] = i
  BY <1>7
<1>9. q \in [1..n -> S] /\ DOMAIN q = 1..n
  BY <1>8
<1> HIDE DEF q
<1>10. ASSUME NEW i \in 1..n, NEW j \in 1..n, i < j PROVE Before(q[i], q[j])
  <2>1. q[i] # q[j]
    BY <1>8, <1>10
  <2>2. ~Before(q[j], q[i])
    <3> SUFFICES ASSUME Before(q[j], q[i]) PROVE FALSE
      OBVIOUS
    <3>1. R[q[j]] < R[q[i]]
      BY <1>4, <1>8
    <3>2. j < i
      BY <1>8, <3>1
    <3> QED BY <1>1, <1>10, <3>2
  <2> QED BY <1>8, <2>1, <2>2, BeforeTotal
<1> QED BY <1>9, <1>10 DEF Sorted

LEMMA InOrderIs ==
  ASSUME NEW S \in SUBSET Fonts, NEW q, q = InOrder(S)
  PROVE  /\ q \in Seq(S) /\ q \in Seq(Fonts) /\ Len(q) = Cardinality(S)
         /\ ToSet(q) = S
         /\ \A i, j \in DOMAIN q : i < j => Before(q[i], q[j])
<1> DEFINE n == Cardinality(S)
<1>1. IsFiniteSet(S) /\ n \in Nat /\ IsFiniteSet(1..n) /\ Cardinality(1..n) = n
  <2>1. IsFiniteSet(S) /\ n \in Nat
    BY SessionAssumption, FS_Subset, FS_CardinalityType
  <2> HIDE DEF n
  <2>2. IsFiniteSet(1..n) /\ Cardinality(1..n) = n
    BY <2>1, FS_Interval
  <2> QED BY <2>1, <2>2
<1>2. Sorted(q, S)
  BY SortedExists DEF InOrder, Sorted
<1>3. q \in [1..n -> S] /\ DOMAIN q = 1..n
      /\ \A i, j \in 1..n : i < j => Before(q[i], q[j])
  BY <1>2 DEF Sorted
<1> HIDE DEF n
<1>4. q \in Seq(S) /\ q \in Seq(Fonts) /\ Len(q) = n
  BY <1>1, <1>3
<1>5. \A i, j \in 1..n : q[i] = q[j] => i = j
  <2> SUFFICES ASSUME NEW i \in 1..n, NEW j \in 1..n, q[i] = q[j], i # j PROVE FALSE
    OBVIOUS
  <2>1. Before(q[i], q[j]) \/ Before(q[j], q[i])
    BY <1>1, <1>3
  <2>2. q[i] \in Fonts
    BY <1>3
  <2> QED BY <2>1, <2>2, BeforeTotal
<1>6. q \in Injection(1..n, S)
  BY <1>3, <1>5 DEF Injection, IsInjective
<1>7. q \in Surjection(1..n, S)
  BY <1>1, <1>6, FS_Injection DEF n
<1>8. ToSet(q) = S
  BY <1>3, <1>7 DEF Surjection, ToSet
<1> QED BY <1>3, <1>4, <1>8 DEF n

-----------------------------------------------------------------------------
(* The queues: each holds its jobs once.                                       *)
Once(s) == \A i, j \in DOMAIN s : Profile[s[i]] = Profile[s[j]] => i = j
Apart(X, Y) == \A f \in X, g \in Y : Profile[f] # Profile[g]
AliasesLast(s) == \A i, j \in DOMAIN s : i < j /\ IsAlias(s[i]) => IsAlias(s[j])
AllAliases(X) == \A f \in X : IsAlias(f)

\* q is the queue s with f at its end, at its front; and s without its first.
Ends(q, s, f) == q = Append(s, f)
Starts(q, s, f) == q = <<f>> \o s

LEMMA EmptyIs ==
  ASSUME NEW s \in Seq(Fonts)
  PROVE  /\ s = <<>> => Len(s) = 0 /\ ToSet(s) = {} /\ Once(s) /\ AliasesLast(s)
         /\ Len(s) \in Nat /\ ToSet(s) \in SUBSET Fonts
         /\ Len(s) = 0 => s = <<>>
         /\ ToSet(s) = {} => s = <<>>
         /\ AllAliases(ToSet(s)) => AliasesLast(s)
<1>1. /\ Len(s) \in Nat /\ DOMAIN s = 1..Len(s) /\ \A i \in DOMAIN s : s[i] \in Fonts
      /\ s = <<>> <=> Len(s) = 0
  OBVIOUS
<1>2. s = <<>> <=> DOMAIN s = {}
  <2>1. Len(s) # 0 => 1 \in DOMAIN s
    BY <1>1
  <2> QED BY <1>1, <2>1
<1>3. ToSet(s) \in SUBSET Fonts /\ (ToSet(s) = {} <=> DOMAIN s = {})
  BY <1>1 DEF ToSet
<1>4. AllAliases(ToSet(s)) => AliasesLast(s)
  BY DEF AllAliases, AliasesLast, ToSet
<1>5. DOMAIN s = {} => Once(s) /\ AliasesLast(s)
  BY DEF Once, AliasesLast
<1> QED BY <1>1, <1>2, <1>3, <1>4, <1>5

LEMMA JoinIs ==
  ASSUME NEW s \in Seq(Fonts), NEW r \in Seq(Fonts), NEW q, q = s \o r
  PROVE  /\ q \in Seq(Fonts) /\ Len(q) = Len(s) + Len(r)
         /\ ToSet(q) = ToSet(s) \cup ToSet(r)
         /\ Once(s) /\ Once(r) /\ Apart(ToSet(s), ToSet(r)) => Once(q)
<1> DEFINE m == Len(s)
           n == Len(r)
<1>1. /\ m \in Nat /\ n \in Nat /\ DOMAIN s = 1..m /\ DOMAIN r = 1..n
      /\ q \in Seq(Fonts) /\ Len(q) = m + n /\ DOMAIN q = 1..(m + n)
      /\ \A i \in 1..m : q[i] = s[i]
      /\ \A i \in 1..n : q[m + i] = r[i]
      /\ \A i \in 1..(m + n) : q[i] = IF i <= m THEN s[i] ELSE r[i - m]
  OBVIOUS
<1> HIDE DEF m, n
<1>2. \A i \in 1..(m + n) : (i <= m => i \in 1..m) /\ (~(i <= m) => i - m \in 1..n)
  BY <1>1
<1>3. \A i \in 1..m : i \in 1..(m + n)
  BY <1>1
<1>4. \A i \in 1..n : m + i \in 1..(m + n)
  BY <1>1
<1>5. ToSet(q) = ToSet(s) \cup ToSet(r)
  <2>1. \A x \in ToSet(q) : x \in ToSet(s) \cup ToSet(r)
    BY <1>1, <1>2 DEF ToSet
  <2>2. \A x \in ToSet(s) : x \in ToSet(q)
    BY <1>1, <1>3 DEF ToSet
  <2>3. \A x \in ToSet(r) : x \in ToSet(q)
    <3> SUFFICES ASSUME NEW i \in 1..n PROVE r[i] \in ToSet(q)
      BY <1>1 DEF ToSet
    <3>1. m + i \in DOMAIN q /\ q[m + i] = r[i]
      BY <1>1, <1>4
    <3> QED BY <3>1 DEF ToSet
  <2> QED BY <2>1, <2>2, <2>3
<1>6. ASSUME Once(s), Once(r), Apart(ToSet(s), ToSet(r)) PROVE Once(q)
  <2> SUFFICES ASSUME NEW i \in 1..(m + n), NEW j \in 1..(m + n),
                      Profile[q[i]] = Profile[q[j]]
               PROVE  i = j
    BY <1>1 DEF Once
  <2>1. CASE i <= m /\ j <= m
    <3>1. i \in 1..m /\ j \in 1..m /\ q[i] = s[i] /\ q[j] = s[j]
      BY <1>1, <1>2, <2>1
    <3>2. i \in DOMAIN s /\ j \in DOMAIN s /\ Profile[s[i]] = Profile[s[j]]
      BY <1>1, <3>1
    <3> QED BY <1>6, <3>2, Zenon DEF Once
  <2>2. CASE i <= m /\ ~(j <= m)
    <3>1. i \in 1..m /\ j - m \in 1..n /\ q[i] = s[i] /\ q[j] = r[j - m]
      BY <1>1, <1>2, <2>2
    <3>2. q[i] \in ToSet(s) /\ q[j] \in ToSet(r)
      BY <1>1, <3>1 DEF ToSet
    <3> QED BY <1>6, <3>2 DEF Apart
  <2>3. CASE ~(i <= m) /\ j <= m
    <3>1. j \in 1..m /\ i - m \in 1..n /\ q[j] = s[j] /\ q[i] = r[i - m]
      BY <1>1, <1>2, <2>3
    <3>2. q[j] \in ToSet(s) /\ q[i] \in ToSet(r)
      BY <1>1, <3>1 DEF ToSet
    <3> QED BY <1>6, <3>2 DEF Apart
  <2>4. CASE ~(i <= m) /\ ~(j <= m)
    <3>1. i - m \in 1..n /\ j - m \in 1..n /\ q[i] = r[i - m] /\ q[j] = r[j - m]
      BY <1>1, <1>2, <2>4
    <3>a. i - m \in DOMAIN r /\ j - m \in DOMAIN r /\ Profile[r[i - m]] = Profile[r[j - m]]
      BY <1>1, <3>1
    <3>2. i - m = j - m
      BY <1>6, <3>a, Zenon DEF Once
    <3> QED BY <1>1, <3>2
  <2> QED BY <2>1, <2>2, <2>3, <2>4
<1> QED BY <1>1, <1>5, <1>6 DEF m, n

LEMMA OneIs ==
  ASSUME NEW f \in Fonts, NEW s, s = <<f>>
  PROVE  s \in Seq(Fonts) /\ Len(s) = 1 /\ ToSet(s) = {f} /\ Once(s) /\ DOMAIN s = 1..1
         /\ s[1] = f
  BY DEF ToSet, Once

LEMMA EndsIs ==
  ASSUME NEW s \in Seq(Fonts), NEW f \in Fonts, NEW q, Ends(q, s, f)
  PROVE  /\ q \in Seq(Fonts) /\ Len(q) = Len(s) + 1 /\ Len(s) \in Nat
         /\ ToSet(q) = ToSet(s) \cup {f}
         /\ Once(s) /\ Apart({f}, ToSet(s)) => Once(q)
<1>1. PICK r : r = <<f>>
  OBVIOUS
<1>2. q = s \o r
  BY <1>1 DEF Ends
<1>3. r \in Seq(Fonts) /\ Len(r) = 1 /\ ToSet(r) = {f} /\ Once(r)
  BY <1>1, OneIs
<1>4. /\ q \in Seq(Fonts) /\ Len(q) = Len(s) + Len(r)
      /\ ToSet(q) = ToSet(s) \cup ToSet(r)
      /\ Once(s) /\ Once(r) /\ Apart(ToSet(s), ToSet(r)) => Once(q)
  BY <1>2, <1>3, JoinIs
<1>5. Len(s) \in Nat
  OBVIOUS
<1>6. Apart({f}, ToSet(s)) => Apart(ToSet(s), ToSet(r))
  BY <1>3 DEF Apart
<1> QED BY <1>3, <1>4, <1>5, <1>6

LEMMA StartsIs ==
  ASSUME NEW s \in Seq(Fonts), NEW f \in Fonts, NEW q, Starts(q, s, f)
  PROVE  /\ q \in Seq(Fonts) /\ Len(q) = Len(s) + 1 /\ Len(s) \in Nat
         /\ ToSet(q) = ToSet(s) \cup {f}
         /\ Once(s) /\ Apart({f}, ToSet(s)) => Once(q)
         /\ AllAliases(ToSet(s)) => AliasesLast(q)
         /\ AliasesLast(s) /\ ~IsAlias(f) => AliasesLast(q)
<1>1. PICK r : r = <<f>>
  OBVIOUS
<1>2. q = r \o s
  BY <1>1 DEF Starts
<1>3. r \in Seq(Fonts) /\ Len(r) = 1 /\ ToSet(r) = {f} /\ Once(r)
  BY <1>1, OneIs
<1>4. /\ q \in Seq(Fonts) /\ Len(q) = Len(r) + Len(s)
      /\ ToSet(q) = ToSet(r) \cup ToSet(s)
      /\ Once(r) /\ Once(s) /\ Apart(ToSet(r), ToSet(s)) => Once(q)
  BY <1>2, <1>3, JoinIs
<1>5. Len(s) \in Nat
  OBVIOUS
<1>6. Apart({f}, ToSet(s)) => Apart(ToSet(r), ToSet(s))
  BY <1>3
<1> DEFINE n == Len(s)
<1>7. /\ n \in Nat /\ DOMAIN s = 1..n /\ DOMAIN q = 1..(n + 1) /\ q[1] = f
      /\ \A i \in 1..(n + 1) : i # 1 => q[i] = s[i - 1]
  BY DEF Starts
<1> HIDE DEF n
<1>8. \A i \in 1..(n + 1) : i # 1 => i - 1 \in 1..n
  BY <1>7
<1>9. AllAliases(ToSet(s)) => AliasesLast(q)
  <2> SUFFICES ASSUME AllAliases(ToSet(s)), NEW i \in 1..(n + 1), NEW j \in 1..(n + 1),
                      i < j
               PROVE  IsAlias(q[j])
    BY <1>7 DEF AliasesLast
  <2>1. j # 1
    BY <1>7
  <2>2. q[j] \in ToSet(s)
    BY <1>7, <1>8, <2>1 DEF ToSet
  <2> QED BY <2>2 DEF AllAliases
<1>10. AliasesLast(s) /\ ~IsAlias(f) => AliasesLast(q)
  <2> SUFFICES ASSUME AliasesLast(s), ~IsAlias(f), NEW i \in 1..(n + 1),
                      NEW j \in 1..(n + 1), i < j, IsAlias(q[i])
               PROVE  IsAlias(q[j])
    BY <1>7 DEF AliasesLast
  <2>1. i # 1 /\ j # 1
    BY <1>7
  <2>2. /\ i - 1 \in 1..n /\ j - 1 \in 1..n /\ i - 1 < j - 1
        /\ q[i] = s[i - 1] /\ q[j] = s[j - 1]
    BY <1>7, <1>8, <2>1
  <2> QED BY <1>7, <2>2 DEF AliasesLast
<1>11. Len(q) = Len(s) + 1
  BY <1>3, <1>4, <1>5
<1> QED BY <1>3, <1>4, <1>5, <1>6, <1>9, <1>10, <1>11

LEMMA FirstIs ==
  ASSUME NEW s \in Seq(Fonts), s # <<>>, NEW f, f = Head(s), NEW q, q = Tail(s)
  PROVE  /\ f \in Fonts /\ q \in Seq(Fonts) /\ Starts(s, q, f)
         /\ Len(s) = Len(q) + 1 /\ Len(q) \in Nat
         /\ ToSet(s) = ToSet(q) \cup {f}
         /\ Once(s) => Once(q) /\ Apart({f}, ToSet(q))
         /\ AliasesLast(s) => AliasesLast(q)
         /\ AliasesLast(s) /\ IsAlias(f) => AllAliases(ToSet(q))
<1>1. f \in Fonts /\ q \in Seq(Fonts) /\ s = <<f>> \o q
  OBVIOUS
<1>2. Starts(s, q, f)
  BY <1>1 DEF Starts
<1> DEFINE n == Len(q)
<1>3. /\ n \in Nat /\ DOMAIN q = 1..n /\ DOMAIN s = 1..(n + 1) /\ s[1] = f
      /\ \A i \in 1..n : s[i + 1] = q[i]
  BY <1>1
<1>4. Len(s) = Len(q) + 1 /\ ToSet(s) = ToSet(q) \cup {f}
  BY <1>1, <1>2, StartsIs
<1> HIDE DEF n
<1>5. 1 \in 1..(n + 1) /\ \A i \in 1..n : i + 1 \in 1..(n + 1) /\ 1 < i + 1 /\ i + 1 # 1
  BY <1>3
<1>6. ASSUME Once(s) PROVE Once(q) /\ Apart({f}, ToSet(q))
  <2>1. ASSUME NEW i \in 1..n, NEW j \in 1..n, Profile[q[i]] = Profile[q[j]] PROVE i = j
    <3>1. i + 1 = j + 1
      BY <1>3, <1>5, <1>6, <2>1 DEF Once
    <3> QED BY <1>3, <3>1
  <2>2. ASSUME NEW i \in 1..n PROVE Profile[q[i]] # Profile[f]
    BY <1>3, <1>5, <1>6 DEF Once
  <2>3. Once(q)
    BY <1>3, <2>1 DEF Once
  <2>4. Apart({f}, ToSet(q))
    BY <1>3, <2>2 DEF Apart, ToSet
  <2> QED BY <2>3, <2>4
<1>7. ASSUME AliasesLast(s) PROVE AliasesLast(q)
  <2> SUFFICES ASSUME NEW i \in 1..n, NEW j \in 1..n, i < j, IsAlias(q[i])
               PROVE  IsAlias(q[j])
    BY <1>3 DEF AliasesLast
  <2>1. i + 1 < j + 1
    BY <1>3
  <2> QED BY <1>3, <1>5, <1>7, <2>1 DEF AliasesLast
<1>8. ASSUME AliasesLast(s), IsAlias(f) PROVE AllAliases(ToSet(q))
  <2>1. \A i \in 1..n : IsAlias(q[i])
    BY <1>3, <1>5, <1>8 DEF AliasesLast
  <2> QED BY <1>3, <2>1 DEF AllAliases, ToSet
<1> QED BY <1>1, <1>2, <1>3, <1>4, <1>6, <1>7, <1>8 DEF n

\* Sorted, the owners of a group come before its aliases.
LEMMA InOrderAliasesLast ==
  ASSUME NEW S \in SUBSET Fonts, NEW q, q = InOrder(S)
  PROVE  AliasesLast(q)
<1>1. /\ q \in Seq(Fonts)
      /\ \A i, j \in DOMAIN q : i < j => Before(q[i], q[j])
  BY InOrderIs
<1>2. \A f, g : Before(f, g) /\ IsAlias(f) => IsAlias(g)
  BY DEF Before
<1> QED BY <1>1, <1>2 DEF AliasesLast

-----------------------------------------------------------------------------
(* The inductive invariant.                                                    *)
QueuesOK ==
  /\ jobs \in SUBSET Fonts /\ scheduled \in SUBSET ProfilesOf(Fonts)
  /\ ready \in SUBSET Fonts
  /\ restoreJobs \in Seq(Fonts) /\ generationJobs \in Seq(Fonts)
  /\ verified \in Seq(Fonts) /\ activeFont \in Fonts \cup {NoFont}

FlagsOK ==
  /\ configuredQueued \in BOOLEAN /\ configuredPrewarmed \in BOOLEAN
  /\ restartPending \in BOOLEAN /\ restartCount \in 0..MaxTransactions
  /\ terminal \in BOOLEAN /\ prewarmActive \in BOOLEAN
  /\ workerThread \in BOOLEAN /\ policy \in BOOLEAN
  /\ phase \in Phases /\ outcome \in {"ok", "failed", "terminal"}
  /\ everyVerified \in BOOLEAN /\ reserve \in BOOLEAN /\ trimStuck \in BOOLEAN
  /\ status \in {"active", "idle", "completed", "failed", "shutdown"}

NumbersOK ==
  /\ queued \in Nat /\ completed \in Nat /\ streamFailed \in Nat /\ finished \in Nat
  /\ left \in [Fonts -> 0..Units] /\ memory \in Counters
  /\ restarts \in Counters /\ deferrals \in Counters

Active == IF activeFont = NoFont THEN {} ELSE {activeFont}
Placed == ToSet(restoreJobs) \cup ToSet(generationJobs) \cup Active \cup ToSet(verified)

\* What the phases after the generation, and after the verdict, are called.
Late == {"groups", "pools", "masks", "budget", "files", "complete"}
Drained == {"flush", "profiles"} \cup Late
Generating == {"begin", "generate", "finalize"}

\* Where jobs are in each phase.
PhaseOK ==
  /\ phase = "idle" =>
         /\ restoreJobs = <<>> /\ generationJobs = <<>> /\ verified = <<>>
         /\ queued = 0 /\ completed = 0 /\ streamFailed = 0 /\ finished = 0
         /\ deferrals = Zero
  /\ activeFont # NoFont <=> phase \in {"generate", "finalize"}
  /\ phase \notin {"idle", "restore"} => restoreJobs = <<>>
  /\ phase \in Drained => generationJobs = <<>>

\* No two jobs of a session are for one profile.
Four(R, G, A, V) ==
  Apart(R, G) /\ Apart(R, A) /\ Apart(R, V) /\ Apart(G, A) /\ Apart(G, V) /\ Apart(A, V)

OnceOK ==
  /\ Once(restoreJobs) /\ Once(generationJobs) /\ Once(verified)
  /\ Four(ToSet(restoreJobs), ToSet(generationJobs), Active, ToSet(verified))

ActiveCount == IF activeFont = NoFont THEN 0 ELSE 1
CountOK ==
  /\ Len(restoreJobs) + Len(generationJobs) + ActiveCount + finished = queued
  /\ finished = completed + streamFailed /\ Len(verified) = completed

\* Once sorted, the aliases stay behind the owners, and the owner of a font that
\* was deferred has no job left.
OrderOK ==
  /\ phase \in Generating => AliasesLast(generationJobs)
  /\ activeFont # NoFont /\ IsAlias(activeFont) => AllAliases(ToSet(generationJobs))

DeferredOK == \A f \in Fonts : deferrals[f] > 0 => Owner[f] \notin Placed

ScannedOK == phase = "finalize" /\ outcome = "ok" => left[activeFont] = 0

VerdictOK ==
  /\ everyVerified => /\ phase \in Late /\ ready = Fonts
                      /\ ProfilesOf(ToSet(verified)) = ProfilesOf(Fonts)
  /\ phase = "complete" => everyVerified

\* The queue holds no second job for a profile of the session.
CoveredOK ==
  phase # "idle" => Apart(jobs, Placed) /\ ProfilesOf(Placed) \subseteq scheduled

ReportedOK ==
  status = "completed" => phase = "idle" /\ jobs = {} /\ ProfilesOf(Fonts) \subseteq scheduled

IInv ==
  /\ QueuesOK /\ FlagsOK /\ NumbersOK /\ PhaseOK /\ OnceOK /\ CountOK
  /\ OrderOK /\ DeferredOK /\ ScannedOK /\ VerdictOK /\ CoveredOK /\ ReportedOK

LEMMA ApartRules ==
  /\ \A X, Y : Apart(X, Y) => Apart(Y, X)
  /\ \A X, Y, Z : Apart(X, Y) /\ Z \subseteq X => Apart(Z, Y)
  /\ \A X, Y, Z : Apart(X \cup Z, Y) <=> Apart(X, Y) /\ Apart(Z, Y)
  /\ \A Y : Apart({}, Y) /\ Apart(Y, {})
  BY DEF Apart

\* A session that is cleared.
LEMMA Cleared ==
  ASSUME ClearSession, FlagsOK', jobs' \in SUBSET Fonts,
         scheduled' \in SUBSET ProfilesOf(Fonts), ready' \in SUBSET Fonts, ReportedOK'
  PROVE  IInv'
<1>1. /\ phase' = "idle" /\ restoreJobs' = <<>> /\ generationJobs' = <<>>
      /\ activeFont' = NoFont /\ outcome' = "ok"
      /\ queued' = 0 /\ completed' = 0 /\ streamFailed' = 0 /\ finished' = 0
      /\ verified' = <<>> /\ everyVerified' = FALSE
      /\ left' = Zero /\ memory' = Zero /\ restarts' = Zero /\ deferrals' = Zero
  BY DEF ClearSession
<1>2. Zero \in [Fonts -> 0..Units] /\ Zero \in Counters /\ \A f \in Fonts : Zero[f] = 0
  BY SessionAssumption DEF Zero, Counters
<1>3. <<>> \in Seq(Fonts)
  OBVIOUS
<1>4. PICK e : e = <<>>
  OBVIOUS
<1>5. /\ e \in Seq(Fonts) /\ Len(e) = 0 /\ ToSet(e) = {} /\ Once(e) /\ AliasesLast(e)
  BY <1>3, <1>4, EmptyIs
<1>6. QueuesOK' /\ NumbersOK'
  <2>1. QueuesOK'
    BY <1>1, <1>3 DEF QueuesOK
  <2>2. NumbersOK'
    BY <1>1, <1>2 DEF NumbersOK
  <2> QED BY <2>1, <2>2
<1>7. PhaseOK'
  BY <1>1 DEF PhaseOK, Drained, Late
<1>8. /\ restoreJobs' = e /\ generationJobs' = e /\ verified' = e
  BY <1>1, <1>4
<1>9. OnceOK'
  <2>1. Active' = {}
    BY <1>1 DEF Active
  <2> QED BY <1>5, <1>8, <2>1 DEF OnceOK, Four, Apart
<1>10. CountOK'
  BY <1>1, <1>5, <1>8 DEF CountOK, ActiveCount
<1>11. OrderOK'
  BY <1>1 DEF OrderOK, Generating
<1>12. DeferredOK'
  BY <1>1, <1>2 DEF DeferredOK
<1>13. ScannedOK' /\ VerdictOK' /\ CoveredOK'
  BY <1>1 DEF ScannedOK, VerdictOK, CoveredOK
<1> QED BY <1>6, <1>7, <1>9, <1>10, <1>11, <1>12, <1>13 DEF IInv

LEMMA NoRestarts == 0 \in 0..MaxTransactions
<1>1. MaxTransactions \in Nat
  BY SessionAssumption
<1> QED BY <1>1

LEMMA InitOK == Init => IInv
<1> SUFFICES ASSUME Init PROVE IInv
  OBVIOUS
<1>1. /\ phase = "idle" /\ restoreJobs = <<>> /\ generationJobs = <<>>
      /\ activeFont = NoFont /\ outcome = "ok"
      /\ queued = 0 /\ completed = 0 /\ streamFailed = 0 /\ finished = 0
      /\ verified = <<>> /\ everyVerified = FALSE
      /\ left = Zero /\ memory = Zero /\ restarts = Zero /\ deferrals = Zero
  BY DEF Init
<1>2. Zero \in [Fonts -> 0..Units] /\ Zero \in Counters /\ \A f \in Fonts : Zero[f] = 0
  BY SessionAssumption DEF Zero, Counters
<1>3. <<>> \in Seq(Fonts)
  OBVIOUS
<1>4. PICK e : e = <<>>
  OBVIOUS
<1>5. /\ e \in Seq(Fonts) /\ Len(e) = 0 /\ ToSet(e) = {} /\ Once(e) /\ AliasesLast(e)
  BY <1>3, <1>4, EmptyIs
<1>6. QueuesOK /\ NumbersOK /\ FlagsOK
  <2>1. QueuesOK
    BY <1>1, <1>3 DEF QueuesOK, Init
  <2>2. NumbersOK
    BY <1>1, <1>2 DEF NumbersOK
  <2>3. FlagsOK
    BY NoRestarts DEF Init, FlagsOK, Phases
  <2> QED BY <2>1, <2>2, <2>3
<1>7. PhaseOK
  BY <1>1 DEF PhaseOK, Drained, Late
<1>8. /\ restoreJobs = e /\ generationJobs = e /\ verified = e
  BY <1>1, <1>4
<1>9. OnceOK
  <2>1. Active = {}
    BY <1>1 DEF Active
  <2> QED BY <1>5, <1>8, <2>1 DEF OnceOK, Four, Apart
<1>10. CountOK
  BY <1>1, <1>5, <1>8 DEF CountOK, ActiveCount
<1>11. OrderOK
  BY <1>1 DEF OrderOK, Generating
<1>12. DeferredOK
  BY <1>1, <1>2 DEF DeferredOK
<1>13. ScannedOK /\ VerdictOK /\ CoveredOK
  BY <1>1 DEF ScannedOK, VerdictOK, CoveredOK
<1>14. ReportedOK
  BY DEF Init, ReportedOK
<1> QED BY <1>6, <1>7, <1>9, <1>10, <1>11, <1>12, <1>13, <1>14 DEF IInv

LEMMA ClosedOK ==
  ASSUME IInv, CloseTransaction, status' \in {"active", "failed"},
         ready' \in SUBSET Fonts, trimStuck' \in BOOLEAN
  PROVE  IInv'
<1>1. FlagsOK'
  BY DEF CloseTransaction, ClearSession, IInv, FlagsOK, Phases
<1>2. ClearSession /\ jobs' = {} /\ scheduled' = {} /\ status' # "completed"
  BY DEF CloseTransaction, ClearQueue
<1> QED BY <1>1, <1>2, Cleared DEF ReportedOK

LEMMA AbortOK ==
  ASSUME IInv, AbortPrewarmTransaction, ready' \in SUBSET Fonts, trimStuck' \in BOOLEAN
  PROVE  IInv'
  BY ClosedOK DEF AbortPrewarmTransaction

LEMMA RestartOK ==
  ASSUME IInv, NEW count \in 0..MaxTransactions, Restart(count),
         ready' \in SUBSET Fonts, trimStuck' \in BOOLEAN
  PROVE  IInv'
<1>1. FlagsOK'
  BY DEF Restart, ClearSession, IInv, FlagsOK, Phases
<1>2. ClearSession /\ jobs' = {} /\ scheduled' = {} /\ status' = "active"
  BY DEF Restart, ClearQueue
<1> QED BY <1>1, <1>2, Cleared DEF ReportedOK

LEMMA ResetOK ==
  ASSUME IInv, ResetPrewarmTransactionForRetry,
         ready' \in SUBSET Fonts, trimStuck' \in BOOLEAN
  PROVE  IInv'
<1>1. CASE CanRestartPrewarmTransaction
  <2>1. restartCount + 1 \in 0..MaxTransactions
    BY <1>1, SessionAssumption DEF CanRestartPrewarmTransaction, IInv, FlagsOK
  <2> QED BY <1>1, <2>1, RestartOK DEF ResetPrewarmTransactionForRetry
<1>2. CASE ~CanRestartPrewarmTransaction
  BY <1>2, AbortOK DEF ResetPrewarmTransactionForRetry
<1> QED BY <1>1, <1>2

LEMMA RetryOK ==
  ASSUME IInv, RetryWithoutJobs, ready' \in SUBSET Fonts, trimStuck' \in BOOLEAN
  PROVE  IInv'
<1>1. CASE CanRestartPrewarmTransaction
  <2>1. restartCount + 1 \in 0..MaxTransactions
    BY <1>1, SessionAssumption DEF CanRestartPrewarmTransaction, IInv, FlagsOK
  <2> QED BY <1>1, <2>1, RestartOK DEF RetryWithoutJobs
<1>2. CASE ~CanRestartPrewarmTransaction
  BY <1>2, ClosedOK DEF RetryWithoutJobs
<1> QED BY <1>1, <1>2

LEMMA PumpThrowsOK ==
  ASSUME IInv, PumpThrows
  PROVE  IInv'
<1>1. ready' \in SUBSET Fonts /\ trimStuck' \in BOOLEAN
  BY DEF PumpThrows, IInv, QueuesOK, FlagsOK
<1>2. CASE ResetPrewarmTransactionForRetry
  BY <1>1, <1>2, ResetOK
<1>3. CASE ForcePrewarmTransactionRetryState
  <2>1. ForcedRestart \in 0..MaxTransactions
    BY <1>3, SessionAssumption DEF ForcePrewarmTransactionRetryState, ForcedRestart,
       CanRestartPrewarmTransaction, IInv, FlagsOK
  <2> QED BY <1>1, <1>3, <2>1, RestartOK DEF ForcePrewarmTransactionRetryState
<1> QED BY <1>2, <1>3 DEF PumpThrows

LEMMA ShutdownFontPrewarmOK ==
  ASSUME IInv, ShutdownFontPrewarm
  PROVE  IInv'
<1>1. FlagsOK'
  BY NoRestarts DEF ShutdownFontPrewarm, ClearSession, IInv, FlagsOK, Phases
<1>2. ClearSession /\ jobs' = {} /\ scheduled' = {} /\ status' = "shutdown"
      /\ ready' \in SUBSET Fonts
  BY DEF ShutdownFontPrewarm, ClearQueue, IInv, QueuesOK
<1> QED BY <1>1, <1>2, Cleared DEF ReportedOK

LEMMA CompletePrewarmOK ==
  ASSUME IInv, CompletePrewarm
  PROVE  IInv'
<1>1. FlagsOK'
  BY NoRestarts DEF CompletePrewarm, queueVars, ClearSession, IInv, FlagsOK, Phases
<1>2. ClearSession /\ jobs' = jobs /\ scheduled' = scheduled /\ ready' = ready
      /\ phase = "complete" /\ phase' = "idle"
  BY DEF CompletePrewarm, queueVars, Stepping, ClearSession
<1>3. ProfilesOf(ToSet(verified)) = ProfilesOf(Fonts)
  BY <1>2 DEF IInv, VerdictOK
<1>4. Apart(jobs, Placed) /\ ProfilesOf(Placed) \subseteq scheduled
      /\ ToSet(verified) \subseteq Placed /\ jobs \in SUBSET Fonts
  BY <1>2 DEF IInv, CoveredOK, Placed, QueuesOK
<1>5. ProfilesOf(Fonts) \subseteq scheduled
  BY <1>3, <1>4 DEF ProfilesOf
<1>6. jobs = {}
  <2> SUFFICES ASSUME NEW f \in jobs PROVE FALSE
    OBVIOUS
  <2>1. Profile[f] \in ProfilesOf(ToSet(verified))
    BY <1>3, <1>4 DEF ProfilesOf
  <2>2. PICK g \in ToSet(verified) : Profile[g] = Profile[f]
    BY <2>1 DEF ProfilesOf
  <2> QED BY <1>4, <2>2 DEF Apart
<1> QED BY <1>1, <1>2, <1>5, <1>6, Cleared DEF ReportedOK, IInv, QueuesOK

-----------------------------------------------------------------------------
(* The steps of a session.                                                     *)
\* Jobs that move within a session, or leave it, keep the rest of the invariant.
LEMMA SessionStep ==
  ASSUME IInv, QueuesOK', FlagsOK', NumbersOK', PhaseOK', OnceOK', CountOK', OrderOK',
         DeferredOK', ScannedOK', VerdictOK', phase # "idle", status' = "active",
         jobs' = jobs, scheduled' = scheduled, Placed' \subseteq Placed
  PROVE  IInv'
<1>1. CoveredOK'
  <2>1. Apart(jobs, Placed) /\ ProfilesOf(Placed) \subseteq scheduled
    BY DEF IInv, CoveredOK
  <2>2. Apart(jobs, Placed') /\ ProfilesOf(Placed') \subseteq scheduled
    BY <2>1 DEF Apart, ProfilesOf
  <2> QED BY <2>2 DEF CoveredOK
<1>2. ReportedOK'
  BY DEF ReportedOK
<1> QED BY <1>1, <1>2 DEF IInv

\* A font is not deferred by a step that leaves the deferrals alone.
LEMMA DeferredKept ==
  ASSUME IInv, deferrals' = deferrals, Placed' \subseteq Placed
  PROVE  DeferredOK'
  BY DEF IInv, DeferredOK

\* Jobs apart stay apart when one moves to another place.
LEMMA FourRules ==
  ASSUME NEW R, NEW G, NEW A, NEW V, NEW f
  PROVE  /\ Four(R \cup {f}, G, A, V) /\ Apart({f}, R) =>
              Four(R, G, A, V \cup {f}) /\ Four(R, G \cup {f}, A, V)
              /\ Apart({f}, V) /\ Apart({f}, G)
         /\ Four(R, G \cup {f}, {}, V) /\ Apart({f}, G) =>
              Four(R, G, {}, V) /\ Four(R, G, {f}, V)
         /\ Four(R, G, {f}, V) =>
              Four(R, G, {}, V \cup {f}) /\ Four(R, G \cup {f}, {}, V)
              /\ Four(R \cup {f}, G, {}, V)
              /\ Apart({f}, R) /\ Apart({f}, G) /\ Apart({f}, V)
<1>1. ASSUME Four(R \cup {f}, G, A, V), Apart({f}, R)
      PROVE  Four(R, G, A, V \cup {f}) /\ Four(R, G \cup {f}, A, V)
             /\ Apart({f}, V) /\ Apart({f}, G)
  BY <1>1 DEF Four, Apart
<1>2. ASSUME Four(R, G \cup {f}, {}, V), Apart({f}, G)
      PROVE  Four(R, G, {}, V) /\ Four(R, G, {f}, V)
  BY <1>2 DEF Four, Apart
<1>3. ASSUME Four(R, G, {f}, V)
      PROVE  Four(R, G, {}, V \cup {f}) /\ Four(R, G \cup {f}, {}, V)
             /\ Four(R \cup {f}, G, {}, V)
             /\ Apart({f}, R) /\ Apart({f}, G) /\ Apart({f}, V)
  BY <1>3 DEF Four, Apart
<1> QED BY <1>1, <1>2, <1>3

\* The steps that move no job: only the phase and the verdict change.
LEMMA StillStep ==
  ASSUME IInv, UNCHANGED <<jobs, scheduled, configuredQueued, configuredPrewarmed,
           restartPending, restartCount, terminal, prewarmActive, workerThread,
           restoreJobs, generationJobs, activeFont, outcome, queued, completed,
           streamFailed, finished, verified, left, restarts, deferrals,
           ready, trimStuck>>,
         memory' \in Counters, reserve' \in BOOLEAN, policy' \in BOOLEAN, everyVerified' \in BOOLEAN, status' = "active",
         phase \notin {"generate", "finalize"}, phase' \notin {"idle", "generate", "finalize"},
         phase' \in Phases, phase # "idle", phase' # "begin" \/ AliasesLast(generationJobs),
         phase' # "restore" => restoreJobs = <<>>,
         phase' \in Drained => generationJobs = <<>>, VerdictOK'
  PROVE  IInv'
<1>1. QueuesOK' /\ NumbersOK'
  BY DEF IInv, QueuesOK, NumbersOK
<1>2. FlagsOK'
  BY DEF IInv, FlagsOK
<1>3. PhaseOK'
  BY DEF IInv, PhaseOK, Generating
<1>4. Placed' = Placed /\ Active' = Active /\ ActiveCount' = ActiveCount
  BY DEF Placed, Active, ActiveCount
<1>5. OnceOK' /\ CountOK'
  BY <1>4 DEF IInv, OnceOK, CountOK
<1>6. OrderOK'
  BY DEF IInv, OrderOK, Generating, PhaseOK
<1>7. DeferredOK' /\ ScannedOK'
  BY <1>4 DEF IInv, DeferredOK, ScannedOK
<1> QED BY <1>1, <1>2, <1>3, <1>4, <1>5, <1>6, <1>7, SessionStep

\* A step that leaves the memory failures and the reserve alone.
LEMMA MemoryTyped ==
  ASSUME IInv, memory' = memory, reserve' = reserve
  PROVE  memory' \in Counters /\ reserve' \in BOOLEAN
  BY DEF IInv, NumbersOK, FlagsOK

LEMMA GenerationDoneOK ==
  ASSUME IInv, GenerationDone
  PROVE  IInv'
<1>1. phase = "begin" /\ phase' = "flush" /\ generationJobs = <<>> /\ everyVerified' = everyVerified
  BY DEF GenerationDone, Stepping, Proceed
<1>2. restoreJobs = <<>> /\ everyVerified = FALSE
  BY <1>1 DEF IInv, PhaseOK, VerdictOK, Late, FlagsOK
<1>3. VerdictOK'
  BY <1>1, <1>2 DEF VerdictOK
<1>4. policy' \in BOOLEAN /\ everyVerified' \in BOOLEAN /\ status' = "active"
  BY <1>1, <1>2 DEF IInv, FlagsOK, GenerationDone, Proceed, runVars
<1> QED BY <1>1, <1>2, <1>3, <1>4, MemoryTyped, StillStep
        DEF GenerationDone, queueVars, runVars, countVars, jobVars, Phases

LEMMA CleanupFlushOK ==
  ASSUME IInv, CleanupFlush
  PROVE  IInv'
<1>1. phase = "flush" /\ phase' = "profiles" /\ everyVerified' = everyVerified
  BY DEF CleanupFlush, Stepping, Proceed
<1>2. restoreJobs = <<>> /\ generationJobs = <<>> /\ everyVerified = FALSE
  BY <1>1 DEF IInv, PhaseOK, VerdictOK, Late, Drained, FlagsOK
<1>3. VerdictOK'
  BY <1>1, <1>2 DEF VerdictOK
<1>4. policy' \in BOOLEAN /\ everyVerified' \in BOOLEAN /\ status' = "active"
  BY <1>1, <1>2 DEF CleanupFlush, Proceed, PolicyEnded
<1> QED BY <1>1, <1>2, <1>3, <1>4, MemoryTyped, StillStep
        DEF CleanupFlush, queueVars, runVars, countVars, jobVars, Phases

LEMMA CleanupProfilesOK ==
  ASSUME IInv, CleanupProfiles
  PROVE  IInv'
<1>1. /\ phase = "profiles" /\ phase' \in {"groups", "masks"}
      /\ everyVerified' = EveryConfiguredProfileVerified
      /\ verified' = verified /\ ready' = ready /\ policy' = policy
  BY DEF CleanupProfiles, Stepping, Proceed, countVars
<1>2. restoreJobs = <<>> /\ generationJobs = <<>>
  BY <1>1 DEF IInv, PhaseOK, Drained, Late
<1>3. ASSUME EveryConfiguredProfileVerified
      PROVE  ProfilesOf(ToSet(verified)) = ProfilesOf(Fonts) /\ ready = Fonts
  <2>1. ToSet(verified) \in SUBSET Fonts
    BY EmptyIs DEF IInv, QueuesOK
  <2>2. ProfilesOf(ToSet(verified)) \subseteq ProfilesOf(Fonts)
    BY <2>1 DEF ProfilesOf
  <2>3. IsFiniteSet(ProfilesOf(Fonts))
    <3>1. PICK p : p = [f \in Fonts |-> Profile[f]]
      OBVIOUS
    <3>2. p \in Surjection(Fonts, ProfilesOf(Fonts))
      BY <3>1 DEF Surjection, ProfilesOf
    <3> QED BY <3>2, SessionAssumption, FS_Surjection
  <2>4. Cardinality(ProfilesOf(ToSet(verified))) = Cardinality(ProfilesOf(Fonts))
    BY <1>3 DEF EveryConfiguredProfileVerified
  <2>5. ready = Fonts
    BY <1>3 DEF EveryConfiguredProfileVerified
  <2> QED BY <2>2, <2>3, <2>4, <2>5, FS_Subset
<1>4. VerdictOK'
  BY <1>1, <1>3 DEF VerdictOK, CleanupProfiles, Proceed, Late
<1>5. EveryConfiguredProfileVerified \in BOOLEAN
  BY DEF EveryConfiguredProfileVerified
<1>6. policy' \in BOOLEAN /\ everyVerified' \in BOOLEAN /\ status' = "active"
  BY <1>1, <1>5 DEF CleanupProfiles, Proceed, IInv, FlagsOK
<1> QED BY <1>1, <1>2, <1>4, <1>6, MemoryTyped, StillStep
        DEF CleanupProfiles, queueVars, runVars, countVars, jobVars, Phases

LEMMA CleanupStepOK ==
  ASSUME IInv, CleanupStep
  PROVE  IInv'
<1>1. /\ phase \in {"groups", "pools", "masks", "budget"}
      /\ phase' \in {"pools", "masks", "budget", "files"} /\ status' = "active"
      /\ everyVerified' = everyVerified /\ verified' = verified /\ ready' = ready
      /\ policy' = policy
  BY DEF CleanupStep, Proceed, countVars
<1>2. restoreJobs = <<>> /\ generationJobs = <<>>
  BY <1>1 DEF IInv, PhaseOK, Drained, Late
<1>3. VerdictOK'
  BY <1>1 DEF IInv, VerdictOK, Late
<1>4. policy' \in BOOLEAN /\ everyVerified' \in BOOLEAN
  BY <1>1 DEF IInv, FlagsOK
<1> QED BY <1>1, <1>2, <1>3, <1>4, MemoryTyped, StillStep
        DEF CleanupStep, queueVars, runVars, countVars, jobVars, Phases

LEMMA FinishIncrementalSessionOK ==
  ASSUME IInv, FinishIncrementalSession
  PROVE  IInv'
<1>1. ready' = ready /\ trimStuck' = trimStuck /\ phase = "files"
  BY DEF FinishIncrementalSession, Stepping
<1>2. CASE ResetPrewarmTransactionForRetry
  BY <1>1, <1>2, ResetOK DEF IInv, QueuesOK, FlagsOK
<1>3. CASE /\ everyVerified /\ Proceed("complete")
           /\ UNCHANGED <<queueVars, runVars, policy, restoreJobs,
                          generationJobs, activeFont, outcome, countVars,
                          everyVerified, jobVars, reserve>>
  <2>1. restoreJobs = <<>> /\ generationJobs = <<>>
    BY <1>1 DEF IInv, PhaseOK, Drained, Late
  <2>2. /\ phase' = "complete" /\ status' = "active" /\ everyVerified' = everyVerified
        /\ verified' = verified /\ policy' = policy
    BY <1>3 DEF Proceed, countVars
  <2>3. VerdictOK'
    BY <1>1, <1>3, <2>2 DEF IInv, VerdictOK, Late
  <2>4. policy' \in BOOLEAN /\ everyVerified' \in BOOLEAN
    BY <2>2 DEF IInv, FlagsOK
  <2> QED BY <1>1, <1>3, <2>1, <2>2, <2>3, <2>4, MemoryTyped, StillStep
          DEF queueVars, runVars, countVars, jobVars, Phases
<1> QED BY <1>2, <1>3 DEF FinishIncrementalSession

\* Between sessions, and beside one, fonts arrive.
LEMMA ActivateFreeTypeFontOK ==
  ASSUME IInv, NEW f \in Fonts, ActivateFreeTypeFont(f)
  PROVE  IInv'
<1>1. ready' = ready \cup {f}
  BY DEF ActivateFreeTypeFont
<1>2. UNCHANGED <<jobs, scheduled, configuredQueued, configuredPrewarmed,
           restartPending, restartCount, terminal, prewarmActive, workerThread,
           policy, phase, restoreJobs, generationJobs, activeFont, outcome, queued,
           completed, streamFailed, finished, verified, everyVerified, left, memory,
           restarts, deferrals, reserve, trimStuck, status>>
  BY DEF ActivateFreeTypeFont, queueVars, runVars, sessionVars, countVars, jobVars
<1>3. QueuesOK' /\ FlagsOK' /\ NumbersOK'
  BY <1>1, <1>2 DEF IInv, QueuesOK, FlagsOK, NumbersOK
<1>4. Active' = Active /\ ActiveCount' = ActiveCount /\ Placed' = Placed
  BY <1>2 DEF Active, ActiveCount, Placed
<1>5. PhaseOK' /\ OnceOK' /\ CountOK'
  BY <1>2, <1>4 DEF IInv, PhaseOK, OnceOK, CountOK
<1>6. OrderOK' /\ DeferredOK' /\ ScannedOK'
  BY <1>2, <1>4 DEF IInv, OrderOK, DeferredOK, ScannedOK
<1>7. VerdictOK'
  <2>1. ready = Fonts => ready' = Fonts
    BY <1>1
  <2> QED BY <1>2, <2>1 DEF IInv, VerdictOK
<1>8. CoveredOK' /\ ReportedOK'
  BY <1>2, <1>4 DEF IInv, CoveredOK, ReportedOK
<1> QED BY <1>3, <1>5, <1>6, <1>7, <1>8 DEF IInv

\* A font that is drained joins the queue only if no job of a session is for its
\* profile, or in place of an alias of that profile.
LEMMA EnqueueIs ==
  ASSUME NEW q \in SUBSET Fonts, NEW f \in Fonts
  PROVE  /\ Enqueue(q, f) \in SUBSET (q \cup {f})
         /\ f \in Enqueue(q, f) /\ f \notin q =>
              Profile[f] \notin scheduled \/ \E g \in q : Profile[g] = Profile[f]
  BY DEF Enqueue

LEMMA DrainPendingFontPrewarmOK ==
  ASSUME IInv, NEW f \in Fonts, DrainPendingFontPrewarm(f)
  PROVE  IInv'
<1>1. jobs' = Enqueue(jobs, f) /\ scheduled' = scheduled \cup {Profile[f]}
  BY DEF DrainPendingFontPrewarm
<1>2. UNCHANGED <<ready, configuredQueued, configuredPrewarmed,
           restartPending, restartCount, terminal, prewarmActive, workerThread,
           policy, phase, restoreJobs, generationJobs, activeFont, outcome, queued,
           completed, streamFailed, finished, verified, everyVerified, left, memory,
           restarts, deferrals, reserve, trimStuck, status>>
  BY DEF DrainPendingFontPrewarm, runVars, sessionVars, countVars, jobVars
<1>3. QueuesOK' /\ FlagsOK' /\ NumbersOK'
  <2>1. QueuesOK'
    BY <1>1, <1>2, EnqueueIn DEF IInv, QueuesOK, ProfilesOf
  <2>2. FlagsOK' /\ NumbersOK'
    BY <1>2 DEF IInv, FlagsOK, NumbersOK
  <2> QED BY <2>1, <2>2
<1>4. Active' = Active /\ ActiveCount' = ActiveCount /\ Placed' = Placed
  BY <1>2 DEF Active, ActiveCount, Placed
<1>5. PhaseOK' /\ OnceOK' /\ CountOK'
  BY <1>2, <1>4 DEF IInv, PhaseOK, OnceOK, CountOK
<1>6. OrderOK' /\ DeferredOK' /\ ScannedOK' /\ VerdictOK'
  BY <1>2, <1>4 DEF IInv, OrderOK, DeferredOK, ScannedOK, VerdictOK
<1>7. PICK q : q = Enqueue(jobs, f)
  OBVIOUS
<1>8. jobs \in SUBSET Fonts
  BY DEF IInv, QueuesOK
<1>9. /\ q \in SUBSET (jobs \cup {f})
      /\ f \in q /\ f \notin jobs =>
           Profile[f] \notin scheduled \/ \E g \in jobs : Profile[g] = Profile[f]
  BY <1>7, <1>8, EnqueueIs
<1>10. CoveredOK'
  <2> SUFFICES ASSUME phase # "idle"
               PROVE  Apart(q, Placed) /\ ProfilesOf(Placed) \subseteq scheduled'
    BY <1>1, <1>2, <1>4, <1>7 DEF CoveredOK
  <2>1. Apart(jobs, Placed) /\ ProfilesOf(Placed) \subseteq scheduled
    BY DEF IInv, CoveredOK
  <2>2. \A g \in Placed : Profile[g] \in scheduled
    BY <2>1 DEF ProfilesOf
  <2>3. Apart(q, Placed)
    BY <1>9, <2>1, <2>2 DEF Apart
  <2> QED BY <1>1, <2>1, <2>3
<1>11. ReportedOK'
  <2> SUFFICES ASSUME status = "completed"
               PROVE  phase = "idle" /\ q = {} /\ ProfilesOf(Fonts) \subseteq scheduled'
    BY <1>1, <1>2, <1>7 DEF ReportedOK
  <2>1. phase = "idle" /\ jobs = {} /\ ProfilesOf(Fonts) \subseteq scheduled
    BY DEF IInv, ReportedOK
  <2>2. Profile[f] \in scheduled
    BY <2>1 DEF ProfilesOf
  <2> QED BY <1>1, <1>9, <2>1, <2>2
<1> QED BY <1>3, <1>5, <1>6, <1>10, <1>11 DEF IInv

LEMMA UnchangedOK ==
  ASSUME IInv, UNCHANGED vars
  PROVE  IInv'
<1>2. UNCHANGED <<jobs, scheduled, ready, configuredQueued, configuredPrewarmed,
           restartPending, restartCount, terminal, prewarmActive, workerThread,
           policy, phase, restoreJobs, generationJobs, activeFont, outcome, queued,
           completed, streamFailed, finished, verified, everyVerified, left, memory,
           restarts, deferrals, reserve, trimStuck, status>>
  BY DEF vars, queueVars, runVars, sessionVars, countVars, jobVars
<1>3. QueuesOK' /\ FlagsOK' /\ NumbersOK'
  BY <1>2 DEF IInv, QueuesOK, FlagsOK, NumbersOK
<1>4. Active' = Active /\ ActiveCount' = ActiveCount /\ Placed' = Placed
  BY <1>2 DEF Active, ActiveCount, Placed
<1>5. PhaseOK' /\ OnceOK' /\ CountOK'
  BY <1>2, <1>4 DEF IInv, PhaseOK, OnceOK, CountOK
<1>6. OrderOK' /\ DeferredOK' /\ ScannedOK' /\ VerdictOK'
  BY <1>2, <1>4 DEF IInv, OrderOK, DeferredOK, ScannedOK, VerdictOK
<1>8. CoveredOK' /\ ReportedOK'
  BY <1>2, <1>4 DEF IInv, CoveredOK, ReportedOK
<1> QED BY <1>3, <1>5, <1>6, <1>8 DEF IInv

\* Jobs of different profiles, sorted, are each queued once.
LEMMA SortedOnce ==
  ASSUME NEW S \in SUBSET Fonts, NEW q, q = InOrder(S),
         \A f, g \in S : Profile[f] = Profile[g] => f = g
  PROVE  Once(q)
<1>1. /\ q \in Seq(S) /\ q \in Seq(Fonts)
      /\ \A i, j \in DOMAIN q : i < j => Before(q[i], q[j])
  BY InOrderIs
<1>2. DOMAIN q \subseteq Nat /\ \A i \in DOMAIN q : q[i] \in S /\ q[i] \in Fonts
  BY <1>1
<1>3. ASSUME NEW i \in DOMAIN q, NEW j \in DOMAIN q, q[i] = q[j] PROVE i = j
  <2>1. ~Before(q[i], q[j]) /\ ~Before(q[j], q[i])
    BY <1>2, <1>3, BeforeTotal
  <2>2. ~(i < j) /\ ~(j < i)
    BY <1>1, <2>1
  <2> QED BY <1>2, <2>2
<1> QED BY <1>2, <1>3 DEF Once

LEMMA OnceIs ==
  ASSUME NEW s \in Seq(Fonts), Once(s)
  PROVE  /\ \A f, g \in ToSet(s) : Profile[f] = Profile[g] => f = g
         /\ Cardinality(ToSet(s)) = Len(s)
<1> DEFINE n == Len(s)
<1>1. n \in Nat /\ DOMAIN s = 1..n /\ s \in [1..n -> Fonts]
  OBVIOUS
<1> HIDE DEF n
<1>2. IsFiniteSet(1..n) /\ Cardinality(1..n) = n
  BY <1>1, FS_Interval
<1>3. \A f \in ToSet(s) : \E i \in 1..n : s[i] = f
  BY <1>1 DEF ToSet
<1>4. \A i \in 1..n : s[i] \in ToSet(s)
  BY <1>1 DEF ToSet
<1>5. s \in Surjection(1..n, ToSet(s))
  BY <1>1, <1>3, <1>4 DEF Surjection
<1>6. s \in Injection(1..n, ToSet(s))
  BY <1>1, <1>4 DEF Injection, IsInjective, Once
<1>7. Cardinality(ToSet(s)) = n
  BY <1>2, <1>5, <1>6, FS_Surjection
<1>8. \A f, g \in ToSet(s) : Profile[f] = Profile[g] => f = g
  BY <1>1, <1>3 DEF Once
<1> QED BY <1>7, <1>8 DEF n

LEMMA OwnerJobsIs ==
  ASSUME NEW S \in SUBSET Fonts
  PROVE  /\ OwnerJobs(S) \in SUBSET S
         /\ \A f, g \in OwnerJobs(S) : Profile[f] = Profile[g] => f = g
<1>1. ASSUME NEW f \in OwnerJobs(S), NEW g \in OwnerJobs(S), Profile[f] = Profile[g], f # g
      PROVE  FALSE
  <2>1. Before(f, g) /\ Before(g, f)
    BY <1>1 DEF OwnerJobs
  <2>2. f \in Fonts /\ g \in Fonts
    BY DEF OwnerJobs
  <2> QED BY <2>1, <2>2, BeforeTotal
<1>2. OwnerJobs(S) \in SUBSET S
  BY DEF OwnerJobs
<1> QED BY <1>1, <1>2

LEMMA ConfiguredJobsIn ==
  ASSUME IInv, NEW made \in SUBSET Fonts
  PROVE  ConfiguredJobs(made) \in SUBSET Fonts
<1>1. PICK q : q = InOrder(made)
  OBVIOUS
<1>2. q \in Seq(made) /\ q \in Seq(Fonts)
  BY <1>1, InOrderIs
<1>3. DOMAIN q = 1..Len(q) /\ Len(q) \in Nat /\ \A i \in DOMAIN q : q[i] \in Fonts
  BY <1>2
<1>4. IsFiniteSet(DOMAIN q) /\ DOMAIN q \subseteq Nat
  BY <1>3, FS_Interval
<1>5. jobs \in SUBSET Fonts
  BY DEF IInv, QueuesOK
<1>6. FoldLeft(Enqueue, jobs, q) \in SUBSET Fonts
  BY <1>3, <1>4, <1>5, FoldIn
<1> QED BY <1>1, <1>5, <1>6 DEF ConfiguredJobs

\* A session begins with one job for each profile that is queued.
LEMMA BeginJobs ==
  ASSUME IInv, phase = "idle", NEW now \in SUBSET Fonts, NEW made \in SUBSET Fonts,
         ready' = made, restoreJobs' = InOrder(OwnerJobs(now)),
         jobs' = {}, scheduled' = ProfilesOf(now), configuredQueued' = TRUE,
         queued' = Cardinality(OwnerJobs(now)),
         prewarmActive' = TRUE, workerThread' = TRUE, restartPending' = FALSE,
         reserve' \in {reserve, TRUE}, Proceed("restore"),
         UNCHANGED <<configuredPrewarmed, restartCount, terminal,
                     policy, generationJobs, activeFont, outcome,
                     completed, streamFailed, finished, verified,
                     everyVerified, left, memory, restarts, deferrals, trimStuck>>
  PROVE  IInv'
<1>1. PICK q : q = InOrder(OwnerJobs(now))
  OBVIOUS
<1>2. PICK S : S = OwnerJobs(now)
  OBVIOUS
<1>3. S \in SUBSET now /\ S \in SUBSET Fonts
      /\ \A f, g \in S : Profile[f] = Profile[g] => f = g
  BY <1>2, OwnerJobsIs
<1>4. /\ q \in Seq(Fonts) /\ Len(q) = Cardinality(S) /\ ToSet(q) = S
      /\ Once(q) /\ Len(q) \in Nat
  <2>1. q = InOrder(S)
    BY <1>1, <1>2
  <2> QED BY <1>3, <2>1, InOrderIs, SortedOnce
<1>5. PICK e : e = <<>>
  OBVIOUS
<1>6. /\ e \in Seq(Fonts) /\ Len(e) = 0 /\ ToSet(e) = {} /\ Once(e) /\ AliasesLast(e)
  <2>1. <<>> \in Seq(Fonts)
    OBVIOUS
  <2> QED BY <1>5, <2>1, EmptyIs
<1>7. /\ restoreJobs' = q /\ queued' = Len(q) /\ phase' = "restore" /\ status' = "active"
      /\ generationJobs' = e /\ verified' = e /\ activeFont' = NoFont
      /\ completed' = 0 /\ streamFailed' = 0 /\ finished' = 0 /\ deferrals' = Zero
      /\ everyVerified' = FALSE /\ outcome' = outcome
  BY <1>1, <1>2, <1>4, <1>5 DEF IInv, PhaseOK, VerdictOK, FlagsOK, Late, Proceed
<1>8. QueuesOK'
  BY <1>3, <1>4, <1>6, <1>7 DEF QueuesOK, ProfilesOf
<1>9. NumbersOK'
  BY <1>4, <1>7 DEF IInv, NumbersOK
<1>10. FlagsOK'
  BY <1>7 DEF IInv, FlagsOK, Phases
<1>11. PhaseOK'
  BY <1>7 DEF PhaseOK, Drained, Late
<1>12. Active' = {} /\ ActiveCount' = 0 /\ Placed' = S
  BY <1>4, <1>6, <1>7 DEF Active, ActiveCount, Placed
<1>13. OnceOK'
  BY <1>4, <1>6, <1>7, <1>12, ApartRules DEF OnceOK, Four
<1>14. CountOK'
  BY <1>4, <1>6, <1>7, <1>12 DEF CountOK
<1>15. OrderOK' /\ ScannedOK' /\ VerdictOK'
  BY <1>7 DEF OrderOK, ScannedOK, VerdictOK, Generating
<1>16. DeferredOK'
  <2>1. \A f \in Fonts : Zero[f] = 0
    BY DEF Zero
  <2> QED BY <1>7, <2>1 DEF DeferredOK
<1>17. CoveredOK'
  BY <1>3, <1>12 DEF CoveredOK, ProfilesOf, Apart
<1>18. ReportedOK'
  BY <1>7 DEF ReportedOK
<1> QED BY <1>8, <1>9, <1>10, <1>11, <1>13, <1>14, <1>15, <1>16, <1>17, <1>18 DEF IInv

LEMMA BeginSessionOK ==
  ASSUME IInv, BeginSession
  PROVE  IInv'
<1>1. phase = "idle" /\ trimStuck' = trimStuck
  BY DEF BeginSession
<1>2. PICK made \in SUBSET Fonts :
        /\ ready' = made
        /\ LET now == ConfiguredJobs(made) IN
           \/ /\ now # {}
              /\ restoreJobs' = InOrder(OwnerJobs(now))
              /\ jobs' = {} /\ scheduled' = ProfilesOf(now)
              /\ configuredQueued' = TRUE
              /\ queued' = Cardinality(OwnerJobs(now))
              /\ prewarmActive' = TRUE /\ workerThread' = TRUE
              /\ restartPending' = FALSE
              /\ reserve' \in {reserve, TRUE}
              /\ Proceed("restore")
              /\ UNCHANGED <<configuredPrewarmed, restartCount, terminal,
                             policy, generationJobs, activeFont, outcome,
                             completed, streamFailed, finished, verified,
                             everyVerified, left, memory, restarts, deferrals>>
           \/ RetryWithoutJobs
           \/ /\ now = {}
              /\ configuredQueued' = TRUE
              /\ status' = "idle"
              /\ UNCHANGED <<jobs, scheduled, configuredPrewarmed, restartPending,
                   restartCount, terminal, prewarmActive, workerThread, policy, phase,
                   restoreJobs, generationJobs, activeFont, outcome, queued, completed,
                   streamFailed, finished, verified, everyVerified, left, memory,
                   restarts, deferrals, reserve>>
  BY DEF BeginSession, runVars, sessionVars, countVars, jobVars
<1>3. PICK now : now = ConfiguredJobs(made)
  OBVIOUS
<1>4. now \in SUBSET Fonts
  BY <1>3, ConfiguredJobsIn
<1>5. CASE RetryWithoutJobs
  BY <1>1, <1>2, <1>5, RetryOK DEF IInv, FlagsOK
<1>6. CASE /\ restoreJobs' = InOrder(OwnerJobs(now))
           /\ jobs' = {} /\ scheduled' = ProfilesOf(now)
           /\ configuredQueued' = TRUE
           /\ queued' = Cardinality(OwnerJobs(now))
           /\ prewarmActive' = TRUE /\ workerThread' = TRUE
           /\ restartPending' = FALSE
           /\ reserve' \in {reserve, TRUE}
           /\ Proceed("restore")
           /\ UNCHANGED <<configuredPrewarmed, restartCount, terminal,
                          policy, generationJobs, activeFont, outcome,
                          completed, streamFailed, finished, verified,
                          everyVerified, left, memory, restarts, deferrals>>
  BY <1>1, <1>2, <1>4, <1>6, BeginJobs
<1>7. CASE /\ configuredQueued' = TRUE
           /\ status' = "idle"
           /\ UNCHANGED <<jobs, scheduled, configuredPrewarmed, restartPending,
                restartCount, terminal, prewarmActive, workerThread, policy, phase,
                restoreJobs, generationJobs, activeFont, outcome, queued, completed,
                streamFailed, finished, verified, everyVerified, left, memory,
                restarts, deferrals, reserve>>
  <2>1. QueuesOK' /\ FlagsOK' /\ NumbersOK'
    BY <1>1, <1>2, <1>7 DEF IInv, QueuesOK, FlagsOK, NumbersOK
  <2>2. Active' = Active /\ ActiveCount' = ActiveCount /\ Placed' = Placed
    BY <1>7 DEF Active, ActiveCount, Placed
  <2>3. PhaseOK' /\ OnceOK' /\ CountOK'
    BY <1>7, <2>2 DEF IInv, PhaseOK, OnceOK, CountOK
  <2>4. OrderOK' /\ DeferredOK' /\ ScannedOK'
    BY <1>7, <2>2 DEF IInv, OrderOK, DeferredOK, ScannedOK
  <2>5. VerdictOK'
    BY <1>1, <1>7 DEF IInv, VerdictOK, Late, FlagsOK
  <2>6. CoveredOK' /\ ReportedOK'
    BY <1>1, <1>7 DEF CoveredOK, ReportedOK
  <2> QED BY <2>1, <2>3, <2>4, <2>5, <2>6 DEF IInv
<1> QED BY <1>2, <1>3, <1>5, <1>6, <1>7

LEMMA PumpFailsOK ==
  ASSUME IInv, PumpFails
  PROVE  IInv'
<1>1. /\ UNCHANGED <<jobs, scheduled, restoreJobs, generationJobs, activeFont, verified,
                     ready, left, memory, restarts, deferrals, queued, completed,
                     streamFailed, finished>>
      /\ UNCHANGED <<phase, outcome, everyVerified, configuredQueued, configuredPrewarmed,
                     restartPending, restartCount, terminal, prewarmActive, workerThread,
                     policy, reserve, trimStuck>>
      /\ status' = "failed"
  BY DEF PumpFails, queueVars, runVars, sessionVars, countVars, jobVars
<1>2. QueuesOK' /\ FlagsOK' /\ NumbersOK'
  BY <1>1 DEF IInv, QueuesOK, FlagsOK, NumbersOK
<1>3. Active' = Active /\ ActiveCount' = ActiveCount /\ Placed' = Placed
  BY <1>1 DEF Active, ActiveCount, Placed
<1>4. PhaseOK' /\ OnceOK' /\ CountOK'
  BY <1>1, <1>3 DEF IInv, PhaseOK, OnceOK, CountOK
<1>5. OrderOK' /\ DeferredOK' /\ ScannedOK'
  BY <1>1, <1>3 DEF IInv, OrderOK, DeferredOK, ScannedOK
<1>6. VerdictOK' /\ CoveredOK' /\ ReportedOK'
  BY <1>1, <1>3 DEF IInv, VerdictOK, CoveredOK, ReportedOK
<1> QED BY <1>2, <1>4, <1>5, <1>6 DEF IInv

\* Counting one more, and giving a font its units.
LEMMA CountedIs ==
  ASSUME NEW c \in Counters, NEW f \in Fonts
  PROVE  [c EXCEPT ![f] = @ + 1] \in Counters
  BY DEF Counters

LEMMA LeftIs ==
  ASSUME NEW c \in [Fonts -> 0..Units], NEW f \in Fonts, NEW n \in 0..Units
  PROVE  [c EXCEPT ![f] = n] \in [Fonts -> 0..Units]
  OBVIOUS

LEMMA UnitsIn == Units \in 0..Units
<1>1. Units \in Nat
  BY SessionAssumption
<1> QED BY <1>1

LEMMA MemoryFailureTyped ==
  ASSUME IInv, NEW f \in Fonts, MemoryFailure(f)
  PROVE  memory' \in Counters /\ reserve' \in BOOLEAN
  BY CountedIs DEF IInv, NumbersOK, MemoryFailure

\* The font that is first in a queue of the invariant.
LEMMA RestoreFirst ==
  ASSUME IInv, restoreJobs # <<>>, NEW f, f = Head(restoreJobs),
         NEW q, q = Tail(restoreJobs)
  PROVE  /\ f \in Fonts /\ q \in Seq(Fonts) /\ Len(q) \in Nat
         /\ Len(restoreJobs) = Len(q) + 1 /\ ToSet(restoreJobs) = ToSet(q) \cup {f}
         /\ Once(q) /\ Apart({f}, ToSet(q))
  BY FirstIs DEF IInv, QueuesOK, OnceOK

LEMMA GenerationFirst ==
  ASSUME IInv, phase = "begin", generationJobs # <<>>, NEW f, f = Head(generationJobs),
         NEW q, q = Tail(generationJobs)
  PROVE  /\ f \in Fonts /\ q \in Seq(Fonts) /\ Len(q) \in Nat
         /\ Len(generationJobs) = Len(q) + 1 /\ ToSet(generationJobs) = ToSet(q) \cup {f}
         /\ Once(q) /\ Apart({f}, ToSet(q))
         /\ AliasesLast(q) /\ (IsAlias(f) => AllAliases(ToSet(q)))
  BY FirstIs DEF IInv, QueuesOK, OnceOK, OrderOK, Generating

LEMMA RestoreDoneOK ==
  ASSUME IInv, RestoreDone
  PROVE  IInv'
<1>1. PICK G : G = ToSet(generationJobs)
  OBVIOUS
<1>2. PICK q : q = InOrder(G)
  OBVIOUS
<1>3. generationJobs \in Seq(Fonts) /\ Once(generationJobs)
  BY DEF IInv, QueuesOK, OnceOK
<1>4. /\ G \in SUBSET Fonts /\ Cardinality(G) = Len(generationJobs)
      /\ \A f, g \in G : Profile[f] = Profile[g] => f = g
      /\ Len(generationJobs) \in Nat
      /\ generationJobs = <<>> => Len(generationJobs) = 0
  BY <1>1, <1>3, OnceIs, EmptyIs
<1>5. /\ q \in Seq(Fonts) /\ Len(q) = Len(generationJobs) /\ ToSet(q) = G
      /\ Once(q) /\ AliasesLast(q)
  BY <1>2, <1>4, InOrderIs, SortedOnce, InOrderAliasesLast
<1>6. Len(q) = 0 => q = <<>>
  BY <1>5, EmptyIs
<1>7. /\ phase = "restore" /\ restoreJobs = <<>> /\ status' = "active"
      /\ generationJobs' = q
      /\ phase' = IF generationJobs = <<>> THEN "flush" ELSE "begin"
      /\ UNCHANGED <<jobs, scheduled, configuredQueued, configuredPrewarmed,
           restartPending, restartCount, terminal, prewarmActive, workerThread,
           policy, restoreJobs, activeFont, outcome, queued, completed,
           streamFailed, finished, verified, everyVerified, left, memory, restarts,
           deferrals, ready, reserve, trimStuck>>
  BY <1>1, <1>2 DEF RestoreDone, Stepping, SortedGeneration, Proceed, queueVars, runVars,
     countVars, jobVars
<1>8. phase' \in {"flush", "begin"} /\ (phase' = "flush" => q = <<>>)
  BY <1>4, <1>5, <1>6, <1>7
<1>9. activeFont = NoFont /\ everyVerified = FALSE
  BY <1>7 DEF IInv, PhaseOK, VerdictOK, Late, FlagsOK
<1>10. Active' = Active /\ ActiveCount' = ActiveCount /\ Placed' = Placed
  BY <1>1, <1>5, <1>7 DEF Active, ActiveCount, Placed
<1>11. QueuesOK' /\ NumbersOK'
  BY <1>5, <1>7 DEF IInv, QueuesOK, NumbersOK
<1>12. FlagsOK'
  BY <1>7, <1>8 DEF IInv, FlagsOK, Phases
<1>13. PhaseOK'
  BY <1>7, <1>8, <1>9 DEF PhaseOK, Drained, Late
<1>14. OnceOK'
  BY <1>1, <1>5, <1>7, <1>10 DEF IInv, OnceOK
<1>15. CountOK'
  BY <1>5, <1>7, <1>10 DEF IInv, CountOK
<1>16. OrderOK' /\ ScannedOK' /\ VerdictOK'
  BY <1>5, <1>7, <1>8, <1>9 DEF OrderOK, ScannedOK, VerdictOK
<1>17. DeferredOK'
  BY <1>7, <1>10, DeferredKept
<1> QED BY <1>7, <1>10, <1>11, <1>12, <1>13, <1>14, <1>15, <1>16, <1>17, SessionStep

LEMMA RestoreOnePrewarmSnapshotOK ==
  ASSUME IInv, RestoreOnePrewarmSnapshot
  PROVE  IInv'
<1>1. PICK f : f = Head(restoreJobs)
  OBVIOUS
<1>2. PICK q : q = Tail(restoreJobs)
  OBVIOUS
<1>3. phase = "restore" /\ restoreJobs # <<>>
  BY DEF RestoreOnePrewarmSnapshot, Stepping
<1>4. /\ f \in Fonts /\ q \in Seq(Fonts) /\ Len(q) \in Nat
      /\ Len(restoreJobs) = Len(q) + 1 /\ ToSet(restoreJobs) = ToSet(q) \cup {f}
      /\ Once(q) /\ Apart({f}, ToSet(q))
  BY <1>1, <1>2, <1>3, RestoreFirst
<1>5. activeFont = NoFont /\ everyVerified = FALSE /\ Active = {}
  BY <1>3 DEF IInv, PhaseOK, VerdictOK, Late, FlagsOK, Active
<1>6. CASE AbortPrewarmTransaction /\ UNCHANGED <<ready, trimStuck>>
  BY <1>6, AbortOK DEF IInv, QueuesOK, FlagsOK
<1>7. CASE /\ MemoryFailure(f)
           /\ Proceed("restore")
           /\ UNCHANGED <<queueVars, runVars, policy, restoreJobs,
                          generationJobs, activeFont, outcome, countVars,
                          everyVerified, left, restarts, deferrals, ready,
                          trimStuck>>
  <2>1. memory' \in Counters /\ reserve' \in BOOLEAN
    BY <1>4, <1>7, MemoryFailureTyped
  <2>2. phase' = "restore" /\ status' = "active" /\ everyVerified' = everyVerified
        /\ policy' = policy
    BY <1>7 DEF Proceed
  <2>3. VerdictOK'
    BY <1>5, <2>2 DEF VerdictOK
  <2>4. policy' \in BOOLEAN /\ everyVerified' \in BOOLEAN
    BY <1>5, <2>2 DEF IInv, FlagsOK
  <2> QED BY <1>3, <1>7, <2>1, <2>2, <2>3, <2>4, StillStep
          DEF queueVars, runVars, countVars, Phases, Drained, Late
<1>8. CASE /\ restoreJobs' = Tail(restoreJobs)
           /\ Finish(f)
           /\ Proceed("restore")
           /\ UNCHANGED <<queueVars, runVars, policy, generationJobs,
                          activeFont, outcome, everyVerified, jobVars, ready,
                          reserve, trimStuck>>
  <2>1. PICK v : v = Append(verified, f)
    OBVIOUS
  <2>2. /\ restoreJobs' = q /\ verified' = v /\ phase' = "restore" /\ status' = "active"
        /\ completed' = completed + 1 /\ finished' = finished + 1
        /\ UNCHANGED <<jobs, scheduled, configuredQueued, configuredPrewarmed,
             restartPending, restartCount, terminal, prewarmActive, workerThread,
             policy, generationJobs, activeFont, outcome, queued, streamFailed,
             everyVerified, left, memory, restarts, deferrals, ready, reserve, trimStuck>>
    BY <1>2, <1>8, <2>1 DEF Finish, Proceed, queueVars, runVars, jobVars
  <2>3. /\ verified \in Seq(Fonts) /\ Once(verified)
        /\ Four(ToSet(q) \cup {f}, ToSet(generationJobs), Active, ToSet(verified))
    BY <1>4 DEF IInv, QueuesOK, OnceOK
  <2>4. /\ Four(ToSet(q), ToSet(generationJobs), Active, ToSet(verified) \cup {f})
        /\ Apart({f}, ToSet(verified))
    BY <1>4, <2>3, FourRules
  <2>5. /\ v \in Seq(Fonts) /\ Len(v) = Len(verified) + 1 /\ Len(verified) \in Nat
        /\ ToSet(v) = ToSet(verified) \cup {f} /\ Once(v)
    BY <1>4, <2>1, <2>3, <2>4, EndsIs DEF Ends
  <2>6. Active' = Active /\ ActiveCount' = ActiveCount /\ Placed' \subseteq Placed
    BY <1>4, <2>2, <2>5 DEF Active, ActiveCount, Placed
  <2>7. QueuesOK'
    BY <1>4, <2>2, <2>5 DEF IInv, QueuesOK
  <2>8. NumbersOK'
    BY <2>2 DEF IInv, NumbersOK
  <2>9. FlagsOK'
    BY <2>2 DEF IInv, FlagsOK, Phases
  <2>10. PhaseOK'
    BY <1>5, <2>2 DEF PhaseOK, Drained, Late
  <2>11. OnceOK'
    BY <1>4, <2>2, <2>4, <2>5, <2>6 DEF IInv, OnceOK
  <2>12. CountOK'
    <3>1. ActiveCount = 0 /\ Len(generationJobs) \in Nat
      BY <1>5, EmptyIs DEF ActiveCount, IInv, QueuesOK
    <3> QED BY <1>4, <2>2, <2>5, <2>6, <3>1 DEF IInv, CountOK, NumbersOK
  <2>13. OrderOK' /\ ScannedOK' /\ VerdictOK'
    BY <1>5, <2>2 DEF OrderOK, ScannedOK, VerdictOK, Generating
  <2>14. DeferredOK'
    BY <2>2, <2>6, DeferredKept
  <2> QED BY <1>3, <2>2, <2>6, <2>7, <2>8, <2>9, <2>10, <2>11, <2>12, <2>13, <2>14, SessionStep
<1>9. CASE /\ restoreJobs' = Tail(restoreJobs)
           /\ generationJobs' = Append(generationJobs, f)
           /\ left' = [left EXCEPT ![f] = Units]
           /\ Proceed("restore")
           /\ UNCHANGED <<queueVars, runVars, policy, activeFont, outcome,
                          countVars, everyVerified, memory, restarts,
                          deferrals, ready, reserve, trimStuck>>
  <2>1. PICK g : g = Append(generationJobs, f)
    OBVIOUS
  <2>2. /\ restoreJobs' = q /\ generationJobs' = g /\ phase' = "restore"
        /\ status' = "active"
        /\ UNCHANGED <<jobs, scheduled, configuredQueued, configuredPrewarmed,
             restartPending, restartCount, terminal, prewarmActive, workerThread,
             policy, activeFont, outcome, queued, completed, streamFailed, finished,
             verified, everyVerified, memory, restarts, deferrals, ready, reserve,
             trimStuck>>
    BY <1>2, <1>9, <2>1 DEF Proceed, queueVars, runVars, countVars
  <2>3. /\ generationJobs \in Seq(Fonts) /\ Once(generationJobs)
        /\ Four(ToSet(q) \cup {f}, ToSet(generationJobs), Active, ToSet(verified))
    BY <1>4 DEF IInv, QueuesOK, OnceOK
  <2>4. /\ Four(ToSet(q), ToSet(generationJobs) \cup {f}, Active, ToSet(verified))
        /\ Apart({f}, ToSet(generationJobs))
    <3>1. \A R, G, A, V : Four(R \cup {f}, G, A, V) /\ Apart({f}, R) =>
               Four(R, G \cup {f}, A, V) /\ Apart({f}, G)
      BY FourRules
    <3> QED BY <1>4, <2>3, <3>1
  <2>5. /\ g \in Seq(Fonts) /\ Len(g) = Len(generationJobs) + 1
        /\ Len(generationJobs) \in Nat
        /\ ToSet(g) = ToSet(generationJobs) \cup {f} /\ Once(g)
    BY <1>4, <2>1, <2>3, <2>4, EndsIs DEF Ends
  <2>6. Active' = Active /\ ActiveCount' = ActiveCount /\ Placed' \subseteq Placed
    BY <1>4, <2>2, <2>5 DEF Active, ActiveCount, Placed
  <2>7. QueuesOK'
    BY <1>4, <2>2, <2>5 DEF IInv, QueuesOK
  <2>8. NumbersOK'
    BY <1>4, <1>9, <2>2, UnitsIn, LeftIs DEF IInv, NumbersOK
  <2>9. FlagsOK'
    BY <2>2 DEF IInv, FlagsOK, Phases
  <2>10. PhaseOK'
    BY <1>5, <2>2 DEF PhaseOK, Drained, Late
  <2>11. OnceOK'
    BY <1>4, <2>2, <2>4, <2>5, <2>6 DEF IInv, OnceOK
  <2>12. CountOK'
    <3>1. ActiveCount = 0
      BY <1>5 DEF ActiveCount
    <3> QED BY <1>4, <2>2, <2>5, <2>6, <3>1 DEF IInv, CountOK, NumbersOK
  <2>13. OrderOK' /\ ScannedOK' /\ VerdictOK'
    BY <1>5, <2>2 DEF OrderOK, ScannedOK, VerdictOK, Generating
  <2>14. DeferredOK'
    BY <2>2, <2>6, DeferredKept
  <2> QED BY <1>3, <2>2, <2>6, <2>7, <2>8, <2>9, <2>10, <2>11, <2>12, <2>13, <2>14, SessionStep
<1>10. \/ AbortPrewarmTransaction /\ UNCHANGED <<ready, trimStuck>>
       \/ /\ MemoryFailure(f)
          /\ Proceed("restore")
          /\ UNCHANGED <<queueVars, runVars, policy, restoreJobs,
                         generationJobs, activeFont, outcome, countVars,
                         everyVerified, left, restarts, deferrals, ready,
                         trimStuck>>
       \/ /\ restoreJobs' = Tail(restoreJobs)
          /\ Finish(f)
          /\ Proceed("restore")
          /\ UNCHANGED <<queueVars, runVars, policy, generationJobs,
                         activeFont, outcome, everyVerified, jobVars, ready,
                         reserve, trimStuck>>
       \/ /\ restoreJobs' = Tail(restoreJobs)
          /\ generationJobs' = Append(generationJobs, f)
          /\ left' = [left EXCEPT ![f] = Units]
          /\ Proceed("restore")
          /\ UNCHANGED <<queueVars, runVars, policy, activeFont, outcome,
                         countVars, everyVerified, memory, restarts,
                         deferrals, ready, reserve, trimStuck>>
  BY <1>1, Zenon DEF RestoreOnePrewarmSnapshot, RequestFails
<1> QED BY <1>6, <1>7, <1>8, <1>9, <1>10

LEMMA DeferralOK ==
  ASSUME IInv, phase = "begin", generationJobs # <<>>,
         NEW f, f = Head(generationJobs), IsAlias(f), OwnerPending(f),
         deferrals' = [deferrals EXCEPT ![f] = @ + 1],
         generationJobs' = Append(Tail(generationJobs), f),
         Proceed("begin"),
         UNCHANGED <<countVars, queueVars, runVars, policy, restoreJobs, activeFont,
                     outcome, everyVerified, left, memory, restarts,
                     ready, reserve, trimStuck>>
  PROVE  IInv'
<1>1. PICK q : q = Tail(generationJobs)
  OBVIOUS
<1>2. PICK g : g = Append(q, f)
  OBVIOUS
<1>3. /\ f \in Fonts /\ q \in Seq(Fonts) /\ Len(q) \in Nat
      /\ Len(generationJobs) = Len(q) + 1 /\ ToSet(generationJobs) = ToSet(q) \cup {f}
      /\ Once(q) /\ Apart({f}, ToSet(q))
      /\ AllAliases(ToSet(q))
  BY <1>1, GenerationFirst
<1>4. /\ g \in Seq(Fonts) /\ Len(g) = Len(q) + 1 /\ Once(g)
      /\ ToSet(g) = ToSet(q) \cup {f}
  BY <1>2, <1>3, EndsIs DEF Ends
<1>5. AllAliases(ToSet(g)) /\ AliasesLast(g)
  <2>1. AllAliases(ToSet(g))
    BY <1>3, <1>4 DEF AllAliases
  <2> QED BY <1>4, <2>1, EmptyIs
<1>6. /\ activeFont = NoFont /\ everyVerified = FALSE /\ Active = {} /\ restoreJobs = <<>>
  BY DEF IInv, PhaseOK, VerdictOK, Late, FlagsOK, Active
<1>7. /\ generationJobs' = g /\ phase' = "begin" /\ status' = "active"
      /\ UNCHANGED <<jobs, scheduled, configuredQueued, configuredPrewarmed,
           restartPending, restartCount, terminal, prewarmActive, workerThread,
           policy, restoreJobs, activeFont, outcome, queued, completed, streamFailed,
           finished, verified, everyVerified, left, memory, restarts, ready, reserve,
           trimStuck>>
  BY <1>1, <1>2 DEF Proceed, queueVars, runVars, countVars
<1>8. Active' = Active /\ ActiveCount' = ActiveCount /\ Placed' = Placed
  BY <1>3, <1>4, <1>7 DEF Active, ActiveCount, Placed
<1>9. QueuesOK'
  BY <1>4, <1>7 DEF IInv, QueuesOK
<1>10. NumbersOK'
  BY <1>3, <1>7, CountedIs DEF IInv, NumbersOK
<1>11. FlagsOK'
  BY <1>7 DEF IInv, FlagsOK, Phases
<1>12. PhaseOK'
  BY <1>6, <1>7 DEF PhaseOK, Drained, Late
<1>13. OnceOK'
  BY <1>3, <1>4, <1>7, <1>8 DEF IInv, OnceOK
<1>14. CountOK'
  BY <1>3, <1>4, <1>7, <1>8 DEF IInv, CountOK
<1>15. OrderOK' /\ ScannedOK' /\ VerdictOK'
  BY <1>5, <1>6, <1>7 DEF OrderOK, ScannedOK, VerdictOK
<1>16. Owner[f] \notin Placed
  <2>1. PICK h \in ToSet(q) : Profile[h] = Profile[Owner[f]]
    BY <1>1 DEF OwnerPending, ProfilesOf
  <2>2. Owner[f] \notin ToSet(verified)
    <3>1. Four(ToSet(restoreJobs), ToSet(generationJobs), Active, ToSet(verified))
      BY DEF IInv, OnceOK
    <3>2. Apart(ToSet(generationJobs), ToSet(verified))
      BY <3>1 DEF Four
    <3> QED BY <1>3, <2>1, <3>2 DEF Apart
  <2>3. ~IsAlias(Owner[f]) /\ IsAlias(f)
    BY <1>3, SessionAssumption DEF IsAlias
  <2>4. Owner[f] \notin ToSet(generationJobs)
    BY <1>3, <2>3 DEF AllAliases
  <2>5. ToSet(restoreJobs) = {}
    BY <1>6, EmptyIs DEF IInv, QueuesOK
  <2> QED BY <1>6, <2>2, <2>4, <2>5 DEF Placed
<1>17. DeferredOK'
  <2>1. ASSUME NEW h \in Fonts, deferrals'[h] > 0 PROVE Owner[h] \notin Placed
    <3>1. CASE h = f
      BY <1>16, <3>1
    <3>2. CASE h # f
      <4>1. deferrals'[h] = deferrals[h]
        BY <3>2 DEF IInv, NumbersOK, Counters
      <4> QED BY <2>1, <4>1 DEF IInv, DeferredOK
    <3> QED BY <3>1, <3>2
  <2> QED BY <1>8, <2>1 DEF DeferredOK
<1> QED BY <1>7, <1>8, <1>9, <1>10, <1>11, <1>12, <1>13, <1>14, <1>15, <1>17, SessionStep

LEMMA StreamFailedOK ==
  ASSUME IInv, phase = "begin", generationJobs # <<>>,
         NEW f, f = Head(generationJobs),
         generationJobs' = Tail(generationJobs),
         streamFailed' = streamFailed + 1, finished' = finished + 1,
         Proceed("begin"),
         UNCHANGED <<deferrals, queued, completed, verified,
                     queueVars, runVars, policy, restoreJobs, activeFont,
                     outcome, everyVerified, left, memory, restarts,
                     ready, reserve, trimStuck>>
  PROVE  IInv'
<1>1. PICK q : q = Tail(generationJobs)
  OBVIOUS
<1>3. /\ f \in Fonts /\ q \in Seq(Fonts) /\ Len(q) \in Nat
      /\ Len(generationJobs) = Len(q) + 1 /\ ToSet(generationJobs) = ToSet(q) \cup {f}
      /\ Once(q) /\ Apart({f}, ToSet(q)) /\ AliasesLast(q)
  BY <1>1, GenerationFirst
<1>6. /\ activeFont = NoFont /\ everyVerified = FALSE /\ Active = {} /\ restoreJobs = <<>>
  BY DEF IInv, PhaseOK, VerdictOK, Late, FlagsOK, Active
<1>7. /\ generationJobs' = q /\ phase' = "begin" /\ status' = "active"
      /\ UNCHANGED <<jobs, scheduled, configuredQueued, configuredPrewarmed,
           restartPending, restartCount, terminal, prewarmActive, workerThread,
           policy, restoreJobs, activeFont, outcome, queued, completed,
           verified, everyVerified, left, memory, restarts, deferrals, ready, reserve,
           trimStuck>>
  BY <1>1 DEF Proceed, queueVars, runVars
<1>8. Active' = Active /\ ActiveCount' = ActiveCount /\ Placed' \subseteq Placed
  BY <1>3, <1>7 DEF Active, ActiveCount, Placed
<1>9. QueuesOK'
  BY <1>3, <1>7 DEF IInv, QueuesOK
<1>10. NumbersOK'
  BY <1>7 DEF IInv, NumbersOK
<1>11. FlagsOK'
  BY <1>7 DEF IInv, FlagsOK, Phases
<1>12. PhaseOK'
  BY <1>6, <1>7 DEF PhaseOK, Drained, Late
<1>13. OnceOK'
  <2>1. Four(ToSet(restoreJobs), ToSet(q) \cup {f}, {}, ToSet(verified))
    BY <1>3, <1>6 DEF IInv, OnceOK
  <2>2. Four(ToSet(restoreJobs), ToSet(q), {}, ToSet(verified))
    BY <1>3, <2>1, FourRules, Zenon
  <2> QED BY <1>3, <1>6, <1>7, <1>8, <2>2 DEF IInv, OnceOK
<1>14. CountOK'
  <2>1. ActiveCount = 0 /\ Len(restoreJobs) \in Nat
    BY <1>6, EmptyIs DEF ActiveCount, IInv, QueuesOK
  <2>2. /\ Len(restoreJobs) + (Len(q) + 1) + 0 + finished = queued
        /\ finished = completed + streamFailed /\ Len(verified) = completed
        /\ finished \in Nat /\ streamFailed \in Nat /\ completed \in Nat
    BY <1>3, <1>8, <2>1 DEF IInv, CountOK, NumbersOK
  <2>3. /\ Len(restoreJobs)' = Len(restoreJobs) /\ Len(generationJobs)' = Len(q)
        /\ Len(verified)' = Len(verified)
    BY <1>7
  <2> QED BY <1>3, <1>7, <1>8, <2>1, <2>2, <2>3 DEF CountOK
<1>15. OrderOK' /\ ScannedOK' /\ VerdictOK'
  BY <1>3, <1>6, <1>7 DEF OrderOK, ScannedOK, VerdictOK
<1>16. DeferredOK'
  BY <1>7, <1>8, DeferredKept
<1> QED BY <1>7, <1>8, <1>9, <1>10, <1>11, <1>12, <1>13, <1>14, <1>15, <1>16, SessionStep

LEMMA GenerationBegins ==
  ASSUME IInv, phase = "begin", generationJobs # <<>>,
         NEW f, f = Head(generationJobs),
         activeFont' = f, outcome' = "ok",
         generationJobs' = Tail(generationJobs), policy' = TRUE,
         MemoryFailure(f) \/ UNCHANGED <<memory, reserve>>,
         Proceed("generate"),
         UNCHANGED <<queueVars, runVars, restoreJobs, countVars,
                     everyVerified, left, restarts, deferrals, ready, trimStuck>>
  PROVE  IInv'
<1>1. PICK q : q = Tail(generationJobs)
  OBVIOUS
<1>3. /\ f \in Fonts /\ q \in Seq(Fonts) /\ Len(q) \in Nat
      /\ Len(generationJobs) = Len(q) + 1 /\ ToSet(generationJobs) = ToSet(q) \cup {f}
      /\ Once(q) /\ Apart({f}, ToSet(q))
      /\ AliasesLast(q) /\ (IsAlias(f) => AllAliases(ToSet(q)))
  BY <1>1, GenerationFirst
<1>4. memory' \in Counters /\ reserve' \in BOOLEAN
  BY <1>3, MemoryFailureTyped, MemoryTyped
<1>6. /\ activeFont = NoFont /\ everyVerified = FALSE /\ Active = {} /\ restoreJobs = <<>>
  BY DEF IInv, PhaseOK, VerdictOK, Late, FlagsOK, Active
<1>7. /\ generationJobs' = q /\ phase' = "generate" /\ status' = "active"
      /\ UNCHANGED <<jobs, scheduled, configuredQueued, configuredPrewarmed,
           restartPending, restartCount, terminal, prewarmActive, workerThread,
           restoreJobs, queued, completed, streamFailed, finished,
           verified, everyVerified, left, restarts, deferrals, ready,
           trimStuck>>
  BY <1>1 DEF Proceed, queueVars, runVars, countVars
<1>5. f # NoFont
  BY <1>3, SessionAssumption
<1>8. Active' = {f} /\ ActiveCount' = 1 /\ ActiveCount = 0 /\ Placed' \subseteq Placed
  BY <1>3, <1>5, <1>6, <1>7 DEF Active, ActiveCount, Placed
<1>9. QueuesOK'
  BY <1>3, <1>7 DEF IInv, QueuesOK
<1>10. NumbersOK'
  BY <1>4, <1>7 DEF IInv, NumbersOK
<1>11. FlagsOK'
  BY <1>4, <1>7 DEF IInv, FlagsOK, Phases
<1>12. PhaseOK'
  BY <1>5, <1>6, <1>7 DEF PhaseOK, Drained, Late
<1>13. OnceOK'
  <2>1. Four(ToSet(restoreJobs), ToSet(q) \cup {f}, {}, ToSet(verified))
    BY <1>3, <1>6 DEF IInv, OnceOK
  <2>2. Four(ToSet(restoreJobs), ToSet(q), {f}, ToSet(verified))
    BY <1>3, <2>1, FourRules, Zenon
  <2> QED BY <1>3, <1>7, <1>8, <2>2 DEF IInv, OnceOK
<1>14. CountOK'
  <2>1. Len(restoreJobs) \in Nat
    BY EmptyIs DEF IInv, QueuesOK
  <2>2. /\ Len(restoreJobs) + (Len(q) + 1) + 0 + finished = queued
        /\ finished = completed + streamFailed /\ Len(verified) = completed
        /\ finished \in Nat /\ streamFailed \in Nat /\ completed \in Nat
    BY <1>3, <1>8, <2>1 DEF IInv, CountOK, NumbersOK
  <2>3. /\ Len(restoreJobs)' = Len(restoreJobs) /\ Len(generationJobs)' = Len(q)
        /\ Len(verified)' = Len(verified)
    BY <1>7
  <2> QED BY <1>3, <1>7, <1>8, <2>1, <2>2, <2>3 DEF CountOK
<1>15. OrderOK' /\ ScannedOK' /\ VerdictOK'
  BY <1>3, <1>6, <1>7 DEF OrderOK, ScannedOK, VerdictOK
<1>16. DeferredOK'
  BY <1>7, <1>8, DeferredKept
<1> QED BY <1>7, <1>8, <1>9, <1>10, <1>11, <1>12, <1>13, <1>14, <1>15, <1>16, SessionStep

LEMMA BeginNextPrewarmFontOK ==
  ASSUME IInv, BeginNextPrewarmFont
  PROVE  IInv'
<1>1. PICK f : f = Head(generationJobs)
  OBVIOUS
<1>2. phase = "begin" /\ generationJobs # <<>>
  BY DEF BeginNextPrewarmFont, Stepping
<1>3. f \in Fonts
  <2>1. PICK q : q = Tail(generationJobs)
    OBVIOUS
  <2> QED BY <1>1, <1>2, <2>1, GenerationFirst
<1>4. everyVerified = FALSE /\ restoreJobs = <<>> /\ AliasesLast(generationJobs)
  BY <1>2 DEF IInv, PhaseOK, VerdictOK, Late, FlagsOK, OrderOK, Generating
<1>5. CASE AbortPrewarmTransaction /\ UNCHANGED <<ready, trimStuck>>
  BY <1>5, AbortOK DEF IInv, QueuesOK, FlagsOK
<1>6. CASE /\ MemoryFailure(f)
           /\ Proceed("begin")
           /\ UNCHANGED <<queueVars, runVars, policy, restoreJobs,
                          generationJobs, activeFont, outcome, countVars,
                          everyVerified, left, restarts, deferrals, ready,
                          trimStuck>>
  <2>1. memory' \in Counters /\ reserve' \in BOOLEAN
    BY <1>3, <1>6, MemoryFailureTyped
  <2>2. phase' = "begin" /\ status' = "active" /\ everyVerified' = everyVerified
        /\ policy' = policy
    BY <1>6 DEF Proceed
  <2>3. VerdictOK'
    BY <1>4, <2>2 DEF VerdictOK
  <2>4. policy' \in BOOLEAN /\ everyVerified' \in BOOLEAN
    BY <1>4, <2>2 DEF IInv, FlagsOK
  <2> QED BY <1>2, <1>4, <1>6, <2>1, <2>2, <2>3, <2>4, StillStep
          DEF queueVars, runVars, countVars, Phases, Drained, Late
<1>7. CASE /\ IsAlias(f)
           /\ IF OwnerPending(f) /\ deferrals[f] < MaxDeferrals
              THEN /\ deferrals' = [deferrals EXCEPT ![f] = @ + 1]
                   /\ generationJobs' = Append(Tail(generationJobs), f)
                   /\ UNCHANGED countVars
              ELSE /\ generationJobs' = Tail(generationJobs)
                   /\ streamFailed' = streamFailed + 1
                   /\ finished' = finished + 1
                   /\ UNCHANGED <<deferrals, queued, completed, verified>>
           /\ Proceed("begin")
           /\ UNCHANGED <<queueVars, runVars, policy, restoreJobs, activeFont,
                          outcome, everyVerified, left, memory, restarts,
                          ready, reserve, trimStuck>>
  <2>1. CASE OwnerPending(f) /\ deferrals[f] < MaxDeferrals
    <3>1. /\ deferrals' = [deferrals EXCEPT ![f] = @ + 1]
          /\ generationJobs' = Append(Tail(generationJobs), f)
          /\ UNCHANGED countVars
      BY <1>7, <2>1
    <3> QED BY <1>1, <1>2, <1>7, <2>1, <3>1, DeferralOK
  <2>2. CASE ~(OwnerPending(f) /\ deferrals[f] < MaxDeferrals)
    <3>1. /\ generationJobs' = Tail(generationJobs)
          /\ streamFailed' = streamFailed + 1
          /\ finished' = finished + 1
          /\ UNCHANGED <<deferrals, queued, completed, verified>>
      BY <1>7, <2>2
    <3> QED BY <1>1, <1>2, <1>7, <3>1, StreamFailedOK
  <2> QED BY <2>1, <2>2
<1>8. CASE /\ activeFont' = f /\ outcome' = "ok"
           /\ generationJobs' = Tail(generationJobs)
           /\ policy' = TRUE
           /\ MemoryFailure(f) \/ UNCHANGED <<memory, reserve>>
           /\ Proceed("generate")
           /\ UNCHANGED <<queueVars, runVars, restoreJobs, countVars,
                          everyVerified, left, restarts, deferrals, ready,
                          trimStuck>>
  BY <1>1, <1>2, <1>8, GenerationBegins
<1>9. \/ AbortPrewarmTransaction /\ UNCHANGED <<ready, trimStuck>>
      \/ /\ MemoryFailure(f)
         /\ Proceed("begin")
         /\ UNCHANGED <<queueVars, runVars, policy, restoreJobs,
                        generationJobs, activeFont, outcome, countVars,
                        everyVerified, left, restarts, deferrals, ready,
                        trimStuck>>
      \/ /\ IsAlias(f)
         /\ IF OwnerPending(f) /\ deferrals[f] < MaxDeferrals
            THEN /\ deferrals' = [deferrals EXCEPT ![f] = @ + 1]
                 /\ generationJobs' = Append(Tail(generationJobs), f)
                 /\ UNCHANGED countVars
            ELSE /\ generationJobs' = Tail(generationJobs)
                 /\ streamFailed' = streamFailed + 1
                 /\ finished' = finished + 1
                 /\ UNCHANGED <<deferrals, queued, completed, verified>>
         /\ Proceed("begin")
         /\ UNCHANGED <<queueVars, runVars, policy, restoreJobs, activeFont,
                        outcome, everyVerified, left, memory, restarts,
                        ready, reserve, trimStuck>>
      \/ /\ activeFont' = f /\ outcome' = "ok"
         /\ generationJobs' = Tail(generationJobs)
         /\ policy' = TRUE
         /\ MemoryFailure(f) \/ UNCHANGED <<memory, reserve>>
         /\ Proceed("generate")
         /\ UNCHANGED <<queueVars, runVars, restoreJobs, countVars,
                        everyVerified, left, restarts, deferrals, ready,
                        trimStuck>>
  BY <1>1, Zenon DEF BeginNextPrewarmFont, RequestFails
<1> QED BY <1>5, <1>6, <1>7, <1>8, <1>9

LEMMA GenerateOnePrewarmBatchOK ==
  ASSUME IInv, GenerateOnePrewarmBatch
  PROVE  IInv'
<1>1. PICK f : f = activeFont
  OBVIOUS
<1>2. phase = "generate"
  BY DEF GenerateOnePrewarmBatch, Stepping
<1>3. f \in Fonts /\ f # NoFont /\ everyVerified = FALSE /\ restoreJobs = <<>>
  BY <1>1, <1>2 DEF IInv, QueuesOK, PhaseOK, VerdictOK, Late, FlagsOK
<1>4. left[f] \in 0..Units /\ Units \in Nat
  BY <1>3, SessionAssumption DEF IInv, NumbersOK
<1>5. UNCHANGED <<jobs, scheduled, configuredQueued, configuredPrewarmed,
           restartPending, restartCount, terminal, prewarmActive, workerThread,
           policy, restoreJobs, generationJobs, activeFont, queued, completed,
           streamFailed, finished, verified, everyVerified, restarts, deferrals,
           ready, trimStuck>>
  BY DEF GenerateOnePrewarmBatch, queueVars, runVars, countVars
<1>6. /\ phase' \in {"generate", "finalize"} /\ status' = "active"
      /\ outcome' \in {outcome, "failed", "terminal"}
      /\ left' \in [Fonts -> 0..Units]
      /\ memory' \in Counters /\ reserve' \in BOOLEAN
      /\ phase' = "finalize" /\ outcome' = "ok" => left'[f] = 0
  <2>1. PICK rest \in 0..left[f] :
       \/ /\ rest < left[f]
          /\ left' = [left EXCEPT ![f] = rest]
          /\ Proceed(IF rest = 0 THEN "finalize" ELSE "generate")
          /\ UNCHANGED <<outcome, memory, reserve>>
       \/ /\ MemoryFailure(f)
          /\ IF CanRetryAfterMemoryFailure(f)
             THEN /\ Proceed(RolledBack(rest))
                  /\ UNCHANGED outcome
             ELSE /\ Proceed("finalize")
                  /\ outcome' = "terminal"
          /\ UNCHANGED left
       \/ /\ outcome' = "failed"
          /\ Proceed("finalize")
          /\ left' = [left EXCEPT ![f] = rest]
          /\ UNCHANGED <<memory, reserve>>
    BY <1>1 DEF GenerateOnePrewarmBatch
  <2>2. rest \in 0..Units
    <3>1. left[f] \in Nat /\ left[f] <= Units
      BY <1>4
    <3> QED BY <1>4, <3>1
  <2>3. CASE /\ rest < left[f]
             /\ left' = [left EXCEPT ![f] = rest]
             /\ Proceed(IF rest = 0 THEN "finalize" ELSE "generate")
             /\ UNCHANGED <<outcome, memory, reserve>>
    <3>1. left' \in [Fonts -> 0..Units] /\ left'[f] = rest
      BY <1>3, <2>2, <2>3, LeftIs DEF IInv, NumbersOK
    <3>2. memory' \in Counters /\ reserve' \in BOOLEAN
      BY <2>3, MemoryTyped
    <3>3. /\ phase' = IF rest = 0 THEN "finalize" ELSE "generate"
          /\ status' = "active"
      BY <2>3 DEF Proceed
    <3> QED BY <2>3, <3>1, <3>2, <3>3
  <2>4. CASE /\ MemoryFailure(f)
             /\ IF CanRetryAfterMemoryFailure(f)
                THEN /\ Proceed(RolledBack(rest))
                     /\ UNCHANGED outcome
                ELSE /\ Proceed("finalize")
                     /\ outcome' = "terminal"
             /\ UNCHANGED left
    <3>1. memory' \in Counters /\ reserve' \in BOOLEAN
      BY <1>3, <2>4, MemoryFailureTyped
    <3>2. left' \in [Fonts -> 0..Units]
      BY <2>4 DEF IInv, NumbersOK
    <3> QED BY <2>4, <3>1, <3>2 DEF Proceed, RolledBack
  <2>5. CASE /\ outcome' = "failed"
             /\ Proceed("finalize")
             /\ left' = [left EXCEPT ![f] = rest]
             /\ UNCHANGED <<memory, reserve>>
    <3>1. left' \in [Fonts -> 0..Units]
      BY <1>3, <2>2, <2>5, LeftIs DEF IInv, NumbersOK
    <3>2. memory' \in Counters /\ reserve' \in BOOLEAN
      BY <2>5, MemoryTyped
    <3> QED BY <2>5, <3>1, <3>2 DEF Proceed
  <2> QED BY <2>1, <2>3, <2>4, <2>5
<1>7. Active' = Active /\ ActiveCount' = ActiveCount /\ Placed' = Placed
  BY <1>5 DEF Active, ActiveCount, Placed
<1>8. QueuesOK' /\ NumbersOK'
  BY <1>5, <1>6 DEF IInv, QueuesOK, NumbersOK
<1>9. FlagsOK'
  BY <1>5, <1>6 DEF IInv, FlagsOK, Phases
<1>10. PhaseOK'
  BY <1>1, <1>3, <1>5, <1>6 DEF PhaseOK, Drained, Late
<1>11. OnceOK' /\ CountOK'
  BY <1>5, <1>7 DEF IInv, OnceOK, CountOK
<1>12. OrderOK'
  BY <1>2, <1>5 DEF IInv, OrderOK, Generating
<1>13. ScannedOK' /\ VerdictOK'
  BY <1>1, <1>3, <1>5, <1>6 DEF ScannedOK, VerdictOK
<1>14. DeferredOK'
  BY <1>5, <1>7, DeferredKept
<1> QED BY <1>2, <1>5, <1>6, <1>7, <1>8, <1>9, <1>10, <1>11, <1>12, <1>13, <1>14, SessionStep

\* The font that is active, and where its job may go.
LEMMA ActiveIs ==
  ASSUME IInv, phase = "finalize", NEW f, f = activeFont
  PROVE  /\ f \in Fonts /\ f # NoFont /\ Active = {f} /\ ActiveCount = 1
         /\ everyVerified = FALSE /\ restoreJobs = <<>>
         /\ Four(ToSet(restoreJobs), ToSet(generationJobs), {f}, ToSet(verified))
         /\ AliasesLast(generationJobs)
         /\ IsAlias(f) => AllAliases(ToSet(generationJobs))
<1>1. f \in Fonts /\ f # NoFont /\ Active = {f} /\ ActiveCount = 1
  BY DEF IInv, QueuesOK, PhaseOK, Active, ActiveCount
<1>2. everyVerified = FALSE /\ restoreJobs = <<>>
  BY DEF IInv, PhaseOK, VerdictOK, Late, FlagsOK
<1>3. AliasesLast(generationJobs) /\ (IsAlias(f) => AllAliases(ToSet(generationJobs)))
  BY <1>1 DEF IInv, OrderOK, Generating
<1>4. Four(ToSet(restoreJobs), ToSet(generationJobs), {f}, ToSet(verified))
  BY <1>1 DEF IInv, OnceOK
<1> QED BY <1>1, <1>2, <1>3, <1>4

LEMMA FinalizeFailedOK ==
  ASSUME IInv, FinalizeFailed
  PROVE  IInv'
<1>1. PICK f : f = activeFont
  OBVIOUS
<1>2. phase = "finalize"
  BY DEF FinalizeFailed, Stepping
<1>3. /\ f \in Fonts /\ f # NoFont /\ Active = {f} /\ ActiveCount = 1
      /\ everyVerified = FALSE /\ restoreJobs = <<>>
      /\ Four(ToSet(restoreJobs), ToSet(generationJobs), {f}, ToSet(verified))
      /\ AliasesLast(generationJobs)
      /\ (IsAlias(f) => AllAliases(ToSet(generationJobs)))
  BY <1>1, <1>2, ActiveIs
<1>4. CASE AbortPrewarmTransaction
  BY <1>4, AbortOK DEF FinalizeFailed, IInv, QueuesOK, FlagsOK
<1>5. CASE /\ restarts' = [restarts EXCEPT ![f] = @ + 1]
           /\ left' = [left EXCEPT ![f] = Units]
           /\ generationJobs' = <<f>> \o generationJobs
           /\ activeFont' = NoFont /\ outcome' = "ok"
           /\ Proceed("begin")
           /\ UNCHANGED <<queueVars, runVars, policy, restoreJobs, countVars,
                          everyVerified, memory, deferrals, reserve>>
  <2>1. PICK g : g = <<f>> \o generationJobs
    OBVIOUS
  <2>2. /\ generationJobs' = g /\ phase' = "begin" /\ status' = "active"
        /\ activeFont' = NoFont /\ outcome' = "ok"
        /\ UNCHANGED <<jobs, scheduled, configuredQueued, configuredPrewarmed,
             restartPending, restartCount, terminal, prewarmActive, workerThread,
             policy, restoreJobs, queued, completed, streamFailed, finished,
             verified, everyVerified, memory, deferrals, ready, reserve, trimStuck>>
    BY <1>5, <2>1 DEF Proceed, queueVars, runVars, countVars, FinalizeFailed
  <2>3. generationJobs \in Seq(Fonts) /\ Once(generationJobs)
    BY DEF IInv, QueuesOK, OnceOK
  <2>4. /\ Four(ToSet(restoreJobs), ToSet(generationJobs) \cup {f}, {}, ToSet(verified))
        /\ Apart({f}, ToSet(generationJobs))
    <3>1. \A R, G, V : Four(R, G, {f}, V) =>
               Four(R, G \cup {f}, {}, V) /\ Apart({f}, G)
      BY FourRules
    <3> QED BY <1>3, <3>1
  <2>5. /\ g \in Seq(Fonts) /\ Len(g) = Len(generationJobs) + 1
        /\ Len(generationJobs) \in Nat
        /\ ToSet(g) = ToSet(generationJobs) \cup {f} /\ Once(g) /\ AliasesLast(g)
    BY <1>3, <2>1, <2>3, <2>4, StartsIs DEF Starts
  <2>6. Active' = {} /\ ActiveCount' = 0 /\ Placed' \subseteq Placed
    BY <1>3, <2>2, <2>5 DEF Active, ActiveCount, Placed
  <2>7. QueuesOK'
    BY <2>2, <2>5 DEF IInv, QueuesOK
  <2>8. NumbersOK'
    <3>1. restarts' \in Counters /\ left' \in [Fonts -> 0..Units]
      BY <1>3, <1>5, CountedIs, LeftIs, UnitsIn DEF IInv, NumbersOK
    <3> QED BY <2>2, <3>1 DEF IInv, NumbersOK
  <2>9. FlagsOK'
    BY <2>2 DEF IInv, FlagsOK, Phases
  <2>10. PhaseOK'
    BY <1>3, <2>2 DEF PhaseOK, Drained, Late
  <2>11. OnceOK'
    BY <2>2, <2>4, <2>5, <2>6 DEF IInv, OnceOK
  <2>12. CountOK'
    <3>1. /\ Len(restoreJobs) + Len(generationJobs) + 1 + finished = queued
          /\ finished = completed + streamFailed /\ Len(verified) = completed
          /\ finished \in Nat
      BY <1>3 DEF IInv, CountOK, NumbersOK
    <3>2. Len(restoreJobs) \in Nat
      BY EmptyIs DEF IInv, QueuesOK
    <3>3. /\ Len(restoreJobs)' = Len(restoreJobs) /\ Len(generationJobs)' = Len(g)
          /\ Len(verified)' = Len(verified)
      BY <2>2
    <3> QED BY <2>2, <2>5, <2>6, <3>1, <3>2, <3>3 DEF CountOK
  <2>13. OrderOK' /\ ScannedOK' /\ VerdictOK'
    BY <1>3, <2>2, <2>5 DEF OrderOK, ScannedOK, VerdictOK
  <2>14. DeferredOK'
    BY <2>2, <2>6, DeferredKept
  <2> QED BY <1>2, <2>2, <2>6, <2>7, <2>8, <2>9, <2>10, <2>11, <2>12, <2>13, <2>14, SessionStep
<1> QED BY <1>1, <1>4, <1>5 DEF FinalizeFailed

\* The active font is published.
LEMMA PublishedOK ==
  ASSUME IInv, phase = "finalize", NEW f, f = activeFont,
         Finish(f), activeFont' = NoFont, Proceed("begin"),
         UNCHANGED <<queueVars, runVars, policy, restoreJobs,
                     generationJobs, outcome, everyVerified, jobVars,
                     ready, reserve, trimStuck>>
  PROVE  IInv'
<1>1. /\ f \in Fonts /\ f # NoFont /\ Active = {f} /\ ActiveCount = 1
      /\ everyVerified = FALSE /\ restoreJobs = <<>>
      /\ Four(ToSet(restoreJobs), ToSet(generationJobs), {f}, ToSet(verified))
      /\ AliasesLast(generationJobs)
  BY ActiveIs
<1>2. PICK v : v = Append(verified, f)
  OBVIOUS
<1>3. /\ verified' = v /\ phase' = "begin" /\ status' = "active" /\ activeFont' = NoFont
      /\ completed' = completed + 1 /\ finished' = finished + 1
      /\ UNCHANGED <<jobs, scheduled, configuredQueued, configuredPrewarmed,
           restartPending, restartCount, terminal, prewarmActive, workerThread,
           policy, restoreJobs, generationJobs, outcome, queued, streamFailed,
           everyVerified, left, memory, restarts, deferrals, ready, reserve, trimStuck>>
  BY <1>2 DEF Finish, Proceed, queueVars, runVars, jobVars
<1>4. verified \in Seq(Fonts) /\ Once(verified)
  BY DEF IInv, QueuesOK, OnceOK
<1>5. /\ Four(ToSet(restoreJobs), ToSet(generationJobs), {}, ToSet(verified) \cup {f})
      /\ Apart({f}, ToSet(verified))
  <2>1. \A R, G, V : Four(R, G, {f}, V) =>
             Four(R, G, {}, V \cup {f}) /\ Apart({f}, V)
    BY FourRules
  <2> QED BY <1>1, <2>1
<1>6. /\ v \in Seq(Fonts) /\ Len(v) = Len(verified) + 1 /\ Len(verified) \in Nat
      /\ ToSet(v) = ToSet(verified) \cup {f} /\ Once(v)
  BY <1>1, <1>2, <1>4, <1>5, EndsIs DEF Ends
<1>7. Active' = {} /\ ActiveCount' = 0 /\ Placed' \subseteq Placed
  BY <1>1, <1>3, <1>6 DEF Active, ActiveCount, Placed
<1>8. QueuesOK'
  BY <1>3, <1>6 DEF IInv, QueuesOK
<1>9. NumbersOK'
  BY <1>3 DEF IInv, NumbersOK
<1>10. FlagsOK'
  BY <1>3 DEF IInv, FlagsOK, Phases
<1>11. PhaseOK'
  BY <1>1, <1>3 DEF PhaseOK, Drained, Late
<1>12. OnceOK'
  BY <1>3, <1>5, <1>6, <1>7 DEF IInv, OnceOK
<1>13. CountOK'
  <2>1. /\ Len(restoreJobs) + Len(generationJobs) + 1 + finished = queued
        /\ finished = completed + streamFailed /\ Len(verified) = completed
        /\ finished \in Nat /\ completed \in Nat /\ streamFailed \in Nat
    BY <1>1 DEF IInv, CountOK, NumbersOK
  <2>2. Len(restoreJobs) \in Nat /\ Len(generationJobs) \in Nat
    BY EmptyIs DEF IInv, QueuesOK
  <2>3. /\ Len(restoreJobs)' = Len(restoreJobs) /\ Len(generationJobs)' = Len(generationJobs)
        /\ Len(verified)' = Len(v)
    BY <1>3
  <2> QED BY <1>3, <1>6, <1>7, <2>1, <2>2, <2>3 DEF CountOK
<1>14. OrderOK' /\ ScannedOK' /\ VerdictOK'
  BY <1>1, <1>3 DEF OrderOK, ScannedOK, VerdictOK
<1>15. DeferredOK'
  BY <1>3, <1>7, DeferredKept
<1> QED BY <1>3, <1>7, <1>8, <1>9, <1>10, <1>11, <1>12, <1>13, <1>14, <1>15, SessionStep

\* The active font goes back to the snapshots.
LEMMA RetryRestoreOK ==
  ASSUME IInv, phase = "finalize", NEW f, f = activeFont,
         restarts' \in Counters, memory' \in Counters, reserve' \in BOOLEAN,
         RetryRestore(f), Proceed("restore"),
         UNCHANGED <<queueVars, runVars, policy, generationJobs, outcome,
                     countVars, everyVerified, left, deferrals, ready, trimStuck>>
  PROVE  IInv'
<1>1. /\ f \in Fonts /\ f # NoFont /\ Active = {f} /\ ActiveCount = 1
      /\ everyVerified = FALSE /\ restoreJobs = <<>>
      /\ Four(ToSet(restoreJobs), ToSet(generationJobs), {f}, ToSet(verified))
  BY ActiveIs
<1>2. PICK r : r = <<f>> \o restoreJobs
  OBVIOUS
<1>3. /\ restoreJobs' = r /\ phase' = "restore" /\ status' = "active"
      /\ activeFont' = NoFont
      /\ UNCHANGED <<jobs, scheduled, configuredQueued, configuredPrewarmed,
           restartPending, restartCount, terminal, prewarmActive, workerThread,
           policy, generationJobs, outcome, queued, completed, streamFailed, finished,
           verified, everyVerified, left, deferrals, ready, trimStuck>>
  BY <1>2 DEF RetryRestore, Proceed, queueVars, runVars, countVars
<1>4. restoreJobs \in Seq(Fonts) /\ Once(restoreJobs)
  BY DEF IInv, QueuesOK, OnceOK
<1>5. /\ Four(ToSet(restoreJobs) \cup {f}, ToSet(generationJobs), {}, ToSet(verified))
      /\ Apart({f}, ToSet(restoreJobs))
  <2>1. \A R, G, V : Four(R, G, {f}, V) =>
             Four(R \cup {f}, G, {}, V) /\ Apart({f}, R)
    BY FourRules
  <2> QED BY <1>1, <2>1
<1>6. /\ r \in Seq(Fonts) /\ Len(r) = Len(restoreJobs) + 1 /\ Len(restoreJobs) \in Nat
      /\ ToSet(r) = ToSet(restoreJobs) \cup {f} /\ Once(r)
  BY <1>1, <1>2, <1>4, <1>5, StartsIs DEF Starts
<1>7. Active' = {} /\ ActiveCount' = 0 /\ Placed' \subseteq Placed
  BY <1>1, <1>3, <1>6 DEF Active, ActiveCount, Placed
<1>8. QueuesOK'
  BY <1>3, <1>6 DEF IInv, QueuesOK
<1>9. NumbersOK'
  BY <1>3 DEF IInv, NumbersOK
<1>10. FlagsOK'
  BY <1>3 DEF IInv, FlagsOK, Phases
<1>11. PhaseOK'
  BY <1>3 DEF PhaseOK, Drained, Late
<1>12. OnceOK'
  BY <1>3, <1>5, <1>6, <1>7 DEF IInv, OnceOK
<1>13. CountOK'
  <2>1. /\ Len(restoreJobs) + Len(generationJobs) + 1 + finished = queued
        /\ finished = completed + streamFailed /\ Len(verified) = completed
        /\ finished \in Nat
    BY <1>1 DEF IInv, CountOK, NumbersOK
  <2>2. Len(generationJobs) \in Nat
    BY EmptyIs DEF IInv, QueuesOK
  <2>3. /\ Len(restoreJobs)' = Len(r) /\ Len(generationJobs)' = Len(generationJobs)
        /\ Len(verified)' = Len(verified)
    BY <1>3
  <2> QED BY <1>3, <1>6, <1>7, <2>1, <2>2, <2>3 DEF CountOK
<1>14. OrderOK' /\ ScannedOK' /\ VerdictOK'
  BY <1>1, <1>3 DEF OrderOK, ScannedOK, VerdictOK, Generating
<1>15. DeferredOK'
  BY <1>3, <1>7, DeferredKept
<1> QED BY <1>3, <1>7, <1>8, <1>9, <1>10, <1>11, <1>12, <1>13, <1>14, <1>15, SessionStep

LEMMA FinalizeActivePrewarmFontOK ==
  ASSUME IInv, FinalizeActivePrewarmFont
  PROVE  IInv'
<1>1. PICK f : f = activeFont
  OBVIOUS
<1>2. phase = "finalize"
  BY DEF FinalizeActivePrewarmFont, Stepping
<1>3. f \in Fonts
  BY <1>1, <1>2, ActiveIs
<1>4. CASE AbortPrewarmTransaction /\ UNCHANGED <<ready, trimStuck>>
  BY <1>4, AbortOK DEF IInv, QueuesOK, FlagsOK
<1>5. CASE /\ Finish(f)
           /\ activeFont' = NoFont
           /\ Proceed("begin")
           /\ UNCHANGED <<queueVars, runVars, policy, restoreJobs,
                          generationJobs, outcome, everyVerified, jobVars,
                          ready, reserve, trimStuck>>
  BY <1>1, <1>2, <1>5, PublishedOK
<1>6. CASE /\ \/ MemoryFailure(f) /\ UNCHANGED restarts
              \/ /\ restarts' = [restarts EXCEPT ![f] = @ + 1]
                 /\ UNCHANGED <<memory, reserve>>
           /\ RetryRestore(f)
           /\ Proceed("restore")
           /\ UNCHANGED <<queueVars, runVars, policy, generationJobs, outcome,
                          countVars, everyVerified, left, deferrals, ready,
                          trimStuck>>
  <2>1. memory' \in Counters /\ reserve' \in BOOLEAN
    BY <1>3, <1>6, MemoryFailureTyped, MemoryTyped
  <2>2. restarts' \in Counters
    BY <1>3, <1>6, CountedIs DEF IInv, NumbersOK
  <2> QED BY <1>1, <1>2, <1>6, <2>1, <2>2, RetryRestoreOK
<1>7. \/ AbortPrewarmTransaction /\ UNCHANGED <<ready, trimStuck>>
      \/ /\ Finish(f)
         /\ activeFont' = NoFont
         /\ Proceed("begin")
         /\ UNCHANGED <<queueVars, runVars, policy, restoreJobs,
                        generationJobs, outcome, everyVerified, jobVars,
                        ready, reserve, trimStuck>>
      \/ /\ \/ MemoryFailure(f) /\ UNCHANGED restarts
            \/ /\ restarts' = [restarts EXCEPT ![f] = @ + 1]
               /\ UNCHANGED <<memory, reserve>>
         /\ RetryRestore(f)
         /\ Proceed("restore")
         /\ UNCHANGED <<queueVars, runVars, policy, generationJobs, outcome,
                        countVars, everyVerified, left, deferrals, ready,
                        trimStuck>>
  BY <1>1, Zenon DEF FinalizeActivePrewarmFont, RequestFails
<1> QED BY <1>4, <1>5, <1>6, <1>7

-----------------------------------------------------------------------------
LEMMA IInvKept ==
  ASSUME IInv, [Next]_vars
  PROVE  IInv'
<1>1. CASE PumpFontPrewarm
  BY <1>1, PumpThrowsOK, PumpFailsOK, BeginSessionOK, RestoreDoneOK, RestoreOnePrewarmSnapshotOK,
     GenerationDoneOK, BeginNextPrewarmFontOK, GenerateOnePrewarmBatchOK,
     FinalizeFailedOK, FinalizeActivePrewarmFontOK, CleanupFlushOK, CleanupProfilesOK,
     CleanupStepOK, FinishIncrementalSessionOK, CompletePrewarmOK, Zenon
     DEF PumpFontPrewarm
<1>2. CASE ShutdownFontPrewarm
  BY <1>2, ShutdownFontPrewarmOK
<1>3. CASE \E f \in Fonts : ActivateFreeTypeFont(f) \/ DrainPendingFontPrewarm(f)
  BY <1>3, ActivateFreeTypeFontOK, DrainPendingFontPrewarmOK
<1>4. CASE UNCHANGED vars
  BY <1>4, UnchangedOK
<1> QED BY <1>1, <1>2, <1>3, <1>4 DEF Next

LEMMA IInvHolds == Spec => []IInv
  BY InitOK, IInvKept, PTL DEF Spec

\* Every variable of the session keeps its type: the queues hold configured
\* fonts, the restarts stay within kMaximumTransactionRestarts.
THEOREM TypeCorrect == Spec => []TypeOK
<1>1. IInv => TypeOK
  BY DEF IInv, QueuesOK, FlagsOK, NumbersOK, TypeOK
<1> QED BY <1>1, IInvHolds, PTL

\* However a session's jobs are retried, restarted and sent back, each one is in
\* exactly one place and the counters add up.
THEOREM JobConservationHolds == Spec => []JobConservation
<1>1. ASSUME IInv PROVE JobConservation
  <2>1. PICK w : w = restoreJobs \o generationJobs
    OBVIOUS
  <2>2. PICK a : a = IF activeFont = NoFont THEN <<>> ELSE <<activeFont>>
    OBVIOUS
  <2>3. PICK wa : wa = w \o a
    OBVIOUS
  <2>4. PICK p : p = wa \o verified
    OBVIOUS
  <2>5. /\ restoreJobs \in Seq(Fonts) /\ generationJobs \in Seq(Fonts)
        /\ verified \in Seq(Fonts)
        /\ Once(restoreJobs) /\ Once(generationJobs) /\ Once(verified)
        /\ Apart(ToSet(restoreJobs), ToSet(generationJobs))
        /\ Apart(ToSet(restoreJobs), Active) /\ Apart(ToSet(restoreJobs), ToSet(verified))
        /\ Apart(ToSet(generationJobs), Active)
        /\ Apart(ToSet(generationJobs), ToSet(verified)) /\ Apart(Active, ToSet(verified))
    BY <1>1 DEF IInv, QueuesOK, OnceOK, Four
  <2>6. /\ w \in Seq(Fonts) /\ Len(w) = Len(restoreJobs) + Len(generationJobs)
        /\ ToSet(w) = ToSet(restoreJobs) \cup ToSet(generationJobs) /\ Once(w)
    BY <2>1, <2>5, JoinIs
  <2>7. a \in Seq(Fonts) /\ Len(a) = ActiveCount /\ ToSet(a) = Active /\ Once(a)
    <3>1. CASE activeFont = NoFont
      <4>1. a = <<>> /\ <<>> \in Seq(Fonts)
        BY <2>2, <3>1
      <4> QED BY <3>1, <4>1, EmptyIs DEF Active, ActiveCount
    <3>2. CASE activeFont # NoFont
      <4>1. activeFont \in Fonts
        BY <1>1, <3>2 DEF IInv, QueuesOK
      <4>2. a = <<activeFont>>
        BY <2>2, <3>2
      <4> QED BY <3>2, <4>1, <4>2, OneIs DEF Active, ActiveCount
    <3> QED BY <3>1, <3>2
  <2>8. wa \in Seq(Fonts) /\ ToSet(wa) = ToSet(w) \cup ToSet(a) /\ Once(wa)
    <3>1. Apart(ToSet(w), ToSet(a))
      BY <2>5, <2>6, <2>7, ApartRules
    <3> QED BY <2>3, <2>6, <2>7, <3>1, JoinIs
  <2>9. p \in Seq(Fonts) /\ Once(p)
    <3>1. Apart(ToSet(wa), ToSet(verified))
      <4>1. ToSet(wa) = (ToSet(restoreJobs) \cup ToSet(generationJobs)) \cup Active
        BY <2>6, <2>7, <2>8
      <4>2. \A X, Y, Z, V : Apart(X, V) /\ Apart(Y, V) /\ Apart(Z, V)
              => Apart((X \cup Y) \cup Z, V)
        BY DEF Apart
      <4> QED BY <2>5, <4>1, <4>2
    <3> QED BY <2>4, <2>5, <2>8, <3>1, JoinIs
  <2>10. Len(w) + Len(a) + finished = queued
    BY <1>1, <2>6, <2>7 DEF IInv, CountOK
  <2>11. finished = completed + streamFailed /\ Len(verified) = completed
    BY <1>1 DEF IInv, CountOK
  <2>12. \A i, j \in DOMAIN p : Profile[p[i]] = Profile[p[j]] => i = j
    BY <2>9 DEF Once
  <2> QED BY <2>1, <2>2, <2>3, <2>4, <2>10, <2>11, <2>12 DEF JobConservation
<1> QED BY <1>1, IInvHolds, PTL

\* The order SortPrewarmJobsByDependencies gave survives every retry: no alias is
\* generated while its owner waits, and a deferral is never for an owner that has
\* a job.
THEOREM OwnersFirstHolds == Spec => []OwnersFirst
<1>1. ASSUME IInv PROVE OwnersFirst
  <2>1. PICK w : w = restoreJobs \o generationJobs
    OBVIOUS
  <2>2. ToSet(w) = ToSet(restoreJobs) \cup ToSet(generationJobs)
    <3>1. restoreJobs \in Seq(Fonts) /\ generationJobs \in Seq(Fonts)
      BY <1>1 DEF IInv, QueuesOK
    <3> QED BY <2>1, <3>1, JoinIs
  <2>3. ASSUME activeFont # NoFont, IsAlias(activeFont)
        PROVE  Owner[activeFont] \notin ToSet(w)
    <3>1. activeFont \in Fonts /\ phase \in {"generate", "finalize"}
      BY <1>1, <2>3 DEF IInv, QueuesOK, PhaseOK
    <3>2. ToSet(restoreJobs) = {}
      BY <1>1, <3>1, EmptyIs DEF IInv, QueuesOK, PhaseOK
    <3>3. AllAliases(ToSet(generationJobs))
      BY <1>1, <2>3 DEF IInv, OrderOK
    <3>4. ~IsAlias(Owner[activeFont])
      BY <3>1, SessionAssumption DEF IsAlias
    <3> QED BY <2>2, <3>2, <3>3, <3>4 DEF AllAliases
  <2>4. ASSUME NEW f \in Fonts, deferrals[f] > 0
        PROVE  Owner[f] \notin ToSet(w) \cup ToSet(verified) \cup {activeFont}
    <3>1. Owner[f] \notin Placed /\ Owner[f] \in Fonts /\ Owner[f] # NoFont
      BY <1>1, <2>4, SessionAssumption DEF IInv, DeferredOK
    <3> QED BY <2>2, <3>1 DEF Placed, Active
  <2> QED BY <2>1, <2>3, <2>4 DEF OwnersFirst
<1> QED BY <1>1, IInvHolds, PTL

\* What is reported complete is complete: a font is finalised with its code page
\* scanned, and a transaction completes only with every configured profile
\* verified and no job queued behind it.
THEOREM CompletionIsCompleteHolds == Spec => []CompletionIsComplete
<1>1. IInv => CompletionIsComplete
  BY DEF IInv, ScannedOK, VerdictOK, ReportedOK, CompletionIsComplete
<1> QED BY <1>1, IInvHolds, PTL
=============================================================================
