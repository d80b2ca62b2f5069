------------------------- MODULE AtlasSnapshotProofs -------------------------
(* What is proved of the atlas snapshots, for any number of fonts and pages    *)
(* and any number of failures, crashes, resets and later sessions: the types,  *)
(* when no mixture of page files can be loaded, that the profiles complete at  *)
(* rest are on the disk, and that a session without a failure of its own       *)
(* completes them all.                                                         *)
(*                                                                             *)
(* The first argument (IInv).  A page file is loaded as part of a role only if *)
(* it is repacked and its header has the number of pages of the others, so it  *)
(* is enough that two repacked pages of one role and one number of pages have  *)
(* one content (WholeOK).  A save keeps this because the streamed pages,       *)
(* published before, replaced or deleted all repacked ones, and because all    *)
(* pages put are of one content (WrittenOK).  A single-byte page outlives this *)
(* only if its deletion failed twice, when its font was discarded and again at *)
(* the publication (GenerationOK, PublishOK).  All fonts share the double-byte *)
(* files, and all are discarded before the first is generated: what the save   *)
(* of one font put there, the publication of the next deletes once, so one     *)
(* failed deletion is enough (Tolerated).  The work on the group keeps WholeOK *)
(* because each file is then what it was before or the only page of its role   *)
(* (Undoable), also half way through a rollback.                               *)
(*                                                                             *)
(* The second argument (HInv).  Whatever fails, page files are known for what  *)
(* they are (KnownOK, UnmarkedOK).  While no deletion and no rollback failed,  *)
(* a role that is complete matches its files, and the roles of fonts that do   *)
(* not wait any more are complete (FontsOK), but for roles that are stale, yet *)
(* discarded or invalidated before they are used: the double-byte role while   *)
(* its pages are published over, and until the font whose publication failed   *)
(* is discarded; and a role that has the owner's page (OwnerOK), which the end *)
(* of a process in the work on the group can leave.  The owner is restored     *)
(* before all others (OrderOK), and where it has to be generated, the others   *)
(* that have its page find no double-byte role and are discarded too.  The     *)
(* work on the group saves the owner's page first (OwnFirstOK, AliasesOK);     *)
(* what it rolls back to was of one generation (BackupOK) and is loaded again  *)
(* (UndoneOK).                                                                 *)
EXTENDS AtlasSnapshot, FiniteSetTheorems, WellFoundedInduction, TLAPS

(* Induction over the subsets of a finite set, the conclusion a membership.    *)
LEMMA SubsetInduction ==
  ASSUME NEW S, IsFiniteSet(S), NEW T,
         \A U \in SUBSET S : (\A V \in SUBSET U : V # U => V \in T) => U \in T
  PROVE  S \in T
<1> DEFINE R == StrictSubsetOrdering(S)
           F == FiniteSubsetsOf(S)
           Bad == {U \in F : U \notin T}
<1>1. IsWellFoundedOn(R, F)
  BY FS_StrictSubsetOrderingWellFounded
<1>2. S \in F
  BY DEF FiniteSubsetsOf
<1>3. \A U \in F : U \in SUBSET S /\ \A V \in SUBSET U : V \in F
  BY FS_Subset DEF FiniteSubsetsOf
<1>4. \A U \in F : \A V \in SUBSET U : V # U => <<V, U>> \in R
  BY <1>3 DEF StrictSubsetOrdering
<1>5. SUFFICES ASSUME S \notin T PROVE FALSE
  OBVIOUS
<1>6. Bad \subseteq F /\ Bad # {}
  BY <1>2, <1>5
<1>7. PICK U \in Bad : \A V \in Bad : <<V, U>> \notin R
  <2> HIDE DEF R, F, Bad
  <2> QED BY <1>1, <1>6, WFMin
<1>8. U \in F /\ U \notin T
  OBVIOUS
<1>9. \A V \in SUBSET U : V # U => V \in T
  <2>1. \A V \in F : V \notin T => V \in Bad
    OBVIOUS
  <2> HIDE DEF R, F, Bad
  <2> SUFFICES ASSUME NEW V \in SUBSET U, V # U, V \notin T PROVE FALSE
    OBVIOUS
  <2>2. V \in F
    BY <1>3, <1>8
  <2>3. <<V, U>> \in R
    BY <1>4, <1>8
  <2> QED BY <1>7, <2>1, <2>2, <2>3
<1> HIDE DEF R, F, Bad
<1>10. U \in SUBSET S
  BY <1>3, <1>8
<1> QED
  BY <1>8, <1>9, <1>10

(* Induction over the natural numbers in the same form. *)
LEMMA ByOnes ==
  ASSUME NEW T, 0 \in T, \A n \in Nat : n \in T => n + 1 \in T, NEW m \in Nat
  PROVE  m \in T
<1> DEFINE S == 1 .. m
           C == {U \in SUBSET S : Cardinality(U) \in T}
<1>1. IsFiniteSet(S) /\ Cardinality(S) = m
  BY FS_Interval
<1>2. \A U \in SUBSET S : (\A V \in SUBSET U : V # U => V \in C) => U \in C
  <2> SUFFICES ASSUME NEW U \in SUBSET S, \A V \in SUBSET U : V # U => V \in C
               PROVE  Cardinality(U) \in T
    OBVIOUS
  <2>1. IsFiniteSet(U)
    BY <1>1, FS_Subset
  <2>2. CASE U = {}
    BY <2>2, FS_EmptySet
  <2>3. CASE U # {}
    <3>1. PICK x \in U : TRUE
      BY <2>3
    <3>2. /\ Cardinality(U \ {x}) = Cardinality(U) - 1
          /\ Cardinality(U) \in Nat /\ Cardinality(U \ {x}) \in Nat
      BY <2>1, FS_RemoveElement, FS_CardinalityType
    <3>3. Cardinality(U \ {x}) \in T
      <4>1. U \ {x} \in SUBSET U /\ U \ {x} # U
        BY <3>1
      <4> QED BY <4>1
    <3>4. Cardinality(U) = Cardinality(U \ {x}) + 1
      BY <3>2
    <3> QED BY <3>2, <3>3, <3>4
  <2> QED BY <2>2, <2>3
<1>3. S \in C
  <2> HIDE DEF C, S
  <2> QED BY <1>1, <1>2, SubsetInduction
<1> QED BY <1>1, <1>3


-----------------------------------------------------------------------------
(* Sequences, by the elements they hold.                                       *)
LEMMA TailIs ==
  ASSUME NEW T, NEW s \in Seq(T), s # <<>>
  PROVE  /\ Head(s) \in T /\ Tail(s) \in Seq(T)
         /\ Head(s) \in ToSet(s) /\ ToSet(Tail(s)) \subseteq ToSet(s)
         /\ ToSet(s) \subseteq {Head(s)} \cup ToSet(Tail(s))
<1>1. Len(s) \in Nat /\ Len(s) >= 1 /\ DOMAIN s = 1..Len(s)
  OBVIOUS
<1>2. /\ Tail(s) \in Seq(T) /\ Len(Tail(s)) = Len(s) - 1
      /\ \A i \in 1..(Len(s) - 1) : Tail(s)[i] = s[i + 1]
  OBVIOUS
<1>3. Head(s) = s[1] /\ s[1] \in T
  BY <1>1
<1>4. DOMAIN Tail(s) = 1..(Len(s) - 1)
  BY <1>2
<1>5. \A i \in DOMAIN Tail(s) : Tail(s)[i] \in ToSet(s)
  BY <1>1, <1>2, <1>4 DEF ToSet
<1>6. \A i \in DOMAIN s : i = 1 \/ (i - 1 \in DOMAIN Tail(s) /\ Tail(s)[i - 1] = s[i])
  BY <1>1, <1>2, <1>4
<1>7. ToSet(Tail(s)) \subseteq ToSet(s)
  BY <1>5 DEF ToSet
<1>8. Head(s) \in ToSet(s)
  BY <1>1, <1>3 DEF ToSet
<1>9. ToSet(s) \subseteq {Head(s)} \cup ToSet(Tail(s))
  BY <1>3, <1>6 DEF ToSet
<1> QED BY <1>2, <1>3, <1>7, <1>8, <1>9

\* Two sequences in one.
LEMMA JoinIs ==
  ASSUME NEW T, NEW s \in Seq(T), NEW t \in Seq(T)
  PROVE  /\ s \o t \in Seq(T)
         /\ ToSet(s \o t) = ToSet(s) \cup ToSet(t)
<1>1. /\ s \o t \in Seq(T) /\ Len(s) \in Nat /\ Len(t) \in Nat
      /\ Len(s \o t) = Len(s) + Len(t)
      /\ \A i \in 1..Len(s) : (s \o t)[i] = s[i]
      /\ \A i \in 1..Len(t) : (s \o t)[Len(s) + i] = t[i]
  OBVIOUS
<1> DEFINE u == s \o t
<1>2. DOMAIN u = 1..(Len(s) + Len(t)) /\ DOMAIN s = 1..Len(s) /\ DOMAIN t = 1..Len(t)
  BY <1>1
<1>a. /\ \A i \in 1..Len(s) : u[i] = s[i]
      /\ \A i \in 1..Len(t) : u[Len(s) + i] = t[i]
  BY <1>1
<1> HIDE DEF u
<1>3. \A i \in DOMAIN s : i \in DOMAIN u /\ u[i] = s[i]
  BY <1>1, <1>2, <1>a
<1>4. \A i \in DOMAIN t : Len(s) + i \in DOMAIN u /\ u[Len(s) + i] = t[i]
  BY <1>1, <1>2, <1>a
<1>5. \A i \in DOMAIN u : i \in DOMAIN s \/ (i - Len(s) \in DOMAIN t /\ Len(s) + (i - Len(s)) = i)
  BY <1>1, <1>2
<1>6. ToSet(u) \subseteq ToSet(s) \cup ToSet(t)
  BY <1>3, <1>4, <1>5 DEF ToSet
<1>7. ToSet(s) \subseteq ToSet(u) /\ ToSet(t) \subseteq ToSet(u)
  BY <1>3, <1>4 DEF ToSet
<1> QED BY <1>1, <1>6, <1>7 DEF u

\* A sequence with one element more.
LEMMA OneMore ==
  ASSUME NEW T, NEW s \in Seq(T), NEW x \in T
  PROVE  /\ Append(s, x) \in Seq(T) /\ Len(s) \in Nat /\ Len(Append(s, x)) = Len(s) + 1
         /\ Append(s, x)[Len(s) + 1] = x
         /\ \A i \in DOMAIN s : i \in 1..Len(s) /\ Append(s, x)[i] = s[i]
         /\ \A i \in DOMAIN Append(s, x) : i \in DOMAIN s \/ i = Len(s) + 1
         /\ DOMAIN Append(s, x) = 1..(Len(s) + 1)
  OBVIOUS

\* A sequence with one element less.
LEMMA Removed ==
  ASSUME NEW T, NEW s \in Seq(T), NEW k \in DOMAIN s
  PROVE  /\ RemoveAt(s, k) \in Seq(T)
         /\ ToSet(RemoveAt(s, k)) \subseteq ToSet(s)
         /\ ToSet(s) \subseteq ToSet(RemoveAt(s, k)) \cup {s[k]}
<1>1. k \in 1..Len(s) /\ Len(s) \in Nat /\ DOMAIN s = 1..Len(s)
  OBVIOUS
<1> DEFINE a == SubSeq(s, 1, k - 1)
           b == SubSeq(s, k + 1, Len(s))
<1>2. /\ a \in Seq(T) /\ DOMAIN a = 1..(k - 1)
      /\ \A i \in 1..(k - 1) : a[i] = s[i]
  BY <1>1
<1>3. /\ b \in Seq(T) /\ DOMAIN b = 1..(Len(s) - k)
      /\ \A i \in 1..(Len(s) - k) : b[i] = s[k + i]
  BY <1>1
<1> HIDE DEF a, b
<1>4. \A i \in DOMAIN a : i \in DOMAIN s /\ a[i] = s[i]
  BY <1>1, <1>2
<1>5. \A i \in DOMAIN b : k + i \in DOMAIN s /\ b[i] = s[k + i]
  BY <1>1, <1>3
<1>6. ToSet(a) \subseteq ToSet(s) /\ ToSet(b) \subseteq ToSet(s)
  BY <1>4, <1>5 DEF ToSet
<1>7. RemoveAt(s, k) = a \o b
  BY DEF RemoveAt, a, b
<1>8. \A i \in DOMAIN s : \/ i = k
                          \/ i \in DOMAIN a /\ a[i] = s[i]
                          \/ i - k \in DOMAIN b /\ b[i - k] = s[i]
  <2> SUFFICES ASSUME NEW i \in DOMAIN s, i # k
               PROVE  \/ i \in DOMAIN a /\ a[i] = s[i]
                      \/ i - k \in DOMAIN b /\ b[i - k] = s[i]
    OBVIOUS
  <2>1. CASE i < k
    BY <1>1, <1>2, <2>1
  <2>2. CASE i > k
    <3>1. i - k \in 1..(Len(s) - k) /\ k + (i - k) = i
      BY <1>1, <2>2
    <3> QED BY <1>3, <3>1
  <2> QED BY <1>1, <2>1, <2>2
<1>9. ToSet(s) \subseteq ToSet(a) \cup ToSet(b) \cup {s[k]}
  BY <1>8 DEF ToSet
<1> QED BY <1>2, <1>3, <1>6, <1>7, <1>9, JoinIs

\* A sequence given by its elements.
LEMMA ListIs ==
  ASSUME NEW T, NEW n \in Nat, NEW s, DOMAIN s = 1..n, s = [i \in 1..n |-> s[i]],
         \A i \in 1..n : s[i] \in T
  PROVE  s \in Seq(T) /\ ToSet(s) = {s[i] : i \in 1..n} /\ Len(s) = n
  BY DEF ToSet

\* The recursion that makes a sequence of sequences one.
LEMMA FlattenIs ==
  ASSUME NEW n \in Nat, n # 0, NEW ss, Len(ss) = n
  PROVE  FlattenSeq(ss) =
           (CHOOSE f : f = [i \in 1..n |-> IF i = 1 THEN ss[i] ELSE f[i - 1] \o ss[i]])[n]
  BY DEF FlattenSeq

\* A sequence of sequences made one, step by step.
FlattenedBy(h, ss, n, T) ==
  /\ FlattenSeq(ss) = h[n] /\ h[1] = ss[1]
  /\ \A i \in 1..n : h[i] \in Seq(T)
  /\ \A i \in 1..n : i # 1 => h[i] = h[i - 1] \o ss[i]

\* The lists can be put together one after the other.
LEMMA FlattenSteps ==
  ASSUME NEW T, NEW n \in Nat, n # 0, NEW ss, ss \in Seq(Seq(T)), Len(ss) = n
  PROVE  \E h : FlattenedBy(h, ss, n, T)
<1> DEFINE Body(f, i) == IF i = 1 THEN ss[i] ELSE f[i - 1] \o ss[i]
           Is(f, m) == f = [i \in 1..m |-> Body(f, i)]
           P(m) == m <= n => \E f : Is(f, m) /\ \A i \in 1..m : f[i] \in Seq(T)
           S == {m \in Nat : P(m)}
<1>0. \A i \in 1..n : ss[i] \in Seq(T)
  OBVIOUS
<1>1. 0 \in S
  <2>1. Is([i \in 1..0 |-> Body(<<>>, i)], 0) /\ \A i \in 1..0 : FALSE
    OBVIOUS
  <2>2. P(0)
    BY <2>1
  <2> HIDE DEF P
  <2> QED BY <2>2
<1>2. \A m \in Nat : m \in S => m + 1 \in S
  <2>a. SUFFICES ASSUME NEW m \in Nat, P(m) PROVE P(m + 1)
    <3> HIDE DEF P
    <3> QED OBVIOUS
  <2>b. SUFFICES ASSUME m + 1 <= n
               PROVE  \E f : Is(f, m + 1) /\ \A i \in 1..(m + 1) : f[i] \in Seq(T)
    OBVIOUS
  <2>1. PICK f : Is(f, m) /\ \A i \in 1..m : f[i] \in Seq(T)
    <3>1. m <= n
      BY <2>b
    <3> QED BY <2>a, <3>1
  <2> DEFINE x == Body(f, m + 1)
             g == [i \in 1..(m + 1) |-> IF i = m + 1 THEN x ELSE f[i]]
  <2>2. x \in Seq(T)
    <3>1. CASE m = 0
      BY <1>0, <2>b, <3>1
    <3>2. CASE m # 0
      <4>1. f[m] \in Seq(T) /\ ss[m + 1] \in Seq(T)
        BY <1>0, <2>b, <2>1, <3>2
      <4>2. m + 1 # 1 /\ (m + 1) - 1 = m
        BY <3>2
      <4>3. x = f[m] \o ss[m + 1]
        BY <4>2
      <4> QED BY <4>1, <4>3
    <3> QED BY <3>1, <3>2
  <2>3. \A i \in 1..(m + 1) : g[i] = IF i = m + 1 THEN x ELSE f[i]
    OBVIOUS
  <2>4. \A i \in 1..m : g[i] = f[i] /\ f[i] = Body(f, i)
    <3>1. \A i \in 1..m : i \in 1..(m + 1) /\ i # m + 1
      OBVIOUS
    <3>2. \A i \in 1..m : f[i] = Body(f, i)
      BY <2>1
    <3> HIDE DEF Body, g, x
    <3> QED BY <2>3, <3>1, <3>2
  <2>5. \A i \in 1..(m + 1) : g[i] = Body(g, i)
    <3> SUFFICES ASSUME NEW i \in 1..(m + 1) PROVE g[i] = Body(g, i)
      OBVIOUS
    <3>1. i = 1 \/ (i - 1 \in 1..m /\ g[i - 1] = f[i - 1])
      BY <2>4
    <3>2. g[i] = Body(f, i)
      <4> HIDE DEF Body, g
      <4> QED BY <2>3, <2>4 DEF x
    <3> HIDE DEF g
    <3> QED BY <3>1, <3>2
  <2>6. Is(g, m + 1)
    BY <2>5
  <2>7. \A i \in 1..(m + 1) : g[i] \in Seq(T)
    <3> HIDE DEF x
    <3> QED BY <2>1, <2>2, <2>3
  <2> HIDE DEF g
  <2> QED BY <2>6, <2>7
<1>3. n \in S
  <2> HIDE DEF S
  <2> QED BY <1>1, <1>2, ByOnes
<1>4. PICK f : Is(f, n) /\ \A i \in 1..n : f[i] \in Seq(T)
  <2>1. P(n)
    <3> HIDE DEF P
    <3> QED BY <1>3
  <2>2. \E f : Is(f, n) /\ \A i \in 1..n : f[i] \in Seq(T)
    <3> HIDE DEF Is
    <3> QED BY <2>1
  <2> HIDE DEF Is
  <2> QED BY <2>2
<1> DEFINE h == CHOOSE x : Is(x, n)
<1>5. Is(h, n)
  BY <1>4
<1>6. FlattenSeq(ss) = h[n]
  BY FlattenIs
<1> DEFINE R == {m \in Nat : m = 0 \/ m > n \/ h[m] \in Seq(T)}
<1> HIDE DEF h
<1>7. \A i \in 1..n : h[i] = Body(h, i)
  BY <1>5
<1>8. 0 \in R
  OBVIOUS
<1>9. \A m \in Nat : m \in R => m + 1 \in R
  <2> SUFFICES ASSUME NEW m \in Nat, m \in R, m + 1 <= n PROVE h[m + 1] \in Seq(T)
    OBVIOUS
  <2>1. CASE m = 0
    BY <1>0, <1>7, <2>1
  <2>2. CASE m # 0
    <3>1. h[m] \in Seq(T) /\ ss[m + 1] \in Seq(T)
      BY <1>0, <2>2
    <3>2. m + 1 # 1 /\ (m + 1) - 1 = m /\ m + 1 \in 1..n
      BY <2>2
    <3>3. h[m + 1] = h[m] \o ss[m + 1]
      BY <1>7, <3>2
    <3> QED BY <3>1, <3>3
  <2> QED BY <2>1, <2>2
<1>10. \A i \in 1..n : h[i] \in Seq(T)
  <2>1. \A m \in Nat : m \in R
    <3> HIDE DEF R
    <3> QED BY <1>8, <1>9, ByOnes
  <2> QED BY <2>1
<1>11. h[1] = ss[1]
  <2>1. 1 \in 1..n
    OBVIOUS
  <2> QED BY <1>7, <2>1
<1>12. \A i \in 1..n : i # 1 => h[i] = h[i - 1] \o ss[i]
  BY <1>7
<1>13. FlattenedBy(h, ss, n, T)
  BY <1>6, <1>10, <1>11, <1>12 DEF FlattenedBy
<1> QED BY <1>13

\* What it is made of.
LEMMA FlattenIn ==
  ASSUME NEW T, NEW n \in Nat, NEW ss, ss \in Seq(Seq(T)), Len(ss) = n
  PROVE  /\ FlattenSeq(ss) \in Seq(T)
         /\ \A i \in 1..n : ToSet(ss[i]) \subseteq ToSet(FlattenSeq(ss))
<1>1. CASE n = 0
  <2>1. ss = <<>>
    BY <1>1
  <2>2. FlattenSeq(ss) = <<>>
    BY <2>1 DEF FlattenSeq
  <2> QED BY <1>1, <2>2
<1>2. CASE n # 0
  <2>0. PICK h : FlattenedBy(h, ss, n, T)
    BY <1>2, FlattenSteps
  <2>1. /\ FlattenSeq(ss) = h[n] /\ h[1] = ss[1]
        /\ \A i \in 1..n : h[i] \in Seq(T)
        /\ \A i \in 1..n : i # 1 => h[i] = h[i - 1] \o ss[i]
    BY <2>0 DEF FlattenedBy
  <2>2. \A i \in 1..n : ss[i] \in Seq(T)
    OBVIOUS
  <2> SUFFICES ASSUME NEW j \in 1..n PROVE ToSet(ss[j]) \subseteq ToSet(h[n])
    BY <1>2, <2>1
  <2> DEFINE R == {m \in Nat : m < j \/ m > n \/ ToSet(ss[j]) \subseteq ToSet(h[m])}
  <2>3. 0 \in R
    OBVIOUS
  <2>4. \A m \in Nat : m \in R => m + 1 \in R
    <3>0. j \in Nat /\ \A m \in Nat : m + 1 \in Nat /\ (m + 1 < j \/ m + 1 >= j)
                                      /\ (m + 1 > n \/ m + 1 <= n)
      OBVIOUS
    <3> SUFFICES ASSUME NEW m \in Nat, m \in R, m + 1 <= n, m + 1 >= j
                 PROVE  ToSet(ss[j]) \subseteq ToSet(h[m + 1])
      BY <3>0
    <3>1. CASE m = 0
      <4>1. j = 1 /\ h[m + 1] = ss[j]
        BY <2>1, <3>1
      <4> QED BY <4>1
    <3>2. CASE m # 0
      <4>1. m \in 1..n /\ m + 1 \in 1..n /\ m + 1 # 1 /\ (m + 1) - 1 = m
        BY <3>2
      <4>2. PICK a \in Seq(T), b \in Seq(T) : a = h[m] /\ b = ss[m + 1]
        BY <2>1, <2>2, <4>1
      <4>3. h[m + 1] = a \o b
        BY <2>1, <4>1, <4>2
      <4>4. ToSet(h[m + 1]) = ToSet(a) \cup ToSet(b)
        BY <4>3, JoinIs
      <4>5. j = m + 1 \/ ToSet(ss[j]) \subseteq ToSet(a)
        BY <4>1, <4>2
      <4> QED BY <4>2, <4>4, <4>5
    <3> QED BY <3>1, <3>2
  <2>5. n \in R
    <3> HIDE DEF R
    <3> QED BY <2>3, <2>4, ByOnes
  <2> QED BY <2>5
<1> QED BY <1>1, <1>2

\* What comes first in it, where the first of the sequences is empty.
LEMMA FlattenFirst ==
  ASSUME NEW T, NEW n \in Nat, n >= 2, NEW ss, ss \in Seq(Seq(T)), Len(ss) = n,
         ss[1] = <<>>, ss[2] # <<>>
  PROVE  FlattenSeq(ss) # <<>> /\ Head(FlattenSeq(ss)) = Head(ss[2])
<1>0. PICK h : FlattenedBy(h, ss, n, T)
  <2>1. n # 0
    OBVIOUS
  <2> QED BY <2>1, FlattenSteps
<1>1. /\ FlattenSeq(ss) = h[n] /\ h[1] = ss[1]
      /\ \A i \in 1..n : h[i] \in Seq(T)
      /\ \A i \in 1..n : i # 1 => h[i] = h[i - 1] \o ss[i]
  BY <1>0 DEF FlattenedBy
<1>2. \A i \in 1..n : ss[i] \in Seq(T)
  OBVIOUS
<1>3. \A s \in Seq(T) : <<>> \o s = s
  OBVIOUS
<1>4. \A s, t \in Seq(T) : s # <<>> => s \o t # <<>> /\ Head(s \o t) = Head(s)
  OBVIOUS
<1> DEFINE R == {m \in Nat : m < 2 \/ m > n \/ (h[m] # <<>> /\ Head(h[m]) = Head(ss[2]))}
<1>5. 0 \in R
  OBVIOUS
<1>6. \A m \in Nat : m \in R => m + 1 \in R
  <2> SUFFICES ASSUME NEW m \in Nat, m \in R, m + 1 <= n, m + 1 >= 2
               PROVE  h[m + 1] # <<>> /\ Head(h[m + 1]) = Head(ss[2])
    OBVIOUS
  <2>1. m \in 1..n /\ m + 1 \in 1..n /\ m + 1 # 1 /\ (m + 1) - 1 = m
    OBVIOUS
  <2>2. PICK a \in Seq(T), b \in Seq(T) : a = h[m] /\ b = ss[m + 1]
    BY <1>1, <1>2, <2>1
  <2>3. h[m + 1] = a \o b
    BY <1>1, <2>1, <2>2
  <2>4. CASE m = 1
    <3>1. a = <<>> /\ b = ss[2]
      BY <1>1, <2>2, <2>4
    <3> QED BY <1>3, <2>3, <3>1
  <2>5. CASE m # 1
    <3>1. a # <<>> /\ Head(a) = Head(ss[2])
      BY <2>1, <2>2, <2>5
    <3> QED BY <1>4, <2>3, <3>1
  <2> QED BY <2>4, <2>5
<1>7. n \in R
  <2> HIDE DEF R
  <2> QED BY <1>5, <1>6, ByOnes
<1> QED BY <1>1, <1>7

-----------------------------------------------------------------------------
(* The inductive invariant.                                                    *)
Operations == [key : Keys, file : File]
Pending    == ToSet(todo)
ToDo(k)    == \E o \in Pending : o.key = k
WriteSteps == {"discard", "publish", "saveOwn", "saveAlias", "mark", "unmark",
               "rollback"}
GroupSteps == {"group", "mark", "unmark", "rollback"}
QuietSteps == {"restore", "idle", "gone", "rebuild"}
Saving     == {"saveOwn", "saveAlias"}

\* The type invariant by parts.
FilesOK  == disk \in [Keys -> File] /\ backup \in [Keys -> File]
MemoryOK ==
  /\ resident \in [Roles -> Seq(Page)] /\ \A r \in Roles : Len(resident[r]) <= MaxPages
  /\ complete \subseteq {r \in Roles : resident[r] # <<>>}
TodoOK   ==
  /\ pc \in Steps /\ todo \in Seq(Operations) /\ (todo # <<>> => pc \in WriteSteps)
JobsOK   ==
  /\ queue \in Seq(Fonts) /\ generation \in Seq(Fonts) /\ font \in Fonts \cup {NoFont}
  /\ role \in Roles /\ targets \in Seq(Roles)
UndoOK   ==
  restored \in BOOLEAN /\ scope \in BOOLEAN /\ fits \in {"open", "yes", "no"}
    /\ next \in {"idle", "rebuild"}
FaultsOK ==
  /\ intact \in BOOLEAN /\ clean \in BOOLEAN
  /\ failures \in Nat /\ leftovers \in 0..failures /\ events \in Nat
  /\ failures + events <= MaxTroubles

\* Which step works for whom, and on which role.
ControlOK ==
  /\ pc \in {"discard"} \cup QuietSteps \cup GroupSteps => font = NoFont
  /\ pc \in {"publish", "save"} => font # NoFont
  /\ pc \in Saving =>
       \/ font = NoFont /\ role = OwnerRole /\ targets = GroupRoles
       \/ font # NoFont /\ role = font /\ targets \in {<<>>, <<Double>>}
       \/ font # NoFont /\ role = Double /\ targets = <<>>
  /\ pc = "saveAlias" => targets # <<>>
  /\ backup # NoFiles => font = NoFont /\ pc \in {"rebuild"} \cup GroupSteps \cup Saving
  /\ generation # <<>> => pc \in {"restore", "discard"} \/ font # NoFont
  /\ pc = "discard" => generation # <<>>

\* A font waits once, to be restored or to be generated.
Once(q) == \A i, j \in DOMAIN q : q[i] = q[j] => i = j
QueuesOK ==
  /\ Once(queue) /\ Once(generation)
  /\ ToSet(queue) \cap ToSet(generation) = {}
  /\ font \notin ToSet(queue) /\ font \notin ToSet(generation)

\* A repacked page is one of the pages its header counts.
Counted(k, file) == file.repacked => k[2] <= file.count
CountedOK ==
  /\ \A k \in Keys : Counted(k, disk[k]) /\ Counted(k, backup[k])
  /\ \A o \in Pending : Counted(o.key, o.file)

Alike(a, b)     == a.content = b.content /\ a.count = b.count /\ a.repacked = b.repacked
Single(k, file) == file.repacked => k[2] = 1 /\ file.count = 1

\* While the group is worked on, each file is what it was before, or the only
\* page of its role, or it is not loaded.
GroupSaving == pc \in Saving /\ font = NoFont
Undoable    == \A k \in Keys : Alike(disk[k], backup[k]) \/ Single(k, disk[k])
MarkOK      ==
  /\ \A k \in Keys : Alike(disk[k], backup[k])
  /\ \A o \in Pending : Alike(o.file, disk[o.key])
SharedOK    ==
  /\ \A o \in Pending : Single(o.key, o.file)
  /\ pc = "saveOwn" =>
       /\ disk[<<OwnerRole, 1>>].count = 1 \/ ToDo(<<OwnerRole, 1>>)
       /\ \A o \in Pending : o.key = <<OwnerRole, 1>> => o.file.count = 1
GroupOK ==
  /\ pc \in GroupSteps \/ GroupSaving => Undoable
  /\ pc \in {"group", "mark", "unmark"} => MarkOK
  /\ pc = "rollback" => \A o \in Pending : o.file = backup[o.key]
  /\ GroupSaving => SharedOK

\* What a font's step writes: the role whose pages are replaced.
Written  == IF pc = "saveOwn" THEN role ELSE Double
AimOK ==
  /\ pc = "discard" => \A o \in Pending : o.file = Missing
  /\ pc = "publish" => \A o \in Pending : o.key[1] \in Own(font) /\ ~o.file.repacked
  /\ pc \in Saving /\ font # NoFont => \A o \in Pending : o.key[1] = Written

\* No two repacked pages of a role that could be loaded together differ.
Whole(copy, r) ==
  \A p, q \in Pages :
     copy[<<r, p>>].repacked /\ copy[<<r, q>>].repacked
       /\ copy[<<r, p>>].count = copy[<<r, q>>].count
     => copy[<<r, p>>].content = copy[<<r, q>>].content
WholeOK(r) == Whole(disk, r) /\ Whole(backup, r)

\* The roles that have streamed pages only.
Streamed(r) == \A p \in Pages : ~disk[<<r, p>>].repacked
StreamedOK(r) ==
  /\ pc = "save" /\ r \in Own(font) => Streamed(r)
  /\ pc = "saveOwn" /\ role = font /\ r = Double => Streamed(r)

OneContent(r, g) ==
  /\ \A p \in Pages : disk[<<r, p>>].repacked => disk[<<r, p>>].content = g
  /\ \A o \in Pending : o.file.repacked => o.file.content = g
WrittenOK(r) ==
  pc \in Saving /\ font # NoFont /\ r = Written => \E g \in 0..MaxGeneration : OneContent(r, g)

\* What a publication leaves repacked, a deletion failed on twice, unless another
\* font saved the double-byte pages meanwhile.
PublishOK(r) ==
  pc = "publish" /\ r \in Own(font) =>
     \A p \in Pages : disk[<<r, p>>].repacked =>
        ToDo(<<r, p>>) /\ (r = Double \/ leftovers = 1)

\* What a discarded font has repacked, a deletion failed on once.
GenerationOK(r) ==
  r \in ToSet(generation) =>
     \A p \in Pages : disk[<<r, p>>].repacked =>
        leftovers = 1 \/ (pc = "discard" /\ ToDo(<<r, p>>))

RoleOK(r) == WholeOK(r) /\ StreamedOK(r) /\ WrittenOK(r) /\ PublishOK(r) /\ GenerationOK(r)
FontOK    == \A r \in Roles : leftovers <= Tolerated(r) => RoleOK(r)

IInv == TypeOK /\ ControlOK /\ QueuesOK /\ CountedOK /\ GroupOK /\ AimOK /\ FontOK

\* The parts make up the type invariant, TypeOK.
LEMMA TypeParts ==
  /\ IInv => FilesOK /\ MemoryOK /\ TodoOK /\ JobsOK /\ UndoOK /\ FaultsOK
  /\ (FilesOK /\ MemoryOK /\ TodoOK /\ JobsOK /\ UndoOK /\ FaultsOK /\ ControlOK)
       => TypeOK
  BY DEF IInv, TypeOK, FilesOK, MemoryOK, TodoOK, JobsOK, UndoOK, FaultsOK, ControlOK,
         Operations, WriteSteps

\* The same in the next state.
LEMMA TypePartsNext ==
  (FilesOK /\ MemoryOK /\ TodoOK /\ JobsOK /\ UndoOK /\ FaultsOK /\ ControlOK)'
    => TypeOK'
  BY TypeParts, PTL

\* The whole group in one step for the proofs to assemble.
LEMMA Assemble ==
  ASSUME FilesOK', MemoryOK', TodoOK', JobsOK', UndoOK', FaultsOK', ControlOK',
         QueuesOK', CountedOK', GroupOK', AimOK', FontOK'
  PROVE  IInv'
  BY TypePartsNext DEF IInv

-----------------------------------------------------------------------------
(* Fonts, roles and page files.                                                *)
LEMMA OwnIs ==
  /\ \A f : Own(f) = {f, Double}
  /\ \A f \in Fonts : Own(f) \subseteq Roles /\ f # Double /\ f # NoFont
  /\ OwnerRole \in Roles /\ Double \in Roles /\ 1 \in Pages /\ 1 \in Fonts
  /\ Fonts \subseteq Roles /\ NoFont \notin Fonts /\ NoFont # Double
<1>1. \A f : Own(f) = {f, Double}
  <2> SUFFICES ASSUME NEW f PROVE Own(f) = {f, Double}
    OBVIOUS
  <2>1. DOMAIN RolesOf(f) = {1, 2}
    BY DEF RolesOf
  <2>2. RolesOf(f)[1] = f /\ RolesOf(f)[2] = Double
    BY DEF RolesOf
  <2> QED BY <2>1, <2>2 DEF Own, ToSet
<1>2. 1 \in Fonts /\ 1 \in Pages
  BY SnapshotAssumption DEF Fonts, Pages
<1>3. \A f \in Fonts : f # Double /\ f # NoFont
  BY SnapshotAssumption DEF Fonts, Double, NoFont
<1>4. NoFont # Double
  BY SnapshotAssumption DEF NoFont, Double
<1> QED BY <1>1, <1>2, <1>3, <1>4 DEF Roles, OwnerRole

\* The failed deletions a role survives.
LEMMA ToleratedIs ==
  /\ Tolerated(Double) = 0
  /\ \A r : r # Double => Tolerated(r) = 1
  /\ \A r : Tolerated(r) \in {0, 1}
  BY DEF Tolerated

\* A page file is that of a role and a page.
LEMMA KeysAre ==
  /\ \A r \in Roles, p \in Pages : /\ <<r, p>> \in Keys /\ <<r, p>>[1] = r
                                   /\ <<r, p>>[2] = p
  /\ \A k \in Keys : k[1] \in Roles /\ k[2] \in Pages /\ k = <<k[1], k[2]>>
  BY DEF Keys

\* A missing file is a file that is not repacked.
LEMMA FilesAre ==
  /\ Missing \in File /\ ~Missing.repacked
  /\ NoFiles \in [Keys -> File] /\ \A k \in Keys : NoFiles[k] = Missing
  BY OwnIs, SnapshotAssumption DEF Missing, File, NoFiles

\* The empty sequence has no elements.
LEMMA NoneIs ==
  /\ ToSet(<<>>) = {} /\ Once(<<>>)
  /\ \A T : <<>> \in Seq(T)
  BY DEF ToSet, Once

-----------------------------------------------------------------------------
(* A step that leaves the page files alone and nothing to be done.             *)
LEMMA RestOK ==
  ASSUME IInv, UNCHANGED disk, backup' \in {backup, NoFiles},
         pc' \in QuietSteps, todo' = <<>>, backup' # NoFiles => pc' = "rebuild",
         \/ generation' = <<>>
         \/ generation' = generation /\ (pc # "discard" \/ todo = <<>>) /\ pc' = "restore",
         font' = NoFont, QueuesOK', JobsOK', MemoryOK', UndoOK', FaultsOK',
         UNCHANGED leftovers
  PROVE  IInv'
<1>1. FilesOK' /\ CountedOK'
  <2>1. backup' \in [Keys -> File] /\ \A k \in Keys : Counted(k, backup'[k])
    <3>1. CASE backup' = NoFiles
      BY <3>1, FilesAre DEF Counted
    <3>2. CASE backup' = backup
      BY <3>2, TypeParts DEF FilesOK, IInv, CountedOK
    <3> QED BY <3>1, <3>2
  <2> QED BY <2>1, NoneIs, TypeParts DEF FilesOK, IInv, CountedOK, Pending
<1>2. TodoOK'
  BY NoneIs DEF TodoOK, QuietSteps, Steps
<1>3. ControlOK'
  BY DEF ControlOK, QuietSteps, Saving, GroupSteps
<1>4. GroupOK' /\ AimOK'
  BY DEF GroupOK, QuietSteps, GroupSteps, GroupSaving, Saving, AimOK
<1>5. FontOK'
  <2> SUFFICES ASSUME NEW r \in Roles, leftovers' <= Tolerated(r) PROVE RoleOK(r)'
    BY DEF FontOK
  <2>2. WholeOK(r) /\ GenerationOK(r)
    BY DEF IInv, FontOK, RoleOK
  <2>3. WholeOK(r)'
    <3>1. Whole(NoFiles, r)
      BY FilesAre, KeysAre DEF Whole
    <3>2. Whole(backup', r)
      BY <2>2, <3>1 DEF WholeOK
    <3> QED BY <2>2, <3>2 DEF WholeOK, Whole
  <2>4. (StreamedOK(r) /\ WrittenOK(r) /\ PublishOK(r))'
    BY DEF StreamedOK, WrittenOK, PublishOK, QuietSteps, Saving
  <2>5. GenerationOK(r)'
    <3>1. CASE generation' = <<>>
      BY <3>1, NoneIs DEF GenerationOK
    <3>2. CASE generation' = generation /\ (pc # "discard" \/ todo = <<>>)
      <4>1. pc = "discard" => Pending = {}
        BY <3>2, NoneIs DEF Pending
      <4>2. r \in ToSet(generation) => \A p \in Pages : disk[<<r, p>>].repacked => leftovers = 1
        BY <2>2, <4>1 DEF GenerationOK, ToDo
      <4> QED BY <3>2, <4>2 DEF GenerationOK
    <3> QED BY <3>1, <3>2
  <2> QED BY <2>3, <2>4, <2>5 DEF RoleOK
<1> QED BY <1>1, <1>2, <1>3, <1>4, <1>5, Assemble

\* A step that changes what is resident only.
LEMMA MemoryStep ==
  ASSUME IInv, UNCHANGED <<files, pc, jobs, saving, todo, leftovers>>,
         MemoryOK', UndoOK', FaultsOK'
  PROVE  IInv'
<1>1. FilesOK' /\ TodoOK' /\ JobsOK'
  BY TypeParts DEF FilesOK, TodoOK, JobsOK, files, jobs, saving
<1>2. ControlOK' /\ QueuesOK'
  BY DEF IInv, ControlOK, QueuesOK, files, jobs, saving
<1>3. CountedOK'
  BY DEF IInv, CountedOK, Pending, files
<1>4. GroupOK' /\ AimOK'
  BY DEF IInv, GroupOK, Undoable, GroupSaving, MarkOK, SharedOK, ToDo, Pending, files,
         jobs, saving, AimOK, Written
<1>5. FontOK'
  BY DEF IInv, FontOK, RoleOK, WholeOK, StreamedOK, Streamed, WrittenOK, OneContent,
         Written, PublishOK, GenerationOK, ToDo, Pending, files, jobs, saving
<1> QED BY <1>1, <1>2, <1>3, <1>4, <1>5, Assemble

-----------------------------------------------------------------------------
(* One file operation.                                                         *)
\* Operation o is no longer to be done.
TakenOff(o) ==
  /\ o \in Pending /\ o \in Operations
  /\ todo' \in Seq(Operations) /\ Pending' \subseteq Pending
  /\ Pending \subseteq Pending' \cup {o}
\* It was done.
Performed(o) == \A k \in Keys : disk'[k] = IF k = o.key THEN o.file ELSE disk[k]

\* What is to be done are file operations.
LEMMA PendingIn ==
  IInv => Pending \subseteq Operations
<1>1. \A s \in Seq(Operations) : \A i \in DOMAIN s : s[i] \in Operations
  OBVIOUS
<1> QED BY <1>1, TypeParts DEF TodoOK, Pending, ToSet

\* WriteFiles and UnmarkFails take the first operation off the list.
LEMMA HeadOff ==
  ASSUME IInv, todo # <<>>, todo' = Tail(todo)
  PROVE  TakenOff(Head(todo))
  BY TypeParts, TailIs DEF TodoOK, TakenOff, Pending

\* WriteFiles performs the operation it takes off.
LEMMA HeadWritten ==
  ASSUME IInv, todo # <<>>, disk' = [disk EXCEPT ![Head(todo).key] = Head(todo).file]
  PROVE  Performed(Head(todo)) /\ disk' \in [Keys -> File]
<1>1. Head(todo) \in Operations
  BY TypeParts, TailIs DEF TodoOK
<1>2. disk \in [Keys -> File]
  BY TypeParts DEF FilesOK
<1>3. PICK o \in Operations : o = Head(todo)
  BY <1>1
<1>4. disk' = [disk EXCEPT ![o.key] = o.file] /\ o.key \in Keys /\ o.file \in File
  BY <1>3 DEF Operations
<1> QED BY <1>2, <1>3, <1>4 DEF Performed

\* What a step that does one operation keeps of the types and the control.
LEMMA OneOperationControl ==
  ASSUME IInv, NEW o, TakenOff(o), disk' \in [Keys -> File], UNCHANGED backup,
         UNCHANGED <<pc, jobs, saving>>
  PROVE  FilesOK' /\ TodoOK' /\ JobsOK' /\ ControlOK' /\ QueuesOK'
<1>1. FilesOK' /\ JobsOK'
  BY TypeParts DEF FilesOK, JobsOK, jobs, saving
<1>2. TodoOK'
  <2>1. pc \in WriteSteps
    BY TypeParts, NoneIs DEF TodoOK, TakenOff, Pending
  <2> QED BY <2>1, TypeParts DEF TodoOK, TakenOff
<1>3. ControlOK' /\ QueuesOK'
  BY DEF IInv, ControlOK, QueuesOK, jobs, saving
<1> QED BY <1>1, <1>2, <1>3

\* One operation keeps that repacked pages are among those counted.
LEMMA OneOperationCounted ==
  ASSUME IInv, NEW o, TakenOff(o), UNCHANGED backup, UNCHANGED disk \/ Performed(o)
  PROVE  CountedOK'
  BY DEF IInv, CountedOK, TakenOff, Performed, Operations

\* While the files can be undone, a role is whole where its backup is.
LEMMA UndoableWhole ==
  ASSUME NEW r \in Roles, CountedOK, Undoable, Whole(backup, r)
  PROVE  Whole(disk, r)
<1> SUFFICES ASSUME NEW p \in Pages, NEW q \in Pages,
                    disk[<<r, p>>].repacked, disk[<<r, q>>].repacked,
                    disk[<<r, p>>].count = disk[<<r, q>>].count
             PROVE  disk[<<r, p>>].content = disk[<<r, q>>].content
  BY DEF Whole
<1> DEFINE k == <<r, p>>
           l == <<r, q>>
<1>1. k \in Keys /\ l \in Keys /\ k[2] = p /\ l[2] = q
  BY KeysAre
<1>2. p <= disk[k].count /\ q <= disk[l].count /\ p \in Nat /\ q \in Nat
      /\ p >= 1 /\ q >= 1
  BY <1>1 DEF CountedOK, Counted, Pages
<1>3. CASE Alike(disk[k], backup[k]) /\ Alike(disk[l], backup[l])
  BY <1>3 DEF Alike, Whole
<1>4. CASE Single(k, disk[k])
  <2>1. p = 1 /\ disk[l].count = 1
    BY <1>1, <1>4 DEF Single
  <2>2. q = 1
    BY <1>2, <2>1
  <2> QED BY <2>1, <2>2
<1>5. CASE Single(l, disk[l])
  <2>1. q = 1 /\ disk[k].count = 1
    BY <1>1, <1>5 DEF Single
  <2>2. p = 1
    BY <1>2, <2>1
  <2> QED BY <2>1, <2>2
<1> QED BY <1>1, <1>3, <1>4, <1>5 DEF Undoable

\* The same in the next state.
LEMMA UndoableWholeNext ==
  (CountedOK /\ Undoable)' => \A r \in Roles : Whole(backup', r) => Whole(disk', r)
<1>1. CountedOK /\ Undoable => \A r \in Roles : Whole(backup, r) => Whole(disk, r)
  BY UndoableWhole
<1>2. (CountedOK /\ Undoable)' => (\A r \in Roles : Whole(backup, r) => Whole(disk, r))'
  BY <1>1, PTL
<1> QED BY <1>2

\* The group's work.
LEMMA OneOperationGroup ==
  ASSUME IInv, NEW o, TakenOff(o), UNCHANGED backup, UNCHANGED <<pc, jobs, saving>>,
         (UNCHANGED disk /\ (GroupSaving => o.file = Missing))
           \/ Performed(o)
  PROVE  GroupOK'
<1>0. \A k \in Keys : k = o.key \/ disk'[k] = disk[k]
  BY DEF Performed
<1>1. Undoable' \/ ~(pc \in GroupSteps \/ GroupSaving)
  <2> SUFFICES ASSUME pc \in GroupSteps \/ GroupSaving, NEW k \in Keys
               PROVE  Alike(disk'[k], backup[k]) \/ Single(k, disk'[k])
    BY DEF Undoable
  <2>1. Undoable
    BY DEF IInv, GroupOK
  <2>2. CASE disk'[k] = disk[k]
    BY <2>1, <2>2 DEF Undoable
  <2>3. CASE Performed(o) /\ k = o.key
    <3>1. disk'[k] = o.file
      BY <2>3 DEF Performed
    <3>2. CASE GroupSaving
      BY <2>3, <3>1, <3>2 DEF IInv, GroupOK, SharedOK, TakenOff
    <3>3. CASE pc = "rollback"
      BY <2>3, <3>1, <3>3 DEF IInv, GroupOK, TakenOff, Alike
    <3>4. CASE pc \in {"group", "mark", "unmark"}
      BY <2>3, <3>1, <3>4 DEF IInv, GroupOK, MarkOK, TakenOff, Alike
    <3> QED BY <3>2, <3>3, <3>4 DEF GroupSteps
  <2> QED BY <1>0, <2>2, <2>3 DEF Performed
<1>2. MarkOK' \/ pc \notin {"group", "mark", "unmark"}
  <2> SUFFICES ASSUME pc \in {"group", "mark", "unmark"} PROVE MarkOK'
    OBVIOUS
  <2>1. MarkOK
    BY DEF IInv, GroupOK
  <2>2. \A k \in Keys : Alike(disk'[k], disk[k])
    <3> SUFFICES ASSUME NEW k \in Keys PROVE Alike(disk'[k], disk[k])
      OBVIOUS
    <3>1. CASE disk'[k] = disk[k]
      BY <3>1 DEF Alike
    <3>2. CASE k = o.key /\ disk'[k] = o.file
      BY <2>1, <3>2 DEF MarkOK, TakenOff
    <3> QED BY <3>1, <3>2 DEF Performed
  <2>3. \A k \in Keys : Alike(disk'[k], backup'[k])
    BY <2>1, <2>2 DEF MarkOK, Alike
  <2>4. \A a \in Pending' : Alike(a.file, disk'[a.key])
    <3> SUFFICES ASSUME NEW a \in Pending' PROVE Alike(a.file, disk'[a.key])
      OBVIOUS
    <3>1. a \in Pending /\ a.key \in Keys
      BY PendingIn DEF TakenOff, Operations
    <3>2. Alike(a.file, disk[a.key])
      BY <2>1, <3>1 DEF MarkOK
    <3> QED BY <2>2, <3>1, <3>2 DEF Alike
  <2> QED BY <2>3, <2>4 DEF MarkOK
<1>3. pc = "rollback" => \A a \in Pending' : a.file = backup'[a.key]
  BY DEF IInv, GroupOK, TakenOff
<1>4. SharedOK' \/ ~GroupSaving
  <2> SUFFICES ASSUME GroupSaving PROVE SharedOK'
    OBVIOUS
  <2>1. SharedOK
    BY DEF IInv, GroupOK
  <2>2. \A a \in Pending' : Single(a.key, a.file)
    BY <2>1 DEF SharedOK, TakenOff
  <2>3. pc = "saveOwn" => \A a \in Pending' : a.key = <<OwnerRole, 1>> => a.file.count = 1
    BY <2>1 DEF SharedOK, TakenOff
  <2>4. pc = "saveOwn" => disk'[<<OwnerRole, 1>>].count = 1 \/ ToDo(<<OwnerRole, 1>>)'
    <3> SUFFICES ASSUME pc = "saveOwn" PROVE disk'[<<OwnerRole, 1>>].count = 1
                                              \/ ToDo(<<OwnerRole, 1>>)'
      OBVIOUS
    <3> DEFINE k == <<OwnerRole, 1>>
    <3>1. k \in Keys
      BY OwnIs, KeysAre
    <3> HIDE DEF k
    <3>2. CASE k = o.key /\ Performed(o)
      BY <2>1, <3>1, <3>2 DEF SharedOK, TakenOff, Performed, k
    <3>3. CASE k # o.key
      <4>1. disk'[k] = disk[k]
        BY <1>0, <3>1, <3>3
      <4>2. ToDo(k) => ToDo(k)'
        BY <3>3 DEF ToDo, TakenOff
      <4> QED BY <2>1, <4>1, <4>2 DEF SharedOK, k
    <3>4. CASE k = o.key /\ o.file = Missing
      BY <2>1, <3>4 DEF SharedOK, TakenOff, Missing, k
    <3> QED BY <3>2, <3>3, <3>4 DEF k
  <2> QED BY <2>2, <2>3, <2>4 DEF SharedOK
<1>5. pc' = pc /\ GroupSaving' = GroupSaving
  BY DEF GroupSaving, jobs
<1> QED BY <1>1, <1>2, <1>3, <1>4, <1>5 DEF GroupOK

\* Pages that are no longer repacked do not matter.
LEMMA WholeLess ==
  ASSUME NEW c, NEW d, NEW r, Whole(c, r),
         \A p \in Pages : ~d[<<r, p>>].repacked \/ Alike(d[<<r, p>>], c[<<r, p>>])
  PROVE  Whole(d, r)
  BY DEF Whole, Alike

\* One operation less is aimed at.
LEMMA OneOperationAim ==
  ASSUME IInv, NEW o, TakenOff(o), UNCHANGED <<pc, jobs, saving>>
  PROVE  AimOK'
  BY DEF IInv, AimOK, TakenOff, Written, jobs, saving

\* What a failure allows is not asked for again.
LEMMA FailedFont ==
  ASSUME IInv, NEW o, TakenOff(o), UNCHANGED <<files, pc, jobs, saving>>,
         \/ leftovers' = leftovers + 1
         \/ leftovers' = leftovers /\ pc \notin {"discard", "publish"}
  PROVE  FontOK'
<1> SUFFICES ASSUME NEW r \in Roles, leftovers' <= Tolerated(r) PROVE RoleOK(r)'
  BY DEF FontOK
<1>0. /\ leftovers \in Nat /\ leftovers <= Tolerated(r)
      /\ leftovers' = leftovers + 1 => r # Double /\ leftovers = 0 /\ leftovers' = 1
  BY TypeParts, ToleratedIs DEF FaultsOK
<1>1. WholeOK(r) /\ StreamedOK(r) /\ WrittenOK(r) /\ PublishOK(r) /\ GenerationOK(r)
  BY <1>0 DEF IInv, FontOK, RoleOK
<1>2. WholeOK(r)' /\ StreamedOK(r)'
  BY <1>1 DEF WholeOK, Whole, StreamedOK, Streamed, files, jobs, saving
<1>3. WrittenOK(r)'
  BY <1>1 DEF WrittenOK, OneContent, Written, TakenOff, files, jobs, saving
<1>4. PublishOK(r)'
  BY <1>0, <1>1 DEF PublishOK, TakenOff, files, jobs
<1>5. GenerationOK(r)'
  BY <1>0, <1>1 DEF GenerationOK, TakenOff, files, jobs
<1> QED BY <1>2, <1>3, <1>4, <1>5 DEF RoleOK

\* An operation that was performed keeps what the fonts' work relies on.
LEMMA WrittenFont ==
  ASSUME IInv, NEW o, TakenOff(o), UNCHANGED <<backup, pc, jobs, saving, leftovers>>,
         Performed(o), CountedOK', GroupOK'
  PROVE  FontOK'
<1> SUFFICES ASSUME NEW r \in Roles, leftovers' <= Tolerated(r) PROVE RoleOK(r)'
  BY DEF FontOK
<1>0. /\ pc \in WriteSteps /\ o.key \in Keys
      /\ \A k \in Keys : IF k = o.key THEN disk'[k] = o.file ELSE disk'[k] = disk[k]
      /\ \A p \in Pages : <<r, p>> \in Keys /\ <<r, p>>[1] = r
  BY TypeParts, NoneIs, KeysAre DEF TodoOK, TakenOff, Pending, Operations, Performed
<1>1. WholeOK(r) /\ StreamedOK(r) /\ WrittenOK(r) /\ PublishOK(r) /\ GenerationOK(r)
  BY DEF IInv, FontOK, RoleOK
<1>a. /\ pc = "discard" => o.file = Missing
      /\ pc = "publish" => o.key[1] \in Own(font) /\ ~o.file.repacked
      /\ pc \in Saving /\ font # NoFont => o.key[1] = Written
  BY DEF IInv, AimOK, TakenOff
<1>b. font # NoFont => font \in Fonts /\ Written \in {font, Double} \cup {role}
  BY TypeParts DEF JobsOK, Written
<1>2. Whole(disk', r)
  <2>1. CASE pc \in GroupSteps \/ GroupSaving
    <3>1. Undoable'
      BY <2>1 DEF GroupOK, GroupSaving, jobs
    <3>2. Whole(backup', r)
      BY <1>1 DEF WholeOK
    <3> QED BY <3>1, <3>2, UndoableWholeNext
  <2>2. CASE pc \in {"discard", "publish"}
    <3>1. ~o.file.repacked
      BY <1>a, <2>2, FilesAre
    <3>2. \A k \in Keys : ~disk'[k].repacked \/ Alike(disk'[k], disk[k])
      BY <1>0, <3>1 DEF Alike
    <3>3. Whole(disk, r) /\ \A p \in Pages : <<r, p>> \in Keys
      BY <1>1, KeysAre DEF WholeOK
    <3> QED BY <3>2, <3>3, WholeLess
  <2>3. CASE pc \in Saving /\ font # NoFont
    <3>3. CASE r = Written
      <4>1. PICK g \in 0..MaxGeneration : OneContent(r, g)
        BY <1>1, <2>3, <3>3 DEF WrittenOK
      <4>2. \A p \in Pages : disk'[<<r, p>>].repacked => disk'[<<r, p>>].content = g
        BY <1>0, <4>1 DEF OneContent, TakenOff
      <4> QED BY <4>2 DEF Whole
    <3>4. CASE r # Written
      <4>1. \A p \in Pages : disk'[<<r, p>>] = disk[<<r, p>>]
        BY <1>0, <1>a, <2>3, <3>4
      <4> QED BY <1>1, <4>1 DEF WholeOK, Whole
    <3> QED BY <3>3, <3>4
  <2> QED BY <1>0, <2>1, <2>2, <2>3 DEF WriteSteps, GroupSteps, Saving, GroupSaving
<1>3. WholeOK(r)'
  BY <1>1, <1>2 DEF WholeOK, Whole
<1>4. StreamedOK(r)'
  <2>1. pc # "save"
    BY <1>0 DEF WriteSteps
  <2>2. ASSUME pc = "saveOwn", role = font, r = Double
        PROVE  \A p \in Pages : ~disk'[<<r, p>>].repacked
    <3>1. Streamed(r)
      BY <1>1, <2>2 DEF StreamedOK
    <3>2. font # NoFont /\ role # Double
      BY <2>2, TypeParts, OwnIs DEF JobsOK, Roles
    <3>3. o.key[1] # r
      BY <1>a, <2>2, <3>2 DEF Saving, Written
    <3> QED BY <1>0, <3>1, <3>3 DEF Streamed
  <2> QED BY <2>1, <2>2 DEF StreamedOK, Streamed, jobs, saving
<1>5. WrittenOK(r)'
  <2> SUFFICES ASSUME pc \in Saving, font # NoFont, r = Written
               PROVE  \E g \in 0..MaxGeneration : OneContent(r, g)'
    BY DEF WrittenOK, Written, jobs, saving
  <2>1. PICK g \in 0..MaxGeneration : OneContent(r, g)
    BY <1>1 DEF WrittenOK
  <2>2. OneContent(r, g)'
    BY <1>0, <2>1 DEF OneContent, TakenOff
  <2> QED BY <2>2
<1>6. PublishOK(r)'
  <2> SUFFICES ASSUME pc = "publish", r \in Own(font), NEW p \in Pages,
                      disk'[<<r, p>>].repacked
               PROVE  ToDo(<<r, p>>)' /\ (r = Double \/ leftovers = 1)
    BY DEF PublishOK, jobs
  <2>1. <<r, p>> # o.key /\ disk'[<<r, p>>] = disk[<<r, p>>]
    BY <1>0, <1>a
  <2>2. ToDo(<<r, p>>) /\ (r = Double \/ leftovers = 1)
    BY <1>1, <2>1 DEF PublishOK
  <2> QED BY <2>1, <2>2 DEF ToDo, TakenOff
<1>7. GenerationOK(r)'
  <2> SUFFICES ASSUME r \in ToSet(generation), NEW p \in Pages,
                      disk'[<<r, p>>].repacked
               PROVE  leftovers = 1 \/ (pc = "discard" /\ ToDo(<<r, p>>)')
    BY DEF GenerationOK, jobs
  <2>0. r \in Fonts /\ r # font /\ r # Double
    <3>1. r \in Fonts
      BY TypeParts, JoinIs DEF JobsOK, ToSet
    <3> QED BY <3>1, OwnIs DEF IInv, QueuesOK
  <2>1. CASE <<r, p>> # o.key
    <3>1. leftovers = 1 \/ (pc = "discard" /\ ToDo(<<r, p>>))
      BY <1>0, <1>1, <2>1 DEF GenerationOK
    <3> QED BY <2>1, <3>1 DEF ToDo, TakenOff
  <2>2. CASE <<r, p>> = o.key
    <3>1. o.file.repacked
      BY <1>0, <2>2
    <3>2. pc # "discard" /\ pc # "publish"
      BY <1>a, <3>1, FilesAre
    <3>3. pc \in Saving /\ font # NoFont
      <4>1. generation # <<>>
        BY NoneIs
      <4> QED BY <1>0, <3>2, <4>1 DEF IInv, ControlOK, WriteSteps, GroupSteps, Saving
    <3>4. Written = r
      BY <1>0, <1>a, <2>2, <3>3
    <3>5. Written \in {font, Double}
      BY <3>3 DEF IInv, ControlOK, Written
    <3> QED BY <2>0, <3>4, <3>5
  <2> QED BY <2>1, <2>2
<1> QED BY <1>3, <1>4, <1>5, <1>6, <1>7 DEF RoleOK

\* A failure is counted.
LEMMA FailureFaults ==
  ASSUME FaultsOK, Failure, UNCHANGED events
  PROVE  /\ failures' = failures + 1 /\ failures' \in Nat /\ events' \in Nat
         /\ failures' + events' <= MaxTroubles /\ clean' = FALSE
<1>1. /\ failures \in Nat /\ events \in Nat /\ failures + events < MaxTroubles
      /\ failures' = failures + 1 /\ clean' = FALSE /\ events' = events
  BY DEF FaultsOK, Failure, Trouble
<1>2. MaxTroubles \in Nat
  BY SnapshotAssumption
<1> QED BY <1>1, <1>2

\* One that leaves no file behind.
LEMMA FailsFaults ==
  ASSUME FaultsOK, Fails, UNCHANGED events
  PROVE  FaultsOK' /\ leftovers' = leftovers /\ intact' = intact /\ clean' = FALSE
         /\ failures' # failures
<1>1. /\ failures' = failures + 1 /\ failures' \in Nat /\ events' \in Nat
      /\ failures' + events' <= MaxTroubles /\ clean' = FALSE
  BY FailureFaults DEF Fails
<1>2. leftovers' = leftovers /\ intact' = intact /\ leftovers \in 0..failures /\ failures \in Nat
  BY DEF Fails, FaultsOK
<1>3. leftovers' \in 0..failures' /\ failures' # failures
  BY <1>1, <1>2
<1> QED BY <1>1, <1>2, <1>3 DEF FaultsOK

\* One that leaves n files.
LEMMA LeavesFaults ==
  ASSUME FaultsOK, NEW n \in {0, 1}, Leaves(n), UNCHANGED events
  PROVE  FaultsOK' /\ leftovers' = leftovers + n /\ intact' = FALSE /\ clean' = FALSE
<1>1. /\ failures' = failures + 1 /\ failures' \in Nat /\ events' \in Nat
      /\ failures' + events' <= MaxTroubles /\ clean' = FALSE
  BY FailureFaults DEF Leaves
<1>2. leftovers' = leftovers + n /\ intact' = FALSE /\ leftovers \in 0..failures
      /\ failures \in Nat
  BY DEF Leaves, FaultsOK
<1>3. leftovers' \in 0..failures'
  BY <1>1, <1>2
<1> QED BY <1>1, <1>2, <1>3 DEF FaultsOK

\* A step that works counts nothing.
LEMMA WorksFaults ==
  ASSUME FaultsOK, Works, UNCHANGED events
  PROVE  FaultsOK' /\ UNCHANGED <<intact, clean, leftovers, failures>>
  BY DEF FaultsOK, Works, faults

\* What is resident keeps its type where it is left alone.
LEMMA SameMemory == MemoryOK /\ UNCHANGED memory => MemoryOK'
  BY DEF MemoryOK, memory

\* So does what the rollback keeps.
LEMMA SameUndo == UndoOK /\ UNCHANGED undoing => UndoOK'
  BY DEF UndoOK, undoing

\* An operation that was performed keeps the inductive invariant.
LEMMA OneDone ==
  ASSUME IInv, NEW o, TakenOff(o), Performed(o), disk' \in [Keys -> File],
         UNCHANGED <<backup, memory, pc, jobs, saving>>, UndoOK', FaultsOK',
         UNCHANGED leftovers
  PROVE  IInv'
<1>1. FilesOK' /\ TodoOK' /\ JobsOK' /\ ControlOK' /\ QueuesOK'
  BY OneOperationControl
<1>2. CountedOK' /\ GroupOK' /\ AimOK'
  BY OneOperationCounted, OneOperationGroup, OneOperationAim
<1>3. FontOK'
  BY <1>2, WrittenFont
<1>4. MemoryOK'
  BY SameMemory, TypeParts
<1> QED BY <1>1, <1>2, <1>3, <1>4, Assemble

\* So does one that failed and is not tried again.
LEMMA OneFailed ==
  ASSUME IInv, NEW o, TakenOff(o), GroupSaving => o.file = Missing,
         UNCHANGED <<files, memory, pc, jobs, saving>>, UndoOK', FaultsOK',
         \/ leftovers' = leftovers + 1
         \/ leftovers' = leftovers /\ pc \notin {"discard", "publish"}
  PROVE  IInv'
<1>0. UNCHANGED disk /\ UNCHANGED backup /\ disk' \in [Keys -> File]
  BY TypeParts DEF files, FilesOK
<1>1. FilesOK' /\ TodoOK' /\ JobsOK' /\ ControlOK' /\ QueuesOK'
  BY <1>0, OneOperationControl
<1>2. CountedOK' /\ GroupOK' /\ AimOK'
  BY <1>0, OneOperationCounted, OneOperationGroup, OneOperationAim
<1>3. FontOK'
  BY FailedFont
<1>4. MemoryOK'
  BY SameMemory, TypeParts
<1> QED BY <1>1, <1>2, <1>3, <1>4, Assemble

\* WriteFiles: the next replacement or deletion of a page file.
LEMMA WriteFilesOK ==
  ASSUME IInv, WriteFiles
  PROVE  IInv'
<1>0. todo # <<>> /\ FaultsOK /\ UndoOK
  BY TypeParts DEF WriteFiles
<1>1. CASE Succeeds
  <2>1. TakenOff(Head(todo)) /\ Performed(Head(todo)) /\ disk' \in [Keys -> File]
    BY <1>0, <1>1, HeadOff, HeadWritten DEF Succeeds
  <2>2. UndoOK' /\ FaultsOK' /\ leftovers' = leftovers
    BY <1>0, <1>1, SameUndo, WorksFaults DEF Succeeds
  <2> QED BY <1>1, <2>1, <2>2, OneDone DEF Succeeds
<1>2. CASE DeleteFails
  <2>1. TakenOff(Head(todo)) /\ Head(todo).file = Missing
    BY <1>0, <1>2, HeadOff DEF DeleteFails
  <2>2. UndoOK' /\ FaultsOK' /\ leftovers' = leftovers + 1
    BY <1>0, <1>2, SameUndo, LeavesFaults DEF DeleteFails
  <2> QED BY <1>2, <2>1, <2>2, OneFailed DEF DeleteFails
<1> QED BY <1>1, <1>2 DEF WriteFiles

\* UnmarkFails: a header cannot be written back.
LEMMA UnmarkFailsOK ==
  ASSUME IInv, UnmarkFails
  PROVE  IInv'
<1>0. todo # <<>> /\ FaultsOK /\ UndoOK /\ ~GroupSaving /\ pc = "unmark"
  BY TypeParts DEF UnmarkFails, GroupSaving, Saving
<1>1. TakenOff(Head(todo))
  BY <1>0, HeadOff DEF UnmarkFails
<1>2. UndoOK' /\ FaultsOK' /\ leftovers' = leftovers
  BY <1>0, SameUndo, FailsFaults DEF UnmarkFails, PutFails
<1> QED BY <1>0, <1>1, <1>2, OneFailed DEF UnmarkFails, PutFails

\* RollBack: PhysicalGroupDiskTransaction::Rollback restores a file or fails to.
LEMMA RollBackOK ==
  ASSUME IInv, RollBack
  PROVE  IInv'
<1>1. PICK i \in DOMAIN todo :
           /\ todo' = RemoveAt(todo, i)
           /\ \/ /\ Works
                 /\ disk' = [disk EXCEPT ![todo[i].key] = todo[i].file]
                 /\ UNCHANGED restored
              \/ Leaves(0) /\ restored' = FALSE /\ UNCHANGED disk
  BY DEF RollBack
<1>2. todo \in Seq(Operations) /\ FaultsOK /\ UndoOK /\ ~GroupSaving /\ disk \in [Keys -> File]
  BY TypeParts DEF TodoOK, RollBack, GroupSaving, Saving, FilesOK
<1>3. PICK o \in Operations : o = todo[i]
  BY <1>1, <1>2
<1>4. TakenOff(o)
  <2>1. o \in Pending
    BY <1>1, <1>3 DEF Pending, ToSet
  <2>2. /\ todo' \in Seq(Operations) /\ ToSet(todo') \subseteq ToSet(todo)
        /\ ToSet(todo) \subseteq ToSet(todo') \cup {o}
    BY <1>1, <1>2, <1>3, Removed
  <2> QED BY <2>1, <2>2 DEF TakenOff, Pending
<1>5. CASE Works /\ disk' = [disk EXCEPT ![todo[i].key] = todo[i].file] /\ UNCHANGED restored
  <2>1. disk' = [disk EXCEPT ![o.key] = o.file] /\ o.key \in Keys /\ o.file \in File
    BY <1>3, <1>5 DEF Operations
  <2>2. Performed(o) /\ disk' \in [Keys -> File]
    BY <1>2, <2>1 DEF Performed
  <2>3. UndoOK' /\ FaultsOK' /\ leftovers' = leftovers
    BY <1>2, <1>5, WorksFaults DEF RollBack, UndoOK
  <2> QED BY <1>4, <2>2, <2>3, OneDone DEF RollBack
<1>6. CASE Leaves(0) /\ restored' = FALSE /\ UNCHANGED disk
  <2>1. UndoOK' /\ FaultsOK' /\ leftovers' = leftovers /\ pc = "rollback"
    <3>1. FaultsOK' /\ leftovers' = leftovers + 0 /\ leftovers \in Nat
      BY <1>2, <1>6, LeavesFaults DEF RollBack, FaultsOK
    <3>2. leftovers' = leftovers /\ pc = "rollback"
      BY <3>1 DEF RollBack
    <3>3. UndoOK'
      BY <1>2, <1>6 DEF RollBack, UndoOK
    <3> QED BY <3>1, <3>2, <3>3
  <2> QED BY <1>2, <1>4, <1>6, <2>1, OneFailed DEF RollBack, files
<1> QED BY <1>1, <1>5, <1>6

-----------------------------------------------------------------------------
(* Queues of fonts.                                                            *)
LEMMA OnceTail ==
  ASSUME NEW T, NEW s \in Seq(T), s # <<>>, Once(s)
  PROVE  Once(Tail(s)) /\ Head(s) \notin ToSet(Tail(s))
<1>1. /\ Len(s) \in Nat /\ Len(s) >= 1 /\ DOMAIN s = 1..Len(s) /\ Head(s) = s[1]
      /\ DOMAIN Tail(s) = 1..(Len(s) - 1)
      /\ \A i \in 1..(Len(s) - 1) : Tail(s)[i] = s[i + 1]
  OBVIOUS
<1> DEFINE t == Tail(s)
           h == Head(s)
<1>2. \A i \in DOMAIN t : i + 1 \in DOMAIN s /\ t[i] = s[i + 1] /\ i + 1 # 1
  BY <1>1
<1>3. 1 \in DOMAIN s /\ h = s[1] /\ \A i, j \in DOMAIN t : i + 1 = j + 1 => i = j
  BY <1>1
<1> HIDE DEF t, h
<1>4. Once(t)
  BY <1>2, <1>3 DEF Once
<1>5. h \notin ToSet(t)
  BY <1>2, <1>3 DEF Once, ToSet
<1> QED BY <1>4, <1>5 DEF t, h

\* A font that was not in the queue is put first.
LEMMA OnceFirst ==
  ASSUME NEW T, NEW s \in Seq(T), Once(s), NEW x \in T, x \notin ToSet(s)
  PROVE  /\ Once(<<x>> \o s) /\ <<x>> \o s \in Seq(T)
         /\ ToSet(<<x>> \o s) = {x} \cup ToSet(s)
<1> DEFINE u == <<x>> \o s
<1>1. /\ Len(s) \in Nat /\ DOMAIN s = 1..Len(s) /\ DOMAIN u = 1..(Len(s) + 1)
      /\ u[1] = x /\ \A i \in 1..Len(s) : u[i + 1] = s[i]
  OBVIOUS
<1>2. ToSet(<<x>>) = {x} /\ <<x>> \in Seq(T)
  BY DEF ToSet
<1>3. u \in Seq(T) /\ ToSet(u) = {x} \cup ToSet(s)
  <2>1. PICK a \in Seq(T) : a = <<x>>
    BY <1>2
  <2>2. a \o s \in Seq(T) /\ ToSet(a \o s) = ToSet(a) \cup ToSet(s)
    BY JoinIs
  <2> QED BY <1>2, <2>1, <2>2
<1> HIDE DEF u
<1>4. \A i \in DOMAIN u : \/ i = 1
                          \/ /\ i # 1 /\ i - 1 \in DOMAIN s /\ u[i] = s[i - 1]
                             /\ \A j \in DOMAIN u : i - 1 = j - 1 => i = j
  <2> SUFFICES ASSUME NEW i \in DOMAIN u, i # 1
               PROVE  /\ i - 1 \in DOMAIN s /\ u[i] = s[i - 1]
                      /\ \A j \in DOMAIN u : i - 1 = j - 1 => i = j
    OBVIOUS
  <2>1. i - 1 \in 1..Len(s) /\ (i - 1) + 1 = i
    BY <1>1
  <2> QED BY <1>1, <2>1
<1>5. \A i \in DOMAIN s : s[i] # x
  BY DEF ToSet
<1>6. Once(u)
  BY <1>1, <1>4, <1>5 DEF Once
<1> QED BY <1>3, <1>6 DEF u

\* A font that was not in the queue is put last.
LEMMA OnceLast ==
  ASSUME NEW T, NEW s \in Seq(T), Once(s), NEW x \in T, x \notin ToSet(s)
  PROVE  /\ Once(Append(s, x)) /\ Append(s, x) \in Seq(T)
         /\ ToSet(Append(s, x)) = ToSet(s) \cup {x}
<1> DEFINE u == Append(s, x)
<1>1. /\ u \in Seq(T) /\ Len(s) \in Nat
      /\ u[Len(s) + 1] = x
      /\ \A i \in DOMAIN s : i \in 1..Len(s) /\ u[i] = s[i]
      /\ \A i \in DOMAIN u : i \in DOMAIN s \/ i = Len(s) + 1
      /\ DOMAIN u = 1..(Len(s) + 1) /\ DOMAIN s = 1..Len(s)
  BY OneMore
<1> HIDE DEF u
<1>2. \A i \in DOMAIN s : s[i] # x /\ i \in DOMAIN u
  BY <1>1 DEF ToSet
<1>3. Once(u)
  BY <1>1, <1>2 DEF Once
<1>4. ToSet(u) = ToSet(s) \cup {x}
  <2>1. Len(s) + 1 \in DOMAIN u
    BY <1>1
  <2> QED BY <1>1, <1>2, <2>1 DEF ToSet
<1> QED BY <1>1, <1>3, <1>4 DEF u

\* The queue of all fonts.
LEMMA AllFonts ==
  LET q == [f \in Fonts |-> f] IN q \in Seq(Fonts) /\ Once(q) /\ ToSet(q) = Fonts
<1> DEFINE q == [f \in Fonts |-> f]
<1>1. DOMAIN q = 1..NumFonts /\ NumFonts \in Nat /\ \A i \in 1..NumFonts : q[i] = i
  BY SnapshotAssumption DEF Fonts
<1>2. q \in Seq(Fonts)
  BY <1>1 DEF Fonts
<1> HIDE DEF q
<1>3. Once(q) /\ ToSet(q) = Fonts
  BY <1>1 DEF Once, ToSet, Fonts
<1> QED BY <1>2, <1>3 DEF q

-----------------------------------------------------------------------------
(* What is resident.                                                           *)
Held(pages) ==
  pages \in [Roles -> Seq(Page)] /\ \A r \in Roles : Len(pages[r]) <= MaxPages

\* The number of pages a role's first header gives.
LEMMA PageCount ==
  ASSUME FilesOK, NEW r \in Roles
  PROVE  Count(r) \in 0..MaxPages /\ Count(r) \in Nat
  BY OwnIs, KeysAre, SnapshotAssumption DEF FilesOK, Count, File

\* What is loaded or staged of a role has as many pages.
LEMMA PagesFromIs ==
  ASSUME FilesOK, NEW r \in Roles, NEW t \in {"none", "live"}
  PROVE  PagesFrom(r, t) \in Seq(Page) /\ Len(PagesFrom(r, t)) = Count(r)
<1>1. Count(r) \in 0..MaxPages /\ Count(r) \in Nat
  BY PageCount
<1>2. \A p \in 1..Count(r) : Source(r, p) \in Keys /\ Header(r, p) \in File
  <2> SUFFICES ASSUME NEW p \in 1..Count(r)
               PROVE  Source(r, p) \in Keys /\ Header(r, p) \in File
    OBVIOUS
  <2>1. p \in Pages
    BY <1>1, SnapshotAssumption DEF Pages
  <2>2. disk[<<r, p>>] \in File
    BY <2>1, KeysAre DEF FilesOK
  <2>3. Source(r, p) \in Keys
    BY <2>1, <2>2, KeysAre DEF Source, File
  <2> QED BY <2>3 DEF FilesOK, Header
<1>3. \A p \in 1..Count(r) :
         [source |-> Source(r, p), header |-> Header(r, p), texture |-> t] \in Page
  BY <1>2 DEF Page
<1> QED BY <1>1, <1>3 DEF PagesFrom

\* Retired roles have no pages, the others keep theirs.
LEMMA DropIs ==
  ASSUME Held(resident), NEW rs
  PROVE  Held(Drop(rs)) /\ \A r \in Roles \ rs : Drop(rs)[r] = resident[r]
<1>1. Len(<<>>) = 0 /\ <<>> \in Seq(Page) /\ MaxPages \in Nat
  BY SnapshotAssumption
<1> QED BY <1>1 DEF Held, Drop

\* Loaded roles have the pages of the files, the others keep theirs.
LEMMA LoadIs ==
  ASSUME FilesOK, NEW pages, Held(pages), NEW rs
  PROVE  /\ Held(Load(rs, pages))
         /\ \A r \in Roles : IF r \in rs THEN Load(rs, pages)[r] = PagesFrom(r, "live")
                             ELSE Load(rs, pages)[r] = pages[r]
<1>1. \A r \in Roles : PagesFrom(r, "live") \in Seq(Page)
                       /\ Len(PagesFrom(r, "live")) <= MaxPages
  BY PagesFromIs, PageCount
<1> QED BY <1>1 DEF Held, Load

\* A role that can be loaded has a page.
LEMMA LoadableIs ==
  ASSUME FilesOK, NEW r \in Roles, Loadable(r)
  PROVE  PagesFrom(r, "live") # <<>>
<1>1. Count(r) # 0
  BY DEF Loadable, Stageable
<1> QED BY <1>1, PagesFromIs

\* A restore or a rebuild leaves only complete roles that have pages.
LEMMA LoadedMemory ==
  ASSUME FilesOK, NEW pages, Held(pages), NEW have, NEW loaded \in SUBSET Roles,
         have \subseteq {r \in Roles : pages[r] # <<>>},
         \A r \in loaded : Loadable(r),
         resident' = Load(loaded, pages), complete' = have \cup loaded
  PROVE  MemoryOK'
<1>1. Held(resident')
  BY LoadIs
<1>2. \A r \in complete' : r \in Roles /\ resident'[r] # <<>>
  BY LoadIs, LoadableIs
<1> QED BY <1>1, <1>2 DEF MemoryOK, Held

\* TryLoadGlyphAtlasSnapshot loads loadable roles of the font only.
LEMMA TryLoadsIs ==
  ASSUME FaultsOK, NEW f, NEW have, NEW loaded, TryLoads(f, have, loaded), UNCHANGED events
  PROVE  /\ loaded \subseteq Own(f) /\ \A r \in loaded : Loadable(r)
         /\ FaultsOK' /\ leftovers' = leftovers
<1>1. Fails \/ Works
  BY DEF TryLoads
<1> QED BY <1>1, FailsFaults, WorksFaults DEF TryLoads

\* RebuildGlyphAtlasFromSnapshot leaves only complete roles that have pages.
LEMMA RebuildIs ==
  ASSUME FilesOK, MemoryOK, FaultsOK, NEW f \in Fonts, NEW loaded \in SUBSET Roles,
         Rebuild(f, loaded), UNCHANGED events
  PROVE  MemoryOK' /\ FaultsOK' /\ leftovers' = leftovers
<1>1. /\ \A r \in loaded : Loadable(r)
      /\ FaultsOK' /\ leftovers' = leftovers
  BY TryLoadsIs DEF Rebuild
<1>2. Held(Drop(Own(f))) /\ \A r \in Roles \ Own(f) : Drop(Own(f))[r] = resident[r]
  BY DropIs DEF MemoryOK, Held
<1>3. complete \ Own(f) \subseteq {r \in Roles : Drop(Own(f))[r] # <<>>}
  BY <1>2 DEF MemoryOK
<1> QED BY <1>1, <1>2, <1>3, LoadedMemory DEF Rebuild

-----------------------------------------------------------------------------
(* Lists of file operations.                                                   *)
LEMMA PutIs ==
  ASSUME NEW k \in Keys, NEW file \in File
  PROVE  Put(k, file) \in Operations /\ Put(k, file).key = k /\ Put(k, file).file = file
  BY DEF Put, Operations

\* Two lists of operations in one.
LEMMA JoinOps ==
  ASSUME NEW a \in Seq(Operations), NEW b \in Seq(Operations), NEW s, s = a \o b
  PROVE  s \in Seq(Operations) /\ ToSet(s) = ToSet(a) \cup ToSet(b)
<1>1. /\ a \o b \in Seq(Operations) /\ ToSet(a \o b) = ToSet(a) \cup ToSet(b)
  BY JoinIs
<1> QED BY <1>1

\* The operations of a list are for the given page files, or for all of some.
Covers(s, r, pages) == \A p \in pages : \E o \in ToSet(s) : o.key = <<r, p>>

\* The deletions of some pages of a role.
LEMMA DeletesAre ==
  ASSUME NEW r \in Roles, NEW first \in Nat \ {0}, NEW last \in 0..MaxPages
  PROVE  /\ Deletes(r, first, last) \in Seq(Operations)
         /\ \A o \in ToSet(Deletes(r, first, last)) : o.key[1] = r /\ o.file = Missing
         /\ Covers(Deletes(r, first, last), r, first..last)
<1> DEFINE n == last + 1 - first
           s == Deletes(r, first, last)
<1>0. MaxPages \in Nat
  BY SnapshotAssumption
<1>1. s = [i \in 1..n |-> Put(<<r, first + i - 1>>, Missing)]
  BY DEF Deletes
<1>2. \A i \in 1..n : first + i - 1 \in Pages
  BY <1>0 DEF Pages
<1>3. \A i \in 1..n : /\ s[i] \in Operations /\ s[i].key = <<r, first + i - 1>>
                      /\ s[i].file = Missing
  BY <1>1, <1>2, KeysAre, PutIs, FilesAre
<1>4. CASE n < 0
  <2>1. 1..n = {} /\ first..last = {}
    BY <1>4
  <2>2. s = <<>>
    BY <1>1, <2>1
  <2> QED BY <2>1, <2>2, NoneIs DEF Covers
<1>5. CASE n >= 0
  <2>0. n \in Nat
    BY <1>0, <1>5
  <2> HIDE DEF n, s
  <2>1. DOMAIN s = 1..n /\ s = [i \in 1..n |-> s[i]] /\ \A i \in 1..n : s[i] \in Operations
    <3>1. DOMAIN s = 1..n /\ s = [i \in 1..n |-> s[i]]
      BY <1>1
    <3> QED BY <1>3, <3>1
  <2>2. s \in Seq(Operations) /\ ToSet(s) = {s[i] : i \in 1..n}
    BY <2>0, <2>1, ListIs
  <2>3. \A p \in first..last : p - first + 1 \in 1..n /\ first + (p - first + 1) - 1 = p
    BY <1>0 DEF n
  <2>4. \A o \in ToSet(s) : o.key[1] = r /\ o.file = Missing
    BY <1>3, <2>2
  <2>5. Covers(s, r, first..last)
    BY <1>3, <2>2, <2>3 DEF Covers
  <2> QED BY <2>2, <2>4, <2>5 DEF s
<1> QED
  <2>1. n \in Int
    BY <1>0
  <2> HIDE DEF n, s
  <2>2. n < 0 \/ n >= 0
    BY <2>1
  <2> QED BY <1>4, <1>5, <2>2 DEF s

\* The deletions of all pages of a role.
LEMMA DeletesAll ==
  ASSUME NEW r \in Roles
  PROVE  /\ Deletes(r, 1, MaxPages) \in Seq(Operations)
         /\ \A o \in ToSet(Deletes(r, 1, MaxPages)) : o.file = Missing /\ o.key[1] = r
         /\ Covers(Deletes(r, 1, MaxPages), r, Pages)
<1>1. MaxPages \in 0..MaxPages /\ 1 \in Nat \ {0} /\ Pages = 1..MaxPages
  BY SnapshotAssumption DEF Pages
<1> QED BY <1>1, DeletesAre

\* The replacements of the first pages of a role.
LEMMA PutsAre ==
  ASSUME NEW r \in Roles, NEW n \in 0..MaxPages, NEW file \in File
  PROVE  /\ Puts(r, n, file) \in Seq(Operations)
         /\ \A o \in ToSet(Puts(r, n, file)) :
               o.key[1] = r /\ o.key[2] \in 1..n /\ o.file = file
         /\ Covers(Puts(r, n, file), r, 1..n)
<1> DEFINE s == Puts(r, n, file)
<1>0. MaxPages \in Nat /\ n \in Nat
  BY SnapshotAssumption
<1>1. s = [p \in 1..n |-> Put(<<r, p>>, file)]
  BY DEF Puts
<1>2. \A p \in 1..n : p \in Pages
  BY <1>0 DEF Pages
<1>3. \A p \in 1..n : s[p] \in Operations /\ s[p].key = <<r, p>> /\ s[p].file = file
  BY <1>1, <1>2, KeysAre, PutIs
<1> HIDE DEF s
<1>4. DOMAIN s = 1..n /\ s = [i \in 1..n |-> s[i]]
  BY <1>1
<1>5. s \in Seq(Operations) /\ ToSet(s) = {s[i] : i \in 1..n}
  BY <1>0, <1>3, <1>4, ListIs
<1> QED BY <1>3, <1>5 DEF s, Covers

\* A new page file has what it is made of.
LEMMA NewFileIs ==
  ASSUME NEW g \in 0..MaxGeneration, NEW n \in Pages, NEW packed \in BOOLEAN, NEW r \in Roles
  PROVE  /\ NewFile(g, n, packed, r) \in File /\ NewFile(g, n, packed, r).content = g
         /\ NewFile(g, n, packed, r).count = n /\ NewFile(g, n, packed, r).repacked = packed
  BY SnapshotAssumption DEF NewFile, File, Pages

\* The contents chosen for new pages are contents nobody has.
LEMMA FreshIs ==
  /\ Unused # {} => Fresh \in 0..MaxGeneration /\ Fresh \in Unused
  /\ Unused \ {Fresh} # {} => Fresh2 \in 0..MaxGeneration /\ Fresh2 \in Unused
<1> DEFINE Least(U) == \E g \in U : \A h \in U : g <= h
           T == {m \in Nat : \A U \in SUBSET Nat : (\E x \in U : x <= m) => Least(U)}
<1>1. 0 \in T
  OBVIOUS
<1>2. \A m \in Nat : m \in T => m + 1 \in T
  <2> SUFFICES ASSUME NEW m \in Nat, m \in T, NEW U \in SUBSET Nat,
                      NEW x \in U, x <= m + 1
               PROVE  Least(U)
    OBVIOUS
  <2>1. CASE \E y \in U : y <= m
    BY <2>1
  <2>2. CASE \A y \in U : ~(y <= m)
    <3>1. \A h \in U : x <= h
      BY <2>2
    <3> QED BY <3>1
  <2> QED BY <2>1, <2>2
<1>3. \A U \in SUBSET Nat : U # {} => Least(U)
  <2> SUFFICES ASSUME NEW U \in SUBSET Nat, NEW x \in U PROVE Least(U)
    OBVIOUS
  <2>1. x \in T
    <3> HIDE DEF T
    <3> QED BY <1>1, <1>2, ByOnes
  <2> QED BY <2>1
<1>4. Unused \in SUBSET Nat /\ Unused \subseteq 0..MaxGeneration
  BY SnapshotAssumption DEF Unused
<1> HIDE DEF T
<1>5. Unused # {} => Fresh \in Unused
  BY <1>3, <1>4 DEF Fresh
<1>6. Unused \ {Fresh} # {} => Fresh2 \in Unused
  <2>1. Unused \ {Fresh} \in SUBSET Nat
    BY <1>4
  <2> QED BY <1>3, <2>1 DEF Fresh2
<1> QED BY <1>4, <1>5, <1>6

-----------------------------------------------------------------------------
(* The steps of a font.                                                        *)
\* A font starts again at the restore.
LEMMA AgainOK ==
  ASSUME IInv, Again, font # NoFont, UNCHANGED files, role' \in Roles,
         targets' \in Seq(Roles), MemoryOK', UndoOK', FaultsOK',
         leftovers' = leftovers
  PROVE  IInv'
<1>1. queue \in Seq(Fonts) /\ generation \in Seq(Fonts) /\ font \in Fonts
  BY TypeParts DEF JobsOK
<1>2. /\ Once(queue) /\ Once(generation) /\ ToSet(queue) \cap ToSet(generation) = {}
      /\ font \notin ToSet(queue) /\ font \notin ToSet(generation)
  BY DEF IInv, QueuesOK
<1>3. /\ queue' = <<font>> \o queue /\ font' = NoFont /\ generation' = generation
      /\ pc' = "restore" /\ todo' = <<>>
  BY DEF Again, Begin
<1>4. Once(queue') /\ queue' \in Seq(Fonts) /\ ToSet(queue') = {font} \cup ToSet(queue)
  BY <1>1, <1>2, <1>3, OnceFirst
<1>5. NoFont \notin Fonts
  BY OwnIs
<1>6. ToSet(queue') \subseteq Fonts /\ ToSet(generation) \subseteq Fonts
  BY <1>1, <1>4 DEF ToSet
<1>7. QueuesOK' /\ JobsOK'
  BY <1>1, <1>2, <1>3, <1>4, <1>5, <1>6 DEF QueuesOK, JobsOK
<1>8. backup = NoFiles /\ pc # "discard"
  BY DEF IInv, ControlOK, GroupSteps
<1> QED BY <1>3, <1>7, <1>8, RestOK DEF QuietSteps, files

\* Discarded: the files of the font were deleted, or stayed.
LEMMA DiscardedOK ==
  ASSUME IInv, Discarded
  PROVE  IInv'
<1>1. MemoryOK' /\ UndoOK' /\ FaultsOK' /\ leftovers' = leftovers
  BY TypeParts, SameMemory, SameUndo DEF Discarded, FaultsOK, faults
<1>2. /\ UNCHANGED disk /\ UNCHANGED backup /\ pc' = "restore" /\ todo' = <<>> /\ pc = "discard"
      /\ todo = <<>> /\ generation' = generation /\ queue' = queue /\ font' = font
      /\ role' = role /\ targets' = targets
  BY DEF Discarded, Done, Goto, files, jobs, saving
<1>3. backup = NoFiles /\ font = NoFont
  BY <1>2 DEF IInv, ControlOK, GroupSteps, Saving
<1>4. QueuesOK' /\ JobsOK'
  BY <1>2, TypeParts DEF IInv, QueuesOK, JobsOK
<1> QED BY <1>1, <1>2, <1>3, <1>4, RestOK DEF QuietSteps

\* The queue without its head.
LEMMA QueueShorter ==
  ASSUME IInv, queue # <<>>
  PROVE  /\ Once(Tail(queue)) /\ Tail(queue) \in Seq(Fonts) /\ Head(queue) \in Fonts
         /\ ToSet(Tail(queue)) \subseteq ToSet(queue)
         /\ Head(queue) \notin ToSet(Tail(queue)) /\ Head(queue) \in ToSet(queue)
<1>1. queue \in Seq(Fonts) /\ Once(queue)
  BY TypeParts DEF IInv, JobsOK, QueuesOK
<1> QED BY <1>1, TailIs, OnceTail

\* What is to be deleted of a font that is discarded: all pages of both roles.
LEMMA DiscardList ==
  ASSUME NEW f \in Fonts, Discard(f)
  PROVE  /\ pc' = "discard" /\ todo' \in Seq(Operations)
         /\ \A o \in Pending' : o.file = Missing /\ o.key[1] \in Own(f)
         /\ \A k \in Keys : k[1] \in Own(f) => ToDo(k)'
<1>1. f \in Roles /\ Double \in Roles /\ Own(f) = {f, Double}
  BY OwnIs
<1>2. PICK a, b : a = Deletes(f, 1, MaxPages) /\ b = Deletes(Double, 1, MaxPages)
  OBVIOUS
<1>3. /\ a \in Seq(Operations) /\ \A o \in ToSet(a) : o.file = Missing /\ o.key[1] = f
      /\ Covers(a, f, Pages)
  BY <1>1, <1>2, DeletesAll
<1>4. /\ b \in Seq(Operations) /\ \A o \in ToSet(b) : o.file = Missing /\ o.key[1] = Double
      /\ Covers(b, Double, Pages)
  BY <1>1, <1>2, DeletesAll
<1>5. pc' = "discard" /\ todo' = a \o b
  BY <1>2 DEF Discard, Begin
<1>6. todo' \in Seq(Operations) /\ Pending' = ToSet(a) \cup ToSet(b)
  BY <1>3, <1>4, <1>5, JoinIs DEF Pending
<1>7. \A o \in Pending' : o.file = Missing /\ o.key[1] \in Own(f)
  BY <1>1, <1>3, <1>4, <1>6
<1>8. \A k \in Keys : k[1] \in Own(f) => ToDo(k)'
  <2> SUFFICES ASSUME NEW k \in Keys, k[1] \in Own(f) PROVE \E o \in Pending' : o.key = k
    BY DEF ToDo
  <2>1. PICK p \in Pages : k = <<k[1], p>>
    BY KeysAre
  <2>2. k = <<f, p>> \/ k = <<Double, p>>
    BY <1>1, <2>1
  <2> QED BY <1>3, <1>4, <1>6, <2>2 DEF Covers
<1> QED BY <1>5, <1>6, <1>7, <1>8

\* Discard: DiscardGlyphAtlasSnapshot, of a font that could not be restored or
\* whose glyphs could not be generated.
LEMMA DiscardOK ==
  ASSUME IInv, pc = "restore", NEW f \in Fonts, Discard(f),
         ToSet(generation') \subseteq ToSet(generation) \cup {f}, generation' # <<>>,
         font' = font, UNCHANGED files, JobsOK', QueuesOK', UndoOK', FaultsOK',
         leftovers' = leftovers
  PROVE  IInv'
<1>1. FilesOK /\ MemoryOK /\ Held(resident)
  BY TypeParts DEF MemoryOK, Held
<1>2. font = NoFont /\ backup = NoFiles /\ font' = NoFont
      /\ UNCHANGED disk /\ UNCHANGED backup
  BY DEF IInv, ControlOK, QuietSteps, GroupSteps, Saving, files
<1>3. MemoryOK'
  <2>1. Held(Drop(Own(f))) /\ \A r \in Roles \ Own(f) : Drop(Own(f))[r] = resident[r]
    BY <1>1, DropIs
  <2> QED BY <1>1, <2>1 DEF MemoryOK, Held, Discard
<1>4. /\ pc' = "discard" /\ todo' \in Seq(Operations)
      /\ \A o \in Pending' : o.file = Missing /\ o.key[1] \in Own(f)
      /\ \A k \in Keys : k[1] \in Own(f) => ToDo(k)'
  BY DiscardList
<1>5. FilesOK' /\ TodoOK'
  BY <1>1, <1>2, <1>4 DEF FilesOK, TodoOK, WriteSteps, Steps
<1>6. ControlOK'
  BY <1>2, <1>4 DEF ControlOK, QuietSteps, GroupSteps, Saving
<1>7. CountedOK'
  BY <1>2, <1>4, FilesAre DEF IInv, CountedOK, Counted
<1>8. GroupOK' /\ AimOK'
  BY <1>4 DEF GroupOK, GroupSteps, GroupSaving, Saving, AimOK
<1>9. FontOK'
  <2> SUFFICES ASSUME NEW r \in Roles, leftovers' <= Tolerated(r) PROVE RoleOK(r)'
    BY DEF FontOK
  <2>1. WholeOK(r) /\ GenerationOK(r)
    BY DEF IInv, FontOK, RoleOK
  <2>2. (WholeOK(r) /\ StreamedOK(r) /\ WrittenOK(r) /\ PublishOK(r))'
    BY <1>2, <1>4, <2>1 DEF WholeOK, Whole, StreamedOK, WrittenOK, PublishOK, Saving
  <2>3. GenerationOK(r)'
    <3> SUFFICES ASSUME r \in ToSet(generation'), NEW p \in Pages, disk[<<r, p>>].repacked
                 PROVE  leftovers = 1 \/ ToDo(<<r, p>>)'
      BY <1>2, <1>4 DEF GenerationOK
    <3>1. CASE r \in ToSet(generation)
      BY <2>1, <3>1 DEF GenerationOK
    <3>2. CASE r = f
      BY <1>4, <3>2, OwnIs, KeysAre
    <3> QED BY <3>1, <3>2
  <2> QED BY <2>2, <2>3 DEF RoleOK
<1> QED BY <1>3, <1>5, <1>6, <1>7, <1>8, <1>9, Assemble

\* RestoreSnapshot: the font is restored, tried again, or discarded.
LEMMA RestoreSnapshotOK ==
  ASSUME IInv, RestoreSnapshot
  PROVE  IInv'
<1> DEFINE f == Head(queue)
<1>0. /\ pc = "restore" /\ queue # <<>>
      /\ UNCHANGED <<files, font, saving, undoing, events>>
  BY DEF RestoreSnapshot
<1>1. PICK loaded \in SUBSET Roles :
           LET pages == Load(loaded, resident)
               have == complete \cup loaded
           IN /\ TryLoads(f, complete, loaded)
              /\ IF Restored(f, have, pages)
                   THEN /\ resident' = pages /\ complete' = have
                        /\ queue' = Tail(queue)
                        /\ UNCHANGED <<pc, todo, generation>>
                   ELSE \/ /\ Discard(f)
                           /\ queue' = Tail(queue)
                           /\ generation' = Append(generation, f)
                        \/ /\ failures' # failures
                           /\ resident' = pages /\ complete' = have
                           /\ UNCHANGED <<queue, generation, pc, todo>>
  BY DEF RestoreSnapshot
<1>2. FilesOK /\ MemoryOK /\ FaultsOK /\ UndoOK /\ TodoOK /\ JobsOK /\ Held(resident)
  BY TypeParts DEF MemoryOK, Held
<1>3. /\ \A r \in loaded : Loadable(r)
      /\ FaultsOK' /\ leftovers' = leftovers
  BY <1>0, <1>1, <1>2, TryLoadsIs
<1>4. UndoOK'
  BY <1>0, <1>2, SameUndo
<1>5. font = NoFont /\ backup = NoFiles /\ todo = <<>> /\ font' = NoFont
      /\ UNCHANGED disk /\ UNCHANGED backup
  BY <1>0, <1>2 DEF IInv, ControlOK, QuietSteps, GroupSteps, Saving, files, TodoOK, WriteSteps
<1>6. ASSUME resident' = Load(loaded, resident), complete' = complete \cup loaded
      PROVE  MemoryOK'
  BY <1>2, <1>3, <1>6, LoadedMemory DEF MemoryOK
<1>q. /\ Once(Tail(queue)) /\ Tail(queue) \in Seq(Fonts) /\ f \in Fonts
      /\ ToSet(Tail(queue)) \subseteq ToSet(queue) /\ f \notin ToSet(Tail(queue))
      /\ f \in ToSet(queue)
  BY <1>0, QueueShorter
<1> HIDE DEF f
<1>7. CASE /\ resident' = Load(loaded, resident) /\ complete' = complete \cup loaded
           /\ queue' = Tail(queue) /\ UNCHANGED <<pc, todo, generation>>
  <2>1. QueuesOK' /\ JobsOK'
    BY <1>0, <1>2, <1>5, <1>7, <1>q DEF IInv, QueuesOK, JobsOK, saving
  <2> QED BY <1>0, <1>3, <1>4, <1>5, <1>6, <1>7, <2>1, RestOK DEF QuietSteps
<1>8. CASE /\ failures' # failures /\ resident' = Load(loaded, resident)
           /\ complete' = complete \cup loaded /\ UNCHANGED <<queue, generation, pc, todo>>
  <2>1. QueuesOK' /\ JobsOK'
    BY <1>0, <1>2, <1>5, <1>8 DEF IInv, QueuesOK, JobsOK, saving
  <2> QED BY <1>0, <1>3, <1>4, <1>5, <1>6, <1>8, <2>1, RestOK DEF QuietSteps
<1>9. CASE Discard(f) /\ queue' = Tail(queue) /\ generation' = Append(generation, f)
  <2>1. PICK g : g = Append(generation, f)
    OBVIOUS
  <2>2. generation \in Seq(Fonts) /\ f \notin ToSet(generation) /\ Once(generation)
    BY <1>2, <1>q DEF IInv, QueuesOK, JobsOK
  <2>3. g \in Seq(Fonts) /\ g # <<>>
    <3>1. Len(generation) \in Nat /\ g \in Seq(Fonts) /\ Len(g) = Len(generation) + 1
      BY <1>q, <2>1, <2>2, OneMore
    <3> QED BY <3>1
  <2>4. Once(g) /\ ToSet(g) = ToSet(generation) \cup {f}
    BY <1>q, <2>1, <2>2, OnceLast
  <2>5. generation' = g /\ queue' = Tail(queue) /\ font' = NoFont /\ NoFont \notin Fonts
    BY <1>5, <1>9, <2>1, OwnIs
  <2>6. ToSet(g) \subseteq Fonts /\ ToSet(Tail(queue)) \subseteq Fonts
    BY <1>q, <2>3 DEF ToSet
  <2>7. QueuesOK' /\ JobsOK'
    BY <1>0, <1>2, <1>q, <2>3, <2>4, <2>5, <2>6 DEF IInv, QueuesOK, JobsOK, saving
  <2> QED BY <1>0, <1>3, <1>4, <1>5, <1>9, <1>q, <2>3, <2>4, <2>5, <2>7, DiscardOK
<1> QED BY <1>1, <1>7, <1>8, <1>9 DEF f

\* BatchFails: the font that is generated next is discarded once more.
LEMMA BatchFailsOK ==
  ASSUME IInv, BatchFails
  PROVE  IInv'
<1>1. /\ pc = "restore" /\ generation # <<>> /\ Fails /\ Discard(Head(generation))
      /\ UNCHANGED <<files, jobs, saving, undoing, events>>
  BY DEF BatchFails
<1>2. PICK f \in Fonts : f = Head(generation)
  <2>1. generation \in Seq(Fonts)
    BY TypeParts DEF JobsOK
  <2> QED BY <1>1, <2>1, TailIs
<1>3. JobsOK' /\ QueuesOK' /\ UndoOK' /\ FaultsOK' /\ leftovers' = leftovers
  BY <1>1, TypeParts, SameUndo, FailsFaults DEF JobsOK, IInv, QueuesOK, jobs, saving
<1> QED BY <1>1, <1>2, <1>3, DiscardOK DEF jobs

\* A file that is to be put has a content that nobody has, and its own payload.
New(file, r) ==
  file = Missing \/ (file.payload = r /\ ~file.marked /\ file.content \in Unused)

\* What the steps that start a publication use of a stream's list.
StreamOf(r, n, g) == Puts(r, n, NewFile(g, n, FALSE, r)) \o Deletes(r, n + 1, MaxPages)
Publishes(s, r) ==
  /\ s \in Seq(Operations) /\ Covers(s, r, Pages)
  /\ \A o \in ToSet(s) : o.key[1] = r /\ ~o.file.repacked /\ New(o.file, r)

\* The list of the pages a stream publishes.
LEMMA StreamIs ==
  ASSUME NEW r \in Roles, NEW n \in Pages, NEW file \in File, ~file.repacked, New(file, r),
         NEW s, s = Puts(r, n, file) \o Deletes(r, n + 1, MaxPages)
  PROVE  Publishes(s, r)
<1>1. /\ n \in 0..MaxPages /\ MaxPages \in 0..MaxPages /\ n + 1 \in Nat \ {0}
      /\ Pages = (1..n) \cup ((n + 1)..MaxPages)
  BY SnapshotAssumption DEF Pages
<1>2. PICK a, b : a = Puts(r, n, file) /\ b = Deletes(r, n + 1, MaxPages)
  OBVIOUS
<1>3. /\ a \in Seq(Operations) /\ \A o \in ToSet(a) : o.key[1] = r /\ o.file = file
      /\ Covers(a, r, 1..n)
  BY <1>1, <1>2, PutsAre
<1>4. /\ b \in Seq(Operations) /\ \A o \in ToSet(b) : o.key[1] = r /\ o.file = Missing
      /\ Covers(b, r, (n + 1)..MaxPages)
  BY <1>1, <1>2, DeletesAre
<1>5. s \in Seq(Operations) /\ ToSet(s) = ToSet(a) \cup ToSet(b)
  <2>1. s = a \o b
    BY <1>2
  <2> QED BY <1>3, <1>4, <2>1, JoinOps
<1>6. Covers(s, r, Pages)
  BY <1>1, <1>3, <1>4, <1>5 DEF Covers
<1>7. ~Missing.repacked /\ New(Missing, r)
  BY FilesAre DEF New
<1>8. \A o \in ToSet(s) : o.key[1] = r /\ ~o.file.repacked /\ New(o.file, r)
  BY <1>3, <1>4, <1>5, <1>7
<1> QED BY <1>5, <1>6, <1>8 DEF Publishes

\* The stream of a role publishes the role's pages only, and all of them.
LEMMA StreamPublishes ==
  ASSUME NEW r \in Roles, NEW n \in Pages, NEW g \in 0..MaxGeneration, g \in Unused
  PROVE  Publishes(StreamOf(r, n, g), r)
<1>1. PICK s : s = StreamOf(r, n, g)
  OBVIOUS
<1>2. PICK file \in File : file = NewFile(g, n, FALSE, r)
  BY NewFileIs
<1>3. New(file, r) /\ ~file.repacked
  BY <1>2 DEF New, NewFile
<1>4. s = Puts(r, n, file) \o Deletes(r, n + 1, MaxPages)
  BY <1>1, <1>2 DEF StreamOf
<1>5. Publishes(s, r)
  BY <1>3, <1>4, StreamIs
<1> QED BY <1>1, <1>5

\* What PublishStream is to publish: all pages of both roles of the next font.
LEMMA PublishList ==
  ASSUME PublishStream, NEW f \in Fonts, font' = f
  PROVE  /\ pc' = "publish" /\ todo' \in Seq(Operations)
         /\ \A o \in Pending' : /\ o.key[1] \in Own(f) /\ ~o.file.repacked
                                /\ New(o.file, o.key[1])
         /\ \A k \in Keys : k[1] \in Own(f) => ToDo(k)'
<1>1. /\ Fresh \in 0..MaxGeneration /\ Fresh2 \in 0..MaxGeneration
      /\ Fresh \in Unused /\ Fresh2 \in Unused
  BY FreshIs DEF PublishStream
<1>2. PICK u \in Roles, v \in Roles : /\ u = RolesOf(f)[1] /\ v = RolesOf(f)[2]
                                     /\ Own(f) = {u, v}
  BY OwnIs DEF RolesOf
<1>3. PICK n \in Pages, m \in Pages :
         /\ pc' = "publish"
         /\ todo' = (Puts(u, n, NewFile(Fresh, n, FALSE, u)) \o Deletes(u, n + 1, MaxPages))
                 \o (Puts(v, m, NewFile(Fresh2, m, FALSE, v)) \o Deletes(v, m + 1, MaxPages))
  <2>1. PICK l \in [1..2 -> Pages] :
           LET stream(i, g) ==
                   LET r == RolesOf(font')[i]
                   IN Puts(r, l[i], NewFile(g, l[i], FALSE, r))
                          \o Deletes(r, l[i] + 1, MaxPages)
           IN Begin("publish", stream(1, Fresh) \o stream(2, Fresh2))
    BY DEF PublishStream
  <2>2. /\ pc' = "publish"
        /\ todo' = (Puts(RolesOf(font')[1], l[1],
                        NewFile(Fresh, l[1], FALSE, RolesOf(font')[1]))
                      \o Deletes(RolesOf(font')[1], l[1] + 1, MaxPages))
                 \o (Puts(RolesOf(font')[2], l[2],
                        NewFile(Fresh2, l[2], FALSE, RolesOf(font')[2]))
                      \o Deletes(RolesOf(font')[2], l[2] + 1, MaxPages))
    BY <2>1 DEF Begin
  <2>3. RolesOf(font')[1] = u /\ RolesOf(font')[2] = v /\ l[1] \in Pages /\ l[2] \in Pages
    BY <1>2
  <2>4. PICK n \in Pages, m \in Pages : n = l[1] /\ m = l[2]
    BY <2>3
  <2>5. /\ pc' = "publish"
        /\ todo' = (Puts(u, n, NewFile(Fresh, n, FALSE, u)) \o Deletes(u, n + 1, MaxPages))
                 \o (Puts(v, m, NewFile(Fresh2, m, FALSE, v)) \o Deletes(v, m + 1, MaxPages))
    BY <2>2, <2>3, <2>4
  <2> QED BY <2>5
<1>4. PICK a, b :
         /\ a = Puts(u, n, NewFile(Fresh, n, FALSE, u)) \o Deletes(u, n + 1, MaxPages)
         /\ b = Puts(v, m, NewFile(Fresh2, m, FALSE, v)) \o Deletes(v, m + 1, MaxPages)
         /\ todo' = a \o b
  BY <1>3
<1>5. /\ a \in Seq(Operations) /\ Covers(a, u, Pages)
      /\ \A o \in ToSet(a) : o.key[1] = u /\ ~o.file.repacked /\ New(o.file, u)
  <2>1. PICK g \in 0..MaxGeneration : g = Fresh
    BY <1>1
  <2>2. a = StreamOf(u, n, g)
    BY <1>4, <2>1 DEF StreamOf
  <2>3. Publishes(a, u)
    BY <1>1, <2>1, <2>2, StreamPublishes
  <2> QED BY <2>3 DEF Publishes
<1>6. /\ b \in Seq(Operations) /\ Covers(b, v, Pages)
      /\ \A o \in ToSet(b) : o.key[1] = v /\ ~o.file.repacked /\ New(o.file, v)
  <2>1. PICK g \in 0..MaxGeneration : g = Fresh2
    BY <1>1
  <2>2. b = StreamOf(v, m, g)
    BY <1>4, <2>1 DEF StreamOf
  <2>3. Publishes(b, v)
    BY <1>1, <2>1, <2>2, StreamPublishes
  <2> QED BY <2>3 DEF Publishes
<1>7. todo' \in Seq(Operations) /\ Pending' = ToSet(a) \cup ToSet(b)
  BY <1>4, <1>5, <1>6, JoinOps DEF Pending
<1>8. \A o \in Pending' : /\ o.key[1] \in Own(f) /\ ~o.file.repacked
                         /\ New(o.file, o.key[1])
  BY <1>2, <1>5, <1>6, <1>7
<1>9. \A k \in Keys : k[1] \in Own(f) => ToDo(k)'
  <2> SUFFICES ASSUME NEW k \in Keys, k[1] \in Own(f) PROVE \E o \in Pending' : o.key = k
    BY DEF ToDo
  <2>1. PICK p \in Pages : k = <<k[1], p>>
    BY KeysAre
  <2>2. k = <<u, p>> \/ k = <<v, p>>
    BY <1>2, <2>1
  <2> QED BY <1>5, <1>6, <1>7, <2>2 DEF Covers
<1> QED BY <1>3, <1>7, <1>8, <1>9

\* PublishStream: the streamed pages of both roles are to be published.
LEMMA PublishStreamOK ==
  ASSUME IInv, PublishStream
  PROVE  IInv'
<1>0. /\ pc = "restore" /\ generation # <<>> /\ font' = Head(generation)
      /\ generation' = Tail(generation) /\ queue = <<>> /\ queue' = queue
      /\ UNCHANGED <<files, memory, saving, undoing, faults, events>>
  BY DEF PublishStream
<1>1. FilesOK /\ MemoryOK /\ FaultsOK /\ UndoOK /\ TodoOK /\ JobsOK
  BY TypeParts
<1>2. PICK gen \in Seq(Fonts) : gen = generation
  BY <1>1 DEF JobsOK
<1>3. /\ Head(gen) \in Fonts /\ Tail(gen) \in Seq(Fonts) /\ Once(Tail(gen))
      /\ Head(gen) \notin ToSet(Tail(gen))
      /\ 1 \in DOMAIN gen /\ gen[1] = Head(gen)
      /\ \A j \in DOMAIN Tail(gen) : j + 1 \in DOMAIN gen /\ Tail(gen)[j] = gen[j + 1]
  BY <1>0, <1>2, TailIs, OnceTail DEF IInv, QueuesOK
<1>4. PICK f \in Fonts : f = Head(gen)
  BY <1>3
<1>5. /\ pc' = "publish" /\ todo' \in Seq(Operations)
      /\ \A o \in Pending' : o.key[1] \in Own(f) /\ ~o.file.repacked
      /\ \A k \in Keys : k[1] \in Own(f) => ToDo(k)'
  <2>1. font' = f
    BY <1>0, <1>2, <1>4
  <2> QED BY <2>1, PublishList
<1>6. /\ UNCHANGED disk /\ UNCHANGED backup /\ font = NoFont /\ backup = NoFiles
       /\ role' = role /\ targets' = targets /\ leftovers' = leftovers
  BY <1>0 DEF files, saving, faults, IInv, ControlOK, QuietSteps, GroupSteps, Saving
<1>7. FilesOK' /\ TodoOK' /\ MemoryOK' /\ UndoOK' /\ FaultsOK'
  BY <1>0, <1>1, <1>5, <1>6, SameMemory, SameUndo
     DEF FilesOK, TodoOK, WriteSteps, Steps, FaultsOK, faults
<1>8. QueuesOK' /\ JobsOK'
  BY <1>0, <1>1, <1>2, <1>3, <1>4, <1>6, NoneIs DEF QueuesOK, JobsOK
<1>9. f # NoFont
  BY OwnIs
<1>10. ControlOK' /\ GroupOK' /\ AimOK'
  BY <1>0, <1>2, <1>4, <1>5, <1>6, <1>9
     DEF ControlOK, QuietSteps, GroupSteps, Saving, GroupOK, GroupSaving, AimOK
<1>11. CountedOK'
  BY <1>5, <1>6 DEF IInv, CountedOK, Counted
<1>12. FontOK'
  <2> SUFFICES ASSUME NEW r \in Roles, leftovers' <= Tolerated(r) PROVE RoleOK(r)'
    BY DEF FontOK
  <2>1. WholeOK(r) /\ GenerationOK(r)
    BY <1>6 DEF IInv, FontOK, RoleOK
  <2>2. (WholeOK(r) /\ StreamedOK(r) /\ WrittenOK(r))'
    BY <1>5, <1>6, <2>1 DEF WholeOK, Whole, StreamedOK, WrittenOK, Saving
  <2>3. r \in ToSet(gen) => \A p \in Pages : disk[<<r, p>>].repacked => leftovers = 1
    BY <1>0, <1>2, <2>1 DEF GenerationOK
  <2>4. f \in ToSet(gen) /\ ToSet(Tail(gen)) \subseteq ToSet(gen)
    BY <1>0, <1>2, <1>4, TailIs
  <2>5. PublishOK(r)'
    <3> SUFFICES ASSUME r \in Own(f), NEW p \in Pages, disk[<<r, p>>].repacked
                 PROVE  ToDo(<<r, p>>)' /\ (r = Double \/ leftovers = 1)
      BY <1>0, <1>2, <1>4, <1>6 DEF PublishOK
    <3> QED BY <1>5, <2>3, <2>4, KeysAre, OwnIs
  <2>6. GenerationOK(r)'
    BY <1>0, <1>2, <1>6, <2>3, <2>4 DEF GenerationOK
  <2> QED BY <2>2, <2>5, <2>6 DEF RoleOK
<1> QED BY <1>7, <1>8, <1>10, <1>11, <1>12, Assemble

\* PublishFails: a streamed page cannot be published.
LEMMA PublishFailsOK ==
  ASSUME IInv, PublishFails
  PROVE  IInv'
<1>1. font # NoFont
  BY DEF PublishFails, IInv, ControlOK
<1>2. MemoryOK' /\ UndoOK' /\ FaultsOK' /\ leftovers' = leftovers
  BY TypeParts, SameMemory, SameUndo, FailsFaults DEF PublishFails, PutFails
<1>3. role' \in Roles /\ targets' \in Seq(Roles)
  BY TypeParts DEF PublishFails, saving, JobsOK
<1> QED BY <1>1, <1>2, <1>3, AgainOK DEF PublishFails, PutFails

\* StageMetadata: the published pages are staged; no page of the font is repacked.
LEMMA StageMetadataOK ==
  ASSUME IInv, StageMetadata
  PROVE  IInv'
<1>0. /\ pc = "publish" /\ todo = <<>> /\ complete' = complete \ Own(font)
      /\ UNCHANGED <<files, saving, undoing, events>>
  BY DEF StageMetadata, Done
<1>1. FilesOK /\ MemoryOK /\ FaultsOK /\ UndoOK /\ TodoOK /\ JobsOK
  BY TypeParts
<1>2. font # NoFont /\ font \in Fonts
  BY <1>0, <1>1 DEF IInv, ControlOK, JobsOK
<1>3. UndoOK' /\ role' \in Roles /\ targets' \in Seq(Roles)
  BY <1>0, <1>1, SameUndo DEF saving, JobsOK
<1>4. CASE /\ Works /\ pc' = "save" /\ UNCHANGED <<todo, jobs>>
           /\ resident' = [r \in Roles |-> IF r \in Own(font) THEN PagesFrom(r, "none")
                                           ELSE resident[r]]
  <2>1. MemoryOK'
    <3>1. \A r \in Roles : PagesFrom(r, "none") \in Seq(Page)
                           /\ Len(PagesFrom(r, "none")) <= MaxPages
      BY <1>1, PagesFromIs, PageCount
    <3> QED BY <1>0, <1>1, <1>4, <3>1 DEF MemoryOK
  <2>2. FaultsOK' /\ leftovers' = leftovers
    BY <1>0, <1>1, <1>4, WorksFaults
  <2>3. /\ UNCHANGED <<disk, backup, queue, generation, font, role, targets, todo>>
    BY <1>0, <1>4 DEF files, jobs, saving
  <2>4. FilesOK' /\ JobsOK' /\ TodoOK' /\ QueuesOK' /\ CountedOK'
    BY <1>0, <1>1, <1>4, <2>3
       DEF FilesOK, JobsOK, TodoOK, Steps, IInv, QueuesOK, CountedOK, Pending
  <2>5. ControlOK' /\ GroupOK' /\ AimOK'
    BY <1>0, <1>2, <1>4, <2>3
       DEF IInv, ControlOK, GroupSteps, QuietSteps, Saving, GroupOK, GroupSaving, AimOK
  <2>6. FontOK'
    <3> SUFFICES ASSUME NEW r \in Roles, leftovers' <= Tolerated(r) PROVE RoleOK(r)'
      BY DEF FontOK
    <3>1. WholeOK(r) /\ PublishOK(r) /\ GenerationOK(r)
      BY <2>2 DEF IInv, FontOK, RoleOK
    <3>2. Pending = {}
      BY <1>0, NoneIs DEF Pending
    <3>3. r \in Own(font) => \A p \in Pages : ~disk[<<r, p>>].repacked
      BY <1>0, <3>1, <3>2 DEF PublishOK, ToDo
    <3>4. (WholeOK(r) /\ WrittenOK(r) /\ PublishOK(r))'
      BY <1>4, <2>3, <3>1 DEF WholeOK, Whole, WrittenOK, PublishOK, Saving
    <3>5. StreamedOK(r)'
      BY <1>4, <2>3, <3>3 DEF StreamedOK, Streamed
    <3>6. GenerationOK(r)'
      BY <1>0, <1>4, <2>2, <2>3, <3>1 DEF GenerationOK
    <3> QED BY <3>4, <3>5, <3>6 DEF RoleOK
  <2> QED BY <1>3, <2>1, <2>2, <2>4, <2>5, <2>6, Assemble
<1>5. CASE Fails /\ Again /\ UNCHANGED resident
  <2>1. MemoryOK'
    BY <1>0, <1>1, <1>5 DEF MemoryOK
  <2>2. FaultsOK' /\ leftovers' = leftovers
    BY <1>0, <1>1, <1>5, FailsFaults
  <2> QED BY <1>0, <1>2, <1>3, <1>5, <2>1, <2>2, AgainOK
<1> QED BY <1>4, <1>5 DEF StageMetadata

\* The group has roles.
LEMMA GroupRolesAre ==
  /\ GroupRoles \in Seq(Roles) /\ GroupRoles # <<>> /\ Len(GroupRoles) >= 2
  /\ ToSet(GroupRoles) = Roles
  /\ GroupRoles[1] = OwnerRole /\ GroupRoles[2] = Double /\ OwnerRole # Double
<1> DEFINE m == NumFonts - 1
           s == [i \in 1..m |-> i + 1]
<1>1. m \in Nat /\ NumFonts = m + 1 /\ OwnerRole \in Roles /\ Double \in Roles
      /\ OwnerRole # Double
  BY OwnIs, SnapshotAssumption DEF OwnerRole
<1>2. \A i \in 1..m : i + 1 \in Roles
  BY <1>1 DEF Roles, Fonts
<1>3. s \in Seq(Roles) /\ DOMAIN s = 1..m /\ \A i \in 1..m : s[i] = i + 1
  BY <1>1, <1>2
<1>4. ToSet(s) = 2..NumFonts
  <2>1. \A j \in 2..NumFonts : j - 1 \in 1..m /\ s[j - 1] = j
    BY <1>1
  <2>2. \A i \in 1..m : s[i] \in 2..NumFonts
    BY <1>1
  <2> HIDE DEF s
  <2> QED BY <1>3, <2>1, <2>2 DEF ToSet
<1> HIDE DEF m, s
<1>5. PICK u \in Roles, v \in Roles : u = OwnerRole /\ v = Double
  BY <1>1
<1>6. PICK h : /\ h = <<u, v>> /\ h \in Seq(Roles) /\ Len(h) = 2 /\ h[1] = u /\ h[2] = v
               /\ ToSet(h) = {u, v}
  <2>1. <<u, v>> \in Seq(Roles) /\ Len(<<u, v>>) = 2 /\ <<u, v>>[1] = u /\ <<u, v>>[2] = v
    OBVIOUS
  <2>2. ToSet(<<u, v>>) = {u, v}
    BY DEF ToSet
  <2> QED BY <2>1, <2>2
<1>7. GroupRoles = h \o s
  BY <1>5, <1>6 DEF GroupRoles, s, m
<1>8. PICK g : g = h \o s
  OBVIOUS
<1>9. g \in Seq(Roles) /\ ToSet(g) = {u, v} \cup (2..NumFonts)
  <2>1. h \in Seq(Roles) /\ s \in Seq(Roles)
    BY <1>3, <1>6
  <2>2. (h \o s) \in Seq(Roles) /\ ToSet(h \o s) = ToSet(h) \cup ToSet(s)
    BY <2>1, JoinIs
  <2> QED BY <1>4, <1>6, <1>8, <2>2
<1>10. Len(g) >= 2 /\ g[1] = u /\ g[2] = v /\ g # <<>>
  BY <1>3, <1>6, <1>8
<1>11. {u, v} \cup (2..NumFonts) = Roles
  BY <1>1, <1>5 DEF Roles, Fonts, OwnerRole
<1> QED BY <1>1, <1>5, <1>7, <1>8, <1>9, <1>10, <1>11

\* The operation is one of a save of n pages of a role, with the given content.
SavedAs(o, r, g, n) ==
  /\ o.key[1] = r /\ Counted(o.key, o.file)
  /\ o.file = IF o.key[2] \in 1..n THEN NewFile(g, n, TRUE, r) ELSE Missing
  /\ o.file.repacked => o.file.content = g /\ o.file.count = n /\ o.key[2] \in 1..n
  /\ o.key[2] \in 1..n => o.file.count = n

\* A save lists the pages of one role, all of one content.
LEMMA SaveList ==
  ASSUME IInv, NEW r \in Roles, NEW aliases \in Seq(Roles), NEW n \in Pages,
         StartSave(r, aliases, n)
  PROVE  /\ pc' = "saveOwn" /\ role' = r /\ targets' = aliases /\ MemoryOK'
         /\ Fresh \in 0..MaxGeneration /\ todo' \in Seq(Operations)
         /\ \A o \in Pending' : SavedAs(o, r, Fresh, n)
         /\ \E o \in Pending' : o.key = <<r, 1>>
         /\ todo' # <<>> /\ Head(todo').key = <<r, 1>>
<1>1. /\ role' = r /\ targets' = aliases /\ complete' = complete \ {r}
      /\ resident' = resident /\ pc' = "saveOwn" /\ Fresh \in 0..MaxGeneration
      /\ todo' = Puts(r, n, NewFile(Fresh, n, TRUE, r))
                   \o Deletes(r, n + 1, Len(resident[r]))
  BY FreshIs DEF StartSave, Begin
<1>2. MemoryOK /\ Len(resident[r]) \in 0..MaxPages
  <2>1. MemoryOK
    BY TypeParts
  <2>2. resident[r] \in Seq(Page) /\ Len(resident[r]) <= MaxPages /\ MaxPages \in Nat
    BY <2>1, SnapshotAssumption DEF MemoryOK
  <2>3. Len(resident[r]) \in Nat
    BY <2>2
  <2> QED BY <2>1, <2>2, <2>3
<1>3. MemoryOK'
  BY <1>1, <1>2 DEF MemoryOK
<1>4. n \in 0..MaxPages /\ n + 1 \in Nat \ {0} /\ n \in Nat /\ 1 \in 1..n
  BY SnapshotAssumption DEF Pages
<1>5. PICK file \in File : /\ file = NewFile(Fresh, n, TRUE, r) /\ file.content = Fresh
                          /\ file.count = n
  <2>1. /\ NewFile(Fresh, n, TRUE, r) \in File /\ NewFile(Fresh, n, TRUE, r).content = Fresh
        /\ NewFile(Fresh, n, TRUE, r).count = n
    <3>1. PICK g \in 0..MaxGeneration, packed \in BOOLEAN : g = Fresh /\ packed = TRUE
      BY <1>1
    <3>2. /\ NewFile(g, n, packed, r) \in File /\ NewFile(g, n, packed, r).content = g
          /\ NewFile(g, n, packed, r).count = n
      BY NewFileIs
    <3> QED BY <3>1, <3>2
  <2> QED BY <2>1
<1>6. PICK m \in 0..MaxPages : m = Len(resident[r])
  BY <1>2
<1>7. PICK a, b : a = Puts(r, n, file) /\ b = Deletes(r, n + 1, m)
  OBVIOUS
<1>8. /\ a \in Seq(Operations)
      /\ \A o \in ToSet(a) : o.key[1] = r /\ o.key[2] \in 1..n /\ o.file = file
      /\ Covers(a, r, 1..n)
  BY <1>4, <1>7, PutsAre
<1>9. /\ b \in Seq(Operations) /\ \A o \in ToSet(b) : o.key[1] = r /\ o.file = Missing
  <2>1. PICK first \in Nat \ {0} : first = n + 1
    BY <1>4
  <2>2. /\ Deletes(r, first, m) \in Seq(Operations)
        /\ \A o \in ToSet(Deletes(r, first, m)) : o.key[1] = r /\ o.file = Missing
    BY DeletesAre
  <2> QED BY <1>7, <2>1, <2>2
<1>a. b # <<>> => \A o \in ToSet(b) : o.key[2] \notin 1..n
  <2>1. \A i \in 1..(m + 1 - (n + 1)) :
           b[i].key = <<r, n + 1 + i - 1>> /\ n + 1 + i - 1 \notin 1..n
    BY <1>4, <1>7 DEF Deletes, Put
  <2>2. DOMAIN b = 1..(m + 1 - (n + 1))
    BY <1>7 DEF Deletes
  <2> QED BY <2>1, <2>2 DEF ToSet
<1>10. /\ todo' = a \o b
  BY <1>1, <1>5, <1>6, <1>7
<1>11. todo' \in Seq(Operations) /\ Pending' = ToSet(a) \cup ToSet(b)
  BY <1>8, <1>9, <1>10, JoinOps DEF Pending
<1>12. \E o \in Pending' : o.key = <<r, 1>>
  BY <1>4, <1>8, <1>11 DEF Covers
<1>c. todo' # <<>> /\ Head(todo').key = <<r, 1>>
  <2>1. Len(a) \in Nat /\ Len(b) \in Nat /\ Len(a \o b) = Len(a) + Len(b) /\ Len(a) = n
        /\ a[1].key = <<r, 1>>
    BY <1>4, <1>7, <1>8, <1>9 DEF Puts, Put
  <2>2. 1 <= Len(a)
    BY <1>4, <2>1
  <2>3. (a \o b)[1] = a[1] /\ a \o b # <<>> /\ Head(a \o b) = (a \o b)[1]
    BY <1>8, <1>9, <2>1, <2>2
  <2> QED BY <1>10, <2>1, <2>3
<1>13. \A o \in ToSet(a) : SavedAs(o, r, Fresh, n)
  <2> SUFFICES ASSUME NEW o \in ToSet(a) PROVE SavedAs(o, r, Fresh, n)
    OBVIOUS
  <2>1. o.key[1] = r /\ o.key[2] \in 1..n /\ o.file = file
    BY <1>8
  <2>2. o.file.count = n /\ o.file.content = Fresh
    BY <1>5, <2>1
  <2>3. o.key[2] <= n
    BY <1>4, <2>1
  <2> QED BY <1>5, <2>1, <2>2, <2>3 DEF Counted, SavedAs
<1>14. \A o \in ToSet(b) : SavedAs(o, r, Fresh, n)
  <2>1. \A o \in ToSet(b) : /\ o.key[1] = r /\ ~o.file.repacked /\ o.key[2] \notin 1..n
                             /\ o.file = Missing
    BY <1>9, <1>a, NoneIs, FilesAre
  <2> QED BY <2>1 DEF SavedAs, Counted
<1> QED BY <1>1, <1>3, <1>11, <1>12, <1>13, <1>14, <1>c

\* A font's role is to be saved over its streamed pages.
LEMMA FontSave ==
  ASSUME IInv, font # NoFont, pc \in {"save", "saveOwn"}, NEW r \in Own(font),
         NEW aliases, NEW n \in Pages, StartSave(r, aliases, n),
         UNCHANGED <<files, jobs, undoing, events>>, Works,
         \/ r = font /\ aliases \in {<<>>, <<Double>>}
         \/ r = Double /\ aliases = <<>>,
         \A x \in {r, Double} : leftovers <= Tolerated(x) => Streamed(x)
  PROVE  IInv'
<1>1. FilesOK /\ JobsOK /\ UndoOK /\ FaultsOK /\ TodoOK
  BY TypeParts
<1>2. font \in Fonts /\ r \in Roles /\ aliases \in Seq(Roles)
  <2>1. font \in Fonts
    BY <1>1 DEF JobsOK
  <2>2. Double \in Roles /\ r \in Roles
    BY <2>1, OwnIs
  <2>3. PICK x \in Roles : x = Double
    BY <2>2
  <2>4. <<>> \in Seq(Roles) /\ <<x>> \in Seq(Roles)
    OBVIOUS
  <2> QED BY <2>1, <2>2, <2>3, <2>4
<1>3. /\ pc' = "saveOwn" /\ role' = r /\ targets' = aliases /\ MemoryOK'
      /\ Fresh \in 0..MaxGeneration /\ todo' \in Seq(Operations)
      /\ \A o \in Pending' : /\ o.key[1] = r /\ Counted(o.key, o.file)
                             /\ o.file.repacked => o.file.content = Fresh
  BY <1>2, SaveList DEF SavedAs
<1>4. /\ UNCHANGED <<disk, backup, queue, generation, font>>
  BY DEF files, jobs
<1>5. FilesOK' /\ JobsOK' /\ UndoOK' /\ FaultsOK' /\ TodoOK' /\ leftovers' = leftovers
  BY <1>1, <1>2, <1>3, <1>4, SameUndo, WorksFaults
     DEF FilesOK, JobsOK, TodoOK, WriteSteps, Steps
<1>6. QueuesOK' /\ CountedOK'
  BY <1>3, <1>4 DEF IInv, QueuesOK, CountedOK
<1>7. ControlOK' /\ GroupOK' /\ AimOK'
  BY <1>3, <1>4 DEF IInv, ControlOK, GroupSteps, QuietSteps, Saving, GroupOK, GroupSaving,
                    AimOK, Written
<1>8. FontOK'
  <2> SUFFICES ASSUME NEW x \in Roles, leftovers' <= Tolerated(x) PROVE RoleOK(x)'
    BY DEF FontOK
  <2>1. WholeOK(x) /\ GenerationOK(x) /\ (x \in {r, Double} => Streamed(x))
    BY <1>5 DEF IInv, FontOK, RoleOK
  <2>2. WholeOK(x)' /\ PublishOK(x)'
    BY <1>3, <1>4, <2>1 DEF WholeOK, Whole, PublishOK
  <2>3. StreamedOK(x)'
    BY <1>3, <1>4, <2>1 DEF StreamedOK, Streamed
  <2>4. WrittenOK(x)'
    <3> SUFFICES ASSUME x = r PROVE \E g \in 0..MaxGeneration : OneContent(x, g)'
      BY <1>3 DEF WrittenOK, Written
    <3>1. PICK g \in 0..MaxGeneration : g = Fresh
      BY <1>3
    <3>2. OneContent(x, g)'
      BY <1>3, <1>4, <2>1, <3>1 DEF OneContent, Streamed
    <3> QED BY <3>2
  <2>5. GenerationOK(x)'
    BY <1>3, <1>4, <1>5, <2>1 DEF GenerationOK
  <2> QED BY <2>2, <2>3, <2>4, <2>5 DEF RoleOK
<1> QED BY <1>3, <1>5, <1>6, <1>7, <1>8, Assemble

\* Save: the roles of a font, together or the first of them.
LEMMA SaveOK ==
  ASSUME IInv, Save
  PROVE  IInv'
<1>0. pc = "save" /\ UNCHANGED <<files, undoing, events>>
  BY DEF Save
<1>1. MemoryOK /\ FaultsOK /\ UndoOK /\ JobsOK
  BY TypeParts
<1>2. font # NoFont /\ font \in Fonts
  BY <1>0, <1>1 DEF IInv, ControlOK, JobsOK
<1>3. RolesOf(font)[1] = font /\ RolesOf(font)[2] = Double /\ Own(font) = {font, Double}
  BY OwnIs DEF RolesOf
<1>4. ASSUME Works, NEW n \in Pages, NEW aliases \in {<<>>, <<Double>>},
             StartSave(font, aliases, n), UNCHANGED <<queue, generation, font>>
      PROVE  IInv'
  <2>1. \A x \in {font, Double} : leftovers <= Tolerated(x) => Streamed(x)
    BY <1>0, <1>2, <1>3, OwnIs DEF IInv, FontOK, RoleOK, StreamedOK
  <2>2. UNCHANGED <<files, jobs, undoing, events>>
    BY <1>0, <1>4 DEF jobs
  <2>3. font \in Own(font)
    BY <1>3
  <2> QED BY <1>0, <1>2, <1>4, <2>1, <2>2, <2>3, FontSave
<1>5. ASSUME Fails \/ Works, Again, UNCHANGED <<memory, saving>>
      PROVE  IInv'
  <2>1. MemoryOK' /\ UndoOK' /\ FaultsOK' /\ leftovers' = leftovers
    BY <1>0, <1>1, <1>5, SameMemory, SameUndo, FailsFaults, WorksFaults
  <2>2. role' \in Roles /\ targets' \in Seq(Roles)
    BY <1>1, <1>5 DEF saving, JobsOK
  <2> QED BY <1>0, <1>2, <1>5, <2>1, <2>2, AgainOK
<1> QED BY <1>3, <1>4, <1>5 DEF Save

\* SaveDoubleByte: the other role of the font.
LEMMA SaveDoubleByteOK ==
  ASSUME IInv, SaveDoubleByte
  PROVE  IInv'
<1>0. /\ pc = "saveOwn" /\ todo = <<>> /\ targets = <<>> /\ role # Double
      /\ UNCHANGED <<files, undoing, events>>
  BY DEF SaveDoubleByte, Done
<1>1. MemoryOK /\ FaultsOK /\ UndoOK /\ JobsOK
  BY TypeParts
<1>2. font # NoFont /\ font \in Fonts /\ role = font
  BY <1>0, <1>1, GroupRolesAre DEF IInv, ControlOK, JobsOK, Saving
<1>3. RolesOf(font)[2] = Double /\ Double \in Own(font) /\ Double \in Roles
  BY OwnIs DEF RolesOf
<1>4. ASSUME Works, NEW n \in Pages, StartSave(Double, <<>>, n), UNCHANGED jobs
      PROVE  IInv'
  <2>1. leftovers <= Tolerated(Double) => Streamed(Double)
    BY <1>0, <1>2, <1>3 DEF IInv, FontOK, RoleOK, StreamedOK
  <2> QED BY <1>0, <1>2, <1>3, <1>4, <2>1, FontSave
<1>5. ASSUME Fails \/ Works, Again, UNCHANGED <<memory, saving>>
      PROVE  IInv'
  <2>1. MemoryOK' /\ UndoOK' /\ FaultsOK' /\ leftovers' = leftovers
    BY <1>0, <1>1, <1>5, SameMemory, SameUndo, FailsFaults, WorksFaults
  <2>2. role' \in Roles /\ targets' \in Seq(Roles)
    BY <1>1, <1>5 DEF saving, JobsOK
  <2> QED BY <1>0, <1>2, <1>5, <2>1, <2>2, AgainOK
<1> QED BY <1>3, <1>4, <1>5 DEF SaveDoubleByte

\* A save that fails leaves the page files as they are.
LEMMA SaveFailedIs ==
  ASSUME IInv, SaveFailed, UNCHANGED events
  PROVE  /\ pc \in Saving /\ UNCHANGED files /\ MemoryOK' /\ FaultsOK'
         /\ leftovers' = leftovers
<1>1. Fails /\ UNCHANGED files /\ UNCHANGED memory /\ pc \in Saving
  BY DEF SaveFailed, PutFails, Done, Saving
<1> QED BY <1>1, FailsFaults, SameMemory, TypeParts

\* SaveFails: the font starts again.
LEMMA SaveFailsOK ==
  ASSUME IInv, SaveFails
  PROVE  IInv'
<1>1. /\ font # NoFont /\ UNCHANGED files /\ MemoryOK' /\ FaultsOK'
      /\ leftovers' = leftovers /\ Again
  BY SaveFailedIs DEF SaveFails
<1>2. UndoOK' /\ role' \in Roles /\ targets' \in Seq(Roles)
  BY TypeParts, SameUndo DEF SaveFails, saving, JobsOK
<1> QED BY <1>1, <1>2, AgainOK

\* RebuildPublished: the saved font is loaded from its files.
LEMMA RebuildPublishedOK ==
  ASSUME IInv, RebuildPublished
  PROVE  IInv'
<1>0. /\ pc \in Saving /\ todo = <<>> /\ font # NoFont
      /\ UNCHANGED <<files, saving, undoing, events>>
  BY DEF RebuildPublished, Done, Saving
<1>1. FilesOK /\ MemoryOK /\ FaultsOK /\ UndoOK /\ JobsOK /\ font \in Fonts
  BY <1>0, TypeParts DEF JobsOK
<1>2. PICK loaded \in SUBSET Roles :
           /\ Rebuild(font, loaded)
           /\ IF Restored(font, complete', resident')
                THEN /\ Goto("restore") /\ font' = NoFont
                     /\ UNCHANGED <<queue, generation>>
                ELSE Again
  BY DEF RebuildPublished
<1>3. MemoryOK' /\ FaultsOK' /\ leftovers' = leftovers
  BY <1>0, <1>1, <1>2, RebuildIs
<1>4. UndoOK' /\ role' \in Roles /\ targets' \in Seq(Roles)
  BY <1>0, <1>1, SameUndo DEF saving, JobsOK
<1>5. CASE Again
  BY <1>0, <1>3, <1>4, <1>5, AgainOK
<1>6. CASE Goto("restore") /\ font' = NoFont /\ UNCHANGED <<queue, generation>>
  <2>1. backup = NoFiles /\ pc # "discard" /\ UNCHANGED disk /\ UNCHANGED backup
    BY <1>0 DEF IInv, ControlOK, files, Saving
  <2>2. pc' = "restore" /\ todo' = <<>>
    BY <1>0, <1>6 DEF Goto
  <2>3. NoFont \notin Fonts /\ queue \in Seq(Fonts) /\ generation \in Seq(Fonts)
    BY <1>1, OwnIs DEF JobsOK
  <2>4. ToSet(queue) \subseteq Fonts /\ ToSet(generation) \subseteq Fonts
    BY <2>3 DEF ToSet
  <2>5. QueuesOK' /\ JobsOK'
    BY <1>4, <1>6, <2>3, <2>4 DEF IInv, QueuesOK, JobsOK
  <2> QED BY <1>3, <1>4, <1>6, <2>1, <2>2, <2>5, RestOK DEF QuietSteps
<1> QED BY <1>2, <1>5, <1>6

-----------------------------------------------------------------------------
(* The lists made of the lists of several roles.                               *)
LEMMA InList ==
  /\ \A T, s : s \in Seq(T) => ToSet(s) \subseteq T
  /\ \A S, T, s : s \in Seq(S) /\ ToSet(s) \subseteq T => s \in Seq(T)
<1>1. ASSUME NEW T, NEW s \in Seq(T) PROVE ToSet(s) \subseteq T
  BY DEF ToSet
<1>2. ASSUME NEW S, NEW T, NEW s \in Seq(S), ToSet(s) \subseteq T PROVE s \in Seq(T)
  <2>1. /\ Len(s) \in Nat /\ DOMAIN s = 1..Len(s) /\ s = [i \in 1..Len(s) |-> s[i]]
        /\ \A i \in 1..Len(s) : s[i] \in ToSet(s)
    BY DEF ToSet
  <2>2. \A i \in 1..Len(s) : s[i] \in T
    BY <1>2, <2>1
  <2> QED BY <2>1, <2>2, ListIs
<1> QED BY <1>1, <1>2

\* The lists of several roles in one.
LEMMA FlattenList ==
  ASSUME NEW T, NEW s \in Seq(Roles), NEW ss, ss = [i \in DOMAIN s |-> ss[i]],
         \A i \in DOMAIN s : ss[i] \in Seq(T)
  PROVE  /\ FlattenSeq(ss) \in Seq(T)
         /\ \A i \in DOMAIN s : ToSet(ss[i]) \subseteq ToSet(FlattenSeq(ss))
         /\ Len(s) >= 2 /\ ss[1] = <<>> /\ ss[2] # <<>>
              => FlattenSeq(ss) # <<>> /\ Head(FlattenSeq(ss)) = Head(ss[2])
<1>1. Len(s) \in Nat /\ DOMAIN s = 1..Len(s)
  OBVIOUS
<1>2. DOMAIN ss = 1..Len(s) /\ ss = [i \in 1..Len(s) |-> ss[i]]
      /\ \A i \in 1..Len(s) : ss[i] \in Seq(T)
  BY <1>1
<1>3. PICK U : U = Seq(T)
  OBVIOUS
<1>4. ss \in Seq(U) /\ Len(ss) = Len(s)
  <2>1. \A i \in 1..Len(s) : ss[i] \in U
    BY <1>2, <1>3
  <2> QED BY <1>1, <1>2, <2>1, ListIs
<1>5. /\ FlattenSeq(ss) \in Seq(T)
      /\ \A i \in DOMAIN s : ToSet(ss[i]) \subseteq ToSet(FlattenSeq(ss))
  BY <1>1, <1>3, <1>4, FlattenIn
<1>6. Len(s) >= 2 /\ ss[1] = <<>> /\ ss[2] # <<>>
        => FlattenSeq(ss) # <<>> /\ Head(FlattenSeq(ss)) = Head(ss[2])
  BY <1>1, <1>3, <1>4, FlattenFirst
<1> QED BY <1>5, <1>6

\* What is put and deleted where the aliases of a role are replaced.
LEMMA AliasList ==
  ASSUME IInv, SaveAliases, NEW T \in SUBSET Operations, NEW alias,
         alias = [disk[<<role, 1>>] EXCEPT !.payload = role],
         \A o \in Operations :
            /\ o.key[1] \in ToSet(targets)
            /\ \/ o.key[2] \notin 1..Count(role) /\ o.file = Missing
               \/ o.key[1] # role /\ o.key[2] \in 1..Count(role) /\ o.file = alias
            => o \in T
  PROVE  /\ todo' \in Seq(T) /\ Pending' \subseteq T
         /\ \A t \in ToSet(targets), p \in 1..Count(role) : t # role => ToDo(<<t, p>>)'
         /\ Len(targets) >= 2 /\ targets[1] = role /\ targets[2] # role /\ Count(role) # 0
              => todo' # <<>> /\ Head(todo').key = <<targets[2], 1>>
<1> DEFINE n == Count(role)
           put(t) == IF t = role THEN <<>> ELSE Puts(t, n, alias)
           stale(t) == Deletes(t, n + 1, Len(resident[t]))
<1>1. /\ targets \in Seq(Roles) /\ role \in Roles /\ FilesOK /\ MemoryOK
      /\ \A i \in DOMAIN targets : targets[i] \in Roles /\ targets[i] \in ToSet(targets)
  BY TypeParts DEF JobsOK, ToSet
<1>2. n \in 0..MaxPages /\ n + 1 \in Nat \ {0}
  BY <1>1, PageCount
<1>3. alias \in File
  <2>1. disk[<<role, 1>>] \in File
    BY <1>1, OwnIs, KeysAre DEF FilesOK
  <2> QED BY <1>1, <2>1 DEF File
<1> HIDE DEF n
<1>4. ASSUME NEW t \in Roles, t \in ToSet(targets)
      PROVE  /\ put(t) \in Seq(T)
             /\ t # role => Covers(put(t), t, 1..n)
             /\ t = role => put(t) = <<>>
             /\ t # role /\ n # 0 => put(t) # <<>> /\ Head(put(t)).key = <<t, 1>>
  <2>1. CASE t = role
    BY <2>1, NoneIs
  <2>2. CASE t # role
    <3>1. /\ Puts(t, n, alias) \in Seq(Operations)
          /\ \A o \in ToSet(Puts(t, n, alias)) :
                o.key[1] = t /\ o.key[2] \in 1..n /\ o.file = alias
          /\ Covers(Puts(t, n, alias), t, 1..n)
      <4>1. PICK m \in 0..MaxPages, file \in File : m = n /\ file = alias
        BY <1>2, <1>3
      <4>2. /\ Puts(t, m, file) \in Seq(Operations)
            /\ \A o \in ToSet(Puts(t, m, file)) :
                  o.key[1] = t /\ o.key[2] \in 1..m /\ o.file = file
            /\ Covers(Puts(t, m, file), t, 1..m)
        BY PutsAre
      <4> QED BY <4>1, <4>2
    <3>2. ToSet(Puts(t, n, alias)) \subseteq Operations
      BY <3>1, InList
    <3>3. ToSet(Puts(t, n, alias)) \subseteq T
      BY <1>4, <2>2, <3>1, <3>2 DEF n
    <3>4. Puts(t, n, alias) \in Seq(T)
      BY <3>1, <3>3, InList
    <3>5. ASSUME n # 0 PROVE Puts(t, n, alias) # <<>> /\ Head(Puts(t, n, alias)).key = <<t, 1>>
      <4>1. PICK a : a = Puts(t, n, alias)
        OBVIOUS
      <4>2. n \in Nat /\ 1 \in 1..n
        BY <1>2, <3>5
      <4>3. 1 \in DOMAIN a /\ a[1].key = <<t, 1>>
        BY <4>1, <4>2 DEF Puts, Put
      <4>4. a # <<>> /\ Head(a) = a[1]
        BY <3>4, <4>1, <4>3
      <4> QED BY <4>1, <4>3, <4>4
    <3> QED BY <2>2, <3>1, <3>4, <3>5
  <2> QED BY <2>1, <2>2
<1>5. ASSUME NEW t \in Roles, t \in ToSet(targets) PROVE stale(t) \in Seq(T)
  <2>1. resident[t] \in Seq(Page) /\ Len(resident[t]) <= MaxPages /\ MaxPages \in Nat
    BY <1>1, SnapshotAssumption DEF MemoryOK
  <2>2. PICK m \in 0..MaxPages : m = Len(resident[t])
    <3>1. Len(resident[t]) \in Nat
      BY <2>1
    <3> QED BY <2>1, <3>1
  <2>3. /\ Deletes(t, n + 1, m) \in Seq(Operations)
        /\ \A o \in ToSet(Deletes(t, n + 1, m)) : o.key[1] = t /\ o.file = Missing
    BY <1>2, DeletesAre
  <2>a. \A o \in ToSet(Deletes(t, n + 1, m)) : o.key[2] \notin 1..n
    <3>1. PICK b : b = Deletes(t, n + 1, m)
      OBVIOUS
    <3>2. \A i \in 1..(m + 1 - (n + 1)) :
             b[i].key = <<t, n + 1 + i - 1>> /\ n + 1 + i - 1 \notin 1..n
      BY <1>2, <3>1 DEF Deletes, Put
    <3>3. DOMAIN b = 1..(m + 1 - (n + 1))
      BY <3>1 DEF Deletes
    <3>4. ASSUME NEW i \in DOMAIN b PROVE b[i].key[2] \notin 1..n
      <4>1. PICK x \in Int : x = n + 1 + i - 1
        BY <1>2, <3>3
      <4>2. b[i].key = <<t, x>> /\ x \notin 1..n
        BY <3>2, <3>3, <3>4, <4>1
      <4>3. b[i].key[2] = x
        BY <4>2
      <4> QED BY <4>2, <4>3
    <3>5. \A o \in ToSet(b) : o.key[2] \notin 1..n
      BY <3>4 DEF ToSet
    <3> QED BY <3>1, <3>5
  <2>4. ToSet(Deletes(t, n + 1, m)) \subseteq Operations
    BY <2>3, InList
  <2>5. ToSet(Deletes(t, n + 1, m)) \subseteq T
    BY <1>5, <2>3, <2>4, <2>a DEF n
  <2>6. Deletes(t, n + 1, m) \in Seq(T)
    BY <2>3, <2>5, InList
  <2> QED BY <2>2, <2>6
<1>6. todo' = FlattenSeq([i \in DOMAIN targets |-> put(targets[i])])
                 \o FlattenSeq([i \in DOMAIN targets |-> stale(targets[i])])
  BY DEF SaveAliases, Begin, n
<1> DEFINE puts == [i \in DOMAIN targets |-> put(targets[i])]
           stales == [i \in DOMAIN targets |-> stale(targets[i])]
<1>7. /\ puts = [i \in DOMAIN targets |-> puts[i]]
      /\ \A i \in DOMAIN targets :
           /\ puts[i] \in Seq(T)
           /\ targets[i] # role => Covers(puts[i], targets[i], 1..n)
           /\ targets[i] = role => puts[i] = <<>>
           /\ targets[i] # role /\ n # 0 => /\ puts[i] # <<>>
                                            /\ Head(puts[i]).key = <<targets[i], 1>>
  <2>1. \A i \in DOMAIN targets :
           /\ put(targets[i]) \in Seq(T)
           /\ targets[i] # role => Covers(put(targets[i]), targets[i], 1..n)
           /\ targets[i] = role => put(targets[i]) = <<>>
           /\ targets[i] # role /\ n # 0 => /\ put(targets[i]) # <<>>
                                            /\ Head(put(targets[i])).key = <<targets[i], 1>>
    BY <1>1, <1>4
  <2> HIDE DEF put
  <2> QED BY <2>1
<1>8. /\ stales = [i \in DOMAIN targets |-> stales[i]]
      /\ \A i \in DOMAIN targets : stales[i] \in Seq(T)
  <2>1. \A i \in DOMAIN targets : stale(targets[i]) \in Seq(T)
    BY <1>1, <1>5
  <2> HIDE DEF stale
  <2> QED BY <2>1
<1>9. todo' = FlattenSeq(puts) \o FlattenSeq(stales)
  BY <1>6
<1> HIDE DEF puts, stales
<1>10. /\ FlattenSeq(puts) \in Seq(T)
       /\ \A i \in DOMAIN targets : ToSet(puts[i]) \subseteq ToSet(FlattenSeq(puts))
       /\ Len(targets) >= 2 /\ puts[1] = <<>> /\ puts[2] # <<>>
            => FlattenSeq(puts) # <<>> /\ Head(FlattenSeq(puts)) = Head(puts[2])
  BY <1>1, <1>7, FlattenList
<1>11. FlattenSeq(stales) \in Seq(T)
  BY <1>1, <1>8, FlattenList
<1>12. PICK a \in Seq(T), b \in Seq(T) : a = FlattenSeq(puts) /\ b = FlattenSeq(stales)
  BY <1>10, <1>11
<1>13. todo' \in Seq(T) /\ Pending' = ToSet(a) \cup ToSet(b)
  BY <1>9, <1>12, JoinIs DEF Pending
<1>14. \A t \in ToSet(targets), p \in 1..n : t # role => ToDo(<<t, p>>)'
  <2> SUFFICES ASSUME NEW t \in ToSet(targets), NEW p \in 1..n, t # role
               PROVE  \E o \in Pending' : o.key = <<t, p>>
    BY DEF ToDo
  <2>1. PICK i \in DOMAIN targets : targets[i] = t
    BY DEF ToSet
  <2>2. PICK o \in ToSet(puts[i]) : o.key = <<t, p>>
    BY <1>7, <2>1 DEF Covers
  <2>3. o \in Pending'
    BY <1>10, <1>12, <1>13
  <2> QED BY <2>2, <2>3
<1>15. ASSUME Len(targets) >= 2, targets[1] = role, targets[2] # role, n # 0
       PROVE  todo' # <<>> /\ Head(todo').key = <<targets[2], 1>>
  <2>1. 1 \in DOMAIN targets /\ 2 \in DOMAIN targets
    BY <1>1, <1>15
  <2>2. puts[1] = <<>> /\ puts[2] # <<>> /\ Head(puts[2]).key = <<targets[2], 1>>
    BY <1>7, <1>15, <2>1
  <2>3. a # <<>> /\ Head(a).key = <<targets[2], 1>>
    BY <1>10, <1>12, <1>15, <2>2
  <2>4. a \o b # <<>> /\ Head(a \o b) = Head(a)
    BY <2>3
  <2> QED BY <1>9, <1>12, <2>3, <2>4
<1> QED BY <1>13, <1>14, <1>15, InList DEF Pending, n

\* SaveAliases, for a font: the aliases have the content of the page saved.
LEMMA FontAliasesOK ==
  ASSUME IInv, SaveAliases, font # NoFont
  PROVE  IInv'
<1>0. /\ pc = "saveOwn" /\ todo = <<>> /\ targets # <<>> /\ pc' = "saveAlias"
      /\ complete' = complete \ (ToSet(targets) \ {role})
      /\ Works /\ UNCHANGED <<files, resident, jobs, saving, undoing, events>>
  BY DEF SaveAliases, Done, Begin
<1>1. FilesOK /\ MemoryOK /\ FaultsOK /\ UndoOK /\ JobsOK /\ font \in Fonts
  BY TypeParts DEF JobsOK
<1>2. PICK d \in Roles : d = Double /\ targets = <<d>> /\ role = font /\ role # d
  BY <1>0, <1>1, OwnIs DEF IInv, ControlOK, Saving
<1>3. ToSet(targets) = {d}
  BY <1>2 DEF ToSet
<1>4. PICK alias \in File : /\ alias = [disk[<<role, 1>>] EXCEPT !.payload = role]
                           /\ Alike(alias, disk[<<role, 1>>])
  <2>1. disk[<<role, 1>>] \in File /\ role \in Roles
    BY <1>1, OwnIs, KeysAre DEF FilesOK, JobsOK
  <2>2. [disk[<<role, 1>>] EXCEPT !.payload = role] \in File
    BY <2>1 DEF File
  <2>3. Alike([disk[<<role, 1>>] EXCEPT !.payload = role], disk[<<role, 1>>])
    BY <2>1 DEF Alike, File
  <2> QED BY <2>2, <2>3
<1> DEFINE T == {o \in Operations : /\ o.key[1] = d
                                    /\ \/ o.file = Missing
                                       \/ o.key[2] <= Count(role) /\ o.file = alias}
<1>5. todo' \in Seq(T) /\ Pending' \subseteq T
  <2>1. Count(role) \in Nat
    BY <1>1, PageCount DEF JobsOK
  <2>2. \A o \in Operations :
            /\ o.key[1] \in ToSet(targets)
            /\ \/ o.file = Missing
               \/ o.key[1] # role /\ o.key[2] \in 1..Count(role) /\ o.file = alias
            => o \in T
    BY <1>3, <2>1
  <2>3. T \in SUBSET Operations
    OBVIOUS
  <2> HIDE DEF T
  <2> QED BY <1>4, <2>2, <2>3, AliasList
<1>6. todo' \in Seq(Operations)
  <2>1. ToSet(todo') \subseteq Operations
    BY <1>5 DEF Pending
  <2> QED BY <1>5, <2>1, InList
<1>7. /\ alias.count = Count(role) /\ alias.content = disk[<<role, 1>>].content
      /\ alias.repacked = disk[<<role, 1>>].repacked
  BY <1>4 DEF Alike, Count
<1>8. \A o \in Pending' : /\ o.key[1] = d /\ Counted(o.key, o.file)
                          /\ o.file.repacked => o.file.content = disk[<<role, 1>>].content
  BY <1>5, <1>7, FilesAre DEF Counted
<1>9. UNCHANGED <<disk, backup, queue, generation, font, role, targets>>
  BY <1>0 DEF files, jobs, saving
<1>10. FaultsOK' /\ leftovers' = leftovers
  BY <1>0, <1>1, WorksFaults
<1>11. FilesOK' /\ MemoryOK' /\ TodoOK' /\ JobsOK' /\ UndoOK'
  BY <1>0, <1>1, <1>6, <1>9, SameUndo
     DEF FilesOK, MemoryOK, TodoOK, Steps, WriteSteps, JobsOK
<1>12. ControlOK' /\ QueuesOK'
  BY <1>0, <1>9 DEF IInv, ControlOK, QueuesOK, QuietSteps, GroupSteps, Saving
<1>13. CountedOK'
  BY <1>8, <1>9 DEF IInv, CountedOK
<1>14. GroupOK' /\ AimOK'
  BY <1>0, <1>2, <1>8, <1>9
     DEF GroupOK, GroupSteps, GroupSaving, Saving, AimOK, Written
<1>15. FontOK'
  <2> SUFFICES ASSUME NEW r \in Roles, leftovers' <= Tolerated(r) PROVE RoleOK(r)'
    BY DEF FontOK
  <2>1. WholeOK(r) /\ StreamedOK(r) /\ GenerationOK(r)
    BY <1>10 DEF IInv, FontOK, RoleOK
  <2>2. WholeOK(r)' /\ StreamedOK(r)' /\ PublishOK(r)'
    BY <1>0, <1>9, <2>1 DEF WholeOK, Whole, StreamedOK, PublishOK
  <2>3. WrittenOK(r)'
    <3> SUFFICES ASSUME r = d PROVE \E g \in 0..MaxGeneration : OneContent(r, g)'
      BY <1>0, <1>2 DEF WrittenOK, Written
    <3>1. disk[<<role, 1>>].content \in 0..MaxGeneration
      BY <1>1, OwnIs, KeysAre DEF FilesOK, JobsOK, File
    <3>2. PICK g \in 0..MaxGeneration : g = disk[<<role, 1>>].content
      BY <3>1
    <3>3. \A p \in Pages : ~disk'[<<r, p>>].repacked
      BY <1>0, <1>2, <1>9, <2>1 DEF StreamedOK, Streamed
    <3>4. OneContent(r, g)'
      BY <1>8, <3>2, <3>3 DEF OneContent
    <3> QED BY <3>4
  <2>4. GenerationOK(r)'
    BY <1>0, <1>9, <1>10, <2>1 DEF GenerationOK
  <2> QED BY <2>2, <2>3, <2>4 DEF RoleOK
<1> QED BY <1>10, <1>11, <1>12, <1>13, <1>14, <1>15, Assemble

-----------------------------------------------------------------------------
(* The steps of the group.                                                     *)
\* A step that begins work on the group.
LEMMA GroupStart ==
  ASSUME IInv, UNCHANGED <<disk, queue, generation, font>>, backup' \in {backup, disk},
         font = NoFont, generation = <<>>, pc' \in GroupSteps \cup Saving,
         pc' \in Saving => role' = OwnerRole /\ targets' = GroupRoles,
         role' \in Roles, targets' \in Seq(Roles),
         todo' \in Seq(Operations), todo' # <<>> => pc' \in WriteSteps,
         \A o \in Pending' : Counted(o.key, o.file),
         MemoryOK', UndoOK', FaultsOK', leftovers' = leftovers, GroupOK'
  PROVE  IInv'
<1>1. FilesOK /\ JobsOK /\ FaultsOK
  BY TypeParts
<1>2. FilesOK' /\ JobsOK' /\ TodoOK'
  BY <1>1 DEF FilesOK, JobsOK, TodoOK, GroupSteps, Saving, Steps
<1>3. QueuesOK' /\ CountedOK'
  BY DEF IInv, QueuesOK, CountedOK
<1>4. ControlOK'
  BY GroupRolesAre DEF ControlOK, GroupSteps, QuietSteps, Saving
<1>5. FontOK'
  <2> SUFFICES ASSUME NEW r \in Roles, leftovers' <= Tolerated(r) PROVE RoleOK(r)'
    BY DEF FontOK
  <2>1. WholeOK(r)
    BY DEF IInv, FontOK, RoleOK
  <2>2. WholeOK(r)'
    BY <2>1 DEF WholeOK, Whole
  <2>3. (StreamedOK(r) /\ WrittenOK(r) /\ PublishOK(r))'
    <3>1. font' = NoFont /\ pc' \notin {"save", "publish"}
          /\ (pc' = "saveOwn" => role' # NoFont)
      BY OwnIs DEF GroupSteps, Saving, OwnerRole, NoFont
    <3> QED BY <3>1 DEF StreamedOK, WrittenOK, PublishOK
  <2>4. GenerationOK(r)'
    BY NoneIs DEF GenerationOK
  <2> QED BY <2>2, <2>3, <2>4 DEF RoleOK
<1>6. AimOK'
  BY DEF AimOK, GroupSteps, Saving
<1> QED BY <1>2, <1>3, <1>4, <1>5, <1>6, Assemble

\* No font waits for its generation while the group is worked on.
LEMMA NoGenerations ==
  ASSUME IInv, font = NoFont, pc \in GroupSteps \cup Saving
  PROVE  generation = <<>>
  BY DEF IInv, ControlOK, GroupSteps, Saving

\* The rollback lists every page file, with its copy.
LEMMA RollbackList ==
  ASSUME FilesOK, NEW then, StartRollback(then)
  PROVE  /\ todo' \in Seq(Operations)
         /\ \A o \in Pending' : o.file = backup[o.key] /\ o.key \in Keys
         /\ \A k \in Keys : ToDo(k)'
<1> DEFINE T == {o \in Operations : o.file = backup[o.key]}
           list(r) == [p \in Pages |-> LET k == <<r, p>> IN Put(k, backup[k])]
<1>1. todo' = FlattenSeq([i \in DOMAIN GroupRoles |-> list(GroupRoles[i])])
  BY DEF StartRollback, Begin
<1>2. ASSUME NEW r \in Roles PROVE list(r) \in Seq(T)
  <2>1. \A p \in Pages : list(r)[p] \in T
    <3> SUFFICES ASSUME NEW p \in Pages PROVE list(r)[p] \in T
      OBVIOUS
    <3>1. PICK k \in Keys : k = <<r, p>>
      BY KeysAre
    <3>2. backup[k] \in File
      BY DEF FilesOK
    <3>3. Put(k, backup[k]) \in T
      BY <3>2, PutIs
    <3> QED BY <3>1, <3>3
  <2> DEFINE s == list(r)
  <2>2. DOMAIN s = 1..MaxPages /\ s = [i \in 1..MaxPages |-> s[i]] /\ MaxPages \in Nat
    BY SnapshotAssumption DEF Pages
  <2>3. \A i \in 1..MaxPages : s[i] \in T
    BY <2>1 DEF Pages
  <2> HIDE DEF s, T
  <2>4. s \in Seq(T)
    BY <2>2, <2>3, ListIs
  <2> QED BY <2>4 DEF s
<1>3. ASSUME NEW r \in Roles, NEW p \in Pages
      PROVE  \E o \in ToSet(list(r)) : o.key = <<r, p>>
  <2>1. list(r)[p] \in ToSet(list(r)) /\ list(r)[p].key = <<r, p>>
    BY DEF ToSet, Put
  <2> QED BY <2>1
<1> DEFINE lists == [i \in DOMAIN GroupRoles |-> list(GroupRoles[i])]
<1>4. /\ lists = [i \in DOMAIN GroupRoles |-> lists[i]]
      /\ \A i \in DOMAIN GroupRoles : lists[i] \in Seq(T)
      /\ \A i \in DOMAIN GroupRoles : lists[i] = list(GroupRoles[i])
  <2>1. \A i \in DOMAIN GroupRoles : GroupRoles[i] \in Roles
    BY GroupRolesAre
  <2>2. \A i \in DOMAIN GroupRoles : list(GroupRoles[i]) \in Seq(T)
    BY <1>2, <2>1
  <2> HIDE DEF list, T
  <2> QED BY <2>2
<1>5. todo' = FlattenSeq(lists)
  BY <1>1
<1> HIDE DEF lists, T, list
<1>6. /\ FlattenSeq(lists) \in Seq(T)
      /\ \A i \in DOMAIN GroupRoles : ToSet(lists[i]) \subseteq ToSet(FlattenSeq(lists))
  BY <1>4, GroupRolesAre, FlattenList
<1>7. Pending' = ToSet(FlattenSeq(lists)) /\ Pending' \subseteq T /\ todo' \in Seq(T)
  BY <1>5, <1>6, InList DEF Pending
<1>8. todo' \in Seq(Operations)
  <2>1. ToSet(todo') \subseteq Operations
    BY <1>7 DEF Pending, T
  <2> QED BY <1>7, <2>1, InList
<1>9. \A o \in Pending' : o.file = backup[o.key] /\ o.key \in Keys
  BY <1>7 DEF T, Operations
<1>10. ASSUME NEW k \in Keys PROVE \E o \in Pending' : o.key = k
  <2>1. k[1] \in Roles /\ k[2] \in Pages /\ k = <<k[1], k[2]>>
    BY KeysAre DEF Keys
  <2>2. PICK i \in DOMAIN GroupRoles : GroupRoles[i] = k[1]
    BY <2>1, GroupRolesAre DEF ToSet
  <2>a. PICK r \in Roles, p \in Pages : k = <<r, p>> /\ GroupRoles[i] = r
    BY <2>1, <2>2
  <2>b. lists[i] = list(r)
    BY <1>4, <2>2, <2>a
  <2>c. \E o \in ToSet(list(r)) : o.key = <<r, p>>
    BY <1>3
  <2>3. PICK o \in ToSet(lists[i]) : o.key = k
    BY <2>a, <2>b, <2>c
  <2> QED BY <1>6, <1>7, <2>3
<1> QED BY <1>8, <1>9, <1>10 DEF ToDo

\* The rollback puts each file back as it was.
LEMMA StartRollbackOK ==
  ASSUME IInv, UNCHANGED <<files, jobs, saving>>, font = NoFont,
         pc \in GroupSteps \cup Saving, NEW then \in {"idle", "rebuild"},
         StartRollback(then), scope' \in BOOLEAN, fits' \in {"open", "yes", "no"},
         MemoryOK', FaultsOK', leftovers' = leftovers
  PROVE  IInv'
<1>1. FilesOK /\ JobsOK
  BY TypeParts
<1>2. pc' = "rollback" /\ restored' = TRUE /\ next' = then
  BY DEF StartRollback, Begin
<1>3. /\ todo' \in Seq(Operations)
      /\ \A o \in Pending' : o.file = backup[o.key] /\ o.key \in Keys
  BY <1>1, RollbackList
<1>4. UNCHANGED <<disk, backup, queue, generation, font, role, targets>>
  BY DEF files, jobs, saving
<1>5. \A o \in Pending' : Counted(o.key, o.file)
  BY <1>3 DEF IInv, CountedOK
<1>6. UndoOK' /\ role' \in Roles /\ targets' \in Seq(Roles)
  BY <1>1, <1>2, <1>4 DEF UndoOK, JobsOK
<1>7. GroupOK'
  <2>1. Undoable'
    <3>1. Undoable
      BY DEF IInv, GroupOK, GroupSaving
    <3> QED BY <1>4, <3>1 DEF Undoable
  <2> QED BY <1>2, <1>3, <1>4, <2>1 DEF GroupOK, GroupSaving, Saving
<1>8. generation = <<>>
  BY NoGenerations
<1> QED BY <1>2, <1>3, <1>4, <1>5, <1>6, <1>7, <1>8, GroupStart
        DEF GroupSteps, WriteSteps, Saving

\* Consolidate: the group's work begins with a backup of the files, or is left out.
LEMMA ConsolidateOK ==
  ASSUME IInv, Consolidate
  PROVE  IInv'
<1>0. /\ pc = "restore" /\ generation = <<>>
      /\ UNCHANGED <<disk, memory, jobs, saving, undoing, events>>
  BY DEF Consolidate
<1>1. FilesOK /\ MemoryOK /\ FaultsOK /\ UndoOK /\ TodoOK /\ JobsOK
  BY TypeParts
<1>2. /\ MemoryOK' /\ UndoOK' /\ JobsOK' /\ QueuesOK'
      /\ UNCHANGED <<queue, generation, font, role, targets>>
  BY <1>0, <1>1, SameMemory, SameUndo DEF jobs, saving, JobsOK, IInv, QueuesOK
<1>3. font = NoFont /\ todo = <<>> /\ backup = NoFiles
  BY <1>0, <1>1 DEF IInv, ControlOK, QuietSteps, TodoOK, WriteSteps, GroupSteps, Saving
<1>4. ASSUME Works \/ Fails, Goto("idle"), UNCHANGED backup PROVE IInv'
  <2>1. FaultsOK' /\ leftovers' = leftovers
    BY <1>0, <1>1, <1>4, FailsFaults, WorksFaults
  <2>2. pc' = "idle" /\ todo' = <<>> /\ font' = NoFont /\ generation' = <<>>
    BY <1>0, <1>2, <1>3, <1>4 DEF Goto
  <2> QED BY <1>0, <1>2, <1>3, <1>4, <2>1, <2>2, RestOK DEF QuietSteps
<1>5. ASSUME Works, Goto("group"), backup' = disk PROVE IInv'
  <2>1. FaultsOK' /\ leftovers' = leftovers
    BY <1>0, <1>1, <1>5, WorksFaults
  <2>2. pc' = "group" /\ todo' = <<>> /\ Pending' = {}
    BY <1>3, <1>5, NoneIs DEF Goto, Pending
  <2>3. GroupOK'
    <3>1. Undoable' /\ MarkOK'
      BY <1>0, <1>5, <2>2 DEF Undoable, MarkOK, Alike
    <3> QED BY <2>2, <3>1 DEF GroupOK, GroupSaving, Saving
  <2>4. todo' \in Seq(Operations) /\ role' \in Roles /\ targets' \in Seq(Roles)
    BY <1>1, <1>2, <2>2, NoneIs DEF JobsOK
  <2> QED BY <1>0, <1>2, <1>3, <1>5, <2>1, <2>2, <2>3, <2>4, GroupStart
          DEF GroupSteps, Saving
<1> QED BY <1>4, <1>5 DEF Consolidate

\* The end of the group's work.
LEMMA FinishOK ==
  ASSUME IInv, Finish, font = NoFont, pc \in GroupSteps \cup Saving \cup {"rebuild"},
         UNCHANGED <<disk, role, targets>>, UNCHANGED <<queue, generation, font>>,
         MemoryOK', UndoOK', FaultsOK', leftovers' = leftovers
  PROVE  IInv'
<1>1. pc' = "idle" /\ todo' = <<>> /\ backup' = NoFiles
  BY DEF Finish, Begin
<1>2. generation' = <<>>
  BY DEF IInv, ControlOK, GroupSteps, Saving
<1>3. QueuesOK' /\ JobsOK'
  BY TypeParts DEF IInv, QueuesOK, JobsOK
<1> QED BY <1>1, <1>2, <1>3, RestOK DEF QuietSteps

\* MarkDone: the marks are on, or off again.
LEMMA MarkDoneOK ==
  ASSUME IInv, MarkDone
  PROVE  IInv'
<1>1. /\ pc \in GroupSteps /\ Finish
      /\ UNCHANGED <<disk, memory, jobs, saving, restored, next, fits, faults, events>>
  BY DEF MarkDone, Done, GroupSteps
<1>2. font = NoFont /\ scope' = FALSE
  BY <1>1 DEF IInv, ControlOK, Finish
<1>3. MemoryOK' /\ UndoOK' /\ FaultsOK' /\ leftovers' = leftovers
  BY <1>1, <1>2, TypeParts, SameMemory DEF UndoOK, FaultsOK, faults
<1> QED BY <1>1, <1>2, <1>3, FinishOK DEF jobs, saving

\* MembersRebuilt: all members were rebuilt after the rollback.
LEMMA MembersRebuiltOK ==
  ASSUME IInv, MembersRebuilt
  PROVE  IInv'
<1>1. /\ pc = "rebuild" /\ Finish
      /\ UNCHANGED <<disk, memory, jobs, saving, restored, next, fits, faults, events>>
  BY DEF MembersRebuilt
<1>2. font = NoFont /\ scope' = FALSE
  BY <1>1 DEF IInv, ControlOK, Finish, QuietSteps
<1>3. MemoryOK' /\ UndoOK' /\ FaultsOK' /\ leftovers' = leftovers
  BY <1>1, <1>2, TypeParts, SameMemory DEF UndoOK, FaultsOK, faults
<1> QED BY <1>1, <1>2, <1>3, FinishOK DEF jobs, saving

\* GroupSaveFails: the files are rolled back, then the members rebuilt.
LEMMA GroupSaveFailsOK ==
  ASSUME IInv, GroupSaveFails
  PROVE  IInv'
<1>1. /\ font = NoFont /\ StartRollback("rebuild")
      /\ UNCHANGED <<jobs, saving, scope, fits, events>>
  BY DEF GroupSaveFails
<1>2. MemoryOK /\ FaultsOK /\ UndoOK
  BY TypeParts
<1>3. /\ pc \in GroupSteps \cup Saving /\ UNCHANGED files /\ MemoryOK' /\ FaultsOK'
      /\ leftovers' = leftovers
  <2>1. CASE SaveFailed
    BY <1>1, <2>1, SaveFailedIs
  <2>2. CASE pc = "group" /\ UNCHANGED <<files, memory>> /\ (Fails \/ Works)
    BY <1>1, <1>2, <2>2, FailsFaults, WorksFaults, SameMemory DEF GroupSteps
  <2> QED BY <2>1, <2>2 DEF GroupSaveFails
<1>4. scope' \in BOOLEAN /\ fits' \in {"open", "yes", "no"}
  BY <1>1, <1>2 DEF UndoOK
<1> QED BY <1>1, <1>3, <1>4, StartRollbackOK

\* ScopeRefused: the files are rolled back.
LEMMA ScopeRefusedOK ==
  ASSUME IInv, ScopeRefused
  PROVE  IInv'
<1>1. /\ font = NoFont /\ StartRollback("idle") /\ pc \in Saving /\ Fails
      /\ UNCHANGED <<files, memory, jobs, saving, scope, fits, events>>
  BY DEF ScopeRefused, Done, Saving
<1>2. MemoryOK' /\ FaultsOK' /\ leftovers' = leftovers
  BY <1>1, TypeParts, SameMemory, FailsFaults
<1>3. scope' \in BOOLEAN /\ fits' \in {"open", "yes", "no"}
  BY <1>1, TypeParts DEF UndoOK
<1> QED BY <1>1, <1>2, <1>3, StartRollbackOK

\* SaveAliases, for the group: the aliases have one page, as the owner has.
LEMMA GroupAliasesOK ==
  ASSUME IInv, SaveAliases, font = NoFont
  PROVE  IInv'
<1>0. /\ pc = "saveOwn" /\ todo = <<>> /\ pc' = "saveAlias"
      /\ complete' = complete \ (ToSet(targets) \ {role})
      /\ Works /\ UNCHANGED <<files, resident, jobs, saving, undoing, events>>
  BY DEF SaveAliases, Done, Begin
<1>1. FilesOK /\ MemoryOK /\ FaultsOK /\ UndoOK /\ JobsOK
  BY TypeParts
<1>2. role = OwnerRole /\ targets = GroupRoles /\ GroupSaving
  BY <1>0 DEF IInv, ControlOK, Saving, GroupSaving
<1>3. SharedOK /\ Undoable /\ Pending = {}
  BY <1>0, <1>2, NoneIs DEF IInv, GroupOK, Pending
<1>4. disk[<<role, 1>>].count = 1 /\ Count(role) = 1
  BY <1>0, <1>2, <1>3 DEF SharedOK, ToDo, Count
<1>5. PICK alias \in File : /\ alias = [disk[<<role, 1>>] EXCEPT !.payload = role]
                           /\ alias.count = 1
  <2>1. disk[<<role, 1>>] \in File /\ role \in Roles
    BY <1>1, OwnIs, KeysAre DEF FilesOK, JobsOK
  <2>2. [disk[<<role, 1>>] EXCEPT !.payload = role] \in File
    BY <2>1 DEF File
  <2>3. [disk[<<role, 1>>] EXCEPT !.payload = role].count = disk[<<role, 1>>].count
    BY <2>1 DEF File
  <2> QED BY <1>4, <2>2, <2>3
<1> DEFINE T == {o \in Operations : Single(o.key, o.file) /\ Counted(o.key, o.file)}
<1>6. todo' \in Seq(T) /\ Pending' \subseteq T
  <2>1. \A o \in Operations :
            /\ o.key[1] \in ToSet(targets)
            /\ \/ o.file = Missing
               \/ o.key[1] # role /\ o.key[2] \in 1..Count(role) /\ o.file = alias
            => o \in T
    <3> SUFFICES ASSUME NEW o \in Operations,
                        o.file = Missing \/ (o.key[2] \in 1..1 /\ o.file = alias)
                 PROVE  Single(o.key, o.file) /\ Counted(o.key, o.file)
      BY <1>4
    <3>1. CASE o.file = Missing
      BY <3>1, FilesAre DEF Single, Counted
    <3>2. CASE o.key[2] \in 1..1 /\ o.file = alias
      <4>1. o.key[2] = 1 /\ o.file.count = 1
        BY <1>5, <3>2
      <4> QED BY <4>1 DEF Single, Counted
    <3> QED BY <3>1, <3>2
  <2>2. T \in SUBSET Operations
    OBVIOUS
  <2> HIDE DEF T
  <2> QED BY <1>5, <2>1, <2>2, AliasList
<1>7. todo' \in Seq(Operations) /\ \A o \in Pending' : Single(o.key, o.file)
                                                       /\ Counted(o.key, o.file)
  <2>1. ToSet(todo') \subseteq Operations
    BY <1>6 DEF Pending
  <2> QED BY <1>6, <2>1, InList
<1>8. UNCHANGED <<disk, backup, queue, generation, font, role, targets>>
  BY <1>0 DEF files, jobs, saving
<1>9. FaultsOK' /\ leftovers' = leftovers /\ MemoryOK' /\ UndoOK'
  BY <1>0, <1>1, WorksFaults, SameUndo DEF MemoryOK
<1>10. GroupOK'
  <2>1. Undoable' /\ SharedOK'
    BY <1>0, <1>3, <1>7, <1>8 DEF Undoable, SharedOK
  <2> QED BY <1>0, <2>1 DEF GroupOK, GroupSteps
<1>11. generation = <<>>
  BY <1>0, NoGenerations DEF Saving
<1>12. role' \in Roles /\ targets' \in Seq(Roles)
  BY <1>1, <1>8 DEF JobsOK
<1> QED BY <1>0, <1>2, <1>7, <1>8, <1>9, <1>10, <1>11, <1>12, GroupStart
        DEF Saving, WriteSteps

\* SaveAliases, for whom it may be.
LEMMA SaveAliasesOK ==
  IInv /\ SaveAliases => IInv'
  BY FontAliasesOK, GroupAliasesOK

\* SaveGroup: one page is to hold the group.
LEMMA SaveGroupOK ==
  ASSUME IInv, SaveGroup
  PROVE  IInv'
<1>0. /\ pc = "group" /\ fits' = "yes" /\ StartSave(OwnerRole, GroupRoles, 1) /\ Works
      /\ UNCHANGED <<files, jobs, restored, next, scope, events>>
  BY DEF SaveGroup
<1>1. FaultsOK /\ UndoOK
  BY TypeParts
<1>2. /\ pc' = "saveOwn" /\ role' = OwnerRole /\ targets' = GroupRoles /\ MemoryOK'
      /\ todo' \in Seq(Operations)
      /\ \A o \in Pending' : /\ o.key[1] = OwnerRole /\ Counted(o.key, o.file)
                             /\ o.file.repacked => o.file.count = 1 /\ o.key[2] \in 1..1
                             /\ o.key[2] \in 1..1 => o.file.count = 1
      /\ \E o \in Pending' : o.key = <<OwnerRole, 1>>
  <2>1. PICK r \in Roles, aliases \in Seq(Roles), n \in Pages :
           r = OwnerRole /\ aliases = GroupRoles /\ n = 1
    BY OwnIs, GroupRolesAre
  <2>2. StartSave(r, aliases, n)
    BY <1>0, <2>1
  <2>3. /\ pc' = "saveOwn" /\ role' = r /\ targets' = aliases /\ MemoryOK'
        /\ todo' \in Seq(Operations) /\ \A o \in Pending' : SavedAs(o, r, Fresh, n)
        /\ \E o \in Pending' : o.key = <<r, 1>>
    BY <2>2, SaveList
  <2> QED BY <2>1, <2>3 DEF SavedAs
<1>3. /\ \A o \in Pending' : Single(o.key, o.file)
      /\ \A o \in Pending' : o.key = <<OwnerRole, 1>> => o.file.count = 1
      /\ ToDo(<<OwnerRole, 1>>)'
  <2>1. \A x \in 1..1 : x = 1
    OBVIOUS
  <2>2. 1 \in 1..1
    OBVIOUS
  <2>3. \A o \in Pending' : Single(o.key, o.file)
    BY <1>2, <2>1 DEF Single
  <2>4. \A o \in Pending' : o.key = <<OwnerRole, 1>> => o.file.count = 1
    <3> SUFFICES ASSUME NEW o \in Pending', o.key = <<OwnerRole, 1>>
                 PROVE  o.file.count = 1
      OBVIOUS
    <3>1. o.key[2] = 1
      OBVIOUS
    <3> QED BY <1>2, <2>2, <3>1
  <2> QED BY <1>2, <2>3, <2>4 DEF ToDo
<1>4. UNCHANGED <<disk, backup, queue, generation, font>>
  BY <1>0 DEF files, jobs
<1>5. FaultsOK' /\ leftovers' = leftovers /\ UndoOK'
  BY <1>0, <1>1, WorksFaults DEF UndoOK
<1>6. GroupOK'
  <2>1. Undoable
    BY <1>0 DEF IInv, GroupOK, GroupSteps
  <2>2. Undoable' /\ SharedOK'
    BY <1>3, <1>4, <2>1 DEF Undoable, SharedOK
  <2> QED BY <1>2, <2>2 DEF GroupOK, GroupSteps
<1>7. font = NoFont /\ generation = <<>>
  <2>1. pc \in GroupSteps
    BY <1>0 DEF GroupSteps
  <2>2. font = NoFont
    BY <2>1 DEF IInv, ControlOK
  <2> QED BY <2>1, <2>2, NoGenerations
<1>8. OwnerRole \in Roles /\ GroupRoles \in Seq(Roles)
  BY OwnIs, GroupRolesAre
<1> QED BY <1>2, <1>4, <1>5, <1>6, <1>7, <1>8, GroupStart DEF Saving, WriteSteps

\* The marks are put on the owner's pages and taken off again.
LEMMA MarkStep ==
  ASSUME IInv, pc \in {"group", "mark"}, pc' \in {"mark", "unmark"},
         todo' \in Seq(Operations),
         \A o \in Pending' : Counted(o.key, o.file) /\ Alike(o.file, disk[o.key]),
         UNCHANGED <<files, memory, jobs, saving>>,
         UndoOK', FaultsOK', leftovers' = leftovers
  PROVE  IInv'
<1>1. UNCHANGED <<disk, backup, queue, generation, font, role, targets>>
  BY DEF files, jobs, saving
<1>2. pc \in GroupSteps
  BY DEF GroupSteps
<1>3. font = NoFont
  BY <1>2 DEF IInv, ControlOK
<1>4. MemoryOK' /\ role' \in Roles /\ targets' \in Seq(Roles)
  BY <1>1, TypeParts, SameMemory DEF JobsOK
<1>5. GroupOK'
  <2>1. Undoable /\ MarkOK
    BY <1>2 DEF IInv, GroupOK
  <2>2. Undoable' /\ MarkOK'
    BY <1>1, <2>1 DEF Undoable, MarkOK
  <2> QED BY <2>2 DEF GroupOK, GroupSaving, Saving
<1> QED BY <1>1, <1>2, <1>3, <1>4, <1>5, NoGenerations, GroupStart
        DEF GroupSteps, Saving, WriteSteps

\* MarkFallback: the marks of the owner's pages.
LEMMA MarkFallbackOK ==
  ASSUME IInv, MarkFallback
  PROVE  IInv'
<1> DEFINE n == Len(resident[OwnerRole])
           mark(k) == Put(k, [disk[k] EXCEPT !.marked = TRUE])
<1>0. /\ pc = "group" /\ pc' = "mark" /\ fits' = "no"
      /\ todo' = (IF \A p \in 1..n : disk[<<OwnerRole, p>>].count = n
                  THEN [p \in 1..n |-> mark(<<OwnerRole, p>>)] ELSE <<>>)
      /\ UNCHANGED <<files, memory, jobs, saving, restored, next, scope, faults, events>>
  BY DEF MarkFallback, Begin
<1>1. FilesOK /\ MemoryOK /\ FaultsOK /\ UndoOK
  BY TypeParts
<1>2. n \in Nat /\ \A p \in 1..n : p \in Pages
  <2>1. resident[OwnerRole] \in Seq(Page) /\ Len(resident[OwnerRole]) <= MaxPages
    BY <1>1, OwnIs DEF MemoryOK
  <2>2. Len(resident[OwnerRole]) \in Nat /\ MaxPages \in Nat
    BY <2>1, SnapshotAssumption
  <2> QED BY <2>1, <2>2 DEF Pages
<1> HIDE DEF n
<1>3. todo' \in Seq(Operations)
      /\ \A o \in Pending' : Counted(o.key, o.file) /\ Alike(o.file, disk[o.key])
  <2>1. CASE \A p \in 1..n : disk[<<OwnerRole, p>>].count = n
    <3> DEFINE s == [p \in 1..n |-> mark(<<OwnerRole, p>>)]
               T == {o \in Operations : Counted(o.key, o.file) /\ Alike(o.file, disk[o.key])}
    <3>1. \A p \in 1..n : s[p] \in T
      <4> SUFFICES ASSUME NEW p \in 1..n PROVE mark(<<OwnerRole, p>>) \in T
        OBVIOUS
      <4>1. PICK k \in Keys : k = <<OwnerRole, p>> /\ k[2] = p
        BY <1>2, OwnIs, KeysAre
      <4>2. disk[k] \in File
        BY <1>1 DEF FilesOK
      <4>3. PICK file \in File : /\ file = [disk[k] EXCEPT !.marked = TRUE]
                                 /\ Alike(file, disk[k])
        <5>1. [disk[k] EXCEPT !.marked = TRUE] \in File
          BY <4>2 DEF File
        <5>2. Alike([disk[k] EXCEPT !.marked = TRUE], disk[k])
          BY <4>2 DEF File, Alike
        <5> QED BY <5>1, <5>2
      <4>4. file.count = n
        BY <2>1, <4>1, <4>3 DEF Alike
      <4>5. Counted(k, file)
        BY <1>2, <4>1, <4>4 DEF Counted
      <4>6. Put(k, file) \in T
        BY <4>3, <4>5, PutIs
      <4> QED BY <4>1, <4>3, <4>6
    <3>2. DOMAIN s = 1..n /\ s = [p \in 1..n |-> s[p]] /\ todo' = s
      BY <1>0, <2>1
    <3> HIDE DEF s, T
    <3>3. s \in Seq(T)
      BY <1>2, <3>1, <3>2, ListIs
    <3>4. Pending' \subseteq T
      BY <3>2, <3>3, InList DEF Pending
    <3>5. Pending' \subseteq Operations
      BY <3>4 DEF T
    <3>6. todo' \in Seq(Operations)
      BY <3>2, <3>3, <3>5, InList DEF Pending
    <3> QED BY <3>4, <3>6 DEF T
  <2>2. CASE ~ \A p \in 1..n : disk[<<OwnerRole, p>>].count = n
    <3>1. todo' = <<>>
      BY <1>0, <2>2
    <3> QED BY <3>1, NoneIs DEF Pending
  <2> QED BY <2>1, <2>2
<1>4. UndoOK' /\ FaultsOK' /\ leftovers' = leftovers
  BY <1>0, <1>1 DEF UndoOK, FaultsOK, faults
<1> QED BY <1>0, <1>3, <1>4, MarkStep

\* MarkFails: the marks written are taken off again.
LEMMA MarkFailsOK ==
  ASSUME IInv, MarkFails
  PROVE  IInv'
<1>0. /\ pc = "mark" /\ pc' = "unmark" /\ todo # <<>> /\ Fails
      /\ todo' = [p \in 1..Head(todo).key[2] |->
                     Put(<<OwnerRole, p>>, backup[<<OwnerRole, p>>])]
      /\ UNCHANGED <<files, memory, jobs, saving, undoing, events>>
  BY DEF MarkFails, PutFails, Begin
<1>1. FilesOK /\ FaultsOK /\ UndoOK
  BY TypeParts
<1>2. PICK n \in Nat : n = Head(todo).key[2] /\ \A p \in 1..n : p \in Pages
  <2>1. Head(todo) \in Operations
    BY <1>0, TypeParts, TailIs DEF TodoOK
  <2>2. PICK k \in Keys : k = Head(todo).key
    BY <2>1 DEF Operations
  <2>3. k[2] \in Pages
    BY KeysAre
  <2> QED BY <2>2, <2>3, SnapshotAssumption DEF Pages
<1>3. MarkOK
  BY <1>0 DEF IInv, GroupOK
<1> DEFINE s == [p \in 1..n |-> Put(<<OwnerRole, p>>, backup[<<OwnerRole, p>>])]
           T == {o \in Operations : Counted(o.key, o.file) /\ Alike(o.file, disk[o.key])}
<1>4. \A p \in 1..n : s[p] \in T
  <2> SUFFICES ASSUME NEW p \in 1..n
               PROVE  Put(<<OwnerRole, p>>, backup[<<OwnerRole, p>>]) \in T
    OBVIOUS
  <2>1. PICK k \in Keys : k = <<OwnerRole, p>>
    BY <1>2, OwnIs, KeysAre
  <2>2. backup[k] \in File /\ Counted(k, backup[k]) /\ Alike(backup[k], disk[k])
    BY <1>1, <1>3 DEF FilesOK, IInv, CountedOK, MarkOK, Alike
  <2>3. Put(k, backup[k]) \in T
    BY <2>2, PutIs
  <2> QED BY <2>1, <2>3
<1>5. DOMAIN s = 1..n /\ s = [p \in 1..n |-> s[p]] /\ todo' = s
  BY <1>0, <1>2
<1> HIDE DEF s, T
<1>6. s \in Seq(T)
  BY <1>4, <1>5, ListIs
<1>7. Pending' \subseteq T
  BY <1>5, <1>6, InList DEF Pending
<1>8. Pending' \subseteq Operations
  BY <1>7 DEF T
<1>9. todo' \in Seq(Operations)
  BY <1>5, <1>6, <1>8, InList DEF Pending
<1>10. UndoOK' /\ FaultsOK' /\ leftovers' = leftovers
  BY <1>0, <1>1, SameUndo, FailsFaults
<1>11. \A o \in Pending' : Counted(o.key, o.file) /\ Alike(o.file, disk[o.key])
  BY <1>7 DEF T
<1> QED BY <1>0, <1>9, <1>10, <1>11, MarkStep

\* RebuildGroup: the members are rebuilt from the shared page, or rolled back.
LEMMA RebuildGroupOK ==
  ASSUME IInv, RebuildGroup
  PROVE  IInv'
<1>0. /\ font = NoFont /\ pc = "saveAlias" /\ todo = <<>>
      /\ UNCHANGED <<disk, jobs, saving, fits, events>>
  BY DEF RebuildGroup, Done
<1>1. FilesOK /\ MemoryOK /\ FaultsOK /\ UndoOK /\ Held(resident)
  BY TypeParts DEF MemoryOK, Held
<1>2. PICK last \in Fonts, loaded \in SUBSET Roles :
           LET before == UNION {Own(f) : f \in 1..(last - 1)}
               now == (before \ Own(last)) \cup loaded
           IN /\ TryLoads(last, complete \ Own(last), loaded)
              /\ \A r \in before : Loadable(r)
              /\ resident' = Load(now, Drop(Own(last)))
              /\ complete' = (complete \ Own(last)) \cup now
              /\ IF last = NumFonts /\ loaded = Own(last) /\ GroupResident'
                   THEN Finish /\ UNCHANGED <<restored, next>>
                   ELSE /\ last = NumFonts \/ loaded # Own(last)
                        /\ StartRollback("rebuild")
                        /\ scope' = TRUE /\ UNCHANGED backup
  BY DEF RebuildGroup
<1> DEFINE before == UNION {Own(f) : f \in 1..(last - 1)}
           now == (before \ Own(last)) \cup loaded
<1>3. now \in SUBSET Roles
  <2>1. \A f \in 1..(last - 1) : f \in Fonts
    BY SnapshotAssumption DEF Fonts
  <2> QED BY <2>1, OwnIs
<1>4. /\ TryLoads(last, complete \ Own(last), loaded) /\ \A r \in before : Loadable(r)
      /\ resident' = Load(now, Drop(Own(last)))
      /\ complete' = (complete \ Own(last)) \cup now
      /\ \/ Finish /\ UNCHANGED <<restored, next>>
         \/ StartRollback("rebuild") /\ scope' = TRUE /\ UNCHANGED backup
  BY <1>2
<1> HIDE DEF before
<1>5. /\ \A r \in loaded : Loadable(r)
      /\ FaultsOK' /\ leftovers' = leftovers
  BY <1>0, <1>1, <1>4, TryLoadsIs
<1>6. \A r \in now : Loadable(r)
  BY <1>4, <1>5
<1> HIDE DEF now
<1>7. MemoryOK'
  <2>1. PICK pages : pages = Drop(Own(last))
    OBVIOUS
  <2>2. Held(pages) /\ \A r \in Roles \ Own(last) : pages[r] = resident[r]
    BY <1>1, <2>1, DropIs
  <2>3. PICK have : have = complete \ Own(last)
    OBVIOUS
  <2>4. have \subseteq {r \in Roles : pages[r] # <<>>}
    BY <1>1, <2>2, <2>3 DEF MemoryOK
  <2>5. resident' = Load(now, pages) /\ complete' = have \cup now
    BY <1>4, <2>1, <2>3
  <2> QED BY <1>1, <1>3, <1>6, <2>2, <2>4, <2>5, LoadedMemory
<1>8. CASE Finish /\ UNCHANGED <<restored, next>>
  <2>1. UndoOK'
    BY <1>0, <1>1, <1>8 DEF UndoOK, Finish
  <2> QED BY <1>0, <1>5, <1>7, <1>8, <2>1, FinishOK DEF jobs, saving, Saving
<1>9. CASE StartRollback("rebuild") /\ scope' = TRUE /\ UNCHANGED backup
  <2>1. scope' \in BOOLEAN /\ fits' \in {"open", "yes", "no"} /\ UNCHANGED files
    BY <1>0, <1>1, <1>9 DEF UndoOK, files
  <2> QED BY <1>0, <1>5, <1>7, <1>9, <2>1, StartRollbackOK DEF Saving
<1> QED BY <1>4, <1>8, <1>9

\* RolledBack: all files were restored or tried.
LEMMA RolledBackOK ==
  ASSUME IInv, RolledBack
  PROVE  IInv'
<1>0. /\ pc = "rollback"
      /\ UNCHANGED <<disk, memory, generation, font, saving, restored, next, fits, faults,
                     events>>
  BY DEF RolledBack
<1>1. MemoryOK /\ FaultsOK /\ UndoOK /\ JobsOK
  BY TypeParts
<1>2. font = NoFont /\ generation = <<>>
  <2>1. pc \in GroupSteps
    BY <1>0 DEF GroupSteps
  <2>2. font = NoFont
    BY <2>1 DEF IInv, ControlOK
  <2> QED BY <2>1, <2>2, NoGenerations
<1>3. MemoryOK' /\ FaultsOK' /\ leftovers' = leftovers
  BY <1>0, <1>1, SameMemory DEF FaultsOK, faults
<1>4. CASE /\ Begin("rebuild", <<>>) /\ queue' = [f \in Fonts |-> f]
           /\ UNCHANGED <<backup, scope>>
  <2>1. queue' \in Seq(Fonts) /\ Once(queue') /\ ToSet(queue') = Fonts
    BY <1>4, AllFonts
  <2>2. UndoOK' /\ JobsOK'
    BY <1>0, <1>1, <1>4, <2>1 DEF UndoOK, JobsOK, saving
  <2>3. QueuesOK'
    BY <1>0, <1>2, <2>1, NoneIs DEF QueuesOK, NoFont, Fonts
  <2> QED BY <1>0, <1>2, <1>3, <1>4, <2>2, <2>3, RestOK DEF Begin, QuietSteps
<1>5. CASE Finish /\ UNCHANGED queue
  <2>1. UndoOK'
    BY <1>0, <1>1, <1>5 DEF UndoOK, Finish
  <2> QED BY <1>0, <1>2, <1>3, <1>5, <2>1, FinishOK DEF saving, GroupSteps
<1> QED BY <1>4, <1>5 DEF RolledBack

\* RebuildMember: a member is rebuilt from the restored files.
LEMMA RebuildMemberOK ==
  ASSUME IInv, RebuildMember
  PROVE  IInv'
<1>0. /\ pc = "rebuild" /\ queue # <<>> /\ queue' = Tail(queue)
      /\ UNCHANGED <<files, pc, generation, font, saving, todo, undoing, events>>
  BY DEF RebuildMember
<1>1. FilesOK /\ MemoryOK /\ FaultsOK /\ UndoOK /\ JobsOK /\ TodoOK
  BY TypeParts
<1>2. font = NoFont /\ generation = <<>> /\ todo = <<>>
  BY <1>0, <1>1 DEF IInv, ControlOK, TodoOK, WriteSteps, QuietSteps
<1>3. PICK loaded \in SUBSET Roles : Rebuild(Head(queue), loaded)
  BY DEF RebuildMember
<1>4. /\ Once(Tail(queue)) /\ Tail(queue) \in Seq(Fonts) /\ Head(queue) \in Fonts
      /\ ToSet(Tail(queue)) \subseteq ToSet(queue)
  BY <1>0, QueueShorter
<1>5. MemoryOK' /\ FaultsOK' /\ leftovers' = leftovers
  BY <1>0, <1>1, <1>3, <1>4, RebuildIs
<1>6. UndoOK' /\ JobsOK' /\ QueuesOK'
  BY <1>0, <1>1, <1>4, SameUndo DEF saving, JobsOK, IInv, QueuesOK
<1> QED BY <1>0, <1>2, <1>5, <1>6, RestOK DEF QuietSteps, files

-----------------------------------------------------------------------------
(* The environment.                                                            *)
LEMMA RefreshIs ==
  ASSUME NEW s \in Seq(Page)
  PROVE  Refresh(s) \in Seq(Page) /\ Len(Refresh(s)) = Len(s)
<1>1. \A page \in Page, t \in {"live", "pending"} : [page EXCEPT !.texture = t] \in Page
  BY DEF Page
<1>2. /\ Len(s) \in Nat /\ DOMAIN s = 1..Len(s) /\ \A i \in 1..Len(s) : s[i] \in Page
  OBVIOUS
<1>3. \A i \in 1..Len(s) : Refresh(s)[i] \in Page
  <2> SUFFICES ASSUME NEW i \in 1..Len(s) PROVE Refresh(s)[i] \in Page
    OBVIOUS
  <2>1. PICK page \in Page : page = s[i]
    BY <1>2
  <2>2. Refresh(s)[i] = IF page.texture = "none" THEN page
                        ELSE [page EXCEPT !.texture =
                                IF Readable(page) THEN "live" ELSE "pending"]
    BY <1>2, <2>1 DEF Refresh
  <2>3. PICK t \in {"live", "pending"} : t = IF Readable(page) THEN "live" ELSE "pending"
    OBVIOUS
  <2>4. [page EXCEPT !.texture = t] \in Page
    BY <1>1
  <2> QED BY <2>2, <2>3, <2>4
<1>4. DOMAIN Refresh(s) = 1..Len(s) /\ Refresh(s) = [i \in 1..Len(s) |-> Refresh(s)[i]]
  BY <1>2 DEF Refresh
<1>5. PICK u : u = Refresh(s)
  OBVIOUS
<1>6. /\ DOMAIN u = 1..Len(s) /\ u = [i \in 1..Len(s) |-> u[i]]
      /\ \A i \in 1..Len(s) : u[i] \in Page
  BY <1>3, <1>4, <1>5
<1>7. u \in Seq(Page) /\ Len(u) = Len(s)
  BY <1>2, <1>6, ListIs
<1> QED BY <1>5, <1>7

\* What is resident keeps its type where textures are refreshed.
LEMMA RefreshedMemory ==
  ASSUME MemoryOK, complete' = complete,
         resident' = [r \in Roles |-> resident'[r]],
         \A r \in Roles : resident'[r] \in {resident[r], Refresh(resident[r])}
  PROVE  MemoryOK'
<1>1. \A r \in Roles : /\ resident[r] \in Seq(Page) /\ Len(resident[r]) <= MaxPages
                       /\ Refresh(resident[r]) \in Seq(Page)
                       /\ Len(Refresh(resident[r])) = Len(resident[r])
  BY RefreshIs DEF MemoryOK
<1>2. \A r \in Roles : /\ resident'[r] \in Seq(Page)
                       /\ Len(resident'[r]) = Len(resident[r])
  BY <1>1
<1>3. \A s \in Seq(Page) : s # <<>> <=> Len(s) # 0
  OBVIOUS
<1>4. \A r \in Roles : resident[r] # <<>> => resident'[r] # <<>>
  BY <1>1, <1>2, <1>3
<1>5. resident' \in [Roles -> Seq(Page)]
  BY <1>2
<1>6. \A r \in Roles : Len(resident'[r]) <= MaxPages
  BY <1>1, <1>2
<1> QED BY <1>4, <1>5, <1>6 DEF MemoryOK

\* An event is counted.
LEMMA HappensFaults ==
  ASSUME FaultsOK, Happens, {intact', clean'} \subseteq BOOLEAN, UNCHANGED <<leftovers, failures>>
  PROVE  FaultsOK'
<1>1. /\ failures \in Nat /\ events \in Nat /\ failures + events < MaxTroubles
      /\ events' = events + 1
  BY DEF FaultsOK, Happens, Trouble
<1>2. events' \in Nat /\ failures + events' <= MaxTroubles
  BY <1>1, SnapshotAssumption
<1> QED BY <1>1, <1>2 DEF FaultsOK

\* DeviceReset: the textures are read again.
LEMMA DeviceResetOK ==
  ASSUME IInv, DeviceReset
  PROVE  IInv'
<1>1. /\ resident' = [r \in Roles |-> Refresh(resident[r])] /\ Happens
      /\ UNCHANGED <<files, complete, pc, jobs, saving, todo, undoing, faults>>
  BY DEF DeviceReset
<1>2. MemoryOK'
  BY <1>1, TypeParts, RefreshedMemory
<1>3. UndoOK' /\ FaultsOK' /\ leftovers' = leftovers
  <2>1. FaultsOK /\ UndoOK /\ UNCHANGED <<intact, clean, leftovers, failures>>
    BY <1>1, TypeParts DEF faults
  <2>2. {intact', clean'} \subseteq BOOLEAN
    BY <2>1 DEF FaultsOK
  <2> QED BY <1>1, <2>1, <2>2, SameUndo, HappensFaults
<1> QED BY <1>1, <1>2, <1>3, MemoryStep

\* PumpPending: pending textures are read again.
LEMMA PumpPendingOK ==
  ASSUME IInv, PumpPending
  PROVE  IInv'
<1>1. /\ \E r \in Roles : resident' = [resident EXCEPT ![r] = Refresh(resident[r])]
      /\ UNCHANGED <<files, complete, pc, jobs, saving, todo, undoing, faults, events>>
  BY DEF PumpPending
<1>2. MemoryOK'
  <2>1. PICK r \in Roles : resident' = [resident EXCEPT ![r] = Refresh(resident[r])]
    BY <1>1
  <2>2. MemoryOK /\ DOMAIN resident = Roles
    BY TypeParts DEF MemoryOK
  <2>3. PICK s : s = Refresh(resident[r])
    OBVIOUS
  <2>4. resident' = [resident EXCEPT ![r] = s]
    BY <2>1, <2>3
  <2>5. \A q \in Roles : resident'[q] = IF q = r THEN s ELSE resident[q]
    BY <2>2, <2>4
  <2>6. resident' = [q \in Roles |-> resident'[q]]
    BY <2>2, <2>4
  <2> QED BY <1>1, <2>2, <2>3, <2>5, <2>6, RefreshedMemory
<1>3. UndoOK' /\ FaultsOK' /\ leftovers' = leftovers
  BY <1>1, TypeParts, SameUndo DEF FaultsOK, faults
<1> QED BY <1>1, <1>2, <1>3, MemoryStep

\* Crash: the memory is gone and the backups with it; the page files stay.
LEMMA CrashOK ==
  ASSUME IInv, Crash
  PROVE  IInv'
<1>1. /\ resident' = [r \in Roles |-> <<>>] /\ complete' = {} /\ backup' = NoFiles
      /\ scope' = FALSE /\ queue' = <<>> /\ generation' = <<>> /\ font' = NoFont
      /\ role' = OwnerRole /\ targets' = <<>> /\ restored' = TRUE /\ next' = "idle"
      /\ pc' = "gone" /\ todo' = <<>> /\ UNCHANGED <<disk, fits, faults>> /\ Happens
  BY DEF Crash, Begin
<1>2. MemoryOK'
  <2>1. \A r \in Roles : resident'[r] = <<>>
    BY <1>1
  <2>2. <<>> \in Seq(Page) /\ Len(<<>>) = 0 /\ MaxPages \in Nat
    BY SnapshotAssumption
  <2> QED BY <1>1, <2>1, <2>2 DEF MemoryOK
<1>3. QueuesOK' /\ JobsOK'
  BY <1>1, NoneIs, OwnIs DEF QueuesOK, JobsOK
<1>4. UndoOK' /\ FaultsOK' /\ leftovers' = leftovers
  <2>1. FaultsOK /\ UndoOK /\ UNCHANGED <<intact, clean, leftovers, failures>>
    BY <1>1, TypeParts DEF faults
  <2>2. {intact', clean'} \subseteq BOOLEAN
    BY <2>1 DEF FaultsOK
  <2> QED BY <1>1, <2>1, <2>2, HappensFaults DEF UndoOK
<1> QED BY <1>1, <1>2, <1>3, <1>4, RestOK DEF QuietSteps

\* A session starts on the files it finds.
LEMMA SessionStart ==
  ASSUME IInv, StartSession, pc \in {"gone", "idle"},
         UNCHANGED <<files, memory, saving, undoing, leftovers>>, FaultsOK'
  PROVE  IInv'
<1>1. /\ pc' = "restore" /\ queue' = [f \in Fonts |-> f] /\ generation' = <<>>
      /\ font' = NoFont /\ todo' = <<>>
  BY DEF StartSession
<1>2. MemoryOK' /\ UndoOK'
  BY TypeParts, SameMemory, SameUndo
<1>3. queue' \in Seq(Fonts) /\ Once(queue') /\ ToSet(queue') = Fonts
  BY <1>1, AllFonts
<1>4. JobsOK' /\ QueuesOK'
  BY <1>1, <1>3, NoneIs, TypeParts DEF JobsOK, QueuesOK, saving, NoFont, Fonts
<1>5. backup = NoFiles /\ UNCHANGED disk /\ UNCHANGED backup
  BY DEF IInv, ControlOK, GroupSteps, Saving, files
<1> QED BY <1>1, <1>2, <1>4, <1>5, RestOK DEF QuietSteps

\* Restart and NewSession.
LEMMA SessionsOK ==
  IInv /\ (Restart \/ NewSession) => IInv'
<1>1. ASSUME IInv, Restart PROVE IInv'
  <2>1. FaultsOK'
    BY <1>1, TypeParts DEF Restart, FaultsOK
  <2> QED BY <1>1, <2>1, SessionStart DEF Restart
<1>2. ASSUME IInv, NewSession PROVE IInv'
  <2>1. {intact', clean'} \subseteq BOOLEAN
    BY <1>2, TypeParts DEF NewSession, FaultsOK
  <2>2. FaultsOK'
    BY <1>2, <2>1, TypeParts, HappensFaults DEF NewSession
  <2> QED BY <1>2, <2>2, SessionStart DEF NewSession
<1> QED BY <1>1, <1>2

-----------------------------------------------------------------------------
(* The specification.                                                          *)
LEMMA InitOK ==
  Init => IInv
<1> SUFFICES ASSUME Init PROVE IInv
  OBVIOUS
<1>1. FilesOK /\ \A k \in Keys : disk[k] = Missing /\ backup[k] = Missing
  BY FilesAre DEF Init, FilesOK
<1>2. MemoryOK
  <2>1. <<>> \in Seq(Page) /\ Len(<<>>) = 0 /\ MaxPages \in Nat
    BY SnapshotAssumption
  <2> QED BY <2>1 DEF Init, MemoryOK
<1>3. TodoOK /\ Pending = {}
  BY NoneIs DEF Init, TodoOK, Steps, Pending
<1>4. queue \in Seq(Fonts) /\ Once(queue) /\ ToSet(queue) = Fonts
  BY AllFonts DEF Init
<1>5. JobsOK /\ QueuesOK
  BY <1>4, NoneIs, OwnIs DEF Init, JobsOK, QueuesOK, NoFont, Fonts
<1>6. UndoOK /\ FaultsOK
  <2>1. MaxTroubles \in Nat /\ failures = 0 /\ events = 0 /\ clean = TRUE
        /\ intact = TRUE /\ leftovers = 0
    BY SnapshotAssumption DEF Init
  <2>2. FaultsOK
    BY <2>1 DEF FaultsOK
  <2> QED BY <2>2 DEF Init, UndoOK
<1>7. ControlOK /\ GroupOK /\ AimOK
  BY DEF Init, ControlOK, QuietSteps, GroupSteps, Saving, GroupOK, GroupSaving, AimOK
<1>8. CountedOK
  BY <1>1, <1>3, FilesAre DEF CountedOK, Counted
<1>9. FontOK
  <2> SUFFICES ASSUME NEW r \in Roles PROVE RoleOK(r)
    BY DEF FontOK
  <2>1. WholeOK(r)
    BY <1>1, FilesAre, KeysAre DEF WholeOK, Whole
  <2>2. StreamedOK(r) /\ WrittenOK(r) /\ PublishOK(r) /\ GenerationOK(r)
    BY NoneIs DEF Init, StreamedOK, WrittenOK, PublishOK, GenerationOK, Saving
  <2> QED BY <2>1, <2>2 DEF RoleOK
<1> QED BY <1>2, <1>1, <1>3, <1>5, <1>6, <1>7, <1>8, <1>9, TypeParts DEF IInv

\* The steps of a font.
LEMMA FontStepOK ==
  IInv /\ FontStep => IInv'
  BY RestoreSnapshotOK, DiscardedOK, BatchFailsOK, PublishStreamOK, PublishFailsOK, StageMetadataOK,
     SaveOK, SaveDoubleByteOK, SaveAliasesOK, SaveFailsOK, RebuildPublishedOK
  DEF FontStep

\* The steps of the group.
LEMMA GroupStepOK ==
  IInv /\ GroupStep => IInv'
  BY ConsolidateOK, MarkFallbackOK, MarkFailsOK, UnmarkFailsOK, MarkDoneOK, SaveGroupOK,
     GroupSaveFailsOK, ScopeRefusedOK, RebuildGroupOK, RollBackOK, RolledBackOK,
     RebuildMemberOK, MembersRebuiltOK
  DEF GroupStep

\* The steps of the device, the pump and the process.
LEMMA EnvironmentOK ==
  IInv /\ Environment => IInv'
  BY DeviceResetOK, PumpPendingOK, CrashOK, SessionsOK DEF Environment

\* A step that changes nothing.
LEMMA StutterOK ==
  IInv /\ UNCHANGED vars => IInv'
<1> SUFFICES ASSUME IInv, UNCHANGED vars PROVE IInv'
  OBVIOUS
<1>1. UNCHANGED <<files, pc, jobs, saving, todo, leftovers>>
      /\ UNCHANGED <<memory, undoing, faults, events>>
  BY DEF vars, faults
<1>2. MemoryOK' /\ UndoOK' /\ FaultsOK'
  BY <1>1, TypeParts, SameMemory, SameUndo DEF FaultsOK, faults
<1> QED BY <1>1, <1>2, MemoryStep

\* Every step keeps the inductive invariant.
LEMMA NextOK ==
  IInv /\ [Next]_vars => IInv'
  BY FontStepOK, GroupStepOK, WriteFilesOK, EnvironmentOK, StutterOK DEF Next

\* All steps keep the inductive invariant.
THEOREM Inductive == Spec => []IInv
<1>1. Init => IInv
  BY InitOK
<1>2. IInv /\ [Next]_vars => IInv'
  BY NextOK
<1> QED BY <1>1, <1>2, PTL DEF Spec

\* Every reachable state has its type (TypeOK): in particular file operations are
\* outstanding only in a step that writes, copies of the page files exist only while
\* the group is worked on, and no profile is complete without a resident page.
THEOREM TypeCorrect == Spec => []TypeOK
<1>1. IInv => TypeOK
  BY DEF IInv
<1> QED BY <1>1, Inductive, PTL

\* No mixture of generations can be loaded as a single-byte role unless two
\* deletions failed, and as the double-byte role of the group unless one did
\* (LoadableIsWhole): whatever pages crashes between two replacements, failed
\* replacements or rollbacks that failed half way left behind, the pages that
\* CommitGlyphAtlasSnapshot would load together have one content.
THEOREM LoadableIsWholeHolds == Spec => []LoadableIsWhole
<1>1. IInv => LoadableIsWhole
  <2> SUFFICES ASSUME IInv, NEW r \in Roles, leftovers <= Tolerated(r), Loadable(r),
                      NEW p \in 1..Count(r)
               PROVE  disk[<<r, p>>].content = disk[<<r, 1>>].content
    BY DEF LoadableIsWhole
  <2>1. Whole(disk, r)
    BY DEF IInv, FontOK, RoleOK, WholeOK
  <2>2. Count(r) \in 0..MaxPages /\ Count(r) \in Nat
    BY TypeParts, PageCount
  <2>3. p \in Pages /\ 1 \in Pages /\ 1 \in 1..Count(r)
    BY <2>2, SnapshotAssumption DEF Pages
  <2>4. \A q \in 1..Count(r) : disk[<<r, q>>].repacked /\ disk[<<r, q>>].count = Count(r)
    BY DEF Loadable, Stageable
  <2> QED BY <2>1, <2>3, <2>4 DEF Whole
<1> QED BY <1>1, Inductive, PTL

-----------------------------------------------------------------------------
(* The invariant of the profiles and the files.                                *)
OwnerKey  == <<OwnerRole, 1>>

\* A page file that is not there is Missing; the payload of a single-byte page is
\* in its own file or in the owner's page.
Known(k, file) ==
  /\ file.content = 0 => file = Missing
  /\ k[1] # Double /\ file # Missing /\ file.payload # k[1]
       => file.payload = OwnerRole /\ k[2] = 1
KnownOK ==
  /\ \A k \in Keys : Known(k, disk[k]) /\ Known(k, backup[k])
  /\ \A o \in Pending : Known(o.key, o.file)

Plain(pages) == \A r \in Roles : \A p \in DOMAIN pages[r] : ~pages[r][p].header.marked
\* No page is marked before a group was found not to fit one page.
UnmarkedOK ==
  fits # "no" =>
    /\ \A k \in Keys : ~disk[k].marked /\ ~backup[k].marked
    /\ \A o \in Pending : ~o.file.marked
    /\ Plain(resident)

\* Two headers that differ in the mark at most.
Same(a, b) == Alike(a, b) /\ a.payload = b.payload
PayloadOK ==
  pc \in {"group", "mark", "unmark"} =>
    /\ \A k \in Keys : disk[k].payload = backup[k].payload
    /\ \A o \in Pending : o.file.payload = disk[o.key].payload

\* The owner is restored first, and a font is generated after all were.
OrderOK ==
  /\ 1 \in ToSet(queue) => Head(queue) = 1
  /\ font # NoFont => queue = <<>>

\* The font that is worked on writes its own files, with payloads of its own.
Writes(f) == \A o \in Pending : /\ o.key[1] \in Own(f)
                                /\ o.file = Missing \/ o.file.payload \in Own(f)
AuthorOK ==
  /\ pc = "discard" => \E f \in ToSet(generation) : Writes(f)
  /\ pc \in {"publish", "saveOwn", "saveAlias"} /\ font # NoFont => Writes(font)

Active(f)  == f \in ToSet(generation) \/ f = font
Waiting(f) == f \in ToSet(queue) \/ Active(f)
FontWork == \/ pc \in {"restore", "discard", "publish", "save"}
            \/ pc \in Saving /\ font # NoFont
Grouping == pc \in {"group", "mark", "unmark"}

\* Page k is deleted now.
Going(k) == pc = "discard" /\ ToDo(k)
NoDouble == /\ Double \notin complete
            /\ disk[<<Double, 1>>].content = 0 \/ Going(<<Double, 1>>)
Sharing(g) == /\ g \notin Own(1) /\ disk[<<g, 1>>].content # 0
              /\ disk[<<g, 1>>].payload = OwnerRole
OwnerOK ==
  FontWork /\ Waiting(1) => \A g \in Fonts : Sharing(g) =>
     \/ g \in ToSet(queue) /\ (Active(1) => NoDouble)
     \/ Going(<<g, 1>>)

\* A font that is generated has no page 1 that could be loaded.
BlankOK ==
  /\ \A f \in ToSet(generation) : disk[<<f, 1>>].repacked => Going(<<f, 1>>)
  /\ pc = "publish" => ~disk[<<font, 1>>].repacked

MatchesIn(r, pages) ==
  /\ Loadable(r) /\ Len(pages[r]) = Count(r)
  /\ \A p \in 1..Count(r) : /\ pages[r][p].source = Source(r, p)
                            /\ Same(pages[r][p].header, Header(r, p))
Matches(r) == MatchesIn(r, resident)

Stale(r) ==
  \/ r \in ToSet(queue) /\ Active(1) /\ NoDouble
  \/ r = Double /\ pc = "publish"
  \/ r = Double /\ pc = "restore" /\ queue # <<>> /\ Head(queue) \notin complete
       /\ ~disk[<<Head(queue), 1>>].repacked
Mixed(r) == pc = "restore" /\ queue # <<>> /\ r \in Own(Head(queue))
FontsOK ==
  /\ \A r \in complete : Matches(r) \/ Stale(r)
  /\ \A r \in complete : TablesReady(r, resident) \/ Mixed(r)
  /\ \A f \in Fonts : f \in complete \/ Waiting(f)
  /\ Double \in complete \/ \E f \in Fonts : Waiting(f)
  /\ \A f \in Fonts : Active(f) => f \notin complete
  /\ pc \in {"discard", "save", "saveOwn", "saveAlias"} => Double \notin complete
CompleteOK ==
  /\ FontWork => FontsOK
  /\ Grouping \/ pc = "idle" => \A r \in complete : Matches(r) /\ TablesReady(r, resident)
  /\ Grouping => complete = Roles
  /\ pc = "idle" /\ clean => complete = Roles

NewOwner(file) ==
  file.content # 0 /\ file.count = 1 /\ file.repacked /\ file.payload = OwnerRole
OwnFirstOK ==
  GroupSaving /\ pc = "saveOwn" =>
    /\ OwnerRole \notin complete
    /\ \A o \in Pending : o.key[1] = OwnerRole /\ (o.key = OwnerKey => NewOwner(o.file))
    /\ NewOwner(disk[OwnerKey]) \/ ToDo(OwnerKey)
AliasesOK ==
  GroupSaving /\ pc = "saveAlias" =>
    /\ complete = {} /\ NewOwner(disk[OwnerKey])
    /\ \A o \in Pending : o.key # OwnerKey /\ (o.key[2] = 1 => o.file = disk[OwnerKey])
    /\ \A r \in Roles : disk[<<r, 1>>] = disk[OwnerKey] \/ ToDo(<<r, 1>>)

BackupOK ==
  GroupSaving \/ pc \in {"group", "rollback", "rebuild"} =>
    \A r \in Roles : \A p, q \in 1..backup[<<r, 1>>].count :
        backup[<<r, p>>].content = backup[<<r, q>>].content
UndoneOK ==
  /\ pc \in {"rollback", "rebuild"} => restored /\ ~clean
  /\ pc = "rollback" => /\ \A k \in Keys : disk[k] = backup[k] \/ ToDo(k)
                        /\ next = "idle" => complete = {}
  /\ pc = "rebuild" =>
       /\ disk = backup
       /\ \A f \in Fonts : f \notin ToSet(queue) =>
             \A r \in Own(f) \cap complete : Matches(r)

Healing ==
  /\ PayloadOK /\ OrderOK /\ AuthorOK /\ OwnerOK /\ BlankOK /\ CompleteOK
  /\ OwnFirstOK /\ AliasesOK /\ BackupOK /\ UndoneOK
HInv == /\ KnownOK /\ UnmarkedOK /\ (clean => intact) /\ (pc = "gone" => complete = {})
        /\ (intact => Healing)

\* The page files are as every step leaves them, whatever has failed.
Stands == IInv /\ KnownOK /\ UnmarkedOK

\* The facts of such a state.
LEMMA StandParts ==
  Stands =>
    /\ IInv /\ FilesOK /\ MemoryOK /\ TodoOK /\ JobsOK /\ UndoOK /\ FaultsOK /\ ControlOK
    /\ QueuesOK /\ GroupOK /\ AimOK
    /\ KnownOK /\ UnmarkedOK
    /\ Held(resident) /\ complete \subseteq Roles /\ Pending \subseteq Operations
<1> SUFFICES ASSUME Stands
             PROVE  /\ IInv /\ FilesOK /\ MemoryOK /\ TodoOK /\ JobsOK /\ UndoOK /\ FaultsOK
                    /\ ControlOK /\ QueuesOK /\ GroupOK /\ AimOK
                    /\ KnownOK /\ UnmarkedOK
                    /\ Held(resident) /\ complete \subseteq Roles /\ Pending \subseteq Operations
  OBVIOUS
<1>1. IInv /\ KnownOK /\ UnmarkedOK
  BY DEF Stands
<1>2. FilesOK /\ MemoryOK /\ TodoOK /\ JobsOK /\ UndoOK /\ FaultsOK
  BY <1>1, TypeParts
<1>3. Held(resident) /\ complete \subseteq Roles
  BY <1>2 DEF MemoryOK, Held
<1>4. Pending \subseteq Operations
  BY <1>1, PendingIn
<1>5. ControlOK /\ QueuesOK /\ GroupOK /\ AimOK
  BY <1>1 DEF IInv
<1> QED BY <1>1, <1>2, <1>3, <1>4, <1>5

\* The keys of the first pages.
LEMMA FirstKeys ==
  /\ OwnerKey \in Keys /\ OwnerKey[1] = OwnerRole /\ OwnerKey[2] = 1
  /\ \A r \in Roles : <<r, 1>> \in Keys /\ <<r, 1>>[1] = r /\ <<r, 1>>[2] = 1
  /\ OwnerRole = 1 /\ OwnerRole # Double
<1>1. 1 # Double
  BY OwnIs
<1> QED BY <1>1, OwnIs, KeysAre DEF OwnerKey, OwnerRole

\* The file that has the payload of a role's page.
LEMMA SourceIs ==
  ASSUME FilesOK, KnownOK, NEW r \in Roles, NEW p \in Pages
  PROVE  /\ <<r, p>> \in Keys /\ disk[<<r, p>>] \in File
         /\ Source(r, p) \in Keys /\ Header(r, p) \in File /\ Source(r, p)[2] = p
         /\ IsFile(<<r, p>>) /\ r # Double =>
               \/ Source(r, p) = <<r, p>>
               \/ Source(r, p) = OwnerKey /\ p = 1
<1>1. <<r, p>> \in Keys /\ <<r, p>>[1] = r /\ <<r, p>>[2] = p
  BY KeysAre
<1>2. disk[<<r, p>>] \in File
  BY <1>1 DEF FilesOK
<1>3. disk[<<r, p>>].payload \in Roles
  BY <1>2 DEF File
<1>4. Source(r, p) \in Keys /\ Source(r, p)[2] = p /\ Source(r, p)[1] = disk[<<r, p>>].payload
  BY <1>3, KeysAre DEF Source
<1>5. Header(r, p) \in File
  BY <1>4 DEF Header, FilesOK
<1>6. IsFile(<<r, p>>) => disk[<<r, p>>] # Missing
  BY DEF IsFile, Missing
<1>7. r # Double /\ disk[<<r, p>>] # Missing /\ disk[<<r, p>>].payload # r
        => disk[<<r, p>>].payload = OwnerRole /\ p = 1
  BY <1>1 DEF KnownOK, Known
<1> QED BY <1>1, <1>2, <1>4, <1>5, <1>6, <1>7 DEF Source, OwnerKey

\* The pages of a role that is loaded are among those a role may have.
LEMMA CountIs ==
  ASSUME FilesOK, NEW r \in Roles
  PROVE  /\ Count(r) \in Nat /\ \A p \in 1..Count(r) : p \in Pages
         /\ Count(r) # 0 => 1 \in 1..Count(r)
         /\ Loadable(r) => Count(r) # 0
<1>1. Count(r) \in 0..MaxPages /\ Count(r) \in Nat
  BY PageCount
<1>2. \A p \in 1..Count(r) : p \in Pages
  BY <1>1, SnapshotAssumption DEF Pages
<1>3. Count(r) # 0 => 1 \in 1..Count(r)
  BY <1>1
<1> QED BY <1>1, <1>2, <1>3 DEF Loadable, Stageable

-----------------------------------------------------------------------------
(* What is known of the page files, whatever has failed.                       *)
\* A file that is to be deleted is known.
LEMMA MissingKnown ==
  \A k : Known(k, Missing) /\ ~Missing.marked
  BY DEF Known, Missing

\* What is resident has no mark after the step, unless a mark was made.
StaysPlain == fits' # "no" => fits # "no" /\ (Plain(resident) => Plain(resident'))

\* The page files stay; the copies are dropped, or made.
LEMMA FilesKept ==
  ASSUME Stands, UNCHANGED disk, backup' \in {backup, NoFiles, disk}, StaysPlain,
         \A o \in Pending' : Known(o.key, o.file) /\ (fits' # "no" => ~o.file.marked)
  PROVE  KnownOK' /\ UnmarkedOK'
<1>1. KnownOK /\ UnmarkedOK
  BY DEF Stands
<1>2. \A k \in Keys : Known(k, NoFiles[k]) /\ ~NoFiles[k].marked
  BY FilesAre, MissingKnown
<1>3. KnownOK'
  BY <1>1, <1>2 DEF KnownOK
<1>4. UnmarkedOK'
  BY <1>1, <1>2 DEF UnmarkedOK, StaysPlain
<1> QED BY <1>3, <1>4

\* Nothing is to be done after the step, or what was before.
LEMMA ListKept ==
  ASSUME Stands, UNCHANGED disk, backup' \in {backup, NoFiles, disk}, StaysPlain,
         todo' = <<>> \/ todo' = todo
  PROVE  KnownOK' /\ UnmarkedOK'
<1>1. Pending' = {} \/ Pending' = Pending
  BY NoneIs DEF Pending
<1>2. KnownOK /\ UnmarkedOK
  BY DEF Stands
<1>3. \A o \in Pending' : Known(o.key, o.file) /\ (fits' # "no" => ~o.file.marked)
  BY <1>1, <1>2 DEF KnownOK, UnmarkedOK, StaysPlain
<1> QED BY <1>3, FilesKept

\* What is loaded from files without a mark has none.
LEMMA LoadPlain ==
  ASSUME FilesOK, KnownOK, NEW pages, Held(pages), NEW rs \in SUBSET Roles,
         \A k \in Keys : ~disk[k].marked, Plain(pages)
  PROVE  Plain(Load(rs, pages))
<1> SUFFICES ASSUME NEW r \in Roles, NEW p \in DOMAIN Load(rs, pages)[r]
             PROVE  ~Load(rs, pages)[r][p].header.marked
  BY DEF Plain
<1>1. CASE r \notin rs
  <2>1. Load(rs, pages)[r] = pages[r]
    BY <1>1, LoadIs
  <2> QED BY <2>1 DEF Plain
<1>2. CASE r \in rs
  <2>1. Load(rs, pages)[r] = PagesFrom(r, "live")
    BY <1>2, LoadIs
  <2>2. p \in 1..Count(r) /\ PagesFrom(r, "live")[p].header = Header(r, p)
    BY <2>1 DEF PagesFrom
  <2>3. Header(r, p) = disk[Source(r, p)] /\ Source(r, p) \in Keys
    BY <2>2, CountIs, SourceIs DEF Header
  <2> QED BY <2>1, <2>2, <2>3
<1> QED BY <1>1, <1>2

\* Retired roles have no marks either.
LEMMA DropPlain ==
  ASSUME Held(resident), Plain(resident), NEW rs
  PROVE  Plain(Drop(rs))
<1>1. \A r \in Roles : Drop(rs)[r] = <<>> \/ Drop(rs)[r] = resident[r]
  BY DEF Drop
<1>2. DOMAIN <<>> = {}
  OBVIOUS
<1> QED BY <1>1, <1>2 DEF Plain

\* A step that loads some roles, or retires some before.
LEMMA LoadStaysPlain ==
  ASSUME Stands, UNCHANGED fits, NEW loaded \in SUBSET Roles, NEW pages,
         pages = resident \/ \E rs : pages = Drop(rs),
         resident' \in {pages, Load(loaded, pages)}
  PROVE  StaysPlain
<1>1. FilesOK /\ KnownOK /\ UnmarkedOK /\ Held(resident)
  BY StandParts
<1>2. Held(pages) /\ (Plain(resident) => Plain(pages))
  BY <1>1, DropIs, DropPlain
<1>3. fits # "no" => (Plain(resident) => Plain(Load(loaded, pages)))
  BY <1>1, <1>2, LoadPlain DEF UnmarkedOK
<1> QED BY <1>2, <1>3 DEF StaysPlain

\* A step that leaves what is resident.
LEMMA SameStaysPlain ==
  ASSUME UNCHANGED <<resident, fits>>
  PROVE  StaysPlain
  BY DEF StaysPlain, Plain

\* One operation, performed or not, leaves page files that are known.
LEMMA OneKnown ==
  ASSUME Stands, NEW o, TakenOff(o), UNCHANGED <<backup, resident, fits>>,
         UNCHANGED disk \/ Performed(o)
  PROVE  KnownOK' /\ UnmarkedOK'
<1>1. KnownOK /\ UnmarkedOK
  BY DEF Stands
<1>2. /\ o \in Pending /\ Pending' \subseteq Pending
      /\ \A k \in Keys : disk'[k] = disk[k] \/ (k = o.key /\ disk'[k] = o.file)
  BY DEF TakenOff, Performed
<1>3. KnownOK'
  BY <1>1, <1>2 DEF KnownOK
<1>4. UnmarkedOK'
  BY <1>1, <1>2 DEF UnmarkedOK, Plain
<1> QED BY <1>3, <1>4

\* WriteFiles and UnmarkFails: the next operation, made or not.
LEMMA WriteFilesKeeps ==
  ASSUME Stands, WriteFiles \/ UnmarkFails
  PROVE  KnownOK' /\ UnmarkedOK'
<1>1. IInv /\ todo # <<>> /\ todo' = Tail(todo) /\ UNCHANGED <<backup, resident, fits>>
  BY DEF Stands, WriteFiles, Succeeds, DeleteFails, UnmarkFails, PutFails, files, memory,
         undoing
<1>2. TakenOff(Head(todo))
  BY <1>1, HeadOff
<1>3. UNCHANGED disk \/ Performed(Head(todo))
  <2>1. UNCHANGED disk \/ disk' = [disk EXCEPT ![Head(todo).key] = Head(todo).file]
    BY DEF WriteFiles, Succeeds, DeleteFails, UnmarkFails, PutFails, files
  <2> QED BY <1>1, <2>1, HeadWritten
<1>4. PICK o : o = Head(todo)
  OBVIOUS
<1>5. TakenOff(o) /\ (UNCHANGED disk \/ Performed(o))
  BY <1>2, <1>3, <1>4
<1> QED BY <1>1, <1>5, OneKnown

\* RollBack: the operation that is performed, or fails.
LEMMA RollBackIs ==
  ASSUME IInv, RollBack
  PROVE  /\ UNCHANGED <<backup, memory, pc, jobs, saving, next, scope, fits, events>>
         /\ \E o : /\ TakenOff(o)
                   /\ \/ Performed(o) /\ Works /\ UNCHANGED restored
                      \/ UNCHANGED disk /\ Leaves(0)
<1>1. PICK i \in DOMAIN todo :
           /\ todo' = RemoveAt(todo, i)
           /\ \/ /\ Works
                 /\ disk' = [disk EXCEPT ![todo[i].key] = todo[i].file]
                 /\ UNCHANGED restored
              \/ Leaves(0) /\ restored' = FALSE /\ UNCHANGED disk
  BY DEF RollBack
<1>2. todo \in Seq(Operations) /\ disk \in [Keys -> File]
  BY TypeParts DEF TodoOK, FilesOK
<1>3. PICK o \in Operations : o = todo[i]
  BY <1>1, <1>2
<1>4. TakenOff(o)
  <2>1. o \in Pending
    BY <1>1, <1>3 DEF Pending, ToSet
  <2>2. /\ todo' \in Seq(Operations) /\ ToSet(todo') \subseteq ToSet(todo)
        /\ ToSet(todo) \subseteq ToSet(todo') \cup {o}
    BY <1>1, <1>2, <1>3, Removed
  <2> QED BY <2>1, <2>2 DEF TakenOff, Pending
<1>5. disk' = [disk EXCEPT ![o.key] = o.file] => Performed(o)
  <2>1. o.key \in Keys /\ o.file \in File
    BY DEF Operations
  <2> QED BY <1>2, <2>1 DEF Performed
<1>6. UNCHANGED <<backup, memory, pc, jobs, saving, next, scope, fits, events>>
  BY DEF RollBack
<1> QED BY <1>1, <1>3, <1>4, <1>5, <1>6

\* RollBack leaves page files that are known.
LEMMA RollBackKeeps ==
  ASSUME Stands, RollBack
  PROVE  KnownOK' /\ UnmarkedOK'
<1>1. /\ UNCHANGED <<backup, memory, pc, jobs, saving, next, scope, fits, events>>
      /\ \E o : /\ TakenOff(o)
                /\ \/ Performed(o) /\ Works /\ UNCHANGED restored
                   \/ UNCHANGED disk /\ Leaves(0)
  BY RollBackIs DEF Stands
<1>2. PICK o : TakenOff(o) /\ (UNCHANGED disk \/ Performed(o))
  BY <1>1
<1> QED BY <1>1, <1>2, OneKnown DEF memory

\* What is put new, or deleted, is known.
LEMMA NewKnown ==
  ASSUME NEW k, NEW file, New(file, k[1])
  PROVE  Known(k, file) /\ ~file.marked
<1>1. CASE file = Missing
  BY <1>1, MissingKnown
<1>2. CASE file # Missing
  <2>1. file.payload = k[1] /\ ~file.marked /\ file.content \in 1..MaxGeneration
    BY <1>2 DEF New, Unused
  <2>2. file.content # 0
    BY <2>1
  <2> QED BY <2>1, <2>2 DEF Known
<1> QED BY <1>1, <1>2

\* A list of new pages and deletions.
LEMMA NewListKeeps ==
  ASSUME Stands, UNCHANGED <<files, resident, fits>>, \A o \in Pending' : New(o.file, o.key[1])
  PROVE  KnownOK' /\ UnmarkedOK'
<1>1. \A o \in Pending' : Known(o.key, o.file) /\ ~o.file.marked
  BY NewKnown
<1>2. UNCHANGED <<disk, backup>>
  BY DEF files
<1> QED BY <1>1, <1>2, SameStaysPlain, FilesKept

\* A font's pages are discarded.
LEMMA DiscardKeeps ==
  ASSUME Stands, NEW f \in Fonts, Discard(f), UNCHANGED <<files, fits>>
  PROVE  KnownOK' /\ UnmarkedOK'
<1>1. \A o \in Pending' : Known(o.key, o.file) /\ ~o.file.marked
  BY DiscardList, MissingKnown
<1>2. StaysPlain
  <2>1. resident' = Drop(Own(f)) /\ Held(resident) /\ fits' = fits
    BY StandParts DEF Discard
  <2> QED BY <2>1, DropPlain DEF StaysPlain
<1>3. UNCHANGED <<disk, backup>>
  BY DEF files
<1> QED BY <1>1, <1>2, <1>3, FilesKept

\* RestoreSnapshot and BatchFails.
LEMMA RestoreKeeps ==
  ASSUME Stands, RestoreSnapshot \/ BatchFails
  PROVE  KnownOK' /\ UnmarkedOK'
<1>1. UNCHANGED files /\ UNCHANGED undoing /\ UNCHANGED fits /\ UNCHANGED <<disk, backup>>
      /\ pc = "restore"
  BY DEF RestoreSnapshot, BatchFails, files, undoing
<1>2. ASSUME NEW f \in Fonts, Discard(f) PROVE KnownOK' /\ UnmarkedOK'
  BY <1>1, <1>2, DiscardKeeps
<1>3. CASE RestoreSnapshot
  <2>1. queue # <<>> /\ IInv
    BY <1>3 DEF RestoreSnapshot, Stands
  <2>2. PICK f \in Fonts : f = Head(queue)
    BY <2>1, QueueShorter
  <2>3. PICK loaded \in SUBSET Roles :
           \/ Discard(f)
           \/ resident' = Load(loaded, resident) /\ UNCHANGED todo
    BY <1>3, <2>2 DEF RestoreSnapshot
  <2>4. CASE resident' = Load(loaded, resident) /\ UNCHANGED todo
    <3>1. StaysPlain
      BY <1>1, <2>4, LoadStaysPlain
    <3> QED BY <1>1, <2>4, <3>1, ListKept
  <2> QED BY <1>2, <2>3, <2>4
<1>4. CASE BatchFails
  <2>1. generation # <<>> /\ generation \in Seq(Fonts)
    BY <1>4, StandParts DEF BatchFails, JobsOK
  <2>2. PICK f \in Fonts : f = Head(generation)
    BY <2>1
  <2> QED BY <1>2, <1>4, <2>2 DEF BatchFails
<1> QED BY <1>3, <1>4

\* PublishStream: the pages of the stream are new.
LEMMA PublishStreamKeeps ==
  ASSUME Stands, PublishStream
  PROVE  KnownOK' /\ UnmarkedOK'
<1>1. generation # <<>> /\ generation \in Seq(Fonts) /\ font' = Head(generation)
      /\ UNCHANGED <<files, resident, fits>>
  BY StandParts DEF PublishStream, JobsOK, memory, undoing
<1>2. PICK f \in Fonts : f = Head(generation)
  BY <1>1
<1>3. \A o \in Pending' : New(o.file, o.key[1])
  BY <1>1, <1>2, PublishList
<1> QED BY <1>1, <1>3, NewListKeeps

\* What a save puts is new.
LEMMA SavedNew ==
  ASSUME NEW r, NEW n, NEW g \in Unused, NEW o, SavedAs(o, r, g, n)
  PROVE  o.key[1] = r /\ New(o.file, r)
<1>1. o.key[1] = r /\ o.file \in {Missing, NewFile(g, n, TRUE, r)}
  BY DEF SavedAs
<1>2. New(Missing, r)
  BY DEF New
<1>3. New(NewFile(g, n, TRUE, r), r)
  BY DEF New, NewFile
<1> QED BY <1>1, <1>2, <1>3

\* StartSave: the pages of a role are to be replaced by new ones.
LEMMA StartSaveKeeps ==
  ASSUME Stands, NEW r \in Roles, NEW aliases \in Seq(Roles), NEW n \in Pages,
         StartSave(r, aliases, n), UNCHANGED <<files, fits>>
  PROVE  KnownOK' /\ UnmarkedOK' /\ \A o \in Pending' : o.key[1] = r /\ New(o.file, r)
<1>1. PICK g \in Unused : g = Fresh
  BY FreshIs DEF StartSave
<1>2. \A o \in Pending' : SavedAs(o, r, g, n)
  BY <1>1, SaveList DEF Stands
<1>3. \A o \in Pending' : o.key[1] = r /\ New(o.file, r)
  BY <1>2, SavedNew
<1>4. UNCHANGED <<files, resident, fits>>
  BY DEF StartSave
<1>5. \A o \in Pending' : New(o.file, o.key[1])
  BY <1>3
<1> QED BY <1>3, <1>4, <1>5, NewListKeeps

\* A step that makes no operations and leaves what is resident.
LEMMA QuietKeeps ==
  ASSUME Stands, UNCHANGED <<disk, resident, fits>>, backup' \in {backup, NoFiles, disk},
         todo' = <<>> \/ todo' = todo
  PROVE  KnownOK' /\ UnmarkedOK'
  BY ListKept, SameStaysPlain

\* The roles of the font at work.
LEMMA WorkRoles ==
  ASSUME JobsOK, font # NoFont
  PROVE  /\ font \in Fonts
         /\ RolesOf(font)[1] = font /\ RolesOf(font)[1] \in Roles
         /\ RolesOf(font)[2] = Double /\ RolesOf(font)[2] \in Roles
         /\ <<>> \in Seq(Roles) /\ <<RolesOf(font)[2]>> \in Seq(Roles)
         /\ RolesOf(font)[1] \in Own(font) /\ RolesOf(font)[2] \in Own(font)
<1>1. PICK f \in Fonts : f = font
  BY DEF JobsOK
<1>2. RolesOf(f)[1] = f /\ RolesOf(f)[2] = Double
  BY DEF RolesOf
<1>3. PICK d \in Roles : d = Double
  BY OwnIs
<1>4. <<>> \in Seq(Roles) /\ <<d>> \in Seq(Roles)
  OBVIOUS
<1> QED BY <1>1, <1>2, <1>3, <1>4, OwnIs

\* Save and SaveDoubleByte.
LEMMA SaveKeeps ==
  ASSUME Stands, Save \/ SaveDoubleByte
  PROVE  KnownOK' /\ UnmarkedOK'
<1>1. UNCHANGED files /\ UNCHANGED <<disk, backup>> /\ UNCHANGED fits
  BY DEF Save, SaveDoubleByte, files, undoing
<1>2. font # NoFont
  BY StandParts, GroupRolesAre DEF Save, SaveDoubleByte, Done, ControlOK, Saving
<1>3. CASE Again /\ UNCHANGED memory
  <2>1. todo' = <<>> /\ UNCHANGED resident
    BY <1>3 DEF Again, Begin, memory
  <2> QED BY <1>1, <2>1, QuietKeeps
<1>4. ASSUME NEW r \in Roles, NEW aliases \in Seq(Roles), NEW n \in Pages,
             StartSave(r, aliases, n)
      PROVE  KnownOK' /\ UnmarkedOK'
  BY <1>1, <1>4, StartSaveKeeps
<1>5. CASE Save
  <2>1. \/ Again /\ UNCHANGED memory
        \/ \E n \in Pages : \/ StartSave(RolesOf(font)[1], <<RolesOf(font)[2]>>, n)
                            \/ StartSave(RolesOf(font)[1], <<>>, n)
    BY <1>5 DEF Save
  <2> QED BY <1>2, <1>3, <1>4, <2>1, StandParts, WorkRoles
<1>6. CASE SaveDoubleByte
  <2>1. \/ Again /\ UNCHANGED memory
        \/ \E n \in Pages : StartSave(RolesOf(font)[2], <<>>, n)
    BY <1>6 DEF SaveDoubleByte
  <2> QED BY <1>2, <1>3, <1>4, <2>1, StandParts, WorkRoles
<1> QED BY <1>5, <1>6

\* The page file of an alias.
LEMMA AliasPageIs ==
  ASSUME Stands, NEW alias, alias = [disk[<<role, 1>>] EXCEPT !.payload = role]
  PROVE  /\ alias \in File /\ alias.payload = role /\ role \in Roles
         /\ alias.content = disk[<<role, 1>>].content /\ alias.count = Count(role)
         /\ alias.repacked = disk[<<role, 1>>].repacked
         /\ fits # "no" => ~alias.marked
         /\ Count(role) # 0 => alias.content # 0
<1>1. <<role, 1>> \in Keys /\ disk[<<role, 1>>] \in File /\ role \in Roles
  BY StandParts, OwnIs, KeysAre DEF FilesOK, JobsOK
<1>2. PICK file \in File : file = disk[<<role, 1>>]
  BY <1>1
<1>3. /\ alias \in File /\ alias.payload = role /\ alias.content = file.content
      /\ alias.count = file.count /\ alias.repacked = file.repacked
      /\ alias.marked = file.marked
  BY <1>1, <1>2 DEF File
<1>4. fits # "no" => ~file.marked
  BY <1>1, <1>2 DEF Stands, UnmarkedOK
<1>5. file.count # 0 => file.content # 0
  BY <1>1, <1>2 DEF Stands, KnownOK, Known, Missing
<1> QED BY <1>1, <1>2, <1>3, <1>4, <1>5 DEF Count

\* What SaveAliases aliases: the double-byte role, or all roles to one page.
LEMMA AliasesAre ==
  ASSUME Stands, SaveAliases
  PROVE  \/ font # NoFont /\ role = font /\ targets = <<Double>>
         \/ font = NoFont /\ role = OwnerRole /\ targets = GroupRoles /\ Count(role) = 1
<1>1. pc = "saveOwn" /\ targets # <<>> /\ todo = <<>>
  BY DEF SaveAliases, Done
<1>2. Pending = {}
  BY <1>1, NoneIs DEF Pending
<1>3. font = NoFont => disk[<<OwnerRole, 1>>].count = 1
  BY <1>1, <1>2, StandParts DEF GroupOK, GroupSaving, Saving, SharedOK, ToDo
<1> QED BY <1>1, <1>3, StandParts DEF ControlOK, Saving, Count

\* SaveAliases: the pages of the aliases.
LEMMA SaveAliasesKeeps ==
  ASSUME Stands, SaveAliases
  PROVE  KnownOK' /\ UnmarkedOK'
<1>1. UNCHANGED <<disk, backup, resident, fits>> /\ IInv
  BY DEF SaveAliases, files, undoing, Stands
<1>2. PICK alias : alias = [disk[<<role, 1>>] EXCEPT !.payload = role]
  OBVIOUS
<1>3. /\ alias.payload = role /\ (fits # "no" => ~alias.marked)
      /\ Count(role) # 0 => alias.content # 0
  BY <1>2, AliasPageIs
<1>4. PICK T : T = {o \in Operations : Known(o.key, o.file) /\ (fits # "no" => ~o.file.marked)}
  OBVIOUS
<1>5. ASSUME NEW o \in Operations, o.key[1] \in ToSet(targets),
             \/ o.key[2] \notin 1..Count(role) /\ o.file = Missing
             \/ o.key[1] # role /\ o.key[2] \in 1..Count(role) /\ o.file = alias
      PROVE  o \in T
  <2>1. CASE o.file = Missing
    BY <1>4, <2>1, MissingKnown
  <2>2. CASE o.key[2] \in 1..Count(role) /\ o.file = alias
    <3>1. Count(role) # 0
      BY <2>2
    <3>2. CASE font # NoFont /\ targets = <<Double>>
      <4>1. o.key[1] = Double
        BY <1>5, <3>2 DEF ToSet
      <4> QED BY <1>3, <1>4, <2>2, <3>1, <4>1 DEF Known
    <3>3. CASE role = OwnerRole /\ Count(role) = 1
      <4>1. o.key[2] = 1
        BY <2>2, <3>3
      <4> QED BY <1>3, <1>4, <2>2, <3>1, <3>3, <4>1 DEF Known
    <3> QED BY <3>2, <3>3, AliasesAre
  <2> QED BY <1>5, <2>1, <2>2
<1>6. T \in SUBSET Operations
  BY <1>4
<1>7. Pending' \subseteq T
  BY <1>1, <1>2, <1>5, <1>6, AliasList
<1>8. \A o \in Pending' : Known(o.key, o.file) /\ (fits' # "no" => ~o.file.marked)
  BY <1>1, <1>4, <1>7
<1> QED BY <1>1, <1>8, SameStaysPlain, FilesKept

\* The work on the group begins, fails or ends without a list.
LEMMA GroupQuietKeeps ==
  ASSUME Stands, Consolidate \/ MarkDone \/ RolledBack \/ MembersRebuilt
  PROVE  KnownOK' /\ UnmarkedOK'
<1>1. CASE Consolidate
  <2>1. UNCHANGED <<disk, resident, fits, todo>> /\ backup' \in {backup, disk}
    BY <1>1 DEF Consolidate, Goto, memory, undoing
  <2> QED BY <2>1, QuietKeeps
<1>2. CASE MarkDone \/ MembersRebuilt
  <2>1. UNCHANGED <<disk, resident, fits>> /\ backup' = NoFiles /\ todo' = <<>>
    BY <1>2 DEF MarkDone, MembersRebuilt, Finish, Begin, memory
  <2> QED BY <2>1, QuietKeeps
<1>3. CASE RolledBack
  <2>1. /\ UNCHANGED <<disk, resident, fits>> /\ backup' \in {backup, NoFiles}
        /\ todo' = <<>>
    BY <1>3 DEF RolledBack, Finish, Begin, memory
  <2> QED BY <2>1, QuietKeeps
<1> QED BY <1>1, <1>2, <1>3

\* A font's work is given up.
LEMMA FontQuietKeeps ==
  ASSUME Stands, Discarded \/ PublishFails \/ SaveFails
  PROVE  KnownOK' /\ UnmarkedOK'
<1>1. UNCHANGED <<files, memory, undoing>>
  BY DEF Discarded, PublishFails, SaveFails, SaveFailed, PutFails
<1>2. UNCHANGED <<disk, backup, resident, fits>>
  BY <1>1 DEF files, memory, undoing
<1>3. todo' = <<>> \/ todo' = todo
  BY DEF Discarded, PublishFails, SaveFails, Again, Begin, Goto
<1> QED BY <1>2, <1>3, QuietKeeps

\* StageMetadata: what is staged has no mark.
LEMMA StageMetadataKeeps ==
  ASSUME Stands, StageMetadata
  PROVE  KnownOK' /\ UnmarkedOK'
<1>1. UNCHANGED <<disk, backup, fits>> /\ (todo' = <<>> \/ todo' = todo)
  BY DEF StageMetadata, Again, Begin, files, undoing
<1>2. \/ UNCHANGED resident
      \/ resident' = [r \in Roles |-> IF r \in Own(font) THEN PagesFrom(r, "none")
                                      ELSE resident[r]]
  BY DEF StageMetadata
<1>3. ASSUME fits # "no", Plain(resident), NEW r \in Roles, NEW p \in DOMAIN resident'[r]
      PROVE  ~resident'[r][p].header.marked
  <2>1. CASE resident'[r] = resident[r]
    BY <1>3, <2>1 DEF Plain
  <2>2. CASE resident'[r] = PagesFrom(r, "none")
    <3>1. p \in 1..Count(r) /\ PagesFrom(r, "none")[p].header = Header(r, p)
      BY <1>3, <2>2 DEF PagesFrom
    <3>2. FilesOK /\ KnownOK /\ UnmarkedOK
      BY StandParts
    <3>3. Header(r, p) = disk[Source(r, p)] /\ Source(r, p) \in Keys
      BY <3>1, <3>2, CountIs, SourceIs DEF Header
    <3> QED BY <1>3, <2>2, <3>1, <3>2, <3>3 DEF UnmarkedOK
  <2> QED BY <1>2, <1>3, <2>1, <2>2
<1>4. StaysPlain
  <2>1. fits # "no" => (Plain(resident) => Plain(resident'))
    BY <1>3 DEF Plain
  <2> QED BY <1>1, <2>1 DEF StaysPlain
<1> QED BY <1>1, <1>4, ListKept

\* RebuildPublished and RebuildMember load a font's roles again.
LEMMA RebuildKeeps ==
  ASSUME Stands, RebuildPublished \/ RebuildMember
  PROVE  KnownOK' /\ UnmarkedOK'
<1>1. UNCHANGED <<disk, backup, fits>>
  BY DEF RebuildPublished, RebuildMember, files, undoing
<1>2. todo' = <<>> \/ todo' = todo
  BY DEF RebuildPublished, RebuildMember, Goto, Again, Begin
<1>3. PICK f : \E loaded \in SUBSET Roles : resident' = Load(loaded, Drop(Own(f)))
  <2>1. CASE RebuildPublished
    <3>1. \E loaded \in SUBSET Roles : resident' = Load(loaded, Drop(Own(font)))
      BY <2>1 DEF RebuildPublished, Rebuild
    <3> QED BY <3>1
  <2>2. CASE RebuildMember
    <3>1. \E loaded \in SUBSET Roles : resident' = Load(loaded, Drop(Own(Head(queue))))
      BY <2>2 DEF RebuildMember, Rebuild
    <3> QED BY <3>1
  <2> QED BY <2>1, <2>2
<1>5. PICK loaded \in SUBSET Roles : resident' = Load(loaded, Drop(Own(f)))
  BY <1>3
<1>4. PICK pages : pages = Drop(Own(f))
  OBVIOUS
<1>6. StaysPlain
  BY <1>1, <1>5, <1>4, LoadStaysPlain
<1> QED BY <1>1, <1>2, <1>6, ListKept

\* MarkFallback: the pages of the owner are there, and known.
LEMMA MarkFallbackKeeps ==
  ASSUME Stands, MarkFallback
  PROVE  KnownOK' /\ UnmarkedOK' /\ \A o \in Pending' : o.file.payload = disk[o.key].payload
<1> DEFINE n == Len(resident[OwnerRole])
           mark(k) == Put(k, [disk[k] EXCEPT !.marked = TRUE])
<1>1. /\ fits' = "no" /\ UNCHANGED <<disk, backup>>
      /\ todo' = (IF \A p \in 1..n : disk[<<OwnerRole, p>>].count = n
                  THEN [p \in 1..n |-> mark(<<OwnerRole, p>>)] ELSE <<>>)
  BY DEF MarkFallback, Begin, files
<1>2. n \in Nat /\ n <= MaxPages /\ FilesOK /\ KnownOK
  BY StandParts, OwnIs DEF MemoryOK
<1> HIDE DEF n
<1>3. ASSUME NEW o \in Pending'
      PROVE  Known(o.key, o.file) /\ o.file.payload = disk[o.key].payload
  <2>1. PICK p \in 1..n : o = mark(<<OwnerRole, p>>) /\ disk[<<OwnerRole, p>>].count = n
    <3>1. todo' # <<>>
      BY <1>3, NoneIs DEF Pending
    <3>2. /\ todo' = [p \in 1..n |-> mark(<<OwnerRole, p>>)]
          /\ \A p \in 1..n : disk[<<OwnerRole, p>>].count = n
      BY <1>1, <3>1
    <3>3. PICK s : s = todo' /\ o \in ToSet(s)
      BY <1>3 DEF Pending
    <3> QED BY <3>2, <3>3 DEF ToSet
  <2>2. p \in Pages /\ n # 0
    BY <1>2, SnapshotAssumption DEF Pages
  <2>3. PICK k \in Keys : k = <<OwnerRole, p>> /\ k[1] = OwnerRole
    BY <2>2, OwnIs, KeysAre
  <2>4. PICK file \in File : file = disk[k] /\ Known(k, file) /\ file.count # 0
    BY <1>2, <2>1, <2>2, <2>3 DEF FilesOK, KnownOK
  <2>5. file.content # 0 /\ file # Missing
    BY <2>4 DEF Known, Missing
  <2>6. o.key = k /\ o.file = [file EXCEPT !.marked = TRUE]
    BY <2>1, <2>3, <2>4 DEF Put
  <2>7. o.file.content = file.content /\ o.file.payload = file.payload
    BY <2>6 DEF File
  <2> QED BY <2>4, <2>5, <2>6, <2>7 DEF Known
<1>4. StaysPlain
  BY <1>1 DEF StaysPlain
<1> QED BY <1>1, <1>3, <1>4, FilesKept

\* MarkFails: the headers of before are known.
LEMMA MarkFailsKeeps ==
  ASSUME Stands, MarkFails
  PROVE  /\ KnownOK' /\ UnmarkedOK'
         /\ \A o \in Pending' : o.key \in Keys /\ o.file = backup[o.key]
<1>1. /\ todo' = [p \in 1..Head(todo).key[2] |->
                     Put(<<OwnerRole, p>>, backup[<<OwnerRole, p>>])]
      /\ UNCHANGED <<disk, backup, resident, fits>> /\ todo # <<>>
  BY DEF MarkFails, PutFails, Begin, undoing, files, memory
<1>2. KnownOK /\ UnmarkedOK /\ TodoOK
  BY StandParts
<1>3. PICK n \in Nat : n = Head(todo).key[2] /\ \A p \in 1..n : p \in Pages
  <2>1. Head(todo) \in Operations
    BY <1>1, <1>2, TailIs DEF TodoOK
  <2>2. PICK k \in Keys : k = Head(todo).key
    BY <2>1 DEF Operations
  <2>3. k[2] \in Pages
    BY KeysAre
  <2> QED BY <2>2, <2>3, SnapshotAssumption DEF Pages
<1>4. ASSUME NEW o \in Pending'
      PROVE  o.key \in Keys /\ o.file = backup[o.key]
  <2>1. PICK p \in 1..n : o = Put(<<OwnerRole, p>>, backup[<<OwnerRole, p>>])
    <3>1. todo' = [p \in 1..n |-> Put(<<OwnerRole, p>>, backup[<<OwnerRole, p>>])]
      BY <1>1, <1>3
    <3>2. PICK s : s = todo' /\ o \in ToSet(s)
      BY <1>4 DEF Pending
    <3> QED BY <3>1, <3>2 DEF ToSet
  <2>2. PICK k \in Keys : k = <<OwnerRole, p>>
    BY <1>3, OwnIs, KeysAre
  <2> QED BY <2>1, <2>2 DEF Put
<1>5. \A o \in Pending' : Known(o.key, o.file) /\ (fits' # "no" => ~o.file.marked)
  BY <1>1, <1>2, <1>4 DEF KnownOK, UnmarkedOK
<1> QED BY <1>1, <1>4, <1>5, SameStaysPlain, FilesKept

\* StartRollback: the copies are known.
LEMMA StartRollbackKeeps ==
  ASSUME Stands, NEW then, StartRollback(then), UNCHANGED <<files, fits>>, StaysPlain
  PROVE  KnownOK' /\ UnmarkedOK'
<1>1. KnownOK /\ UnmarkedOK /\ FilesOK /\ UNCHANGED <<disk, backup, fits>>
  BY StandParts DEF files
<1>2. \A o \in Pending' : o.file = backup[o.key] /\ o.key \in Keys
  BY <1>1, RollbackList
<1>3. \A o \in Pending' : Known(o.key, o.file) /\ (fits' # "no" => ~o.file.marked)
  BY <1>1, <1>2 DEF KnownOK, UnmarkedOK
<1> QED BY <1>1, <1>3, FilesKept

\* The steps that save the group, or roll it back.
LEMMA GroupSavesKeep ==
  ASSUME Stands, SaveGroup \/ GroupSaveFails \/ ScopeRefused \/ RebuildGroup
  PROVE  KnownOK' /\ UnmarkedOK'
<1>1. CASE SaveGroup
  <2>1. StartSave(OwnerRole, GroupRoles, 1) /\ UNCHANGED files /\ fits # "no"
        /\ fits' = "yes"
    BY <1>1 DEF SaveGroup
  <2>2. PICK g \in Unused : g = Fresh
    BY <2>1, FreshIs DEF StartSave
  <2>3. \A o \in Pending' : SavedAs(o, OwnerRole, g, 1)
    BY <2>1, <2>2, OwnIs, GroupRolesAre, SaveList DEF Stands
  <2>4. \A o \in Pending' : o.key[1] = OwnerRole /\ New(o.file, OwnerRole)
    BY <2>3, SavedNew
  <2>5. \A o \in Pending' : New(o.file, o.key[1])
    BY <2>4
  <2>6. \A o \in Pending' : Known(o.key, o.file) /\ ~o.file.marked
    BY <2>5, NewKnown
  <2>7. UNCHANGED <<disk, backup, resident>>
    BY <2>1 DEF files, StartSave
  <2>8. StaysPlain
    BY <2>1, <2>7 DEF StaysPlain, Plain
  <2> QED BY <2>6, <2>7, <2>8, FilesKept
<1>2. CASE GroupSaveFails
  <2>1. StartRollback("rebuild") /\ UNCHANGED <<files, resident, fits>>
    BY <1>2 DEF GroupSaveFails, SaveFailed, PutFails, memory
  <2> QED BY <2>1, SameStaysPlain, StartRollbackKeeps
<1>3. CASE ScopeRefused
  <2>1. StartRollback("idle") /\ UNCHANGED <<files, resident, fits>>
    BY <1>3 DEF ScopeRefused, memory
  <2> QED BY <2>1, SameStaysPlain, StartRollbackKeeps
<1>4. CASE RebuildGroup
  <2>1. PICK last, loaded, now, pages :
           /\ last \in Fonts /\ loaded \in SUBSET Roles
           /\ now = ((UNION {Own(f) : f \in 1..(last - 1)}) \ Own(last)) \cup loaded
           /\ pages = Drop(Own(last))
           /\ resident' = Load(now, pages)
           /\ \/ todo' = <<>> /\ backup' = NoFiles
              \/ StartRollback("rebuild") /\ UNCHANGED backup
    BY <1>4 DEF RebuildGroup, Finish, Begin
  <2>2. UNCHANGED <<disk, fits>>
    BY <1>4 DEF RebuildGroup
  <2>3. now \in SUBSET Roles
    <3>1. \A f \in 1..(last - 1) : f \in Fonts
      BY <2>1, SnapshotAssumption DEF Fonts
    <3> QED BY <2>1, <3>1, OwnIs
  <2>4. StaysPlain
    BY <2>1, <2>2, <2>3, LoadStaysPlain
  <2>5. CASE todo' = <<>> /\ backup' = NoFiles
    BY <2>2, <2>4, <2>5, ListKept
  <2>6. CASE StartRollback("rebuild") /\ UNCHANGED backup
    BY <2>2, <2>4, <2>6, StartRollbackKeeps DEF files
  <2> QED BY <2>1, <2>5, <2>6
<1> QED BY <1>1, <1>2, <1>3, <1>4

\* The resident pages of a role are those of before, but for their textures.
SamePages(r) ==
  /\ Len(resident'[r]) = Len(resident[r]) /\ DOMAIN resident'[r] = DOMAIN resident[r]
  /\ \A p \in DOMAIN resident[r] : /\ resident'[r][p].source = resident[r][p].source
                                   /\ resident'[r][p].header = resident[r][p].header
\* A texture is read again or lost, its page stays.
LEMMA RefreshedPages ==
  ASSUME MemoryOK, NEW r \in Roles, resident'[r] \in {resident[r], Refresh(resident[r])}
  PROVE  SamePages(r)
<1>1. PICK s \in Seq(Page) : s = resident[r]
  BY DEF MemoryOK
<1>2. PICK u : u = Refresh(s)
  OBVIOUS
<1>3. u \in Seq(Page) /\ Len(u) = Len(s) /\ DOMAIN u = DOMAIN s
  BY <1>2, RefreshIs DEF Refresh
<1>4. ASSUME NEW p \in DOMAIN s PROVE u[p].source = s[p].source /\ u[p].header = s[p].header
  <2>1. PICK page \in Page : page = s[p]
    BY <1>4
  <2>2. PICK t : t = IF Readable(page) THEN "live" ELSE "pending"
    OBVIOUS
  <2>3. u[p] = IF page.texture = "none" THEN page ELSE [page EXCEPT !.texture = t]
    BY <1>2, <2>1, <2>2 DEF Refresh
  <2>4. [page EXCEPT !.texture = t].source = page.source
        /\ [page EXCEPT !.texture = t].header = page.header
    BY DEF Page
  <2> QED BY <2>1, <2>3, <2>4
<1> QED BY <1>1, <1>2, <1>3, <1>4 DEF SamePages

\* DeviceReset and PumpPending: textures are read again, the pages stay.
LEMMA TexturesOnly ==
  ASSUME MemoryOK, DeviceReset \/ PumpPending
  PROVE  /\ \A r \in Roles : SamePages(r)
         /\ UNCHANGED <<files, complete, pc, jobs, saving, todo, undoing, faults>>
<1>1. UNCHANGED <<files, complete, pc, jobs, saving, todo, undoing, faults>>
  BY DEF DeviceReset, PumpPending
<1>2. DOMAIN resident = Roles
  BY DEF MemoryOK
<1>3. \A r \in Roles : resident'[r] \in {resident[r], Refresh(resident[r])}
  <2>1. CASE DeviceReset
    BY <2>1 DEF DeviceReset
  <2>2. CASE PumpPending
    <3>1. PICK q \in Roles : resident' = [resident EXCEPT ![q] = Refresh(resident[q])]
      BY <2>2 DEF PumpPending
    <3> QED BY <1>2, <3>1
  <2> QED BY <2>1, <2>2
<1> QED BY <1>1, <1>3, RefreshedPages

\* The environment leaves the page files.
LEMMA EnvironmentKeeps ==
  ASSUME Stands, Environment \/ UNCHANGED vars
  PROVE  KnownOK' /\ UnmarkedOK'
<1>1. CASE DeviceReset \/ PumpPending
  <2>1. /\ \A r \in Roles : SamePages(r)
        /\ UNCHANGED <<files, complete, pc, jobs, saving, todo, undoing, faults>>
    BY <1>1, StandParts, TexturesOnly
  <2>2. UNCHANGED <<disk, backup, fits, todo>>
    BY <2>1 DEF files, undoing
  <2>3. StaysPlain
    BY <2>1, <2>2 DEF StaysPlain, Plain, SamePages
  <2> QED BY <2>2, <2>3, ListKept
<1>2. CASE Crash
  <2>1. /\ UNCHANGED <<disk, fits>> /\ backup' = NoFiles /\ todo' = <<>>
        /\ resident' = [r \in Roles |-> <<>>]
    BY <1>2 DEF Crash, Begin
  <2>2. StaysPlain
    BY <2>1 DEF StaysPlain, Plain
  <2> QED BY <2>1, <2>2, ListKept
<1>3. CASE Restart \/ NewSession
  <2>1. UNCHANGED <<disk, backup, resident, fits>> /\ todo' = <<>>
    BY <1>3 DEF Restart, NewSession, StartSession, files, memory, undoing
  <2> QED BY <2>1, QuietKeeps
<1>4. CASE UNCHANGED vars
  <2>1. UNCHANGED <<disk, backup, resident, fits, todo>>
    BY <1>4 DEF vars, files, memory, undoing
  <2> QED BY <2>1, QuietKeeps
<1> QED BY <1>1, <1>2, <1>3, <1>4 DEF Environment

\* Whatever fails, the page files are known.
LEMMA NextKeeps ==
  ASSUME Stands, [Next]_vars
  PROVE  KnownOK' /\ UnmarkedOK'
<1>1. CASE FontStep
  BY <1>1, RestoreKeeps, FontQuietKeeps, PublishStreamKeeps, StageMetadataKeeps, SaveKeeps,
     SaveAliasesKeeps, RebuildKeeps DEF FontStep
<1>2. CASE GroupStep
  BY <1>2, GroupQuietKeeps, MarkFallbackKeeps, MarkFailsKeeps, WriteFilesKeeps,
     GroupSavesKeep, RollBackKeeps, RebuildKeeps DEF GroupStep
<1> QED BY <1>1, <1>2, WriteFilesKeeps, EnvironmentKeeps DEF Next

-----------------------------------------------------------------------------
(* What is resident and the files it was read from.                            *)
\* What the steps below start from.
Sound == Stands /\ intact /\ Healing

\* The facts of a state that is sound.
LEMMA SoundParts ==
  Sound =>
    /\ Stands /\ IInv /\ FilesOK /\ MemoryOK /\ TodoOK /\ JobsOK /\ UndoOK /\ FaultsOK
    /\ ControlOK /\ QueuesOK /\ GroupOK /\ AimOK /\ KnownOK /\ UnmarkedOK
    /\ Held(resident) /\ complete \subseteq Roles /\ Pending \subseteq Operations
    /\ intact
    /\ PayloadOK /\ OrderOK /\ AuthorOK /\ OwnerOK /\ BlankOK /\ CompleteOK
    /\ OwnFirstOK /\ AliasesOK /\ BackupOK /\ UndoneOK
<1>1. Sound => Stands /\ intact /\ Healing
  BY DEF Sound
<1>2. Healing => /\ PayloadOK /\ OrderOK /\ AuthorOK /\ OwnerOK /\ BlankOK /\ CompleteOK
                 /\ OwnFirstOK /\ AliasesOK /\ BackupOK /\ UndoneOK
  BY DEF Healing
<1> QED BY <1>1, <1>2, StandParts

\* A role that can be loaded still can where its files and their sources have
\* changed in the marks at most.
LEMMA LoadableKept ==
  ASSUME FilesOK, NEW r \in Roles, Loadable(r),
         \A p \in 1..Count(r) : /\ Same(disk'[<<r, p>>], disk[<<r, p>>])
                                /\ Same(disk'[Source(r, p)], disk[Source(r, p)])
  PROVE  /\ Loadable(r)' /\ Count(r)' = Count(r)
         /\ \A p \in 1..Count(r) : Source(r, p)' = Source(r, p)
<1>1. 1 \in 1..Count(r)
  BY CountIs
<1>2. Count(r)' = Count(r)
  BY <1>1 DEF Count, Same, Alike
<1>3. \A p \in 1..Count(r) : Source(r, p)' = Source(r, p)
  BY DEF Source, Same
<1>4. \A p \in 1..Count(r) : /\ disk[<<r, p>>].content # 0
                             /\ disk[Source(r, p)].content = disk[<<r, p>>].content
                             /\ disk[Source(r, p)].payload = Source(r, p)[1]
                             /\ disk[<<r, p>>].count = Count(r) /\ disk[<<r, p>>].repacked
  BY DEF Loadable, Stageable, HasPayload, Header, IsFile
<1>5. \A p \in 1..Count(r) : /\ disk'[<<r, p>>].content # 0
                             /\ disk'[Source(r, p)].content = disk'[<<r, p>>].content
                             /\ disk'[Source(r, p)].payload = Source(r, p)[1]
                             /\ disk'[<<r, p>>].count = Count(r) /\ disk'[<<r, p>>].repacked
  BY <1>4 DEF Same, Alike
<1>6. Count(r) # 0
  BY DEF Loadable, Stageable
<1>7. Stageable(r)'
  BY <1>2, <1>3, <1>5, <1>6 DEF Stageable, HasPayload, Header, IsFile
<1> QED BY <1>2, <1>3, <1>5, <1>7 DEF Loadable

\* What is resident of a role still is what its files hold.
LEMMA MatchesKept ==
  ASSUME FilesOK, NEW r \in Roles, Matches(r),
         \A p \in 1..Count(r) : /\ Same(disk'[<<r, p>>], disk[<<r, p>>])
                                /\ Same(disk'[Source(r, p)], disk[Source(r, p)]),
         Len(resident'[r]) = Len(resident[r]),
         \A p \in 1..Count(r) : /\ resident'[r][p].source = resident[r][p].source
                                /\ resident'[r][p].header = resident[r][p].header
  PROVE  Matches(r)'
<1>1. Loadable(r)
  BY DEF Matches, MatchesIn
<1>2. /\ Loadable(r)' /\ Count(r)' = Count(r)
      /\ \A p \in 1..Count(r) : Source(r, p)' = Source(r, p)
  BY <1>1, LoadableKept
<1>3. \A p \in 1..Count(r) : Same(resident'[r][p].header, disk'[Source(r, p)])
  BY DEF Matches, MatchesIn, Header, Same, Alike
<1> QED BY <1>2, <1>3 DEF Matches, MatchesIn, Header

\* A role that is loaded has what its files hold.
LEMMA LoadedMatches ==
  ASSUME FilesOK, NEW r \in Roles, Loadable(r), NEW pages, pages[r] = PagesFrom(r, "live")
  PROVE  MatchesIn(r, pages)
<1>1. Len(pages[r]) = Count(r)
  BY PagesFromIs
<1>2. \A p \in 1..Count(r) : /\ pages[r][p].source = Source(r, p)
                             /\ pages[r][p].header = Header(r, p)
  BY DEF PagesFrom
<1> QED BY <1>1, <1>2 DEF MatchesIn, Same, Alike

\* Where the files stay, what matched them does if it is still resident.
LEMMA MatchesStill ==
  ASSUME UNCHANGED disk, NEW r, MatchesIn(r, resident')
  PROVE  Matches(r)'
  BY DEF Matches, MatchesIn, Loadable, Stageable, HasPayload, IsFile, Header, Source, Count

\* Who is at work and what waits, where the jobs stay.
LEMMA SameWork ==
  ASSUME UNCHANGED <<pc, jobs>>
  PROVE  /\ \A f : (Active(f)' <=> Active(f)) /\ (Waiting(f)' <=> Waiting(f))
         /\ FontWork' = FontWork /\ Grouping' = Grouping /\ GroupSaving' = GroupSaving
  BY DEF Active, Waiting, FontWork, Grouping, GroupSaving, jobs

\* While a font is worked on, nothing is asked of the group's work.
LEMMA FontOnly ==
  ASSUME FontWork', OrderOK', AuthorOK', OwnerOK', BlankOK', FontsOK'
  PROVE  Healing'
<1>1. ~Grouping' /\ pc' \notin {"idle", "group", "mark", "unmark", "rollback", "rebuild"}
        /\ ~GroupSaving'
  BY DEF FontWork, Grouping, GroupSaving, Saving
<1>2. PayloadOK' /\ OwnFirstOK' /\ AliasesOK' /\ BackupOK' /\ UndoneOK'
  BY <1>1 DEF PayloadOK, OwnFirstOK, AliasesOK, BackupOK, UndoneOK
<1>3. CompleteOK'
  BY <1>1 DEF CompleteOK
<1> QED BY <1>2, <1>3 DEF Healing

-----------------------------------------------------------------------------
(* One operation of a font's work.                                             *)
\* Some font is at work where files are to be written for one.
LEMMA AuthorIs ==
  ASSUME Sound, FontWork, todo # <<>>
  PROVE  /\ pc \in {"discard", "publish"} \cup Saving
         /\ \E f \in Fonts : /\ Active(f) /\ Writes(f)
                             /\ IF pc = "discard" THEN f \in ToSet(generation) ELSE f = font
<1>1. TodoOK /\ ControlOK /\ JobsOK /\ AuthorOK
  BY SoundParts
<1>2. pc \in {"discard", "publish"} \cup Saving
  BY <1>1 DEF TodoOK, WriteSteps, FontWork, Saving
<1>3. CASE pc = "discard"
  <2>1. PICK f \in ToSet(generation) : Writes(f)
    BY <1>1, <1>3 DEF AuthorOK
  <2>2. f \in Fonts
    BY <1>1, <2>1, InList DEF JobsOK
  <2> QED BY <1>2, <1>3, <2>1, <2>2 DEF Active
<1>4. CASE pc # "discard"
  <2>1. font # NoFont
    BY <1>1, <1>2, <1>4 DEF FontWork, Saving, ControlOK
  <2>2. font \in Fonts /\ Active(font) /\ Writes(font)
    BY <1>1, <1>2, <1>4, <2>1 DEF JobsOK, Active, AuthorOK, Saving
  <2> QED BY <1>2, <1>4, <2>2
<1> QED BY <1>3, <1>4

\* An operation that is performed for a font.
FontDone(f, o) ==
  /\ f \in Fonts /\ Active(f) /\ Writes(f)
  /\ IF pc = "discard" THEN f \in ToSet(generation) ELSE f = font
  /\ pc \in {"discard", "publish"} \cup Saving /\ (pc \in Saving => font # NoFont)
  /\ o \in Pending /\ o \in Operations /\ Performed(o) /\ TakenOff(o)
  /\ UNCHANGED <<backup, memory, pc, jobs, saving, undoing, faults>>

\* It changes the font's files only.
LEMMA FontDoneIs ==
  ASSUME Sound, NEW f, NEW o, FontDone(f, o)
  PROVE  /\ f \in Fonts /\ Active(f) /\ FontWork /\ pc # "restore"
         /\ o.key[1] \in {f, Double}
         /\ o.file = Missing \/ o.file.payload \in {f, Double}
         /\ disk'[o.key] = o.file /\ o.key \in Keys /\ o \in Pending
         /\ \A k \in Keys : k # o.key => disk'[k] = disk[k]
         /\ \A k \in Keys : k[1] \notin {f, Double} => disk'[k] = disk[k]
         /\ pc = "discard" => o.file = Missing
         /\ pc # "discard" => f = font /\ f \notin ToSet(generation) /\ queue = <<>>
         /\ pc = "publish" => ~o.file.repacked
         /\ \A k : Going(k) => k[1] \in {f, Double} \/ f # 1
         /\ \A k : Going(k) /\ k # o.key => Going(k)'
         /\ UNCHANGED <<queue, generation, font, resident, complete, pc, jobs>>
         /\ Pending' \subseteq Pending /\ Pending \subseteq Pending' \cup {o}
<1>1. /\ f \in Fonts /\ Active(f) /\ Writes(f) /\ Own(f) = {f, Double}
      /\ IF pc = "discard" THEN f \in ToSet(generation) ELSE f = font
      /\ pc \in {"discard", "publish"} \cup Saving /\ (pc \in Saving => font # NoFont)
      /\ o \in Pending /\ o \in Operations /\ Performed(o) /\ TakenOff(o)
      /\ UNCHANGED <<queue, generation, font, resident, complete, pc, jobs>>
      /\ QueuesOK /\ OrderOK /\ AimOK /\ f # NoFont
  BY OwnIs, SoundParts DEF FontDone, memory, jobs
<1>2. FontWork /\ pc # "restore"
  BY <1>1 DEF FontWork, Saving
<1>3. /\ o.key[1] \in {f, Double} /\ (o.file = Missing \/ o.file.payload \in {f, Double})
      /\ disk'[o.key] = o.file /\ o.key \in Keys
      /\ \A k \in Keys : k # o.key => disk'[k] = disk[k]
  BY <1>1 DEF Writes, Operations, Performed
<1>4. \A k \in Keys : k[1] \notin {f, Double} => disk'[k] = disk[k]
  BY <1>3
<1>5. /\ pc = "discard" => o.file = Missing
      /\ pc = "publish" => ~o.file.repacked
      /\ pc # "discard" => f = font /\ f \notin ToSet(generation) /\ queue = <<>>
  BY <1>1 DEF AimOK, QueuesOK, OrderOK
<1>6. Pending' \subseteq Pending /\ Pending \subseteq Pending' \cup {o}
  BY <1>1 DEF TakenOff
<1>7. \A k : Going(k) => k[1] \in {f, Double}
  BY <1>1 DEF Going, ToDo, Writes
<1>8. \A k : Going(k) /\ k # o.key => Going(k)'
  BY <1>1, <1>6 DEF Going, ToDo
<1> QED BY <1>1, <1>2, <1>3, <1>4, <1>5, <1>6, <1>7, <1>8

\* The double-byte role stays without a page that could be loaded.
LEMMA NoDoubleKept ==
  ASSUME Sound, NEW f, NEW o, FontDone(f, o), NoDouble, queue # <<>>
  PROVE  NoDouble'
<1> DEFINE k == <<Double, 1>>
<1>1. /\ pc = "discard" /\ o.file = Missing /\ UNCHANGED complete
      /\ disk'[o.key] = o.file /\ k \in Keys
      /\ \A j \in Keys : j # o.key => disk'[j] = disk[j]
      /\ Going(k) /\ k # o.key => Going(k)'
  BY FontDoneIs, FirstKeys, OwnIs
<1>2. Missing.content = 0
  BY DEF Missing
<1>3. Double \notin complete /\ (disk[k].content = 0 \/ Going(k))
  BY DEF NoDouble
<1>4. disk'[k].content = 0 \/ Going(k)'
  BY <1>1, <1>2, <1>3
<1> QED BY <1>1, <1>3, <1>4 DEF NoDouble

\* A single-byte role that has the owner's page.
LEMMA SharingIs ==
  ASSUME Sound, NEW g \in Fonts, g # 1, NEW p \in Pages, IsFile(<<g, p>>),
         Source(g, p)[1] # g
  PROVE  Sharing(g) /\ p = 1 /\ Source(g, p) = OwnerKey
<1>1. FilesOK /\ KnownOK /\ g \in Roles /\ g # Double /\ g \notin Own(1)
  BY SoundParts, OwnIs
<1>2. Source(g, p) = OwnerKey /\ p = 1
  <2>1. Source(g, p) = <<g, p>> \/ (Source(g, p) = OwnerKey /\ p = 1)
    BY <1>1, SourceIs
  <2> QED BY <2>1
<1> QED BY <1>1, <1>2 DEF Sharing, Source, OwnerKey, IsFile

\* A complete role either matches its files after the operation, or it is stale.
LEMMA StillMatching ==
  ASSUME Sound, NEW f, NEW o, FontDone(f, o), NEW r \in complete
  PROVE  Matches(r)' \/ Stale(r)'
<1>1. /\ FilesOK /\ KnownOK /\ FontsOK /\ OwnerOK /\ r \in Roles
      /\ f \in Fonts /\ Active(f) /\ FontWork /\ pc # "restore"
      /\ UNCHANGED <<queue, generation, font, resident, complete, pc, jobs>>
      /\ \A k \in Keys : k[1] \notin {f, Double} => disk'[k] = disk[k]
      /\ \A k : Going(k) => k[1] \in {f, Double} \/ f # 1
  BY SoundParts, FontDoneIs DEF CompleteOK
<1>2. queue # <<>> /\ NoDouble => NoDouble'
  BY NoDoubleKept
<1>3. Active(1)' = Active(1)
  BY <1>1 DEF Active
<1>4. ToSet(queue) # {} => queue # <<>>
  BY NoneIs
<1>5. ASSUME r \in ToSet(queue), Active(1), NoDouble
      PROVE  Stale(r)'
  BY <1>1, <1>2, <1>3, <1>4, <1>5 DEF Stale
<1>6. CASE Stale(r)
  <2>1. CASE r = Double /\ pc = "publish"
    BY <1>1, <2>1 DEF Stale
  <2> QED BY <1>1, <1>5, <1>6, <2>1 DEF Stale
<1>7. CASE r = Double
  <2>1. pc = "publish"
    BY <1>1, <1>7 DEF FontsOK, FontDone, Saving
  <2> QED BY <1>1, <1>7, <2>1 DEF Stale
<1>8. CASE ~Stale(r) /\ r # Double
  <2>1. Matches(r) /\ r # f /\ Loadable(r) /\ r \in Fonts
    BY <1>1, <1>8 DEF FontsOK, Matches, MatchesIn, Roles
  <2>2. CASE f = 1 /\ Sharing(r)
    <3>1. Waiting(1) /\ Active(1)
      BY <1>1, <2>2 DEF Waiting
    <3>2. ~Going(<<r, 1>>)
      BY <1>1, <1>8, <2>1, <2>2
    <3>3. r \in ToSet(queue) /\ NoDouble
      BY <1>1, <2>1, <2>2, <3>1, <3>2 DEF OwnerOK
    <3> QED BY <1>5, <3>1, <3>3
  <2>3. CASE ~(f = 1 /\ Sharing(r))
    <3>1. ASSUME NEW p \in 1..Count(r)
          PROVE  /\ disk'[<<r, p>>] = disk[<<r, p>>]
                 /\ disk'[Source(r, p)] = disk[Source(r, p)]
      <4>1. p \in Pages /\ IsFile(<<r, p>>)
        BY <1>1, <2>1, CountIs DEF Loadable, Stageable, HasPayload
      <4>2. <<r, p>> \in Keys /\ <<r, p>>[1] = r /\ Source(r, p) \in Keys
        BY <1>1, <4>1, SourceIs
      <4>3. disk'[<<r, p>>] = disk[<<r, p>>]
        BY <1>1, <1>8, <2>1, <4>2
      <4>4. Source(r, p) = <<r, p>> \/ Source(r, p) = OwnerKey
        BY <1>1, <1>8, <4>1, SourceIs
      <4>5. CASE Source(r, p) = <<r, p>>
        BY <4>3, <4>5
      <4>6. CASE Source(r, p) # <<r, p>>
        <5>1. Source(r, p) = OwnerKey /\ OwnerKey[1] = 1 /\ 1 # Double
          BY <4>4, <4>6, FirstKeys
        <5>2. r # 1 \/ p # 1
          BY <4>6, <5>1 DEF OwnerKey, OwnerRole
        <5>3. r # 1
          <6>1. Source(r, p)[2] = p /\ OwnerKey[2] = 1
            BY <1>1, <4>1, SourceIs, FirstKeys
          <6> QED BY <5>1, <5>2, <6>1
        <5>4. Source(r, p)[1] # r
          BY <5>1, <5>3
        <5>5. Sharing(r)
          BY <2>1, <4>1, <5>3, <5>4, SharingIs
        <5>6. OwnerKey[1] \notin {f, Double}
          BY <2>3, <5>1, <5>5
        <5> QED BY <1>1, <4>2, <4>3, <5>1, <5>6
      <4> QED BY <4>3, <4>5, <4>6
    <3>2. \A p \in 1..Count(r) : /\ Same(disk'[<<r, p>>], disk[<<r, p>>])
                                 /\ Same(disk'[Source(r, p)], disk[Source(r, p)])
      BY <3>1 DEF Same, Alike
    <3> QED BY <1>1, <2>1, <3>2, MatchesKept
  <2> QED BY <2>2, <2>3
<1> QED BY <1>6, <1>7, <1>8

\* An operation performed for a font.
LEMMA FontDoneHeals ==
  ASSUME Sound, NEW f, NEW o, FontDone(f, o)
  PROVE  Healing'
<1>1. OrderOK /\ AuthorOK /\ OwnerOK /\ BlankOK /\ FontsOK /\ complete \subseteq Roles
  BY SoundParts, FontDoneIs DEF CompleteOK
<1>2. /\ \A g : (Active(g)' <=> Active(g)) /\ (Waiting(g)' <=> Waiting(g))
      /\ FontWork' = FontWork
  BY FontDoneIs, SameWork
<1>3. /\ f \in Fonts /\ Active(f) /\ FontWork /\ pc # "restore"
      /\ o.key[1] \in {f, Double}
      /\ o.file = Missing \/ o.file.payload \in {f, Double}
      /\ disk'[o.key] = o.file /\ o.key \in Keys /\ o \in Pending
      /\ \A k \in Keys : k # o.key => disk'[k] = disk[k]
      /\ pc = "discard" => o.file = Missing
      /\ pc # "discard" => f = font /\ f \notin ToSet(generation) /\ queue = <<>>
      /\ pc = "publish" => ~o.file.repacked
      /\ \A k : Going(k) /\ k # o.key => Going(k)'
      /\ UNCHANGED <<queue, generation, font, resident, complete, pc, jobs>>
      /\ Pending' \subseteq Pending
  BY FontDoneIs
<1>4. OrderOK' /\ AuthorOK'
  BY <1>1, <1>3 DEF OrderOK, AuthorOK, Writes
<1>5. queue # <<>> /\ NoDouble => NoDouble'
  BY NoDoubleKept
<1>6. Missing.content = 0 /\ ~Missing.repacked
  BY DEF Missing
<1>7. \A g \in Fonts : <<g, 1>> \in Keys /\ <<g, 1>>[1] = g /\ g # Double
  BY OwnIs, FirstKeys
<1>8. OwnerOK'
  <2> SUFFICES ASSUME FontWork', Waiting(1)', NEW g \in Fonts, Sharing(g)'
               PROVE  (g \in ToSet(queue') /\ (Active(1)' => NoDouble')) \/ Going(<<g, 1>>)'
    BY DEF OwnerOK
  <2>1. /\ g \notin Own(1) /\ disk'[<<g, 1>>].content # 0
        /\ disk'[<<g, 1>>].payload = OwnerRole
    BY DEF Sharing
  <2>2. o.key # <<g, 1>>
    <3>1. ASSUME o.key = <<g, 1>> PROVE FALSE
      <4>1. g = f /\ o.file # Missing /\ o.file.payload = OwnerRole
        BY <1>3, <1>6, <1>7, <2>1, <3>1
      <4>2. f = 1
        BY <1>3, <4>1, FirstKeys
      <4> QED BY <2>1, <4>1, <4>2, OwnIs
    <3> QED BY <3>1
  <2>3. Sharing(g)
    BY <1>3, <1>7, <2>1, <2>2 DEF Sharing
  <2>4. (g \in ToSet(queue) /\ (Active(1) => NoDouble)) \/ Going(<<g, 1>>)
    BY <1>1, <1>2, <2>3 DEF OwnerOK
  <2>5. g \in ToSet(queue) => queue # <<>>
    BY NoneIs
  <2> QED BY <1>2, <1>3, <1>5, <2>2, <2>4, <2>5
<1>9. BlankOK'
  <2>1. ASSUME NEW h \in ToSet(generation), disk'[<<h, 1>>].repacked
        PROVE  Going(<<h, 1>>)'
    <3>1. h \in Fonts
      BY SoundParts, InList DEF JobsOK
    <3>2. o.key # <<h, 1>>
      BY <1>3, <1>6, <1>7, <2>1, <3>1
    <3> QED BY <1>1, <1>3, <1>7, <2>1, <3>1, <3>2 DEF BlankOK
  <2>2. ASSUME pc = "publish" PROVE ~disk'[<<font, 1>>].repacked
    BY <1>1, <1>3, <1>7, <2>2 DEF BlankOK
  <2> QED BY <1>3, <2>1, <2>2 DEF BlankOK
<1>10. FontsOK'
  <2>1. \A r \in complete : Matches(r)' \/ Stale(r)'
    BY StillMatching
  <2>2. \A r \in complete : TablesReady(r, resident)
    BY <1>1, <1>3 DEF FontsOK, Mixed
  <2>3. \A r \in complete : TablesReady(r, resident)'
    BY <1>3, <2>2 DEF TablesReady
  <2> QED BY <1>1, <1>2, <1>3, <2>1, <2>3 DEF FontsOK
<1> QED BY <1>2, <1>3, <1>4, <1>8, <1>9, <1>10, FontOnly

-----------------------------------------------------------------------------
(* One operation of the group's work.                                          *)
\* No font is at work while the group is.
LEMMA GroupAlone ==
  ASSUME Sound, pc \in GroupSteps \/ GroupSaving
  PROVE  /\ font = NoFont /\ generation = <<>> /\ (\A f \in Fonts : ~Active(f))
         /\ ~FontWork /\ pc # "idle" /\ pc # "gone"
<1>1. font = NoFont
  BY SoundParts DEF ControlOK, GroupSaving
<1>2. generation = <<>>
  BY <1>1, NoGenerations, SoundParts DEF GroupSaving
<1>3. \A f \in Fonts : ~Active(f)
  BY <1>1, <1>2, NoneIs, OwnIs DEF Active
<1>4. ~FontWork /\ pc # "idle" /\ pc # "gone"
  BY <1>1 DEF FontWork, GroupSteps, GroupSaving, Saving
<1> QED BY <1>1, <1>2, <1>3, <1>4

\* While no font is worked on, nothing is asked of the fonts' work.
LEMMA GroupOnly ==
  ASSUME ~FontWork', generation' = <<>>, font' = NoFont,
         (1 \in ToSet(queue) => Head(queue) = 1)',
         PayloadOK', CompleteOK', OwnFirstOK', AliasesOK', BackupOK', UndoneOK'
  PROVE  Healing'
<1>1. OrderOK' /\ AuthorOK'
  BY DEF OrderOK, AuthorOK, FontWork, Saving
<1>2. OwnerOK' /\ BlankOK'
  BY NoneIs DEF OwnerOK, BlankOK, FontWork
<1> QED BY <1>1, <1>2 DEF Healing

\* What stays of it where one operation is performed for the group.
GroupDone(o) ==
  /\ TakenOff(o) /\ Performed(o)
  /\ UNCHANGED <<backup, memory, pc, jobs, saving, undoing, faults>>
LEMMA GroupDoneIs ==
  ASSUME Sound, pc \in GroupSteps \/ GroupSaving, NEW o, GroupDone(o)
  PROVE  /\ ~FontWork' /\ generation' = <<>> /\ font' = NoFont
         /\ (1 \in ToSet(queue) => Head(queue) = 1)' /\ BackupOK'
         /\ pc \notin {"mark", "unmark", "group"} => PayloadOK' /\ CompleteOK'
         /\ UNCHANGED <<backup, resident, complete, pc, font, restored, next, clean>>
         /\ GroupSaving' = GroupSaving /\ Grouping' = Grouping
         /\ pc # "idle" /\ pc # "gone"
         /\ o \in Pending /\ o \in Operations /\ o.key \in Keys
         /\ Pending' \subseteq Pending /\ Pending \subseteq Pending' \cup {o}
         /\ disk'[o.key] = o.file /\ \A k \in Keys : k # o.key => disk'[k] = disk[k]
<1>1. OrderOK /\ BackupOK
  BY SoundParts
<1>2. /\ UNCHANGED <<backup, queue, generation, font, resident, complete, pc, jobs>>
      /\ UNCHANGED <<restored, next, clean>>
  BY DEF GroupDone, jobs, memory, undoing, faults
<1>3. FontWork' = FontWork /\ Grouping' = Grouping /\ GroupSaving' = GroupSaving
  BY <1>2, SameWork
<1>4. font = NoFont /\ generation = <<>> /\ ~FontWork /\ pc # "idle" /\ pc # "gone"
  BY GroupAlone
<1>5. (1 \in ToSet(queue) => Head(queue) = 1)' /\ BackupOK'
  BY <1>1, <1>2, <1>3 DEF OrderOK, BackupOK
<1>6. pc \notin {"mark", "unmark", "group"} => PayloadOK' /\ CompleteOK'
  BY <1>2, <1>3, <1>4 DEF PayloadOK, CompleteOK, Grouping
<1>7. /\ o \in Pending /\ o \in Operations /\ o.key \in Keys
      /\ Pending' \subseteq Pending /\ Pending \subseteq Pending' \cup {o}
      /\ disk'[o.key] = o.file /\ \A k \in Keys : k # o.key => disk'[k] = disk[k]
  BY DEF GroupDone, TakenOff, Performed, Operations
<1> QED BY <1>2, <1>3, <1>4, <1>5, <1>6, <1>7

\* The owner's page is replaced, then its other pages are deleted.
LEMMA OwnDoneHeals ==
  ASSUME Sound, GroupSaving, pc = "saveOwn", NEW o, GroupDone(o)
  PROVE  Healing'
<1>1. OwnFirstOK
  BY SoundParts
<1>2. NewOwner(disk'[OwnerKey]) \/ ToDo(OwnerKey)'
  <2>1. CASE o.key = OwnerKey
    BY <1>1, <2>1, GroupDoneIs DEF OwnFirstOK
  <2>2. CASE o.key # OwnerKey
    BY <1>1, <2>2, GroupDoneIs, FirstKeys DEF OwnFirstOK, ToDo
  <2> QED BY <2>1, <2>2
<1>3. OwnFirstOK'
  BY <1>1, <1>2, GroupDoneIs DEF OwnFirstOK
<1>4. AliasesOK' /\ UndoneOK'
  BY GroupDoneIs DEF AliasesOK, UndoneOK
<1> QED BY <1>3, <1>4, GroupDoneIs, GroupOnly

\* A role whose first page is the owner's new page can be loaded.
LEMMA NewLoadable ==
  NewOwner(disk[OwnerKey]) =>
    \A r \in Roles : disk[<<r, 1>>] = disk[OwnerKey]
      => Loadable(r) /\ Count(r) = 1 /\ Source(r, 1) = OwnerKey
<1> SUFFICES ASSUME NewOwner(disk[OwnerKey]), NEW r \in Roles,
                    disk[<<r, 1>>] = disk[OwnerKey]
             PROVE  Loadable(r) /\ Count(r) = 1 /\ Source(r, 1) = OwnerKey
  OBVIOUS
<1>1. Count(r) = 1 /\ Source(r, 1) = OwnerKey /\ OwnerKey[1] = OwnerRole
  BY DEF Count, Source, NewOwner, OwnerKey
<1>2. \A p \in 1..1 : p = 1
  OBVIOUS
<1>3. HasPayload(r, 1)
  BY <1>1 DEF HasPayload, IsFile, Header, NewOwner
<1>4. Stageable(r)
  BY <1>1, <1>2, <1>3 DEF Stageable, NewOwner
<1>5. \A p \in 1..Count(r) : disk[<<r, p>>].repacked
  BY <1>1, <1>2 DEF NewOwner
<1> QED BY <1>1, <1>4, <1>5 DEF Loadable

\* An alias of the owner's page is written, or another page deleted.
LEMMA AliasDoneHeals ==
  ASSUME Sound, GroupSaving, pc = "saveAlias", NEW o, GroupDone(o)
  PROVE  Healing'
<1>1. AliasesOK
  BY SoundParts
<1>2. /\ o \in Pending /\ o.key # OwnerKey /\ Pending' \subseteq Pending
      /\ Pending \subseteq Pending' \cup {o}
      /\ o.key \in Keys /\ disk'[o.key] = o.file
      /\ \A k \in Keys : k # o.key => disk'[k] = disk[k]
      /\ disk'[OwnerKey] = disk[OwnerKey]
  BY <1>1, GroupDoneIs, FirstKeys DEF AliasesOK
<1>3. ASSUME NEW r \in Roles
      PROVE  disk'[<<r, 1>>] = disk'[OwnerKey] \/ ToDo(<<r, 1>>)'
  <2>1. <<r, 1>> \in Keys /\ <<r, 1>>[2] = 1
    BY FirstKeys
  <2>2. CASE o.key = <<r, 1>>
    BY <1>1, <1>2, <2>1, <2>2 DEF AliasesOK
  <2>3. CASE o.key # <<r, 1>>
    <3>1. disk'[<<r, 1>>] = disk[<<r, 1>>]
      BY <1>2, <2>1, <2>3
    <3>2. ToDo(<<r, 1>>) => ToDo(<<r, 1>>)'
      BY <1>2, <2>3 DEF ToDo
    <3> QED BY <1>1, <1>2, <3>1, <3>2 DEF AliasesOK
  <2> QED BY <2>2, <2>3
<1>4. AliasesOK'
  BY <1>1, <1>2, <1>3, GroupDoneIs DEF AliasesOK
<1>5. OwnFirstOK' /\ UndoneOK'
  BY GroupDoneIs DEF OwnFirstOK, UndoneOK
<1> QED BY <1>4, <1>5, GroupDoneIs, GroupOnly

\* Where files change in the marks at most, the roles are what they were.
LEMMA SameFiles ==
  ASSUME Sound, \A k \in Keys : Same(disk'[k], disk[k]), UNCHANGED resident,
         NEW r \in Roles, Matches(r)
  PROVE  Matches(r)'
<1>1. FilesOK /\ KnownOK
  BY SoundParts
<1>2. ASSUME NEW p \in 1..Count(r)
      PROVE  /\ Same(disk'[<<r, p>>], disk[<<r, p>>])
             /\ Same(disk'[Source(r, p)], disk[Source(r, p)])
  <2>1. p \in Pages
    BY <1>1, CountIs
  <2> QED BY <1>1, <2>1, SourceIs
<1> QED BY <1>1, <1>2, MatchesKept

\* While the group is looked at or its pages are marked, all roles match.
LEMMA MarkingHeals ==
  ASSUME Sound, Grouping, pc' \in {"mark", "unmark"}, \A k \in Keys : Same(disk'[k], disk[k]),
         \A o \in Pending' : o.key \in Keys /\ o.file.payload = disk[o.key].payload,
         UNCHANGED <<backup, resident, complete, queue, generation, font>>
  PROVE  Healing'
<1>1. /\ PayloadOK /\ CompleteOK /\ OrderOK /\ BackupOK /\ complete \subseteq Roles
      /\ pc \in GroupSteps /\ generation = <<>> /\ font = NoFont
  BY SoundParts, GroupAlone DEF Grouping, GroupSteps
<1>2. pc \in {"group", "mark", "unmark"} /\ Grouping'
  BY DEF Grouping
<1>3. PayloadOK'
  BY <1>1, <1>2 DEF PayloadOK, Same
<1>4. \A r \in complete : Matches(r) /\ TablesReady(r, resident)
  BY <1>1 DEF CompleteOK
<1>5. \A r \in complete : Matches(r)' /\ TablesReady(r, resident)'
  BY <1>1, <1>4, SameFiles DEF TablesReady
<1>6. ~FontWork'
  BY DEF FontWork, Saving
<1>7. CompleteOK'
  BY <1>1, <1>2, <1>5, <1>6 DEF CompleteOK, Grouping
<1>8. OwnFirstOK' /\ AliasesOK' /\ UndoneOK'
  BY DEF OwnFirstOK, AliasesOK, UndoneOK
<1>9. BackupOK'
  BY DEF BackupOK, GroupSaving, Saving
<1> QED BY <1>1, <1>3, <1>6, <1>7, <1>8, <1>9, GroupOnly DEF OrderOK

\* A mark is put on a page or taken off.
LEMMA MarkDoneHeals ==
  ASSUME Sound, pc \in {"mark", "unmark"}, NEW o, GroupDone(o)
  PROVE  Healing'
<1>1. PayloadOK /\ MarkOK /\ pc \in GroupSteps /\ Grouping /\ Pending \subseteq Operations
  BY SoundParts DEF GroupOK, GroupSteps, Grouping
<1>2. /\ UNCHANGED <<backup, resident, complete, pc, queue, generation, font>>
      /\ Pending' \subseteq Pending
      /\ o \in Pending /\ disk'[o.key] = o.file
      /\ \A k \in Keys : k # o.key => disk'[k] = disk[k]
  BY <1>1, GroupDoneIs DEF GroupDone, memory, jobs
<1>3. \A k \in Keys : Same(disk'[k], disk[k])
  BY <1>1, <1>2 DEF PayloadOK, MarkOK, Same, Alike
<1>4. \A a \in Pending' : a.key \in Keys /\ a.file.payload = disk[a.key].payload
  BY <1>1, <1>2 DEF PayloadOK, Operations
<1> QED BY <1>1, <1>2, <1>3, <1>4, MarkingHeals

\* A file is rolled back.
LEMMA RollbackDoneHeals ==
  ASSUME Sound, pc = "rollback", NEW o, GroupDone(o)
  PROVE  Healing'
<1>1. UndoneOK /\ GroupOK /\ pc \in GroupSteps
  BY SoundParts DEF GroupSteps
<1>2. \A k \in Keys : disk'[k] = backup'[k] \/ ToDo(k)'
  <2> SUFFICES ASSUME NEW k \in Keys PROVE disk'[k] = backup'[k] \/ ToDo(k)'
    OBVIOUS
  <2>1. CASE k = o.key
    BY <1>1, <2>1, GroupDoneIs DEF GroupOK
  <2>2. CASE k # o.key
    BY <1>1, <2>2, GroupDoneIs DEF UndoneOK, ToDo
  <2> QED BY <2>1, <2>2
<1>3. UndoneOK'
  BY <1>1, <1>2, GroupDoneIs DEF UndoneOK
<1>4. OwnFirstOK' /\ AliasesOK'
  BY <1>1, GroupDoneIs DEF OwnFirstOK, AliasesOK
<1> QED BY <1>1, <1>3, <1>4, GroupDoneIs, GroupOnly

\* The operations of a list: WriteFiles, UnmarkFails and RollBack.  One that
\* leaves a file, or a file as it is not, ends the intact history.
LEMMA WriteFilesHeals ==
  ASSUME Sound, WriteFiles, intact'
  PROVE  Healing'
<1>1. /\ IInv /\ todo # <<>>
      /\ pc \in {"discard", "publish", "saveOwn", "saveAlias", "mark", "unmark"}
  BY SoundParts DEF WriteFiles
<1>2. Succeeds
  BY DEF WriteFiles, DeleteFails, Leaves
<1>3. PICK o : o = Head(todo)
  OBVIOUS
<1>4. TakenOff(o) /\ o \in Pending /\ o \in Operations
  <2>1. todo' = Tail(todo)
    BY <1>2 DEF Succeeds
  <2> QED BY <1>1, <1>3, <2>1, HeadOff DEF TakenOff
<1>5. Performed(o) /\ UNCHANGED <<backup, memory, pc, jobs, saving, undoing, faults>>
  BY <1>1, <1>2, <1>3, HeadWritten DEF Succeeds, Works
<1>6. GroupDone(o)
  BY <1>4, <1>5 DEF GroupDone
<1>7. CASE FontWork
  <2>1. /\ pc \in {"discard", "publish"} \cup Saving
        /\ \E f \in Fonts : /\ Active(f) /\ Writes(f)
                            /\ IF pc = "discard" THEN f \in ToSet(generation) ELSE f = font
    BY <1>1, <1>7, AuthorIs
  <2>2. PICK f \in Fonts : /\ Active(f) /\ Writes(f)
                           /\ IF pc = "discard" THEN f \in ToSet(generation) ELSE f = font
    BY <2>1
  <2>3. FontDone(f, o)
    BY <1>4, <1>5, <1>7, <2>1, <2>2 DEF FontDone, FontWork, Saving
  <2> QED BY <2>3, FontDoneHeals
<1>8. CASE GroupSaving /\ pc = "saveOwn"
  BY <1>6, <1>8, OwnDoneHeals
<1>9. CASE GroupSaving /\ pc = "saveAlias"
  BY <1>6, <1>9, AliasDoneHeals
<1>10. CASE pc \in {"mark", "unmark"}
  BY <1>6, <1>10, MarkDoneHeals
<1> QED BY <1>1, <1>7, <1>8, <1>9, <1>10 DEF FontWork, GroupSaving, Saving

\* UnmarkFails: a header cannot be written back.
LEMMA UnmarkFailsHeals ==
  ASSUME Sound, UnmarkFails
  PROVE  Healing'
<1>1. /\ pc = "unmark" /\ pc' = pc /\ Grouping /\ PayloadOK /\ Pending \subseteq Operations
      /\ UNCHANGED <<backup, disk, resident, complete, queue, generation, font>>
      /\ todo # <<>> /\ todo' = Tail(todo)
  BY SoundParts DEF UnmarkFails, PutFails, files, memory, jobs, Grouping
<1>2. Pending' \subseteq Pending
  BY <1>1, HeadOff, SoundParts DEF TakenOff
<1>3. \A k \in Keys : Same(disk'[k], disk[k])
  BY <1>1 DEF Same, Alike
<1>4. \A a \in Pending' : a.key \in Keys /\ a.file.payload = disk[a.key].payload
  BY <1>1, <1>2 DEF PayloadOK, Operations, Grouping
<1> QED BY <1>1, <1>3, <1>4, MarkingHeals

\* RollBack: a file is restored.
LEMMA RollBackHeals ==
  ASSUME Sound, RollBack, intact'
  PROVE  Healing'
<1>1. /\ UNCHANGED <<backup, memory, pc, jobs, saving, next, scope, fits, events>>
      /\ \E o : /\ TakenOff(o)
                /\ \/ Performed(o) /\ Works /\ UNCHANGED restored
                   \/ UNCHANGED disk /\ Leaves(0)
  BY RollBackIs, SoundParts
<1>2. PICK o : TakenOff(o) /\ Performed(o) /\ Works /\ UNCHANGED restored
  BY <1>1 DEF Leaves
<1>3. GroupDone(o) /\ pc = "rollback"
  BY <1>1, <1>2 DEF GroupDone, Works, undoing, RollBack
<1> QED BY <1>3, RollbackDoneHeals

-----------------------------------------------------------------------------
(* The steps of a font, which leave the page files alone.                      *)
\* A role that matches its files still does if its pages are the same.
LEMMA StaysMatched ==
  ASSUME UNCHANGED disk, NEW r, Matches(r), resident'[r] = resident[r]
  PROVE  Matches(r)'
<1>1. MatchesIn(r, resident')
  BY DEF Matches, MatchesIn
<1> QED BY <1>1, MatchesStill

\* The tables too.
LEMMA StaysReady ==
  ASSUME NEW r, TablesReady(r, resident), resident'[r] = resident[r]
  PROVE  TablesReady(r, resident')
  BY DEF TablesReady

\* What is there of a role that can be loaded.
LEMMA LoadableHas ==
  ASSUME FilesOK, NEW r \in Roles, Loadable(r)
  PROVE  disk[<<r, 1>>].content # 0 /\ disk[<<r, 1>>].repacked
<1>1. 1 \in 1..Count(r)
  BY CountIs
<1> QED BY <1>1 DEF Loadable, Stageable, HasPayload, IsFile

\* The profiles that TryLoadGlyphAtlasSnapshot loads are those of the files.
LEMMA LoadedAre ==
  ASSUME FilesOK, NEW loaded \in SUBSET Roles, \A r \in loaded : Loadable(r),
         NEW pages, Held(pages), UNCHANGED disk, resident' = Load(loaded, pages)
  PROVE  /\ \A r \in loaded : Matches(r)'
         /\ \A r \in Roles \ loaded : resident'[r] = pages[r]
<1>1. \A r \in Roles : IF r \in loaded THEN resident'[r] = PagesFrom(r, "live")
                       ELSE resident'[r] = pages[r]
  BY LoadIs
<1>2. ASSUME NEW r \in loaded PROVE Matches(r)'
  <2>1. PICK q : q = resident'
    OBVIOUS
  <2>2. r \in Roles /\ Loadable(r) /\ q[r] = PagesFrom(r, "live")
    BY <1>1, <2>1
  <2>3. MatchesIn(r, q)
    BY <2>2, LoadedMatches
  <2> QED BY <2>1, <2>3, MatchesStill
<1> QED BY <1>1, <1>2

\* What holds of a font's work between its operations.
LEMMA WorkIs ==
  ASSUME Sound, FontWork
  PROVE  /\ FontsOK /\ OwnerOK /\ BlankOK /\ OrderOK /\ JobsOK /\ ControlOK /\ QueuesOK
         /\ FilesOK /\ MemoryOK /\ FaultsOK /\ Held(resident) /\ complete \subseteq Roles
         /\ pc # "discard" \/ todo = <<>> => \A k : ~Going(k)
         /\ pc = "restore" => font = NoFont /\ todo = <<>>
         /\ font # NoFont => /\ font \in Fonts /\ Active(font) /\ queue = <<>>
                             /\ font \notin ToSet(generation) /\ pc # "discard"
                             /\ Own(font) \cap complete \subseteq {Double}
                             /\ pc # "publish" => Own(font) \cap complete = {}
                             /\ pc \in {"publish", "save"} \cup Saving
<1>1. /\ FontsOK /\ OwnerOK /\ BlankOK /\ OrderOK /\ JobsOK /\ ControlOK /\ QueuesOK
      /\ FilesOK /\ MemoryOK /\ FaultsOK /\ Held(resident) /\ complete \subseteq Roles
      /\ TodoOK
  BY SoundParts DEF CompleteOK
<1>2. pc # "discard" \/ todo = <<>> => \A k : ~Going(k)
  BY NoneIs DEF Going, ToDo, Pending
<1>3. pc = "restore" => font = NoFont /\ todo = <<>>
  BY <1>1 DEF ControlOK, QuietSteps, TodoOK, WriteSteps
<1>4. ASSUME font # NoFont
      PROVE  /\ font \in Fonts /\ Active(font) /\ queue = <<>>
             /\ font \notin ToSet(generation) /\ pc # "discard"
             /\ Own(font) \cap complete \subseteq {Double}
             /\ pc # "publish" => Own(font) \cap complete = {}
             /\ pc \in {"publish", "save"} \cup Saving
  <2>1. font \in Fonts /\ Active(font) /\ queue = <<>> /\ font \notin ToSet(generation)
    BY <1>1, <1>4 DEF JobsOK, Active, OrderOK, QueuesOK
  <2>2. pc \in {"publish", "save"} \cup Saving
    BY <1>1, <1>4 DEF ControlOK, QuietSteps, FontWork
  <2>3. font \notin complete /\ Own(font) = {font, Double}
    BY <1>1, <2>1, OwnIs DEF FontsOK
  <2>4. pc # "publish" => Double \notin complete
    BY <1>1, <2>2 DEF FontsOK, Saving
  <2> QED BY <2>1, <2>2, <2>3, <2>4 DEF Saving
<1> QED BY <1>1, <1>2, <1>3, <1>4

\* While a font is worked on, no font has the owner's page, unless it waits.
LEMMA NoSharing ==
  ASSUME Sound, FontWork, pc # "discard" \/ todo = <<>>, queue = <<>>, Waiting(1),
         UNCHANGED disk, NEW g \in Fonts
  PROVE  ~Sharing(g)'
<1>1. OwnerOK /\ (\A k : ~Going(k)) /\ g \notin ToSet(queue)
  BY WorkIs, NoneIs
<1>2. ~Sharing(g)
  BY <1>1 DEF OwnerOK
<1> QED BY <1>2 DEF Sharing

\* A font is discarded: DiscardGlyphAtlasSnapshot, for a font that waited.
LEMMA DiscardHeals ==
  ASSUME Sound, pc = "restore", NEW f \in Fonts, Discard(f), Waiting(f),
         UNCHANGED <<disk, font>>, queue # <<>> => f = Head(queue),
         \A g : g \in ToSet(generation') <=> g \in ToSet(generation) \/ g = f,
         \A g : g \in ToSet(queue') <=> g \in ToSet(queue) /\ g # f
  PROVE  Healing'
<1>1. FontWork
  BY DEF FontWork
<1>2. /\ FontsOK /\ OwnerOK /\ BlankOK /\ OrderOK /\ FilesOK /\ Held(resident)
      /\ complete \subseteq Roles /\ (\A k : ~Going(k)) /\ font = NoFont
  BY <1>1, WorkIs
<1>3. /\ pc' = "discard" /\ resident' = Drop(Own(f)) /\ complete' = complete \ Own(f)
      /\ \A o \in Pending' : o.file = Missing /\ o.key[1] \in Own(f)
      /\ \A k \in Keys : k[1] \in Own(f) => ToDo(k)'
  BY DiscardList DEF Discard
<1>4. /\ Own(f) = {f, Double} /\ f # Double /\ f # NoFont
      /\ \A g \in Fonts : g \in Roles /\ g # Double /\ g # NoFont
  BY OwnIs
<1>5. Going(<<f, 1>>)' /\ Going(<<Double, 1>>)'
  BY <1>3, <1>4, FirstKeys, OwnIs DEF Going
<1>6. NoDouble' /\ FontWork'
  BY <1>3, <1>4, <1>5 DEF NoDouble, FontWork
<1>7. \A g \in Fonts : /\ Active(g)' <=> Active(g) \/ g = f
                       /\ Waiting(g)' <=> Waiting(g)
  BY <1>2, <1>4 DEF Active, Waiting
<1>8. OrderOK'
  <2>1. 1 \notin ToSet(queue')
    BY <1>2, NoneIs DEF OrderOK
  <2> QED BY <1>2, <2>1 DEF OrderOK
<1>9. AuthorOK'
  BY <1>3 DEF AuthorOK, Writes
<1>10. OwnerOK'
  <2> SUFFICES ASSUME Waiting(1)', NEW g \in Fonts, Sharing(g)', g # f
               PROVE  g \in ToSet(queue')
    BY <1>5, <1>6 DEF OwnerOK
  <2>1. Waiting(1) /\ Sharing(g)
    BY <1>7, OwnIs DEF Sharing
  <2> QED BY <1>1, <1>2, <2>1 DEF OwnerOK
<1>11. BlankOK'
  <2>1. ASSUME NEW g \in ToSet(generation'), disk[<<g, 1>>].repacked PROVE g = f
    BY <1>2, <2>1 DEF BlankOK
  <2> QED BY <1>3, <1>5, <2>1 DEF BlankOK
<1>12. FontsOK'
  <2>1. ASSUME NEW r \in complete'
        PROVE  /\ r \in complete /\ r \notin Own(f) /\ r # Double /\ r # f
               /\ resident'[r] = resident[r]
    BY <1>2, <1>3, <1>4, <2>1, DropIs
  <2>2. ASSUME NEW r \in complete' PROVE Matches(r)' \/ Stale(r)'
    <3>1. CASE Matches(r)
      BY <2>1, <3>1, StaysMatched
    <3>2. CASE Stale(r)
      <4>1. r \in ToSet(queue) /\ Active(1)
        BY <2>1, <3>2 DEF Stale
      <4>2. Active(1)' /\ r \in ToSet(queue')
        BY <1>7, <2>1, <4>1, OwnIs
      <4> QED BY <1>6, <4>2 DEF Stale
    <3> QED BY <1>2, <2>1, <3>1, <3>2 DEF FontsOK
  <2>3. ASSUME NEW r \in complete' PROVE TablesReady(r, resident')
    <3>1. ~Mixed(r)
      BY <2>1 DEF Mixed
    <3> QED BY <1>2, <2>1, <3>1, StaysReady DEF FontsOK
  <2>4. \A g \in Fonts : g \in complete' \/ Waiting(g)'
    BY <1>2, <1>3, <1>4, <1>7 DEF FontsOK
  <2>5. Waiting(f)'
    BY <1>7
  <2>6. \A g \in Fonts : Active(g)' => g \notin complete'
    BY <1>2, <1>3, <1>4, <1>7 DEF FontsOK
  <2> QED BY <1>3, <1>4, <2>2, <2>3, <2>4, <2>5, <2>6 DEF FontsOK
<1> QED BY <1>6, <1>8, <1>9, <1>10, <1>11, <1>12, FontOnly

\* BatchFails: the font that is generated next is discarded once more.
LEMMA BatchFailsHeals ==
  ASSUME Sound, BatchFails
  PROVE  Healing'
<1>1. /\ pc = "restore" /\ queue = <<>> /\ generation # <<>> /\ Discard(Head(generation))
      /\ UNCHANGED <<disk, queue, generation, font>>
  BY DEF BatchFails, files, jobs
<1>2. generation \in Seq(Fonts)
  BY SoundParts DEF JobsOK
<1>3. PICK f \in Fonts : f = Head(generation) /\ f \in ToSet(generation)
  BY <1>1, <1>2, TailIs
<1>4. Waiting(f) /\ Discard(f)
  BY <1>1, <1>3 DEF Waiting, Active
<1> QED BY <1>1, <1>3, <1>4, NoneIs, DiscardHeals

\* Discarded: the files of the font were deleted.
LEMMA DiscardedHeals ==
  ASSUME Sound, Discarded
  PROVE  Healing'
<1>1. /\ pc = "discard" /\ todo = <<>> /\ pc' = "restore"
      /\ UNCHANGED <<disk, queue, generation, font, resident, complete>>
  BY DEF Discarded, Done, Goto, files, memory, jobs
<1>2. FontWork /\ FontWork'
  BY <1>1 DEF FontWork
<1>3. FontsOK /\ OwnerOK /\ BlankOK /\ OrderOK /\ (\A k : ~Going(k))
  BY <1>1, <1>2, WorkIs
<1>4. \A g : (Active(g)' <=> Active(g)) /\ (Waiting(g)' <=> Waiting(g))
  BY <1>1 DEF Active, Waiting
<1>5. NoDouble => NoDouble'
  BY <1>1, <1>3 DEF NoDouble
<1>6. OrderOK' /\ AuthorOK'
  BY <1>1, <1>3 DEF OrderOK, AuthorOK
<1>7. OwnerOK'
  BY <1>1, <1>2, <1>3, <1>4, <1>5 DEF OwnerOK, Sharing
<1>8. BlankOK'
  BY <1>1, <1>3 DEF BlankOK
<1>9. FontsOK'
  <2>1. ASSUME NEW r \in complete PROVE Matches(r)' \/ Stale(r)'
    <3>1. CASE Matches(r)
      BY <1>1, <3>1, StaysMatched
    <3>2. CASE Stale(r)
      BY <1>1, <1>4, <1>5, <3>2 DEF Stale
    <3> QED BY <1>3, <3>1, <3>2 DEF FontsOK
  <2>2. ASSUME NEW r \in complete PROVE TablesReady(r, resident')
    BY <1>1, <1>3, StaysReady DEF FontsOK, Mixed
  <2> QED BY <1>1, <1>3, <1>4, <2>1, <2>2 DEF FontsOK
<1> QED BY <1>2, <1>6, <1>7, <1>8, <1>9, FontOnly

\* What a font's roles are loaded from where they were not complete.
RestoreOf(f, loaded) ==
  LET pages == Load(loaded, resident)
      have == complete \cup loaded
  IN /\ TryLoads(f, complete, loaded)
     /\ IF Restored(f, have, pages)
          THEN /\ resident' = pages /\ complete' = have
               /\ queue' = Tail(queue)
               /\ UNCHANGED <<pc, todo, generation>>
          ELSE \/ /\ Discard(f)
                  /\ queue' = Tail(queue)
                  /\ generation' = Append(generation, f)
               \/ /\ failures' # failures
                  /\ resident' = pages /\ complete' = have
                  /\ UNCHANGED <<queue, generation, pc, todo>>

\* The font at the head of the queue, and what of it is loaded.
Restores(f, loaded) ==
  /\ pc = "restore" /\ queue # <<>> /\ f \in Fonts /\ f = Head(queue)
  /\ loaded \in SUBSET Roles /\ loaded \subseteq Own(f) \ complete
  /\ \A r \in loaded : Loadable(r)
  /\ UNCHANGED <<disk, font>>

\* The facts of such a restore.
LEMMA RestoresIs ==
  ASSUME Sound, NEW f, NEW loaded, Restores(f, loaded)
  PROVE  /\ FontWork /\ FontsOK /\ OwnerOK /\ BlankOK /\ OrderOK /\ FilesOK /\ Held(resident)
         /\ complete \subseteq Roles /\ (\A k : ~Going(k)) /\ font = NoFont /\ pc # "discard"
         /\ ToSet(Tail(queue)) \subseteq ToSet(queue) /\ f \notin ToSet(Tail(queue))
         /\ f \in ToSet(queue) /\ ToSet(queue) \subseteq {f} \cup ToSet(Tail(queue))
         /\ 1 \notin ToSet(Tail(queue))
         /\ f \notin ToSet(generation) /\ ~Active(f) /\ Waiting(f)
         /\ Own(f) = {f, Double} /\ f # Double
         /\ NoDouble => Double \notin complete \cup loaded /\ disk[<<Double, 1>>].content = 0
<1>1. FontWork
  BY DEF FontWork, Restores
<1>2. /\ FontsOK /\ OwnerOK /\ BlankOK /\ OrderOK /\ FilesOK /\ Held(resident)
      /\ complete \subseteq Roles /\ (\A k : ~Going(k)) /\ font = NoFont /\ pc # "discard"
      /\ QueuesOK /\ JobsOK /\ IInv
  BY <1>1, WorkIs, SoundParts DEF Restores
<1>3. /\ f \notin ToSet(Tail(queue)) /\ f \in ToSet(queue)
      /\ ToSet(Tail(queue)) \subseteq ToSet(queue)
  BY <1>2, QueueShorter DEF Restores
<1>4. ToSet(queue) \subseteq {f} \cup ToSet(Tail(queue))
  BY <1>2, TailIs DEF Restores, JobsOK
<1>5. 1 \notin ToSet(Tail(queue))
  BY <1>2, <1>3 DEF OrderOK, Restores
<1>6. f \notin ToSet(generation) /\ ~Active(f) /\ Waiting(f) /\ Own(f) = {f, Double} /\ f # Double
  BY <1>2, <1>3, OwnIs DEF QueuesOK, Active, Waiting, Restores
<1>7. NoDouble => Double \notin complete \cup loaded /\ disk[<<Double, 1>>].content = 0
  BY <1>2, LoadableHas, OwnIs DEF NoDouble, Restores
<1> QED BY <1>1, <1>2, <1>3, <1>4, <1>5, <1>6, <1>7

\* RestoreSnapshot, the font is restored.
LEMMA RestoredHeals ==
  ASSUME Sound, NEW f, NEW loaded, Restores(f, loaded),
         resident' = Load(loaded, resident), complete' = complete \cup loaded,
         Restored(f, complete', resident'),
         queue' = Tail(queue), UNCHANGED <<pc, generation>>
  PROVE  Healing'
<1>1. /\ FontWork /\ FontsOK /\ OwnerOK /\ BlankOK /\ OrderOK /\ FilesOK /\ Held(resident)
      /\ complete \subseteq Roles /\ (\A k : ~Going(k)) /\ font = NoFont /\ pc # "discard"
      /\ ToSet(Tail(queue)) \subseteq ToSet(queue) /\ f \notin ToSet(Tail(queue))
      /\ f \in ToSet(queue) /\ ToSet(queue) \subseteq {f} \cup ToSet(Tail(queue))
      /\ 1 \notin ToSet(Tail(queue))
      /\ f \notin ToSet(generation) /\ ~Active(f) /\ Waiting(f)
      /\ Own(f) = {f, Double} /\ f # Double
      /\ NoDouble => Double \notin complete \cup loaded /\ disk[<<Double, 1>>].content = 0
  BY RestoresIs
<1>2. /\ pc = "restore" /\ f \in Fonts /\ f = Head(queue) /\ loaded \in SUBSET Roles
      /\ loaded \subseteq Own(f) \ complete /\ (\A r \in loaded : Loadable(r))
      /\ UNCHANGED <<disk, font>>
  BY DEF Restores
<1>3. /\ \A r \in loaded : Matches(r)'
      /\ \A r \in Roles \ loaded : resident'[r] = resident[r]
  BY <1>1, <1>2, LoadedAre
<1>4. Own(f) \subseteq complete' /\ \A r \in Own(f) : TablesReady(r, resident')
  BY DEF Restored
<1>5. ~NoDouble
  BY <1>1, <1>4
<1>6. \A g : Active(g)' <=> Active(g)
  BY <1>2 DEF Active
<1>7. \A g : g # f => (Waiting(g)' <=> Waiting(g))
  BY <1>1, <1>6 DEF Waiting
<1>8. FontWork' /\ OrderOK' /\ AuthorOK'
  BY <1>1, <1>2 DEF FontWork, OrderOK, AuthorOK
<1>9. OwnerOK'
  <2> SUFFICES ASSUME Waiting(1)', NEW g \in Fonts, Sharing(g)' PROVE FALSE
    BY DEF OwnerOK
  <2>1. Active(1) /\ Waiting(1) /\ Sharing(g)
    BY <1>1, <1>2, <1>6 DEF Waiting, Sharing
  <2> QED BY <1>1, <1>5, <2>1 DEF OwnerOK
<1>10. BlankOK'
  BY <1>1, <1>2 DEF BlankOK
<1>11. FontsOK'
  <2>1. ASSUME NEW r \in complete' PROVE Matches(r)'
    <3>1. CASE r \in loaded
      BY <1>3, <3>1
    <3>2. CASE r \notin loaded
      <4>1. r \in complete /\ resident'[r] = resident[r] /\ r \in Roles
        BY <1>1, <1>3, <2>1, <3>2
      <4>2. ~Stale(r)
        <5>1. Loadable(f) \/ f \in complete
          BY <1>1, <1>2, <1>4
        <5>2. f \in complete \/ disk[<<f, 1>>].repacked
          BY <1>1, <1>2, <5>1, LoadableHas, OwnIs
        <5> QED BY <1>2, <1>5, <5>2 DEF Stale
      <4>3. Matches(r)
        BY <1>1, <4>1, <4>2 DEF FontsOK
      <4> QED BY <1>2, <4>1, <4>3, StaysMatched
    <3> QED BY <3>1, <3>2
  <2>2. ASSUME NEW r \in complete' PROVE TablesReady(r, resident')
    <3>1. CASE r \in Own(f)
      BY <1>4, <3>1
    <3>2. CASE r \notin Own(f)
      <4>1. r \in complete /\ resident'[r] = resident[r] /\ ~Mixed(r)
        BY <1>1, <1>2, <1>3, <2>2, <3>2 DEF Mixed
      <4> QED BY <1>1, <4>1, StaysReady DEF FontsOK
    <3> QED BY <3>1, <3>2
  <2>3. \A g \in Fonts : g \in complete' \/ Waiting(g)'
    BY <1>1, <1>4, <1>7 DEF FontsOK
  <2>4. \A g \in Fonts : Active(g)' => g \notin complete'
    BY <1>1, <1>2, <1>6, OwnIs DEF FontsOK
  <2> QED BY <1>1, <1>2, <1>4, <2>1, <2>2, <2>3, <2>4 DEF FontsOK
<1> QED BY <1>8, <1>9, <1>10, <1>11, FontOnly

\* RestoreSnapshot, the font is tried once more.
LEMMA OnceMoreHeals ==
  ASSUME Sound, NEW f, NEW loaded, Restores(f, loaded),
         resident' = Load(loaded, resident), complete' = complete \cup loaded,
         UNCHANGED <<pc, queue, generation>>
  PROVE  Healing'
<1>1. /\ FontWork /\ FontsOK /\ OwnerOK /\ BlankOK /\ OrderOK /\ FilesOK /\ Held(resident)
      /\ complete \subseteq Roles /\ (\A k : ~Going(k)) /\ font = NoFont /\ pc # "discard"
      /\ f \in ToSet(queue) /\ ~Active(f) /\ Own(f) = {f, Double} /\ f # Double
      /\ NoDouble => Double \notin complete \cup loaded /\ disk[<<Double, 1>>].content = 0
  BY RestoresIs
<1>2. /\ pc = "restore" /\ queue # <<>> /\ f \in Fonts /\ f = Head(queue)
      /\ loaded \in SUBSET Roles /\ loaded \subseteq Own(f) \ complete
      /\ (\A r \in loaded : Loadable(r))
      /\ UNCHANGED <<disk, font>>
  BY DEF Restores
<1>3. /\ \A r \in loaded : Matches(r)'
      /\ \A r \in Roles \ loaded : resident'[r] = resident[r]
  BY <1>1, <1>2, LoadedAre
<1>4. /\ \A g : (Active(g)' <=> Active(g)) /\ (Waiting(g)' <=> Waiting(g))
      /\ FontWork'
  BY <1>1, <1>2 DEF Active, Waiting, FontWork
<1>5. NoDouble => NoDouble'
  BY <1>1, <1>2 DEF NoDouble
<1>6. OrderOK' /\ AuthorOK' /\ BlankOK'
  BY <1>1, <1>2 DEF OrderOK, AuthorOK, BlankOK
<1>7. OwnerOK'
  BY <1>1, <1>2, <1>4, <1>5 DEF OwnerOK, Sharing
<1>8. FontsOK'
  <2>1. ASSUME NEW r \in complete' PROVE Matches(r)' \/ Stale(r)'
    <3>1. CASE r \in loaded
      BY <1>3, <3>1
    <3>2. CASE r \notin loaded
      <4>1. r \in complete /\ resident'[r] = resident[r] /\ r \in Roles
        BY <1>1, <1>3, <2>1, <3>2
      <4>2. CASE Matches(r)
        BY <1>2, <4>1, <4>2, StaysMatched
      <4>3. CASE Stale(r)
        <5>1. ~disk[<<f, 1>>].repacked => f \notin loaded
          BY <1>1, <1>2, LoadableHas, OwnIs
        <5> QED BY <1>2, <1>4, <1>5, <4>3, <5>1 DEF Stale
      <4> QED BY <1>1, <4>1, <4>2, <4>3 DEF FontsOK
    <3> QED BY <3>1, <3>2
  <2>2. ASSUME NEW r \in complete' PROVE TablesReady(r, resident') \/ Mixed(r)'
    <3>1. CASE r \in Own(f)
      BY <1>2, <3>1 DEF Mixed
    <3>2. CASE r \notin Own(f)
      <4>1. r \in complete /\ resident'[r] = resident[r] /\ ~Mixed(r)
        BY <1>1, <1>2, <1>3, <2>2, <3>2 DEF Mixed
      <4> QED BY <1>1, <4>1, StaysReady DEF FontsOK
    <3> QED BY <3>1, <3>2
  <2>3. \A g \in Fonts : Active(g)' => g \notin complete'
    BY <1>1, <1>2, <1>4, OwnIs DEF FontsOK
  <2> QED BY <1>1, <1>2, <1>4, <2>1, <2>2, <2>3 DEF FontsOK
<1> QED BY <1>4, <1>6, <1>7, <1>8, FontOnly

\* RestoreSnapshot: the font is restored, discarded, or tried once more.
LEMMA RestoreSnapshotHeals ==
  ASSUME Sound, RestoreSnapshot
  PROVE  Healing'
<1>1. /\ pc = "restore" /\ queue # <<>>
      /\ UNCHANGED <<files, font, saving, undoing, events>>
  BY DEF RestoreSnapshot
<1>2. PICK f \in Fonts : f = Head(queue)
  BY <1>1, QueueShorter, SoundParts
<1>3. PICK loaded \in SUBSET Roles : RestoreOf(f, loaded)
  BY <1>2 DEF RestoreSnapshot, RestoreOf
<1>4. Restores(f, loaded)
  <2>1. loaded \subseteq {r \in Own(f) \ complete : Loadable(r)}
    BY <1>3 DEF RestoreOf, TryLoads
  <2> QED BY <1>1, <1>2, <2>1 DEF Restores, files
<1>5. CASE Restored(f, complete \cup loaded, Load(loaded, resident))
  <2>1. /\ resident' = Load(loaded, resident) /\ complete' = complete \cup loaded
        /\ queue' = Tail(queue) /\ UNCHANGED <<pc, generation>>
    BY <1>3, <1>5 DEF RestoreOf
  <2> QED BY <1>4, <1>5, <2>1, RestoredHeals
<1>6. CASE ~Restored(f, complete \cup loaded, Load(loaded, resident))
  <2>1. CASE Discard(f) /\ queue' = Tail(queue) /\ generation' = Append(generation, f)
    <3>1. /\ ToSet(Tail(queue)) \subseteq ToSet(queue) /\ f \notin ToSet(Tail(queue))
          /\ ToSet(queue) \subseteq {f} \cup ToSet(Tail(queue)) /\ Waiting(f)
          /\ f \notin ToSet(generation)
      BY <1>4, RestoresIs
    <3>2. generation \in Seq(Fonts) /\ Once(generation)
      BY SoundParts DEF JobsOK, QueuesOK
    <3>3. ToSet(generation') = ToSet(generation) \cup {f}
      BY <2>1, <3>1, <3>2, OnceLast
    <3> QED BY <1>1, <1>2, <2>1, <3>1, <3>3, DiscardHeals DEF files
  <2>2. CASE /\ resident' = Load(loaded, resident) /\ complete' = complete \cup loaded
             /\ UNCHANGED <<queue, generation, pc, todo>>
    BY <1>4, <2>2, OnceMoreHeals
  <2> QED BY <1>3, <1>6, <2>1, <2>2 DEF RestoreOf
<1> QED BY <1>5, <1>6

\* PublishStream: a font is generated again, in files of its own.
LEMMA PublishStreamHeals ==
  ASSUME Sound, PublishStream
  PROVE  Healing'
<1>1. /\ pc = "restore" /\ queue = <<>> /\ generation # <<>> /\ font' = Head(generation)
      /\ generation' = Tail(generation)
      /\ UNCHANGED <<disk, resident, complete, queue>>
  BY DEF PublishStream, files, memory
<1>2. FontWork
  BY <1>1 DEF FontWork
<1>3. /\ FontsOK /\ OwnerOK /\ BlankOK /\ OrderOK /\ JobsOK /\ QueuesOK
      /\ font = NoFont /\ (\A k : ~Going(k))
  BY <1>1, <1>2, WorkIs
<1>4. generation \in Seq(Fonts) /\ Once(generation)
  BY <1>3 DEF JobsOK, QueuesOK
<1>5. PICK f \in Fonts : f = Head(generation)
  BY <1>1, <1>4, TailIs
<1>6. font' = f /\ ToSet(generation) = {f} \cup ToSet(generation') /\ f # NoFont
  BY <1>1, <1>4, <1>5, TailIs, OwnIs
<1>7. /\ pc' = "publish" /\ Own(f) = {f, Double}
      /\ \A o \in Pending' : o.key[1] \in Own(f) /\ New(o.file, o.key[1])
  BY <1>6, PublishList, OwnIs
<1>8. FontWork' /\ OrderOK' /\ AuthorOK'
  BY <1>1, <1>6, <1>7, NoneIs DEF FontWork, OrderOK, AuthorOK, Writes, New, Saving
<1>9. \A g \in Fonts : (Active(g)' <=> Active(g)) /\ (Waiting(g)' <=> Waiting(g))
  BY <1>1, <1>3, <1>6, OwnIs DEF Active, Waiting
<1>10. OwnerOK'
  BY <1>1, <1>2, <1>9, NoSharing, OwnIs DEF OwnerOK
<1>11. BlankOK'
  BY <1>1, <1>3, <1>6, <1>7 DEF BlankOK
<1>12. FontsOK'
  <2>1. \A r : ~Stale(r) /\ ~Mixed(r)
    BY <1>1, NoneIs DEF Stale, Mixed
  <2>2. \A r \in complete : Matches(r)' /\ TablesReady(r, resident')
    BY <1>1, <1>3, <2>1, StaysMatched, StaysReady DEF FontsOK
  <2> QED BY <1>1, <1>3, <1>7, <1>9, <2>2 DEF FontsOK
<1> QED BY <1>8, <1>10, <1>11, <1>12, FontOnly

\* A font's work has failed, or it was not restored: it starts again.
LEMMA AgainHeals ==
  ASSUME Sound, Again, font # NoFont, FontWork, UNCHANGED disk,
         complete \ Own(font) \subseteq complete',
         pc = "publish" => complete' \subseteq complete,
         \A r \in complete' : \/ r \in complete /\ resident'[r] = resident[r]
                              \/ r \in Own(font) /\ Matches(r)'
  PROVE  Healing'
<1>1. /\ FontsOK /\ OwnerOK /\ BlankOK /\ OrderOK
      /\ Active(font) /\ queue = <<>> /\ font \notin ToSet(generation)
      /\ pc # "discard" /\ (\A k : ~Going(k)) /\ font \in Fonts
      /\ pc \in {"publish", "save"} \cup Saving /\ complete \subseteq Roles
  BY WorkIs
<1>2. PICK f \in Fonts : f = font
  BY <1>1
<1>3. /\ pc' = "restore" /\ queue' = <<f>> /\ font' = NoFont /\ UNCHANGED generation
      /\ queue' # <<>>
  <2>1. <<f>> \o <<>> = <<f>> /\ <<f>> # <<>>
    OBVIOUS
  <2> QED BY <1>1, <1>2, <2>1 DEF Again, Begin
<1>4. ToSet(queue') = {f} /\ Head(queue') = f
  BY <1>3 DEF ToSet
<1>5. Own(f) = {f, Double} /\ f # NoFont /\ \A g \in Fonts : g # Double /\ g # NoFont
  BY OwnIs
<1>6. \A g \in Fonts : /\ Active(g)' <=> Active(g) /\ g # f
                       /\ Waiting(g)' <=> Waiting(g)
  BY <1>1, <1>2, <1>3, <1>4, <1>5, NoneIs DEF Active, Waiting
<1>7. FontWork' /\ OrderOK' /\ AuthorOK'
  BY <1>3, <1>4 DEF FontWork, OrderOK, AuthorOK
<1>8. OwnerOK'
  BY <1>1, <1>6, NoSharing, OwnIs DEF OwnerOK
<1>9. BlankOK'
  BY <1>1, <1>3 DEF BlankOK
<1>10. FontsOK'
  <2>1. ASSUME NEW r \in complete' PROVE Matches(r)' \/ Stale(r)'
    <3>1. CASE r \in complete /\ resident'[r] = resident[r]
      <4>1. CASE Matches(r)
        BY <3>1, <4>1, StaysMatched
      <4>2. CASE Stale(r)
        <5>1. r = Double /\ pc = "publish"
          BY <1>1, <4>2, NoneIs DEF Stale, Saving
        <5>2. f \notin complete' /\ ~disk[<<f, 1>>].repacked
          BY <1>1, <1>2, <5>1 DEF FontsOK, BlankOK
        <5> QED BY <1>3, <1>4, <5>1, <5>2 DEF Stale
      <4> QED BY <1>1, <3>1, <4>1, <4>2 DEF FontsOK
    <3> QED BY <2>1, <3>1
  <2>2. ASSUME NEW r \in complete' PROVE TablesReady(r, resident') \/ Mixed(r)'
    <3>1. CASE r \in Own(f)
      BY <1>3, <1>4, <3>1 DEF Mixed
    <3>2. CASE r \notin Own(f)
      <4>1. r \in complete /\ resident'[r] = resident[r] /\ ~Mixed(r)
        BY <1>1, <1>2, <2>2, <3>2 DEF Mixed, Saving
      <4> QED BY <1>1, <4>1, StaysReady DEF FontsOK
    <3> QED BY <3>1, <3>2
  <2>3. \A g \in Fonts : g \in complete' \/ Waiting(g)'
    BY <1>1, <1>2, <1>4, <1>5, <1>6 DEF FontsOK, Waiting
  <2>4. Waiting(f)'
    BY <1>4 DEF Waiting
  <2>5. \A g \in Fonts : Active(g)' => g \notin complete'
    BY <1>1, <1>2, <1>5, <1>6 DEF FontsOK
  <2> QED BY <1>3, <2>1, <2>2, <2>3, <2>4, <2>5 DEF FontsOK
<1> QED BY <1>7, <1>8, <1>9, <1>10, FontOnly

\* A font's work goes on with its next step.
LEMMA FontGoesOn ==
  ASSUME Sound, FontWork, font # NoFont, pc \in {"publish", "save", "saveOwn"},
         pc' \in {"save", "saveOwn", "saveAlias"}, UNCHANGED <<disk, jobs>>,
         complete' = complete \ Own(font), \A r \in complete' : resident'[r] = resident[r],
         pc' # "save" => Writes(font)'
  PROVE  Healing'
<1>1. /\ FontsOK /\ OwnerOK /\ BlankOK /\ OrderOK /\ queue = <<>> /\ pc # "discard"
      /\ font \in Fonts /\ Active(font) /\ (\A k : ~Going(k))
      /\ Own(font) = {font, Double}
  BY WorkIs, OwnIs
<1>2. UNCHANGED <<queue, generation, font>>
  BY DEF jobs
<1>3. \A g : (Active(g)' <=> Active(g)) /\ (Waiting(g)' <=> Waiting(g))
  BY <1>2 DEF Active, Waiting
<1>4. FontWork' /\ OrderOK' /\ AuthorOK'
  BY <1>1, <1>2 DEF FontWork, OrderOK, AuthorOK, Saving
<1>5. OwnerOK'
  BY <1>1, <1>3, NoSharing DEF OwnerOK
<1>6. BlankOK'
  BY <1>1, <1>2 DEF BlankOK
<1>7. FontsOK'
  <2>1. ASSUME NEW r \in complete' PROVE Matches(r)' /\ TablesReady(r, resident')
    <3>1. r \in complete /\ r # Double /\ resident'[r] = resident[r]
      BY <1>1, <2>1
    <3>2. ~Stale(r) /\ ~Mixed(r)
      BY <1>1, <3>1, NoneIs DEF Stale, Mixed
    <3> QED BY <1>1, <3>1, <3>2, StaysMatched, StaysReady DEF FontsOK
  <2>2. \A g \in Fonts : g \in complete' \/ Waiting(g)'
    BY <1>1, <1>3, OwnIs DEF FontsOK, Waiting
  <2>3. Waiting(font)'
    BY <1>1, <1>2 DEF Waiting, Active
  <2>4. \A g \in Fonts : Active(g)' => g \notin complete'
    BY <1>1, <1>3 DEF FontsOK
  <2> QED BY <1>1, <2>1, <2>2, <2>3, <2>4 DEF FontsOK
<1> QED BY <1>4, <1>5, <1>6, <1>7, FontOnly

\* PublishFails: a streamed page cannot be published.
LEMMA PublishFailsHeals ==
  ASSUME Sound, PublishFails
  PROVE  Healing'
<1>1. /\ pc = "publish" /\ Again /\ UNCHANGED <<disk, resident, complete>>
  BY DEF PublishFails, PutFails, files, memory
<1>2. font # NoFont /\ FontWork
  BY <1>1, SoundParts DEF ControlOK, FontWork
<1> QED BY <1>1, <1>2, AgainHeals

\* StageMetadata: the profiles of the font are staged, from its files.
LEMMA StageMetadataHeals ==
  ASSUME Sound, StageMetadata
  PROVE  Healing'
<1>1. pc = "publish" /\ complete' = complete \ Own(font) /\ UNCHANGED disk
  BY DEF StageMetadata, Done, files
<1>2. font # NoFont /\ FontWork
  BY <1>1, SoundParts DEF ControlOK, FontWork
<1>3. CASE Again /\ UNCHANGED resident
  BY <1>1, <1>2, <1>3, AgainHeals
<1>4. CASE /\ pc' = "save" /\ UNCHANGED <<todo, jobs>>
           /\ resident' = [r \in Roles |-> IF r \in Own(font) THEN PagesFrom(r, "none")
                                           ELSE resident[r]]
  <2>1. complete \subseteq Roles
    BY SoundParts
  <2>2. \A r \in complete' : resident'[r] = resident[r]
    BY <1>1, <1>4, <2>1
  <2> QED BY <1>1, <1>2, <1>4, <2>2, FontGoesOn
<1> QED BY <1>3, <1>4 DEF StageMetadata

\* A role of a font is saved: its pages are new ones.
LEMMA FontSaveHeals ==
  ASSUME Sound, font # NoFont, FontWork, pc \in {"save", "saveOwn"}, NEW r \in Own(font),
         NEW aliases \in Seq(Roles), NEW n \in Pages, StartSave(r, aliases, n),
         UNCHANGED <<files, jobs, undoing>>
  PROVE  Healing'
<1>1. font \in Fonts /\ Own(font) \cap complete = {}
  BY WorkIs
<1>2. UNCHANGED <<disk, resident, fits>> /\ complete' = complete \ {r} /\ pc' = "saveOwn"
  BY DEF files, undoing, StartSave, Begin
<1>3. complete' = complete \ Own(font)
  BY <1>1, <1>2
<1>4. r \in Roles
  BY <1>1, OwnIs
<1>5. \A o \in Pending' : o.key[1] = r /\ New(o.file, r)
  BY <1>2, <1>4, SoundParts, StartSaveKeeps
<1>6. Writes(font)'
  <2>1. font' = font
    BY DEF jobs
  <2> QED BY <1>5, <2>1 DEF Writes, New
<1> QED BY <1>2, <1>3, <1>6, FontGoesOn

\* Save and SaveDoubleByte: the roles of a font together, or one by one.
LEMMA SaveHeals ==
  ASSUME Sound, Save \/ SaveDoubleByte
  PROVE  Healing'
<1>1. pc \in {"save", "saveOwn"} /\ UNCHANGED <<files, undoing>>
  BY DEF Save, SaveDoubleByte, Done
<1>2. font # NoFont
  <2>1. ControlOK
    BY SoundParts
  <2>2. CASE Save
    BY <2>1, <2>2 DEF Save, ControlOK
  <2>3. CASE SaveDoubleByte
    BY <2>1, <2>3, GroupRolesAre DEF SaveDoubleByte, Done, ControlOK, Saving
  <2> QED BY <2>2, <2>3
<1>3. FontWork
  BY <1>1, <1>2 DEF FontWork, Saving
<1>4. /\ RolesOf(font)[1] \in Own(font) /\ RolesOf(font)[2] \in Own(font)
      /\ <<>> \in Seq(Roles) /\ <<RolesOf(font)[2]>> \in Seq(Roles)
  BY <1>2, WorkRoles, SoundParts
<1>5. \/ /\ UNCHANGED <<queue, generation, font>>
         /\ \E n \in Pages : \/ StartSave(RolesOf(font)[1], <<RolesOf(font)[2]>>, n)
                             \/ StartSave(RolesOf(font)[1], <<>>, n)
                             \/ StartSave(RolesOf(font)[2], <<>>, n)
      \/ Again /\ UNCHANGED <<memory, saving>>
  <2>1. CASE Save
    BY <2>1 DEF Save
  <2>2. CASE SaveDoubleByte
    BY <2>2 DEF SaveDoubleByte, jobs
  <2> QED BY <2>1, <2>2
<1>6. CASE Again /\ UNCHANGED <<memory, saving>>
  <2>1. UNCHANGED <<disk, resident, complete>>
    BY <1>1, <1>6 DEF files, memory
  <2> QED BY <1>2, <1>3, <1>6, <2>1, AgainHeals
<1>7. ASSUME UNCHANGED <<queue, generation, font>>, NEW n \in Pages,
             \/ StartSave(RolesOf(font)[1], <<RolesOf(font)[2]>>, n)
             \/ StartSave(RolesOf(font)[1], <<>>, n)
             \/ StartSave(RolesOf(font)[2], <<>>, n)
      PROVE  Healing'
  <2>1. PICK r \in Own(font) : \E aliases \in Seq(Roles) : StartSave(r, aliases, n)
    BY <1>4, <1>7
  <2>2. PICK aliases \in Seq(Roles) : StartSave(r, aliases, n)
    BY <2>1
  <2>3. UNCHANGED <<files, jobs, undoing>>
    BY <1>1, <1>7 DEF jobs
  <2> QED BY <1>1, <1>2, <1>3, <2>2, <2>3, FontSaveHeals
<1> QED BY <1>5, <1>6, <1>7

\* SaveAliases, for a font: its other role is to share the pages of the first.
LEMMA FontAliasesHeals ==
  ASSUME Sound, SaveAliases, font # NoFont
  PROVE  Healing'
<1>1. /\ pc = "saveOwn" /\ targets # <<>> /\ pc' = "saveAlias"
      /\ complete' = complete \ (ToSet(targets) \ {role})
      /\ UNCHANGED <<disk, resident, jobs>>
  BY DEF SaveAliases, Done, Begin, files
<1>2. FontWork
  BY <1>1 DEF FontWork, Saving
<1>3. PICK f \in Fonts : f = font /\ Own(f) = {f, Double} /\ f # Double /\ Own(f) \cap complete = {}
  BY <1>1, <1>2, WorkIs, OwnIs
<1>4. role = f /\ targets = <<Double>> /\ ToSet(targets) = {Double} /\ Stands /\ IInv
  <2>1. role = font /\ targets = <<Double>>
    BY AliasesAre, SoundParts
  <2> QED BY <1>3, <2>1, SoundParts DEF ToSet
<1>5. complete' = complete \ Own(font)
  BY <1>1, <1>3, <1>4
<1>6. PICK alias : alias = [disk[<<role, 1>>] EXCEPT !.payload = role]
  OBVIOUS
<1>7. alias.payload = f
  BY <1>4, <1>6, AliasPageIs
<1> DEFINE T == {o \in Operations : /\ o.key[1] = Double
                                    /\ o.file = Missing \/ o.file = alias}
<1>8. Pending' \subseteq T
  <2>1. \A o \in Operations :
            /\ o.key[1] \in ToSet(targets)
            /\ \/ o.key[2] \notin 1..Count(role) /\ o.file = Missing
               \/ o.key[1] # role /\ o.key[2] \in 1..Count(role) /\ o.file = alias
            => o \in T
    BY <1>4
  <2>2. T \in SUBSET Operations
    OBVIOUS
  <2> HIDE DEF T
  <2> QED BY <1>4, <1>6, <2>1, <2>2, AliasList
<1>9. \A o \in Pending' : o.key[1] = Double /\ (o.file = Missing \/ o.file = alias)
  BY <1>8
<1> HIDE DEF T
<1>10. Writes(font)'
  <2>1. font' = font
    BY <1>1 DEF jobs
  <2> QED BY <1>3, <1>7, <1>9, <2>1 DEF Writes
<1> QED BY <1>1, <1>2, <1>5, <1>10, FontGoesOn

\* SaveFails: a page cannot be replaced, or no alias prepared.
LEMMA SaveFailsHeals ==
  ASSUME Sound, SaveFails
  PROVE  Healing'
<1>1. font # NoFont /\ Again /\ SaveFailed
  BY DEF SaveFails
<1>2. pc \in Saving /\ UNCHANGED <<files, memory>>
  BY <1>1 DEF SaveFailed, PutFails, Done, Saving
<1>3. FontWork /\ UNCHANGED <<disk, resident, complete>>
  BY <1>1, <1>2 DEF FontWork, files, memory
<1> QED BY <1>1, <1>3, AgainHeals

\* The profiles of a font are retired and loaded again.
LEMMA RebuiltAre ==
  ASSUME Sound, NEW f \in Fonts, NEW loaded \in SUBSET Roles, Rebuild(f, loaded),
         UNCHANGED disk
  PROVE  /\ loaded \subseteq Own(f) /\ complete' = (complete \ Own(f)) \cup loaded
         /\ \A r \in loaded : Matches(r)'
         /\ \A r \in Roles \ Own(f) : resident'[r] = resident[r]
<1>1. FilesOK /\ Held(resident) /\ Own(f) \subseteq Roles
  BY SoundParts, OwnIs
<1>2. /\ TryLoads(f, complete \ Own(f), loaded)
      /\ resident' = Load(loaded, Drop(Own(f)))
      /\ complete' = (complete \ Own(f)) \cup loaded
  BY DEF Rebuild
<1>3. loaded \subseteq Own(f) /\ \A r \in loaded : Loadable(r)
  BY <1>2 DEF TryLoads
<1>4. PICK pages : pages = Drop(Own(f))
  OBVIOUS
<1>5. Held(pages) /\ \A r \in Roles \ Own(f) : pages[r] = resident[r]
  BY <1>1, <1>4, DropIs
<1>6. /\ \A r \in loaded : Matches(r)'
      /\ \A r \in Roles \ loaded : resident'[r] = pages[r]
  BY <1>1, <1>2, <1>3, <1>4, <1>5, LoadedAre
<1> QED BY <1>2, <1>3, <1>5, <1>6

\* RebuildPublished: the font is restored, or starts again.
LEMMA RebuildPublishedHeals ==
  ASSUME Sound, RebuildPublished
  PROVE  Healing'
<1>1. font # NoFont /\ pc \in Saving /\ todo = <<>> /\ UNCHANGED disk
  BY DEF RebuildPublished, Done, Saving, files
<1>2. FontWork
  BY <1>1 DEF FontWork, Saving
<1>3. /\ font \in Fonts /\ FontsOK /\ OwnerOK /\ BlankOK /\ OrderOK
      /\ queue = <<>> /\ font \notin ToSet(generation) /\ pc # "discard"
      /\ Own(font) \cap complete = {} /\ complete \subseteq Roles /\ (\A k : ~Going(k))
  BY <1>1, <1>2, WorkIs DEF Saving
<1>4. PICK loaded \in SUBSET Roles :
           /\ Rebuild(font, loaded)
           /\ IF Restored(font, complete', resident')
                THEN /\ Goto("restore") /\ font' = NoFont
                     /\ UNCHANGED <<queue, generation>>
                ELSE Again
  BY DEF RebuildPublished
<1>5. PICK f \in Fonts : f = font /\ Own(f) = {f, Double} /\ f # Double /\ f # NoFont
  BY <1>3, OwnIs
<1>6. /\ loaded \subseteq Own(f) /\ complete' = (complete \ Own(f)) \cup loaded
      /\ \A r \in loaded : Matches(r)'
      /\ \A r \in Roles \ Own(f) : resident'[r] = resident[r]
  BY <1>1, <1>4, <1>5, RebuiltAre
<1>7. \A r \in complete' : \/ r \in complete /\ r \notin Own(f) /\ resident'[r] = resident[r]
                           \/ r \in Own(f) /\ Matches(r)'
  BY <1>3, <1>5, <1>6
<1>8. CASE Again
  <2>1. complete \ Own(font) \subseteq complete' /\ pc # "publish"
    BY <1>1, <1>5, <1>6 DEF Saving
  <2> QED BY <1>1, <1>2, <1>5, <1>7, <1>8, <2>1, AgainHeals
<1>9. CASE /\ Goto("restore") /\ font' = NoFont /\ UNCHANGED <<queue, generation>>
           /\ Restored(f, complete', resident')
  <2>1. /\ pc' = "restore" /\ font' = NoFont /\ UNCHANGED <<queue, generation>>
        /\ Own(f) \subseteq complete' /\ \A r \in Own(f) : TablesReady(r, resident')
    BY <1>9 DEF Goto, Restored
  <2>2. FontWork' /\ OrderOK' /\ AuthorOK'
    BY <1>3, <2>1, NoneIs DEF FontWork, OrderOK, AuthorOK
  <2>3. \A g \in Fonts : /\ Active(g)' <=> Active(g) /\ g # f
                         /\ Waiting(g)' <=> Waiting(g) /\ g # f
    BY <1>3, <1>5, <2>1, OwnIs, NoneIs DEF Active, Waiting
  <2>4. OwnerOK'
    BY <1>1, <1>2, <1>3, <2>3, NoSharing, OwnIs DEF OwnerOK
  <2>5. BlankOK'
    BY <1>1, <1>3, <2>1 DEF BlankOK
  <2>6. FontsOK'
    <3>1. ASSUME NEW r \in complete' PROVE Matches(r)' /\ TablesReady(r, resident')
      <4>1. CASE r \in Own(f)
        BY <1>7, <2>1, <3>1, <4>1
      <4>2. CASE r \notin Own(f)
        <5>1. r \in complete /\ resident'[r] = resident[r]
          BY <1>7, <3>1, <4>2
        <5>2. ~Stale(r) /\ ~Mixed(r)
          BY <1>1, NoneIs, <1>3 DEF Stale, Mixed, Saving
        <5> QED BY <1>1, <1>3, <5>1, <5>2, StaysMatched, StaysReady DEF FontsOK
      <4> QED BY <4>1, <4>2
    <3>2. \A g \in Fonts : g \in complete' \/ Waiting(g)'
      BY <1>3, <1>5, <1>6, <2>1, <2>3, OwnIs DEF FontsOK
    <3>3. \A g \in Fonts : Active(g)' => g \notin complete'
      BY <1>3, <1>5, <1>6, <2>3, OwnIs DEF FontsOK
    <3> QED BY <1>5, <2>1, <3>1, <3>2, <3>3 DEF FontsOK
  <2> QED BY <2>2, <2>4, <2>5, <2>6, FontOnly
<1> QED BY <1>4, <1>5, <1>8, <1>9

-----------------------------------------------------------------------------
(* The steps of the group.                                                     *)
\* The worker is at rest.
LEMMA GroupEnds ==
  ASSUME Sound, UNCHANGED <<queue, generation, font>>, font = NoFont, generation = <<>>,
         pc' = "idle", clean' => complete' = Roles,
         \A r \in complete' : Matches(r)' /\ TablesReady(r, resident')
  PROVE  Healing'
<1>1. ~FontWork' /\ ~GroupSaving' /\ ~Grouping'
  BY DEF FontWork, GroupSaving, Grouping, Saving
<1>2. (1 \in ToSet(queue) => Head(queue) = 1)'
  BY SoundParts DEF OrderOK
<1>3. CompleteOK'
  BY <1>1 DEF CompleteOK
<1>4. PayloadOK' /\ OwnFirstOK' /\ AliasesOK' /\ BackupOK' /\ UndoneOK'
  BY <1>1 DEF PayloadOK, OwnFirstOK, AliasesOK, BackupOK, UndoneOK
<1> QED BY <1>1, <1>2, <1>3, <1>4, GroupOnly

\* What is complete while the group is worked on but not saved.
LEMMA GroupComplete ==
  ASSUME Sound, Grouping
  PROVE  /\ font = NoFont /\ generation = <<>> /\ complete = Roles
         /\ \A r \in Roles : Matches(r) /\ TablesReady(r, resident)
<1>1. pc \in GroupSteps /\ CompleteOK
  BY SoundParts DEF GroupSteps, Grouping
<1> QED BY <1>1, GroupAlone DEF CompleteOK

\* Consolidate: all fonts are restored; a copy of their files is made, or none.
LEMMA ConsolidateHeals ==
  ASSUME Sound, Consolidate
  PROVE  Healing'
<1>1. /\ pc = "restore" /\ queue = <<>> /\ generation = <<>>
      /\ UNCHANGED <<disk, resident, complete, queue, generation, font>>
  BY DEF Consolidate, memory, jobs
<1>2. FontWork
  BY <1>1 DEF FontWork
<1>3. font = NoFont /\ todo = <<>> /\ FontsOK /\ FilesOK /\ complete \subseteq Roles
  BY <1>1, <1>2, WorkIs
<1>4. complete = Roles
  <2>1. \A f \in Fonts : ~Waiting(f)
    BY <1>1, <1>3, NoneIs, OwnIs DEF Waiting, Active
  <2> QED BY <1>3, <2>1 DEF FontsOK, Roles
<1>5. \A r \in Roles : Matches(r) /\ TablesReady(r, resident)
  BY <1>1, <1>3, <1>4, NoneIs DEF FontsOK, Stale, Mixed
<1>6. \A r \in Roles : Matches(r)' /\ TablesReady(r, resident')
  BY <1>1, <1>5, StaysMatched, StaysReady
<1>7. CASE Goto("idle")
  BY <1>1, <1>3, <1>4, <1>6, <1>7, GroupEnds DEF Goto
<1>8. CASE Goto("group") /\ backup' = disk
  <2>1. pc' = "group" /\ todo' = <<>> /\ Pending' = {}
    BY <1>3, <1>8, NoneIs DEF Goto, Pending
  <2>2. ~FontWork' /\ ~GroupSaving'
    BY <2>1 DEF FontWork, GroupSaving, Saving
  <2>3. (1 \in ToSet(queue) => Head(queue) = 1)'
    BY <1>1, NoneIs
  <2>4. CompleteOK'
    BY <1>1, <1>4, <1>6, <2>1, <2>2 DEF CompleteOK
  <2>5. BackupOK'
    <3>1. ASSUME NEW r \in Roles, NEW p \in 1..disk[<<r, 1>>].count,
                 NEW q \in 1..disk[<<r, 1>>].count
          PROVE  disk[<<r, p>>].content = disk[<<r, q>>].content
      <4>1. PICK s : s = resident[r]
        OBVIOUS
      <4>2. /\ Loadable(r) /\ Len(s) = Count(r) /\ p \in 1..Count(r) /\ q \in 1..Count(r)
            /\ \A i \in 1..Count(r) : s[i].header.content = Header(r, i).content
        BY <1>5, <4>1 DEF Matches, MatchesIn, Same, Alike, Count
      <4>3. s \in Seq(Page)
        BY <4>1, SoundParts DEF MemoryOK
      <4>4. s[p].header.content = s[q].header.content
        BY <1>5, <4>1, <4>2, <4>3 DEF TablesReady
      <4>5. \A i \in 1..Count(r) : Header(r, i).content = disk[<<r, i>>].content
        BY <4>2 DEF Loadable, Stageable, HasPayload
      <4> QED BY <4>2, <4>4, <4>5
    <3> QED BY <1>8, <3>1 DEF BackupOK
  <2>6. PayloadOK' /\ OwnFirstOK' /\ AliasesOK' /\ UndoneOK'
    BY <1>1, <1>8, <2>1 DEF PayloadOK, OwnFirstOK, AliasesOK, UndoneOK
  <2> QED BY <1>1, <1>3, <2>2, <2>3, <2>4, <2>5, <2>6, GroupOnly
<1> QED BY <1>7, <1>8 DEF Consolidate

\* MarkDone: the marks are on, or off again.
LEMMA MarkedHeals ==
  ASSUME Sound, MarkDone
  PROVE  Healing'
<1>1. /\ pc \in {"mark", "unmark"} /\ pc' = "idle"
      /\ UNCHANGED <<disk, resident, complete, queue, generation, font>>
  BY DEF MarkDone, Done, Finish, Begin, memory, jobs
<1>2. /\ font = NoFont /\ generation = <<>> /\ complete = Roles
      /\ \A r \in Roles : Matches(r) /\ TablesReady(r, resident)
  BY <1>1, GroupComplete DEF Grouping
<1>3. \A r \in Roles : Matches(r)' /\ TablesReady(r, resident')
  BY <1>1, <1>2, StaysMatched, StaysReady
<1> QED BY <1>1, <1>2, <1>3, GroupEnds

\* MarkFallback: the owner's pages get the mark.
LEMMA MarkFallbackHeals ==
  ASSUME Sound, MarkFallback
  PROVE  Healing'
<1>1. /\ pc = "group" /\ pc' = "mark"
      /\ UNCHANGED <<disk, backup, resident, complete, queue, generation, font>>
  BY DEF MarkFallback, Begin, files, memory, jobs
<1>2. \A o \in Pending' : o.file.payload = disk[o.key].payload
  BY SoundParts, MarkFallbackKeeps
<1>3. \A o \in Pending' : o.key \in Keys
  <2>1. IInv'
    BY SoundParts, MarkFallbackOK
  <2>2. (IInv => Pending \subseteq Operations)'
    BY PendingIn, PTL
  <2> QED BY <2>1, <2>2 DEF Operations
<1>4. \A k \in Keys : Same(disk'[k], disk[k])
  BY <1>1 DEF Same, Alike
<1> QED BY <1>1, <1>2, <1>3, <1>4, MarkingHeals DEF Grouping

\* MarkFails: the headers are to be written back from the copies.
LEMMA MarkFailsHeals ==
  ASSUME Sound, MarkFails
  PROVE  Healing'
<1>1. /\ pc = "mark" /\ pc' = "unmark"
      /\ UNCHANGED <<disk, backup, resident, complete, queue, generation, font>>
  BY DEF MarkFails, PutFails, Begin, files, memory, jobs
<1>2. \A o \in Pending' : o.key \in Keys /\ o.file = backup[o.key]
  BY SoundParts, MarkFailsKeeps
<1>3. \A o \in Pending' : o.key \in Keys /\ o.file.payload = disk[o.key].payload
  BY <1>1, <1>2, SoundParts DEF PayloadOK
<1>4. \A k \in Keys : Same(disk'[k], disk[k])
  BY <1>1 DEF Same, Alike
<1> QED BY <1>1, <1>3, <1>4, MarkingHeals DEF Grouping

\* A rollback begins; the session is not clean any more.
LEMMA RollbackStarts ==
  ASSUME Sound, pc = "group" \/ GroupSaving, NEW then \in {"idle", "rebuild"},
         StartRollback(then), UNCHANGED <<files, jobs>>, ~clean',
         then = "idle" => complete' = {}
  PROVE  Healing'
<1>1. /\ pc' = "rollback" /\ restored' = TRUE /\ next' = then
      /\ UNCHANGED <<disk, backup, queue, generation, font>>
  BY DEF StartRollback, Begin, files, jobs
<1>2. font = NoFont /\ generation = <<>>
  BY GroupAlone DEF GroupSteps
<1>3. \A k \in Keys : ToDo(k)'
  BY SoundParts, RollbackList
<1>4. ~FontWork' /\ ~GroupSaving' /\ ~Grouping'
  BY <1>1 DEF FontWork, GroupSaving, Grouping, Saving
<1>5. (1 \in ToSet(queue) => Head(queue) = 1)'
  BY <1>1, SoundParts DEF OrderOK
<1>6. CompleteOK' /\ PayloadOK' /\ OwnFirstOK' /\ AliasesOK'
  BY <1>1, <1>4 DEF CompleteOK, PayloadOK, OwnFirstOK, AliasesOK
<1>7. BackupOK'
  <2>1. BackupOK
    BY SoundParts
  <2> QED BY <1>1, <2>1 DEF BackupOK
<1>8. UndoneOK'
  BY <1>1, <1>3 DEF UndoneOK
<1> QED BY <1>1, <1>2, <1>4, <1>5, <1>6, <1>7, <1>8, GroupOnly

\* The pages of the group can be read where no page is marked.
LEMMA GroupReadable ==
  ASSUME Sound, pc = "group", fits # "no", NEW r \in Roles
  PROVE  SourcesReadable(r)
<1>1. FilesOK /\ KnownOK /\ UnmarkedOK /\ MemoryOK /\ Matches(r)
  BY SoundParts, GroupComplete DEF Grouping
<1>2. resident[r] \in Seq(Page) /\ Len(resident[r]) = Count(r)
  BY <1>1 DEF MemoryOK, Matches, MatchesIn
<1>3. SUFFICES ASSUME NEW p \in DOMAIN resident[r] PROVE Readable(resident[r][p])
  BY DEF SourcesReadable
<1>4. p \in 1..Count(r) /\ p \in Pages /\ resident[r][p] \in Page
  BY <1>1, <1>2, CountIs
<1>5. PICK page \in Page : page = resident[r][p]
  BY <1>4
<1>6. /\ page.source = Source(r, p) /\ Same(page.header, Header(r, p))
      /\ ~page.header.marked /\ page.header \in File
  BY <1>1, <1>4, <1>5 DEF Matches, MatchesIn, UnmarkedOK, Plain, Page
<1>7. Source(r, p) \in Keys /\ Header(r, p) \in File /\ ~Header(r, p).marked
  BY <1>1, <1>4, SourceIs DEF UnmarkedOK, Header
<1>8. PICK a \in File, b \in File : a = page.header /\ b = Header(r, p)
  BY <1>6, <1>7
<1>9. a = b
  <2>1. /\ a.content = b.content /\ a.count = b.count /\ a.repacked = b.repacked
        /\ a.payload = b.payload /\ a.marked = FALSE /\ b.marked = FALSE
    BY <1>6, <1>7, <1>8 DEF Same, Alike, File
  <2> QED BY <2>1 DEF File
<1> QED BY <1>5, <1>6, <1>8, <1>9 DEF Readable, Header

\* GroupSaveFails: a page of the group cannot be prepared or replaced.
LEMMA GroupSaveFailsHeals ==
  ASSUME Sound, GroupSaveFails
  PROVE  Healing'
<1>1. font = NoFont /\ StartRollback("rebuild") /\ UNCHANGED jobs
  BY DEF GroupSaveFails
<1>2. CASE SaveFailed
  <2>1. GroupSaving /\ UNCHANGED files /\ ~clean'
    BY <1>1, <1>2 DEF SaveFailed, PutFails, Done, Fails, Failure, GroupSaving, Saving
  <2> QED BY <1>1, <2>1, RollbackStarts
<1>3. CASE /\ pc = "group" /\ fits # "no" /\ UNCHANGED <<files, memory>>
           /\ Fails \/ (Works /\ \E r \in Roles : ~SourcesReadable(r))
  <2>1. ~clean'
    BY <1>3, GroupReadable DEF Fails, Failure
  <2> QED BY <1>1, <1>3, <2>1, RollbackStarts
<1> QED BY <1>2, <1>3 DEF GroupSaveFails

\* ScopeRefused: the files are rolled back, and no profile is complete.
LEMMA ScopeRefusedHeals ==
  ASSUME Sound, ScopeRefused
  PROVE  Healing'
<1>1. /\ pc = "saveAlias" /\ GroupSaving /\ StartRollback("idle") /\ ~clean'
      /\ UNCHANGED <<files, complete, jobs>>
  BY DEF ScopeRefused, Done, Fails, Failure, GroupSaving, Saving, memory
<1>2. complete' = {}
  BY <1>1, SoundParts DEF AliasesOK
<1> QED BY <1>1, <1>2, RollbackStarts

\* SaveGroup: the owner's page is to be the page of the group.
LEMMA SaveGroupHeals ==
  ASSUME Sound, SaveGroup
  PROVE  Healing'
<1>1. /\ pc = "group" /\ StartSave(OwnerRole, GroupRoles, 1)
      /\ complete' = complete \ {OwnerRole}
      /\ UNCHANGED <<disk, backup, queue, generation, font>>
  BY DEF SaveGroup, StartSave, files, jobs
<1>2. font = NoFont /\ generation = <<>> /\ IInv /\ OrderOK /\ BackupOK
  BY <1>1, GroupComplete, SoundParts DEF Grouping
<1>3. PICK r \in Roles, aliases \in Seq(Roles), n \in Pages :
         r = OwnerRole /\ aliases = GroupRoles /\ n = 1
  BY OwnIs, GroupRolesAre
<1>4. PICK g \in Unused : g = Fresh
  BY <1>1, FreshIs DEF StartSave
<1>5. /\ pc' = "saveOwn" /\ \A o \in Pending' : SavedAs(o, r, g, n)
      /\ \E o \in Pending' : o.key = <<r, 1>>
  <2>1. StartSave(r, aliases, n)
    BY <1>1, <1>3
  <2> QED BY <1>2, <1>4, <2>1, SaveList
<1>6. ~FontWork' /\ ~Grouping'
  BY <1>1, <1>2, <1>5 DEF FontWork, Grouping, Saving
<1>7. OwnFirstOK'
  <2>1. ASSUME NEW o \in Pending', o.key = OwnerKey PROVE NewOwner(o.file)
    <3>1. o.key[2] = 1 /\ 1 \in 1..n
      BY <1>3, <2>1, FirstKeys
    <3>2. o.file = NewFile(g, n, TRUE, r)
      BY <1>5, <3>1 DEF SavedAs
    <3>3. g # 0
      BY SnapshotAssumption DEF Unused
    <3> QED BY <1>3, <3>2, <3>3 DEF NewOwner, NewFile
  <2>2. ToDo(OwnerKey)'
    BY <1>3, <1>5 DEF OwnerKey, ToDo
  <2>3. \A o \in Pending' : o.key[1] = OwnerRole /\ (o.key = OwnerKey => NewOwner(o.file))
    BY <1>3, <1>5, <2>1 DEF SavedAs
  <2> QED BY <1>1, <2>2, <2>3 DEF OwnFirstOK
<1>8. (1 \in ToSet(queue) => Head(queue) = 1)'
  BY <1>1, <1>2 DEF OrderOK
<1>9. BackupOK'
  BY <1>1, <1>2 DEF BackupOK
<1>10. CompleteOK' /\ PayloadOK' /\ AliasesOK' /\ UndoneOK'
  BY <1>5, <1>6 DEF CompleteOK, PayloadOK, AliasesOK, UndoneOK
<1> QED BY <1>1, <1>2, <1>6, <1>7, <1>8, <1>9, <1>10, GroupOnly

\* The operations that make the other roles aliases of the owner's page.
AliasOf(o, alias) ==
  /\ o.key # OwnerKey
  /\ \/ o.file = Missing /\ o.key[2] # 1
     \/ o.file = alias /\ o.key[2] = 1

\* SaveAliases, for the group: what is complete, and what is to be written.
LEMMA GroupAliasList ==
  ASSUME Sound, SaveAliases, font = NoFont
  PROVE  /\ NewOwner(disk[OwnerKey]) /\ complete' = {}
         /\ \A o \in Pending' : AliasOf(o, disk[OwnerKey])
         /\ \A r \in Roles : r = OwnerRole \/ ToDo(<<r, 1>>)'
<1>1. /\ pc = "saveOwn" /\ todo = <<>> /\ targets # <<>>
      /\ complete' = complete \ (ToSet(targets) \ {role})
  BY DEF SaveAliases, Done
<1>2. /\ role = OwnerRole /\ targets = GroupRoles /\ GroupSaving /\ Pending = {}
      /\ complete \subseteq Roles /\ IInv /\ FilesOK /\ OwnFirstOK
  BY <1>1, SoundParts, NoneIs DEF ControlOK, Saving, GroupSaving, Pending
<1>3. OwnerRole \notin complete /\ NewOwner(disk[OwnerKey])
  BY <1>1, <1>2 DEF OwnFirstOK, ToDo
<1>4. Count(role) = 1 /\ <<role, 1>> = OwnerKey
  BY <1>2, <1>3 DEF Count, NewOwner, OwnerKey
<1>5. PICK alias \in File : /\ alias = disk[OwnerKey]
                           /\ alias = [disk[<<role, 1>>] EXCEPT !.payload = role]
  <2>1. PICK file \in File : file = disk[OwnerKey]
    BY <1>2, FirstKeys DEF FilesOK
  <2>2. file.payload = OwnerRole
    BY <1>3, <2>1 DEF NewOwner
  <2>3. [file EXCEPT !.payload = OwnerRole] = file
    BY <2>2 DEF File
  <2>4. [disk[<<role, 1>>] EXCEPT !.payload = role] = file
    BY <1>2, <1>4, <2>1, <2>3
  <2> QED BY <2>1, <2>4
<1>6. complete' = {}
  BY <1>1, <1>2, <1>3, GroupRolesAre
<1> DEFINE T == {o \in Operations : AliasOf(o, alias)}
<1>7. \A x : x \in 1..1 <=> x = 1
  OBVIOUS
<1>8. /\ Pending' \subseteq T
      /\ \A t \in ToSet(targets), p \in 1..Count(role) : t # role => ToDo(<<t, p>>)'
  <2>1. \A o \in Operations :
            /\ o.key[1] \in ToSet(targets)
            /\ \/ o.key[2] \notin 1..Count(role) /\ o.file = Missing
               \/ o.key[1] # role /\ o.key[2] \in 1..Count(role) /\ o.file = alias
            => o \in T
    BY <1>2, <1>4, <1>7, FirstKeys DEF AliasOf
  <2>2. T \in SUBSET Operations
    OBVIOUS
  <2> HIDE DEF T
  <2> QED BY <1>2, <1>5, <2>1, <2>2, AliasList
<1>9. \A r \in Roles : r = OwnerRole \/ ToDo(<<r, 1>>)'
  <2> SUFFICES ASSUME NEW r \in Roles, r # OwnerRole PROVE ToDo(<<r, 1>>)'
    OBVIOUS
  <2>1. PICK p \in 1..Count(role) : p = 1
    BY <1>4, <1>7
  <2>2. ToDo(<<r, p>>)'
    BY <1>2, <1>8, GroupRolesAre
  <2> QED BY <2>1, <2>2 DEF ToDo
<1> QED BY <1>3, <1>5, <1>6, <1>8, <1>9

\* SaveAliases, for the group: all other roles are to be made aliases of the page.
LEMMA GroupAliasesHeals ==
  ASSUME Sound, SaveAliases, font = NoFont
  PROVE  Healing'
<1>1. /\ pc = "saveOwn" /\ pc' = "saveAlias"
      /\ UNCHANGED <<disk, backup, queue, generation, font>>
  BY DEF SaveAliases, Done, Begin, files, jobs
<1>2. GroupSaving /\ generation = <<>> /\ OrderOK /\ BackupOK
  BY <1>1, GroupAlone, SoundParts DEF GroupSaving, Saving
<1>3. PICK alias : alias = disk[OwnerKey]
  OBVIOUS
<1>4. /\ NewOwner(alias) /\ complete' = {}
      /\ \A o \in Pending' : AliasOf(o, alias)
      /\ \A r \in Roles : r = OwnerRole \/ ToDo(<<r, 1>>)'
  BY <1>3, GroupAliasList
<1>5. ~FontWork' /\ ~Grouping'
  BY <1>1 DEF FontWork, Grouping, Saving
<1>6. AliasesOK'
  <2>1. \A r \in Roles : (disk[<<r, 1>>] = disk[OwnerKey] \/ ToDo(<<r, 1>>))'
    BY <1>1, <1>4 DEF OwnerKey
  <2>2. disk'[OwnerKey] = alias
    BY <1>1, <1>3
  <2>3. \A o \in Pending' : o.key # OwnerKey /\ (o.key[2] = 1 => o.file = alias)
    BY <1>4 DEF AliasOf
  <2> QED BY <1>4, <2>1, <2>2, <2>3 DEF AliasesOK
<1>7. (1 \in ToSet(queue) => Head(queue) = 1)'
  BY <1>1, <1>2 DEF OrderOK
<1>8. BackupOK'
  BY <1>1, <1>2 DEF BackupOK
<1>9. CompleteOK' /\ PayloadOK' /\ OwnFirstOK' /\ UndoneOK'
  BY <1>1, <1>5 DEF CompleteOK, PayloadOK, OwnFirstOK, UndoneOK
<1> QED BY <1>1, <1>2, <1>5, <1>6, <1>7, <1>8, <1>9, GroupOnly

\* SaveAliases, for whom it may be.
LEMMA SaveAliasesHeals ==
  Sound /\ SaveAliases => Healing'
  BY FontAliasesHeals, GroupAliasesHeals

\* The queue of a session, or of a rebuild, begins with the owner.
LEMMA OwnerFirst ==
  LET q == [f \in Fonts |-> f] IN q \in Seq(Fonts) /\ ToSet(q) = Fonts /\ Head(q) = 1
<1> DEFINE q == [f \in Fonts |-> f]
<1>1. q \in Seq(Fonts) /\ ToSet(q) = Fonts
  BY AllFonts
<1>2. 1 \in DOMAIN q /\ q[1] = 1
  BY OwnIs
<1> HIDE DEF q
<1>3. Head(q) = q[1]
  BY <1>1, <1>2
<1> QED BY <1>1, <1>2, <1>3 DEF q

\* All files that are not there and are to be deleted are as they were before.
LEMMA RolledBackIs ==
  ASSUME Sound, RolledBack
  PROVE  disk = backup
<1>1. /\ pc = "rollback" /\ \A i \in DOMAIN todo : ~Touched(todo[i])
  BY DEF RolledBack
<1>2. /\ FilesOK /\ KnownOK
      /\ \A k \in Keys : disk[k] = backup[k] \/ ToDo(k)
      /\ \A o \in Pending : o.file = backup[o.key]
  BY <1>1, SoundParts DEF UndoneOK, GroupOK
<1>3. \A o \in Pending : ~Touched(o)
  BY <1>1 DEF Pending, ToSet
<1>4. ASSUME NEW k \in Keys PROVE disk[k] = backup[k]
  <2>1. CASE ToDo(k)
    <3>1. PICK o \in Pending : o.key = k
      BY <2>1 DEF ToDo
    <3>2. disk[k].content = 0 /\ o.file = Missing
      BY <1>3, <3>1 DEF Touched, IsFile
    <3> QED BY <1>2, <3>1, <3>2 DEF KnownOK, Known
  <2> QED BY <1>2, <2>1
<1> QED BY <1>2, <1>4 DEF FilesOK

\* RolledBack: the members are to be rebuilt, or the session ends.
LEMMA RolledBackHeals ==
  ASSUME Sound, RolledBack
  PROVE  Healing'
<1>1. /\ pc = "rollback" /\ pc \in GroupSteps
      /\ UNCHANGED <<disk, resident, complete, generation, font, restored, clean>>
  BY DEF RolledBack, memory, faults, GroupSteps
<1>2. /\ disk = backup /\ font = NoFont /\ generation = <<>> /\ restored /\ ~clean
      /\ (next = "idle" => complete = {}) /\ BackupOK
  BY <1>1, RolledBackIs, GroupAlone, SoundParts DEF UndoneOK
<1>3. CASE next = "rebuild"
  <2>1. /\ pc' = "rebuild" /\ queue' = [f \in Fonts |-> f] /\ UNCHANGED backup
    BY <1>2, <1>3 DEF RolledBack, Begin
  <2>2. ToSet(queue') = Fonts /\ Head(queue') = 1
    BY <2>1, OwnerFirst
  <2>3. ~FontWork' /\ ~Grouping' /\ ~GroupSaving'
    BY <2>1 DEF FontWork, Grouping, GroupSaving, Saving
  <2>4. BackupOK'
    BY <1>1, <1>2, <2>1 DEF BackupOK
  <2>5. UndoneOK'
    BY <1>1, <1>2, <2>1, <2>2 DEF UndoneOK
  <2>6. CompleteOK' /\ PayloadOK' /\ OwnFirstOK' /\ AliasesOK'
    BY <2>1, <2>3 DEF CompleteOK, PayloadOK, OwnFirstOK, AliasesOK
  <2> QED BY <1>1, <1>2, <2>2, <2>3, <2>4, <2>5, <2>6, GroupOnly
<1>4. CASE next = "idle"
  <2>1. pc' = "idle" /\ UNCHANGED queue
    BY <1>4 DEF RolledBack, Finish, Begin
  <2> QED BY <1>1, <1>2, <1>4, <2>1, GroupEnds
<1> QED BY <1>3, <1>4, SoundParts DEF UndoOK

\* RebuildMember: a member is rebuilt from the restored files.
LEMMA RebuildMemberHeals ==
  ASSUME Sound, RebuildMember
  PROVE  Healing'
<1>1. /\ pc = "rebuild" /\ queue # <<>> /\ queue' = Tail(queue)
      /\ UNCHANGED <<disk, backup, pc, generation, font, restored, todo>>
  BY DEF RebuildMember, files, undoing
<1>2. PICK f \in Fonts : f = Head(queue)
  BY <1>1, QueueShorter, SoundParts
<1>3. PICK loaded \in SUBSET Roles : Rebuild(f, loaded)
  BY <1>2 DEF RebuildMember
<1>4. /\ disk = backup /\ restored /\ ~clean /\ font = NoFont /\ generation = <<>>
      /\ \A g \in Fonts : g \notin ToSet(queue) => \A r \in Own(g) \cap complete : Matches(r)
      /\ queue \in Seq(Fonts) /\ IInv /\ OrderOK /\ BackupOK /\ complete \subseteq Roles
  <2>1. ControlOK /\ UndoneOK /\ JobsOK /\ IInv /\ OrderOK /\ BackupOK
        /\ complete \subseteq Roles
    BY SoundParts
  <2>2. generation = <<>> /\ font = NoFont
    BY <1>1, <2>1 DEF ControlOK, QuietSteps
  <2> QED BY <1>1, <2>1, <2>2 DEF UndoneOK, JobsOK
<1>5. /\ loaded \subseteq Own(f) /\ complete' = (complete \ Own(f)) \cup loaded
      /\ \A r \in loaded : Matches(r)'
      /\ \A r \in Roles \ Own(f) : resident'[r] = resident[r]
  BY <1>1, <1>3, RebuiltAre
<1>6. ~clean'
  <2>1. Works \/ Fails
    BY <1>3 DEF Rebuild, TryLoads
  <2> QED BY <1>4, <2>1 DEF Works, Fails, Failure, faults
<1>7. /\ ToSet(queue') \subseteq ToSet(queue) /\ f \notin ToSet(queue')
      /\ ToSet(queue) \subseteq {f} \cup ToSet(queue')
  BY <1>1, <1>2, <1>4, QueueShorter, TailIs
<1>8. 1 \notin ToSet(queue')
  BY <1>2, <1>4, <1>7 DEF OrderOK
<1>9. ~FontWork' /\ ~Grouping' /\ ~GroupSaving'
  BY <1>1 DEF FontWork, Grouping, GroupSaving, Saving
<1>10. UndoneOK'
  <2>1. ASSUME NEW g \in Fonts, g \notin ToSet(queue'), NEW r \in Own(g) \cap complete'
        PROVE  Matches(r)'
    <3>1. CASE r \in loaded
      BY <1>5, <3>1
    <3>2. CASE r \notin loaded
      <4>1. r \in complete /\ r \notin Own(f) /\ resident'[r] = resident[r]
        BY <1>4, <1>5, <2>1, <3>2
      <4>2. g # f /\ g \notin ToSet(queue)
        BY <1>7, <2>1, <4>1
      <4>3. Matches(r)
        BY <1>4, <2>1, <4>1, <4>2
      <4> QED BY <1>1, <4>1, <4>3, StaysMatched
    <3> QED BY <3>1, <3>2
  <2> QED BY <1>1, <1>4, <1>6, <2>1 DEF UndoneOK
<1>11. BackupOK'
  BY <1>1, <1>4 DEF BackupOK
<1>12. CompleteOK' /\ PayloadOK' /\ OwnFirstOK' /\ AliasesOK'
  BY <1>1, <1>9 DEF CompleteOK, PayloadOK, OwnFirstOK, AliasesOK
<1> QED BY <1>1, <1>4, <1>8, <1>9, <1>10, <1>11, <1>12, GroupOnly

\* MembersRebuilt: all profiles are those of the files restored.
LEMMA MembersRebuiltHeals ==
  ASSUME Sound, MembersRebuilt
  PROVE  Healing'
<1>1. /\ pc = "rebuild" /\ queue = <<>> /\ pc' = "idle"
      /\ UNCHANGED <<disk, resident, complete, queue, generation, font, clean>>
  BY DEF MembersRebuilt, Finish, Begin, memory, jobs, faults
<1>2. /\ font = NoFont /\ generation = <<>> /\ UndoneOK /\ BackupOK /\ FilesOK /\ MemoryOK
      /\ complete \subseteq Roles
  BY <1>1, SoundParts DEF ControlOK, QuietSteps
<1>3. ASSUME NEW r \in complete
      PROVE  Matches(r) /\ TablesReady(r, resident)
  <2>1. PICK f \in Fonts : r \in Own(f)
    BY <1>2, OwnIs DEF Roles
  <2>2. Matches(r)
    BY <1>1, <1>2, <2>1, NoneIs DEF UndoneOK
  <2>3. PICK s : s = resident[r]
    OBVIOUS
  <2>4. /\ Len(s) = Count(r) /\ s \in Seq(Page) /\ Loadable(r) /\ r \in Roles
        /\ \A p \in 1..Count(r) : s[p].header.content = Header(r, p).content
    BY <1>2, <2>2, <2>3 DEF Matches, MatchesIn, Same, Alike, MemoryOK
  <2>5. \A p \in 1..Count(r) : Header(r, p).content = backup[<<r, p>>].content
    BY <1>1, <1>2, <2>4 DEF Loadable, Stageable, HasPayload, UndoneOK
  <2>6. \A p, q \in 1..Count(r) : backup[<<r, p>>].content = backup[<<r, q>>].content
    BY <1>1, <1>2, <2>4 DEF BackupOK, UndoneOK, Count
  <2>7. DOMAIN s = 1..Count(r)
    BY <2>4
  <2>8. \A p, q \in DOMAIN s : s[p].header.content = s[q].header.content
    BY <2>4, <2>5, <2>6, <2>7
  <2> QED BY <2>2, <2>3, <2>8 DEF TablesReady
<1>4. \A r \in complete' : Matches(r)' /\ TablesReady(r, resident')
  BY <1>1, <1>3, StaysMatched, StaysReady
<1>5. ~clean'
  BY <1>1, <1>2 DEF UndoneOK
<1> QED BY <1>1, <1>2, <1>4, <1>5, GroupEnds

\* All roles are aliases of the page of the group.
LEMMA GroupSaved ==
  ASSUME Sound, font = NoFont, Done("saveAlias")
  PROVE  /\ complete = {} /\ GroupSaving
         /\ \A r \in Roles : Loadable(r) /\ Count(r) = 1 /\ Source(r, 1) = OwnerKey
<1>1. pc = "saveAlias" /\ GroupSaving /\ Pending = {}
  BY NoneIs DEF Done, GroupSaving, Saving, Pending
<1>2. /\ complete = {} /\ NewOwner(disk[OwnerKey])
      /\ \A r \in Roles : disk[<<r, 1>>] = disk[OwnerKey] \/ ToDo(<<r, 1>>)
  BY <1>1, SoundParts DEF AliasesOK
<1>3. \A r \in Roles : disk[<<r, 1>>] = disk[OwnerKey]
  BY <1>1, <1>2 DEF ToDo
<1> QED BY <1>1, <1>2, <1>3, NewLoadable

\* What is resident of the group once its roles are loaded from the page.
LEMMA GroupLoaded ==
  ASSUME FilesOK, NEW pages, Held(pages), resident' = Load(Roles, pages), complete' = Roles,
         UNCHANGED disk,
         \A r \in Roles : Loadable(r) /\ Count(r) = 1 /\ Source(r, 1) = OwnerKey
  PROVE  GroupResident' /\ \A r \in Roles : Matches(r)' /\ TablesReady(r, resident')
<1>1. \A r \in Roles : resident'[r] = PagesFrom(r, "live")
  BY LoadIs
<1>2. \A r \in Roles : Matches(r)'
  BY LoadedAre
<1>3. ASSUME NEW r \in Roles
      PROVE  /\ Len(resident'[r]) = 1 /\ resident'[r][1].source = <<OwnerRole, 1>>
             /\ resident'[r][1].header = disk[OwnerKey] /\ resident'[r][1].texture = "live"
             /\ TablesReady(r, resident')
  <2>1. PICK s : s = PagesFrom(r, "live") /\ s = resident'[r]
    BY <1>1
  <2>2. Len(s) = 1 /\ s \in Seq(Page)
    BY <2>1, PagesFromIs
  <2>3. Count(r) = 1 /\ Source(r, 1) = OwnerKey /\ Header(r, 1) = disk[OwnerKey]
    BY DEF Header
  <2>4. /\ s[1].source = OwnerKey /\ s[1].header = disk[OwnerKey] /\ s[1].texture = "live"
    BY <2>1, <2>3 DEF PagesFrom
  <2>5. \A p \in DOMAIN s : p = 1
    BY <2>2
  <2>6. TablesReady(r, resident')
    BY <2>1, <2>5 DEF TablesReady
  <2> QED BY <2>1, <2>2, <2>4, <2>6 DEF OwnerKey
<1>4. OwnerRole \in Roles
  BY OwnIs
<1>5. GroupResident'
  BY <1>3, <1>4 DEF GroupResident
<1> QED BY <1>2, <1>3, <1>5

\* RebuildGroup: all members are rebuilt from the page, or the files rolled back.
LEMMA RebuildGroupHeals ==
  ASSUME Sound, RebuildGroup
  PROVE  Healing'
<1>1. /\ font = NoFont /\ Done("saveAlias") /\ UNCHANGED <<disk, jobs>>
      /\ UNCHANGED <<queue, generation, font>>
  BY DEF RebuildGroup, jobs
<1>2. /\ complete = {} /\ GroupSaving /\ generation = <<>>
      /\ \A r \in Roles : Loadable(r) /\ Count(r) = 1 /\ Source(r, 1) = OwnerKey
  BY <1>1, GroupSaved, GroupAlone
<1>3. FilesOK /\ Held(resident)
  BY SoundParts
<1>4. PICK last \in Fonts, loaded \in SUBSET Roles :
           LET before == UNION {Own(f) : f \in 1..(last - 1)}
               now == (before \ Own(last)) \cup loaded
           IN /\ TryLoads(last, complete \ Own(last), loaded)
              /\ resident' = Load(now, Drop(Own(last)))
              /\ complete' = (complete \ Own(last)) \cup now
              /\ IF last = NumFonts /\ loaded = Own(last) /\ GroupResident'
                   THEN Finish /\ UNCHANGED <<restored, next>>
                   ELSE /\ last = NumFonts \/ loaded # Own(last)
                        /\ StartRollback("rebuild")
                        /\ scope' = TRUE /\ UNCHANGED backup
  BY DEF RebuildGroup
<1>5. PICK before : before = UNION {Own(f) : f \in 1..(last - 1)}
  OBVIOUS
<1>6. PICK now : now = (before \ Own(last)) \cup loaded
  OBVIOUS
<1>7. PICK pages : pages = Drop(Own(last))
  OBVIOUS
<1>8. /\ TryLoads(last, complete \ Own(last), loaded)
      /\ resident' = Load(now, pages) /\ complete' = (complete \ Own(last)) \cup now
      /\ IF last = NumFonts /\ loaded = Own(last) /\ GroupResident'
           THEN Finish /\ UNCHANGED <<restored, next>>
           ELSE /\ last = NumFonts \/ loaded # Own(last)
                /\ StartRollback("rebuild")
                /\ scope' = TRUE /\ UNCHANGED backup
  BY <1>4, <1>5, <1>6, <1>7
<1>9. Own(last) \subseteq Roles /\ \A f \in 1..(last - 1) : f \in Fonts
  BY OwnIs, SnapshotAssumption DEF Fonts
<1>10. before \subseteq Roles
  BY <1>5, <1>9, OwnIs
<1>11. \/ Works /\ loaded = Own(last)
       \/ Fails /\ loaded # Own(last)
  BY <1>2, <1>8, <1>9 DEF TryLoads
<1>12. CASE Fails /\ loaded # Own(last)
  <2>1. StartRollback("rebuild") /\ UNCHANGED <<files, jobs>> /\ ~clean'
    BY <1>1, <1>8, <1>12 DEF files, Fails, Failure
  <2> QED BY <1>2, <2>1, RollbackStarts
<1>13. CASE Works /\ loaded = Own(last)
  <2>1. last = NumFonts
    BY <1>8, <1>13
  <2>2. now = Roles
    <3>1. ASSUME NEW r \in Roles PROVE r \in now
      <4>1. r \in 1..(last - 1) \/ r \in Own(last)
        <5>1. r = Double \/ r \in 1..(last - 1) \/ r = last
          BY <2>1, SnapshotAssumption DEF Roles, Fonts
        <5> QED BY <5>1, OwnIs
      <4>2. r \in 1..(last - 1) => r \in before
        BY <1>5, OwnIs
      <4> QED BY <1>6, <1>13, <4>1, <4>2
    <3> QED BY <1>6, <1>10, <3>1
  <2>3. resident' = Load(Roles, pages) /\ complete' = Roles
    BY <1>2, <1>8, <2>2
  <2>4. Held(pages)
    BY <1>3, <1>7, DropIs
  <2>5. GroupResident' /\ \A r \in Roles : Matches(r)' /\ TablesReady(r, resident')
    BY <1>1, <1>2, <1>3, <2>3, <2>4, GroupLoaded
  <2>6. pc' = "idle"
    BY <1>8, <1>13, <2>1, <2>5 DEF Finish, Begin
  <2> QED BY <1>1, <1>2, <2>3, <2>5, <2>6, GroupEnds
<1> QED BY <1>11, <1>12, <1>13

-----------------------------------------------------------------------------
(* The environment, and all steps.                                             *)
\* The page files, the jobs and the faults stay, and the pages but for textures.
LEMMA TexturesHeal ==
  ASSUME Sound, \A r \in Roles : SamePages(r),
         UNCHANGED <<files, complete, pc, jobs, saving, todo, undoing, faults>>
  PROVE  Healing'
<1>1. /\ UNCHANGED <<disk, backup, queue, generation, font, restored, next, clean>>
      /\ Pending' = Pending /\ complete \subseteq Roles
      /\ PayloadOK /\ OrderOK /\ AuthorOK /\ OwnerOK /\ BlankOK /\ CompleteOK
      /\ OwnFirstOK /\ AliasesOK /\ BackupOK /\ UndoneOK
  BY SoundParts DEF files, jobs, undoing, faults, Pending
<1>2. /\ \A f : (Active(f)' <=> Active(f)) /\ (Waiting(f)' <=> Waiting(f))
      /\ FontWork' = FontWork /\ Grouping' = Grouping /\ GroupSaving' = GroupSaving
  BY SameWork
<1>3. ASSUME NEW r \in Roles, Matches(r) PROVE Matches(r)'
  <2>1. MatchesIn(r, resident')
    BY <1>3, SoundParts, CountIs DEF Matches, MatchesIn, SamePages, MemoryOK
  <2> QED BY <1>1, <2>1, MatchesStill
<1>4. ASSUME NEW r \in Roles, TablesReady(r, resident) PROVE TablesReady(r, resident')
  <2>1. PICK s, u : s = resident[r] /\ u = resident'[r]
    OBVIOUS
  <2>2. DOMAIN u = DOMAIN s /\ \A p \in DOMAIN s : u[p].header = s[p].header
    BY <2>1 DEF SamePages
  <2>3. \A p, q \in DOMAIN s : s[p].header.content = s[q].header.content
    BY <1>4, <2>1 DEF TablesReady
  <2> QED BY <2>1, <2>2, <2>3 DEF TablesReady
<1>5. \A k : (ToDo(k)' <=> ToDo(k)) /\ (Going(k)' <=> Going(k))
  BY <1>1 DEF ToDo, Going
<1>6. PayloadOK' /\ OrderOK' /\ OwnFirstOK' /\ BackupOK'
  BY <1>1, <1>2, <1>5 DEF PayloadOK, OrderOK, OwnFirstOK, BackupOK
<1>7. AuthorOK' /\ BlankOK' /\ AliasesOK'
  BY <1>1, <1>2, <1>5 DEF AuthorOK, Writes, BlankOK, AliasesOK
<1>8. (NoDouble' <=> NoDouble) /\ \A g : Sharing(g)' <=> Sharing(g)
  BY <1>1, <1>5 DEF NoDouble, Sharing
<1>9. OwnerOK'
  BY <1>1, <1>2, <1>5, <1>8 DEF OwnerOK
<1>10. \A r : (Stale(r)' <=> Stale(r)) /\ (Mixed(r)' <=> Mixed(r))
  BY <1>1, <1>2, <1>8 DEF Stale, Mixed
<1>11. FontsOK => FontsOK'
  BY <1>1, <1>2, <1>3, <1>4, <1>10 DEF FontsOK
<1>12. CompleteOK'
  BY <1>1, <1>2, <1>3, <1>4, <1>11 DEF CompleteOK
<1>13. UndoneOK'
  <2>1. \A r \in complete : Matches(r) => Matches(r)'
    BY <1>1, <1>3
  <2> QED BY <1>1, <1>5, <2>1 DEF UndoneOK
<1> QED BY <1>6, <1>7, <1>9, <1>12, <1>13 DEF Healing

\* DeviceReset and PumpPending: textures are read again.
LEMMA DeviceHeals ==
  ASSUME Sound, DeviceReset \/ PumpPending
  PROVE  Healing'
<1>1. /\ \A r \in Roles : SamePages(r)
      /\ UNCHANGED <<files, complete, pc, jobs, saving, todo, undoing, faults>>
  BY SoundParts, TexturesOnly
<1> QED BY <1>1, TexturesHeal

\* Crash: nothing is complete any more.
LEMMA CrashHeals ==
  ASSUME Crash
  PROVE  Healing'
<1>1. queue' = <<>> /\ generation' = <<>> /\ font' = NoFont /\ pc' = "gone"
  BY DEF Crash, Begin
<1>2. ~FontWork' /\ ~Grouping' /\ ~GroupSaving'
  BY <1>1 DEF FontWork, Grouping, GroupSaving, Saving
<1>3. (1 \in ToSet(queue) => Head(queue) = 1)'
  BY <1>1, NoneIs
<1>4. CompleteOK' /\ PayloadOK' /\ OwnFirstOK' /\ AliasesOK' /\ BackupOK' /\ UndoneOK'
  BY <1>1, <1>2 DEF CompleteOK, PayloadOK, OwnFirstOK, AliasesOK, BackupOK, UndoneOK
<1> QED BY <1>1, <1>2, <1>3, <1>4, GroupOnly

\* A session starts: all fonts wait, and what is complete is on the disk.
LEMMA SessionBegins ==
  ASSUME StartSession, UNCHANGED <<disk, resident, complete>>,
         \A r \in complete : Matches(r) /\ TablesReady(r, resident)
  PROVE  Healing'
<1>1. /\ pc' = "restore" /\ queue' = [f \in Fonts |-> f]
      /\ generation' = <<>> /\ font' = NoFont
  BY DEF StartSession
<1>2. /\ ToSet(queue') = Fonts /\ Head(queue') = 1 /\ ToSet(generation') = {}
      /\ 1 \in Fonts /\ NoFont \notin Fonts
  BY <1>1, NoneIs, OwnerFirst, OwnIs
<1>3. \A f \in Fonts : Waiting(f)' /\ ~Active(f)'
  BY <1>1, <1>2 DEF Waiting, Active
<1>4. FontWork' /\ OrderOK' /\ AuthorOK' /\ BlankOK'
  BY <1>1, <1>2 DEF FontWork, OrderOK, AuthorOK, BlankOK
<1>5. OwnerOK'
  BY <1>2, <1>3 DEF OwnerOK
<1>6. \A r \in complete' : Matches(r)' /\ TablesReady(r, resident')
  BY StaysMatched, StaysReady
<1>7. FontsOK'
  BY <1>1, <1>2, <1>3, <1>6 DEF FontsOK
<1> QED BY <1>4, <1>5, <1>7, FontOnly

\* Restart and NewSession: a session starts with nothing complete, or at rest.
LEMMA SessionsHeal ==
  ASSUME HInv, \/ Restart
               \/ NewSession /\ intact
  PROVE  Healing'
<1>1. StartSession /\ UNCHANGED <<disk, resident, complete>>
  BY DEF Restart, NewSession, files, memory
<1>2. CASE Restart
  <2>1. complete = {}
    BY <1>2 DEF Restart, HInv
  <2> QED BY <1>1, <2>1, SessionBegins
<1>3. CASE NewSession /\ intact
  <2>1. pc = "idle" /\ CompleteOK
    BY <1>3 DEF NewSession, HInv, Healing
  <2>2. \A r \in complete : Matches(r) /\ TablesReady(r, resident)
    BY <2>1 DEF CompleteOK
  <2> QED BY <1>1, <2>2, SessionBegins
<1> QED BY <1>2, <1>3

\* No page file, no profile: all fonts wait to be restored.
LEMMA InitHeals ==
  Init => HInv
<1> SUFFICES ASSUME Init PROVE HInv
  OBVIOUS
<1>1. /\ pc = "restore" /\ queue = [f \in Fonts |-> f] /\ generation = <<>>
      /\ font = NoFont /\ todo = <<>> /\ complete = {} /\ intact
      /\ resident = [r \in Roles |-> <<>>]
      /\ \A k \in Keys : disk[k] = Missing /\ backup[k] = Missing
  BY FilesAre DEF Init
<1>2. /\ Pending = {} /\ ToSet(queue) = Fonts /\ Head(queue) = 1 /\ ToSet(generation) = {}
      /\ 1 \in Fonts /\ NoFont \notin Fonts
  BY <1>1, NoneIs, OwnerFirst, OwnIs DEF Pending
<1>3. KnownOK /\ UnmarkedOK
  <2>1. Missing.content = 0 /\ ~Missing.marked
    BY DEF Missing
  <2>2. \A k \in Keys : Known(k, Missing)
    BY DEF Known
  <2> QED BY <1>1, <1>2, <2>1, <2>2 DEF KnownOK, UnmarkedOK, Plain
<1>4. \A f \in Fonts : Waiting(f) /\ ~Active(f)
  BY <1>1, <1>2 DEF Waiting, Active
<1>5. OwnerOK /\ OrderOK /\ AuthorOK /\ BlankOK /\ PayloadOK
  BY <1>1, <1>2, <1>4 DEF OwnerOK, OrderOK, AuthorOK, BlankOK, PayloadOK
<1>6. FontsOK
  BY <1>1, <1>2, <1>4 DEF FontsOK
<1>7. CompleteOK /\ OwnFirstOK /\ AliasesOK /\ BackupOK /\ UndoneOK
  BY <1>1, <1>6 DEF CompleteOK, Grouping, OwnFirstOK, AliasesOK, BackupOK, UndoneOK,
     GroupSaving, Saving
<1> QED BY <1>1, <1>3, <1>5, <1>7 DEF HInv, Healing

\* What a step does to the histories: it leaves them, or the session is not clean
\* any more, or another begins.
Faults ==
  \/ UNCHANGED <<intact, clean>>
  \/ ~clean' /\ (intact' => intact)
  \/ Restart
  \/ NewSession

LEMMA FaultsOf ==
  [Next]_vars => Faults
<1>1. ASSUME Fails \/ Works \/ UNCHANGED faults \/ (\E n : Leaves(n)) PROVE Faults
  BY <1>1 DEF Fails, Failure, Works, Leaves, Faults, faults
<1>2. ASSUME FontStep PROVE Faults
  <2>1. CASE RestoreSnapshot
    BY <1>1, <2>1 DEF RestoreSnapshot, TryLoads
  <2>2. CASE Discarded \/ PublishStream \/ BatchFails
    BY <1>1, <2>2 DEF Discarded, PublishStream, BatchFails
  <2>3. CASE PublishFails \/ StageMetadata
    BY <1>1, <2>3 DEF PublishFails, PutFails, StageMetadata
  <2>4. CASE Save \/ SaveDoubleByte \/ SaveAliases
    BY <1>1, <2>4 DEF Save, SaveDoubleByte, SaveAliases
  <2>5. CASE SaveFails
    BY <1>1, <2>5 DEF SaveFails, SaveFailed, PutFails
  <2>6. CASE RebuildPublished
    BY <1>1, <2>6 DEF RebuildPublished, Rebuild, TryLoads
  <2> QED BY <1>2, <2>1, <2>2, <2>3, <2>4, <2>5, <2>6 DEF FontStep
<1>3. ASSUME GroupStep PROVE Faults
  <2>1. CASE Consolidate \/ MarkFallback
    BY <1>1, <2>1 DEF Consolidate, MarkFallback
  <2>2. CASE MarkFails \/ UnmarkFails \/ MarkDone
    BY <1>1, <2>2 DEF MarkFails, UnmarkFails, PutFails, MarkDone
  <2>3. CASE SaveGroup \/ ScopeRefused
    BY <1>1, <2>3 DEF SaveGroup, ScopeRefused
  <2>4. CASE GroupSaveFails
    BY <1>1, <2>4 DEF GroupSaveFails, SaveFailed, PutFails
  <2>5. CASE RebuildGroup \/ RebuildMember
    BY <1>1, <2>5 DEF RebuildGroup, RebuildMember, Rebuild, TryLoads
  <2>6. CASE RollBack
    BY <1>1, <2>6 DEF RollBack
  <2>7. CASE RolledBack \/ MembersRebuilt
    BY <1>1, <2>7 DEF RolledBack, MembersRebuilt
  <2> QED BY <1>3, <2>1, <2>2, <2>3, <2>4, <2>5, <2>6, <2>7 DEF GroupStep
<1>4. ASSUME WriteFiles PROVE Faults
  BY <1>1, <1>4 DEF WriteFiles, Succeeds, DeleteFails
<1>5. ASSUME Environment PROVE Faults
  BY <1>1, <1>5 DEF Environment, DeviceReset, PumpPending, Crash, Faults
<1>6. UNCHANGED vars => UNCHANGED faults
  BY DEF vars
<1> QED BY <1>1, <1>2, <1>3, <1>4, <1>5, <1>6 DEF Next

\* Nothing is complete in a process that is gone.
LEMMA GoneKept ==
  ASSUME pc = "gone" => complete = {}, [Next]_vars
  PROVE  pc' = "gone" => complete' = {}
<1>1. ASSUME FontStep PROVE pc' # "gone"
  <2>1. CASE RestoreSnapshot \/ BatchFails
    BY <2>1 DEF RestoreSnapshot, BatchFails, Discard, Begin
  <2>2. CASE Discarded \/ PublishStream \/ PublishFails \/ StageMetadata
    BY <2>2 DEF Discarded, PublishStream, PublishFails, StageMetadata, Again, Begin, Goto
  <2>3. CASE Save \/ SaveDoubleByte \/ SaveAliases \/ SaveFails
    BY <2>3 DEF Save, SaveDoubleByte, SaveAliases, SaveFails, StartSave, Again, Begin
  <2>4. CASE RebuildPublished
    BY <2>4 DEF RebuildPublished, Goto, Again, Begin
  <2> QED BY <1>1, <2>1, <2>2, <2>3, <2>4 DEF FontStep
<1>2. ASSUME GroupStep PROVE pc' # "gone"
  <2>1. CASE Consolidate \/ MarkFallback \/ MarkFails
    BY <2>1 DEF Consolidate, MarkFallback, MarkFails, Goto, Begin
  <2>2. CASE UnmarkFails \/ MarkDone \/ MembersRebuilt
    BY <2>2 DEF UnmarkFails, MarkDone, MembersRebuilt, Finish, Begin
  <2>3. CASE SaveGroup \/ GroupSaveFails \/ ScopeRefused
    BY <2>3 DEF SaveGroup, GroupSaveFails, ScopeRefused, StartSave, StartRollback, Begin
  <2>4. CASE RebuildGroup
    BY <2>4 DEF RebuildGroup, StartRollback, Finish, Begin
  <2>5. CASE RollBack \/ RebuildMember
    BY <2>5 DEF RollBack, RebuildMember
  <2>6. CASE RolledBack
    BY <2>6 DEF RolledBack, Finish, Begin
  <2> QED BY <1>2, <2>1, <2>2, <2>3, <2>4, <2>5, <2>6 DEF GroupStep
<1>3. ASSUME WriteFiles PROVE pc' # "gone"
  BY <1>3 DEF WriteFiles, Succeeds, DeleteFails
<1>4. ASSUME Environment PROVE pc' = "gone" => complete' = {}
  BY <1>4 DEF Environment, DeviceReset, PumpPending, Crash, Restart, NewSession, StartSession
<1>5. ASSUME UNCHANGED vars PROVE pc' = "gone" => complete' = {}
  BY <1>5 DEF vars, memory
<1> QED BY <1>1, <1>2, <1>3, <1>4, <1>5 DEF Next

\* Every step keeps the invariant of the profiles and the files.
LEMMA NextHeals ==
  IInv /\ HInv /\ [Next]_vars => HInv'
<1> SUFFICES ASSUME IInv, HInv, [Next]_vars PROVE HInv'
  OBVIOUS
<1>1. Stands
  BY DEF HInv, Stands
<1>2. KnownOK' /\ UnmarkedOK'
  BY <1>1, NextKeeps
<1>3. pc' = "gone" => complete' = {}
  BY GoneKept DEF HInv
<1>4. clean' => intact'
  BY FaultsOf DEF Faults, HInv, Restart, NewSession
<1>5. ASSUME intact' PROVE Healing'
  <2>1. intact \/ Restart
    BY <1>5, FaultsOf DEF Faults, HInv, NewSession
  <2>2. CASE Restart
    BY <2>2, SessionsHeal
  <2>3. CASE intact
    <3>1. Sound
      BY <1>1, <2>3 DEF Sound, HInv
    <3>2. CASE FontStep
      BY <3>1, <3>2, RestoreSnapshotHeals, DiscardedHeals, BatchFailsHeals,
         PublishStreamHeals, PublishFailsHeals, StageMetadataHeals, SaveHeals,
         SaveAliasesHeals, SaveFailsHeals, RebuildPublishedHeals DEF FontStep
    <3>3. CASE GroupStep
      BY <1>5, <3>1, <3>3, ConsolidateHeals, MarkFallbackHeals, MarkFailsHeals,
         UnmarkFailsHeals, MarkedHeals, SaveGroupHeals, GroupSaveFailsHeals,
         ScopeRefusedHeals, RebuildGroupHeals, RollBackHeals, RolledBackHeals,
         RebuildMemberHeals, MembersRebuiltHeals DEF GroupStep
    <3>4. CASE WriteFiles
      BY <1>5, <3>1, <3>4, WriteFilesHeals
    <3>5. CASE Environment
      BY <2>3, <3>1, <3>5, DeviceHeals, CrashHeals, SessionsHeal DEF Environment
    <3>6. CASE UNCHANGED vars
      <4>1. UNCHANGED <<files, memory, pc, jobs, saving, todo, undoing, faults>>
        BY <3>6 DEF vars
      <4>2. \A r \in Roles : SamePages(r)
        BY <4>1 DEF SamePages, memory
      <4> QED BY <3>1, <4>1, <4>2, TexturesHeal DEF memory
    <3> QED BY <3>2, <3>3, <3>4, <3>5, <3>6 DEF Next
  <2> QED BY <2>1, <2>2, <2>3
<1> QED BY <1>2, <1>3, <1>4, <1>5 DEF HInv

\* All steps keep the invariant of the profiles and the files.
THEOREM Consistent == Spec => []HInv
<1>1. Init => HInv
  BY InitHeals
<1>2. IInv /\ HInv /\ [Next]_vars => HInv'
  BY NextHeals
<1> QED BY <1>1, <1>2, Inductive, PTL DEF Spec

\* A profile that may be reused describes the files (CompleteIsOnDisk): when the
\* worker is at rest, in a process in which no deletion and no rollback failed,
\* every complete profile can be loaded from the disk again, page for page with
\* the headers it was loaded with, and its pages are of one generation, whatever
\* earlier processes left on the disk and whatever else fails.
THEOREM CompleteIsOnDiskHolds == Spec => []CompleteIsOnDisk
<1>1. IInv /\ HInv => CompleteIsOnDisk
  <2> SUFFICES ASSUME IInv, HInv, pc = "idle", intact, NEW r \in complete
               PROVE  /\ TablesReady(r, resident)
                      /\ Loadable(r) /\ Count(r) = Len(resident[r])
                      /\ \A p \in DOMAIN resident[r] :
                             /\ resident[r][p].source = Source(r, p)
                             /\ [resident[r][p].header EXCEPT !.marked = Header(r, p).marked]
                                  = Header(r, p)
    BY DEF CompleteIsOnDisk
  <2>1. Sound
    BY DEF Sound, Stands, HInv
  <2>2. /\ FilesOK /\ MemoryOK /\ KnownOK /\ r \in Roles /\ Matches(r)
        /\ TablesReady(r, resident)
    BY <2>1, SoundParts DEF CompleteOK
  <2>3. resident[r] \in Seq(Page)
    BY <2>2 DEF MemoryOK
  <2>4. Loadable(r) /\ Count(r) = Len(resident[r])
    BY <2>2 DEF Matches, MatchesIn
  <2>5. ASSUME NEW p \in DOMAIN resident[r]
        PROVE  /\ resident[r][p].source = Source(r, p)
               /\ [resident[r][p].header EXCEPT !.marked = Header(r, p).marked] = Header(r, p)
    <3>1. p \in 1..Count(r) /\ p \in Pages /\ resident[r][p] \in Page
      BY <2>2, <2>3, <2>4, CountIs
    <3>2. resident[r][p].source = Source(r, p) /\ Same(resident[r][p].header, Header(r, p))
      BY <2>2, <3>1 DEF Matches, MatchesIn
    <3>3. PICK a \in File, b \in File : a = resident[r][p].header /\ b = Header(r, p)
      BY <2>2, <3>1, SourceIs DEF Page
    <3>4. [a EXCEPT !.marked = b.marked] = b
      BY <3>2, <3>3 DEF Same, Alike, File
    <3> QED BY <3>2, <3>3, <3>4
  <2> QED BY <2>2, <2>4, <2>5
<1> QED BY <1>1, Inductive, Consistent, PTL

\* One session without a failure of its own leaves all profiles complete
\* (SessionHeals), whatever failures, failed rollbacks and ends of the process
\* before it left on the disk.
THEOREM SessionHealsHolds == Spec => []SessionHeals
<1>1. HInv => SessionHeals
  BY DEF HInv, Healing, CompleteOK, SessionHeals
<1> QED BY <1>1, Consistent, PTL
=============================================================================
