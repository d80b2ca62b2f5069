----------------------- MODULE PrewarmRasterPoolProofs -----------------------
(***************************************************************************)
(* The safety properties of PrewarmRasterPool, for any number of helpers,  *)
(* items and batches and any chunk.  Besides the caller and the helpers    *)
(* the inductive invariant counts who has reported (CountInv), keeps the   *)
(* chunks apart (ItemInv), and says that whatever has been drawn from a    *)
(* batch nobody disturbed is built or being built (WorkInv).               *)
(***************************************************************************)
EXTENDS PrewarmRasterPool, TLAPS, FiniteSetTheorems

InChunk(h) == hpc[h] \in {"items", "build"}

\* The caller's place tells what the flags of the pool may be.
CallInv ==
    /\ batchActive <=> cpc = "wait"
    /\ batchActive => activeWorkers \in 1..workers
    /\ cpc \in {"wait", "returned", "copied"} => generation > 0
    /\ cpc \in {"ready", "wait", "returned", "copied"} => ~stopping
    /\ cpc = "stopping" => stopping
    /\ cpc # "stopping" => (stopping <=> poisoned)
    /\ cpc = "ready" => granted > 0 /\ workers > 0

\* A helper runs only in the newest batch, and, unless the pool is stopping,
\* only while that batch is active; threads exist exactly up to workers.
HelperOK(h) ==
    /\ Running(h) =>
         /\ observed[h] = generation /\ generation > 0
         /\ stopping \/ (batchActive /\ h <= activeWorkers)
    /\ h > workers => Ended(h)
    /\ h <= workers => hpc[h] # "none"
    /\ h <= workers /\ ~Running(h) /\ hpc[h] # "wait" => stopping
    /\ observed[h] <= generation

HelperInv == \A h \in Helpers : HelperOK(h)

Reported ==
    {h \in 1..activeWorkers : observed[h] = generation /\ ~Running(h)}

Live == {h \in Helpers : ~Ended(h) /\ hpc[h] # "ending"}

CountInv ==
    /\ batchActive => completedWorkers = Cardinality(Reported)
    /\ ~batchActive => completedWorkers = 0
    /\ liveWorkers = Cardinality(Live)

\* A batch to come is as Init leaves it.
FreshInv ==
    \A b \in Batches : b > generation =>
      /\ nextWork[b] = 0 /\ bitmaps[b] = {}
      /\ ~failed[b] /\ ~cancelled[b]

\* The chunks of the helpers are drawn, disjoint, and not yet built.
ItemInv ==
    /\ \A h \in Helpers : InChunk(h) =>
         /\ index[h] <= end[h] /\ end[h] <= size[generation]
         /\ end[h] <= nextWork[generation]
         /\ hpc[h] = "build" => index[h] < end[h]
         /\ \A i \in index[h]..end[h] - 1 : i \notin bitmaps[generation]
    /\ \A h, k \in Helpers : h # k /\ InChunk(h) /\ InChunk(k) =>
         end[h] <= index[k] \/ end[k] <= index[h]
    /\ \A b \in Batches : \A i \in bitmaps[b] : i < nextWork[b] /\ i < size[b]

Undisturbed ==
    /\ generation > 0
    /\ ~failed[generation] /\ ~cancelled[generation] /\ ~stop

Covered(i) ==
    \/ i \in bitmaps[generation]
    \/ \E h \in Helpers : InChunk(h) /\ index[h] <= i /\ i < end[h]

Through(h) == hpc[h] = "report" \/ (~Running(h) /\ observed[h] = generation)

\* Only a failure or the batch's timeout cancels the newest batch.  As long as
\* nothing disturbs it, what is drawn is built or in a helper's chunk, and a
\* helper that is through has found nothing to draw.
BlameInv ==
    /\ \A h \in Helpers : hpc[h] = "cancel" => failed[generation]
    /\ generation > 0 /\ cancelled[generation]
         => failed[generation] \/ poisoned

CoverInv ==
    Undisturbed => \A i \in 0..size[generation] - 1 :
                     i < nextWork[generation] => Covered(i)

ThroughInv ==
    Undisturbed => \A h \in Helpers :
                     Through(h) => nextWork[generation] >= size[generation]

WorkInv == BlameInv /\ CoverInv /\ ThroughInv

\* A batch the caller takes for completed has been left by every helper, and
\* by one at least because there was nothing to draw.
DoneInv ==
    /\ cpc \in {"returned", "copied"} =>
         observed[1] = generation /\ \A h \in Helpers : ~Running(h)
    /\ CompleteBatch

IInv ==
    /\ TypeOK
    /\ CallInv /\ HelperInv /\ CountInv /\ FreshInv /\ ItemInv /\ WorkInv
    /\ DoneInv

-----------------------------------------------------------------------------
(* Abbreviations, among them the forms the code gives to single choices.   *)

USE DEF poolVars, batchVars, helperVars, callVars, Goto, LeaveChunk, Claimed,
        EndBatch, Quarantine, LeavesThreads, Smaller
USE PoolAssumption

LEMMA CallInvStep == IInv /\ Next => CallInv'
<1> SUFFICES ASSUME IInv, Next PROVE CallInv'
  OBVIOUS
<1> USE DEF IInv, CallInv, TypeOK, PoolTypeOK, CallerTypeOK
<1>1. CASE Prepare
  BY <1>1 DEF Prepare, CallerFree, Refuses, Helpers
<1>2. CASE Dispatch
  BY <1>2 DEF Dispatch, Refuses
<1>3. CASE ExecuteCompletes \/ ExecuteTimesOut
  BY <1>3 DEF ExecuteCompletes, ExecuteTimesOut
<1>4. CASE Stop \/ StopJoins \/ StopTimesOut
  BY <1>4 DEF Stop, StopJoins, StopTimesOut, CallerFree
<1>5. CASE TakeResults \/ BatchThrows \/ StopRequested
  BY <1>5 DEF TakeResults, BatchThrows, StopRequested
<1>6. ASSUME NEW h \in Helpers, HelperStep(h) PROVE CallInv'
  BY <1>6 DEF HelperStep, HelperWakes, HelperChecks, HelperClaims,
     HelperTakesItem, HelperBuilds, HelperThrows, HelperCancels,
     HelperReports, HelperLeaves, HelperEnds
<1> QED
  BY <1>1, <1>2, <1>3, <1>4, <1>5, <1>6 DEF Next, CallerStep, TimesOut

\* When the caller sees all reports the batch has been left by every helper.
LEMMA AllReportedLeft ==
  ASSUME TypeOK, CallInv, HelperInv, CountInv, batchActive, AllReported
  PROVE  observed[1] = generation /\ \A h \in Helpers : ~Running(h)
<1>1. activeWorkers \in Nat /\ activeWorkers >= 1
  BY DEF CallInv, TypeOK, PoolTypeOK
<1>2. IsFiniteSet(1..activeWorkers) /\ Cardinality(1..activeWorkers) = activeWorkers
  BY <1>1, FS_Interval
<1>3. Reported \in SUBSET (1..activeWorkers)
  BY DEF Reported
<1>4. Cardinality(Reported) = completedWorkers /\ completedWorkers \in Nat
  BY DEF CountInv, TypeOK, PoolTypeOK
<1>5. Cardinality(Reported) <= activeWorkers
  BY <1>2, <1>3, FS_Subset
<1>6. Cardinality(Reported) = activeWorkers
  BY <1>1, <1>4, <1>5 DEF AllReported
<1>7. Reported = 1..activeWorkers
  BY <1>2, <1>3, <1>6, FS_Subset
<1>8. 1 \in Reported
  BY <1>1, <1>7
<1>9. ASSUME NEW h \in Helpers, Running(h) PROVE FALSE
  <2>1. h <= activeWorkers
    BY <1>9 DEF HelperInv, HelperOK, CallInv
  <2>2. h \in Reported
    BY <1>1, <1>7, <2>1 DEF Helpers
  <2> QED
    BY <1>9, <2>2 DEF Reported
<1> QED
  BY <1>8, <1>9 DEF Reported

LEMMA HelperInvStep == IInv /\ Next => HelperInv'
<1> SUFFICES ASSUME IInv, Next, NEW k \in Helpers PROVE HelperOK(k)'
  BY DEF HelperInv
<1>0. /\ HelperOK(k) /\ CallInv /\ k \in Nat /\ k >= 1
      /\ workers \in 0..MaxWorkers /\ activeWorkers \in Nat
      /\ generation \in Nat /\ hpc \in [Helpers -> HelperPlaces]
      /\ observed \in [Helpers -> Nat]
  BY DEF IInv, HelperInv, TypeOK, PoolTypeOK, HelperTypeOK, Helpers
<1> USE <1>0 DEF HelperOK, Running, Ended, RunPlaces
<1>1. CASE Prepare
  <2>1. CASE UNCHANGED <<poolVars, helperVars>>
    BY <2>1
  <2>2. CASE ~UNCHANGED <<poolVars, helperVars>>
    <3>1. PICK now \in Helpers :
            /\ now >= workers /\ workers' = now
            /\ hpc' = [h \in Helpers |->
                         IF h > workers /\ h <= now THEN "wait" ELSE hpc[h]]
            /\ observed' = [h \in Helpers |->
                         IF h > workers /\ h <= now THEN 0 ELSE observed[h]]
            /\ UNCHANGED <<generation, activeWorkers, batchActive, stopping>>
      BY <1>1, <2>2 DEF Prepare
    <3>2. ~batchActive /\ ~stopping
      BY <1>1, <2>2 DEF Prepare, Refuses
    <3>3. now \in Nat
      BY DEF Helpers
    <3> QED
      BY <3>1, <3>2, <3>3
  <2> QED
    BY <2>1, <2>2
<1>2. CASE Dispatch
  BY <1>2 DEF Dispatch, Refuses, CallInv
<1>3. CASE ExecuteCompletes
  <2>1. ~Running(k)
    BY <1>3, AllReportedLeft DEF IInv, ExecuteCompletes, CallInv
  <2> QED
    BY <1>3, <2>1 DEF ExecuteCompletes
<1>4. CASE StopJoins
  <2>1. hpc[k] \in {"none", "gone"}
    BY <1>4 DEF StopJoins, Exited
  <2> QED
    BY <1>4, <2>1 DEF StopJoins, CallInv
<1>5. CASE ExecuteTimesOut \/ Stop \/ StopTimesOut
  BY <1>5 DEF ExecuteTimesOut, Stop, StopTimesOut
<1>6. CASE TakeResults \/ BatchThrows \/ StopRequested
  BY <1>6 DEF TakeResults, BatchThrows, StopRequested
<1>7. ASSUME NEW h \in Helpers, HelperWakes(h) PROVE HelperOK(k)'
  BY <1>7 DEF HelperWakes, Woken, CallInv
<1>8. ASSUME NEW h \in Helpers,
             HelperChecks(h) \/ HelperClaims(h) \/ HelperTakesItem(h)
             \/ HelperBuilds(h) \/ HelperThrows(h) \/ HelperCancels(h)
      PROVE  HelperOK(k)'
  BY <1>8 DEF HelperChecks, HelperClaims, HelperTakesItem, HelperBuilds,
     HelperThrows, HelperCancels
<1>9. ASSUME NEW h \in Helpers,
             HelperReports(h) \/ HelperLeaves(h) \/ HelperEnds(h)
      PROVE  HelperOK(k)'
  BY <1>9 DEF HelperReports, HelperLeaves, HelperEnds
<1> QED
  BY <1>1, <1>2, <1>3, <1>4, <1>5, <1>6, <1>7, <1>8, <1>9
  DEF Next, CallerStep, TimesOut, HelperStep

\* A step that changes no place of a helper, no observed generation, and
\* neither the batch nor its counter leaves the counts alone.
LEMMA CountsKept ==
  ASSUME CountInv,
         UNCHANGED <<hpc, observed, generation, activeWorkers,
                     completedWorkers, liveWorkers, batchActive>>
  PROVE  CountInv'
<1>1. Reported' = Reported /\ Live' = Live
  BY DEF Reported, Live, Running, Ended
<1> QED
  BY <1>1 DEF CountInv

LEMMA FiniteCounts ==
  ASSUME TypeOK
  PROVE  IsFiniteSet(Helpers) /\ IsFiniteSet(Live) /\ IsFiniteSet(Reported)
<1>1. IsFiniteSet(Helpers)
  BY FS_Interval DEF Helpers
<1>2. IsFiniteSet(1..activeWorkers)
  BY FS_Interval DEF TypeOK, PoolTypeOK
<1>3. Live \in SUBSET Helpers /\ Reported \in SUBSET (1..activeWorkers)
  BY DEF Live, Reported
<1> QED
  BY <1>1, <1>2, <1>3, FS_Subset

LEMMA CountInvStep == IInv /\ Next => CountInv'
<1> SUFFICES ASSUME IInv, Next PROVE CountInv'
  OBVIOUS
<1>0. /\ TypeOK /\ CallInv /\ CountInv
      /\ workers \in 0..MaxWorkers /\ activeWorkers \in 0..MaxWorkers
      /\ generation \in Nat /\ completedWorkers \in Nat
      /\ liveWorkers \in Nat
      /\ hpc \in [Helpers -> HelperPlaces] /\ observed \in [Helpers -> Nat]
      /\ MaxWorkers \in Nat
  BY DEF IInv, TypeOK, PoolTypeOK, HelperTypeOK
<1>f. IsFiniteSet(Live) /\ IsFiniteSet(Reported)
  BY <1>0, FiniteCounts
<1>1. CASE Prepare
  <2>1. CASE UNCHANGED <<poolVars, helperVars>>
    BY <1>0, <2>1, CountsKept
  <2>2. CASE ~UNCHANGED <<poolVars, helperVars>>
    <3>1. PICK now \in Helpers :
            /\ now >= workers
            /\ liveWorkers' = liveWorkers + (now - workers)
            /\ hpc' = [h \in Helpers |->
                         IF h > workers /\ h <= now THEN "wait" ELSE hpc[h]]
            /\ UNCHANGED <<completedWorkers, batchActive>>
      BY <1>1, <2>2 DEF Prepare
    <3>2. ~batchActive
      BY <1>1, <2>2 DEF Prepare, Refuses
    <3>3. now \in Nat /\ now <= MaxWorkers
      BY <1>0 DEF Helpers
    <3>4. Live' = Live \cup (workers + 1..now)
      BY <1>0, <3>1, <3>3 DEF Live, Ended, Helpers
    <3>5. Live \cap (workers + 1..now) = {}
      <4>1. \A h \in Helpers : h > workers => h \notin Live
        BY DEF IInv, HelperInv, HelperOK, Live
      <4> QED
        BY <1>0, <3>3, <4>1 DEF Live, Helpers
    <3>6. /\ IsFiniteSet(workers + 1..now)
          /\ Cardinality(workers + 1..now) = now - workers
      <4>1. workers + 1 \in Int /\ now \in Int
        BY <1>0, <3>3
      <4>2. /\ IsFiniteSet(workers + 1..now)
            /\ Cardinality(workers + 1..now) =
                 IF workers + 1 > now THEN 0 ELSE now - (workers + 1) + 1
        BY <4>1, FS_Interval, Zenon
      <4> QED
        BY <1>0, <3>1, <3>3, <4>2
    <3>7. Cardinality(Live') = Cardinality(Live) + (now - workers)
      <4>1. Cardinality(Live') = Cardinality(Live)
              + Cardinality(workers + 1..now) - Cardinality({})
        BY <1>f, <3>4, <3>5, <3>6, FS_Union
      <4> QED
        BY <1>0, <1>f, <3>3, <3>6, <4>1, FS_EmptySet, FS_CardinalityType
    <3> QED
      BY <1>0, <3>1, <3>2, <3>7 DEF CountInv
  <2> QED
    BY <2>1, <2>2
<1>2. CASE Dispatch
  <2>1. CASE UNCHANGED poolVars
    BY <1>0, <1>2, <2>1, CountsKept DEF Dispatch
  <2>2. CASE ~UNCHANGED poolVars
    <3>1. /\ generation' = generation + 1 /\ completedWorkers' = 0
          /\ batchActive' /\ activeWorkers' \in 0..MaxWorkers
          /\ UNCHANGED <<hpc, observed, liveWorkers>>
      BY <1>0, <1>2, <2>2 DEF Dispatch, TypeOK, CallerTypeOK
    <3>2. \A h \in Helpers : observed[h] <= generation
      BY DEF IInv, HelperInv, HelperOK
    <3>3. Reported' = {}
      BY <1>0, <3>1, <3>2 DEF Reported, Helpers
    <3>4. Live' = Live
      BY <3>1 DEF Live, Ended
    <3> QED
      BY <1>0, <3>1, <3>3, <3>4, FS_EmptySet DEF CountInv
  <2> QED
    BY <2>1, <2>2
<1>3. CASE ExecuteCompletes \/ ExecuteTimesOut \/ StopJoins
  <2>1. Live' = Live
    BY <1>3 DEF ExecuteCompletes, ExecuteTimesOut, StopJoins, Live, Ended
  <2> QED
    BY <1>0, <1>3, <2>1
    DEF ExecuteCompletes, ExecuteTimesOut, StopJoins, CountInv
<1>4. CASE Stop \/ StopTimesOut \/ TakeResults \/ BatchThrows
           \/ StopRequested
  BY <1>0, <1>4, CountsKept
  DEF Stop, StopTimesOut, TakeResults, BatchThrows, StopRequested
<1>5. ASSUME NEW h \in Helpers, HelperWakes(h) PROVE CountInv'
  <2>1. Live' = Live
    BY <1>0, <1>5 DEF HelperWakes, Live, Ended
  <2>2. batchActive => Reported' = Reported
    BY <1>0, <1>5 DEF HelperWakes, Woken, Reported, Running, RunPlaces,
       CallInv, Helpers
  <2> QED
    BY <1>0, <1>5, <2>1, <2>2 DEF HelperWakes, CountInv
<1>6. ASSUME NEW h \in Helpers,
             HelperChecks(h) \/ HelperClaims(h) \/ HelperTakesItem(h)
             \/ HelperBuilds(h) \/ HelperThrows(h) \/ HelperCancels(h)
      PROVE  CountInv'
  <2>1. /\ Running(h) /\ hpc' \in [Helpers -> HelperPlaces]
        /\ hpc'[h] \in RunPlaces
        /\ \A k \in Helpers \ {h} : hpc'[k] = hpc[k]
        /\ UNCHANGED <<poolVars, observed>>
    BY <1>0, <1>6 DEF HelperChecks, HelperClaims, HelperTakesItem,
       HelperBuilds, HelperThrows, HelperCancels, Running, RunPlaces,
       HelperPlaces
  <2>2. Live' = Live
    BY <2>1 DEF Live, Ended, Running, RunPlaces
  <2>3. Reported' = Reported
    BY <1>0, <2>1 DEF Reported, Running, Helpers
  <2> QED
    BY <1>0, <2>1, <2>2, <2>3 DEF CountInv
<1>7. ASSUME NEW h \in Helpers, HelperReports(h) PROVE CountInv'
  <2>1. Live' = Live
    BY <1>0, <1>7 DEF HelperReports, Live, Ended
  <2>2. Running(h) /\ hpc' = [hpc EXCEPT ![h] = "wait"]
        /\ UNCHANGED <<activeWorkers, observed, generation, batchActive,
                       liveWorkers>>
    BY <1>7 DEF HelperReports, Running, RunPlaces
  <2>3. CASE batchActive
    <3>1. observed[h] = generation /\ h <= activeWorkers
      BY <2>2, <2>3 DEF IInv, HelperInv, HelperOK, CallInv
    <3>2. Reported' = Reported \cup {h} /\ h \notin Reported
      BY <1>0, <2>2, <3>1 DEF Reported, Running, RunPlaces, Helpers
    <3>3. Cardinality(Reported') = Cardinality(Reported) + 1
      BY <1>f, <3>2, FS_AddElement
    <3> QED
      BY <1>0, <1>7, <2>1, <2>2, <2>3, <3>1, <3>3
      DEF HelperReports, CountInv
  <2> QED
    BY <1>0, <1>7, <2>1, <2>2, <2>3 DEF HelperReports, CountInv
<1>8. ASSUME NEW h \in Helpers, HelperLeaves(h) PROVE CountInv'
  <2>1. Live' = Live \ {h} /\ h \in Live
    BY <1>0, <1>8 DEF HelperLeaves, Live, Ended
  <2>2. Cardinality(Live') = Cardinality(Live) - 1
    BY <1>f, <2>1, FS_RemoveElement
  <2>3. Reported' = Reported
    BY <1>0, <1>8 DEF HelperLeaves, Reported, Running, RunPlaces, Helpers
  <2> QED
    BY <1>0, <1>8, <2>2, <2>3 DEF HelperLeaves, CountInv
<1>9. ASSUME NEW h \in Helpers, HelperEnds(h) PROVE CountInv'
  <2>1. Live' = Live
    BY <1>0, <1>9 DEF HelperEnds, Live, Ended
  <2>2. Reported' = Reported
    BY <1>0, <1>9 DEF HelperEnds, Reported, Running, RunPlaces, Helpers
  <2> QED
    BY <1>0, <1>9, <2>1, <2>2 DEF HelperEnds, CountInv
<1> QED
  BY <1>1, <1>2, <1>3, <1>4, <1>5, <1>6, <1>7, <1>8, <1>9
  DEF Next, CallerStep, TimesOut, HelperStep

\* Inside a batch a helper is in the newest one, which has been dispatched.
LEMMA RunsInNewest ==
  ASSUME TypeOK, HelperInv, NEW h \in Helpers, Running(h)
  PROVE  observed[h] = generation /\ generation \in Batches
BY DEF HelperInv, HelperOK, TypeOK, PoolTypeOK, Batches

LEMMA FreshInvStep == IInv /\ Next => FreshInv'
<1> SUFFICES ASSUME IInv, Next, NEW b \in Batches, b > generation'
             PROVE  /\ nextWork'[b] = 0 /\ bitmaps'[b] = {}
                    /\ ~failed'[b] /\ ~cancelled'[b]
  BY DEF FreshInv
<1>0. /\ TypeOK /\ HelperInv /\ CallInv
      /\ generation \in 0..MaxBatches /\ b \in Nat
      /\ nextWork \in [Batches -> Nat]
      /\ cancelled \in [Batches -> BOOLEAN]
      /\ failed \in [Batches -> BOOLEAN]
      /\ bitmaps \in [Batches -> SUBSET (0..MaxItems - 1)]
      /\ b > generation => /\ nextWork[b] = 0 /\ bitmaps[b] = {}
                           /\ ~failed[b] /\ ~cancelled[b]
  BY DEF IInv, TypeOK, PoolTypeOK, BatchTypeOK, FreshInv, Batches
<1>1. CASE Dispatch
  BY <1>0, <1>1 DEF Dispatch
<1>2. CASE ExecuteTimesOut
  BY <1>0, <1>2 DEF ExecuteTimesOut
<1>3. CASE Prepare \/ ExecuteCompletes \/ StopJoins \/ Stop \/ StopTimesOut
           \/ TakeResults \/ BatchThrows \/ StopRequested
  BY <1>0, <1>3 DEF Prepare, ExecuteCompletes, StopJoins, Stop, StopTimesOut,
     TakeResults, BatchThrows, StopRequested
<1>4. ASSUME NEW h \in Helpers,
             HelperClaims(h) \/ HelperBuilds(h) \/ HelperThrows(h)
             \/ HelperCancels(h)
      PROVE  /\ nextWork'[b] = 0 /\ bitmaps'[b] = {}
             /\ ~failed'[b] /\ ~cancelled'[b]
  <2>1. Running(h)
    BY <1>4 DEF HelperClaims, HelperBuilds, HelperThrows, HelperCancels,
       Running, RunPlaces
  <2>2. observed[h] = generation /\ generation' = generation
    BY <1>0, <1>4, <2>1, RunsInNewest
    DEF HelperClaims, HelperBuilds, HelperThrows, HelperCancels
  <2> QED
    BY <1>0, <1>4, <2>2
    DEF HelperClaims, HelperBuilds, HelperThrows, HelperCancels
<1>5. ASSUME NEW h \in Helpers,
             HelperWakes(h) \/ HelperChecks(h) \/ HelperTakesItem(h)
             \/ HelperReports(h) \/ HelperLeaves(h) \/ HelperEnds(h)
      PROVE  /\ nextWork'[b] = 0 /\ bitmaps'[b] = {}
             /\ ~failed'[b] /\ ~cancelled'[b]
  BY <1>0, <1>5 DEF HelperWakes, HelperChecks, HelperTakesItem,
     HelperReports, HelperLeaves, HelperEnds
<1> QED
  BY <1>1, <1>2, <1>3, <1>4, <1>5
  DEF Next, CallerStep, TimesOut, HelperStep

\* Helpers that change no chunk leave the chunks as they are.
LEMMA ChunksKept ==
  ASSUME ItemInv,
         UNCHANGED <<generation, size, nextWork, bitmaps, index, end>>,
         \A h \in Helpers : /\ InChunk(h)' => InChunk(h)
                            /\ hpc'[h] = "build" => hpc[h] = "build"
  PROVE  ItemInv'
BY DEF ItemInv, InChunk

LEMMA ItemInvStep == IInv /\ Next => ItemInv'
<1> SUFFICES ASSUME IInv, Next PROVE ItemInv'
  OBVIOUS
<1>0. /\ TypeOK /\ HelperInv /\ CallInv /\ FreshInv /\ ItemInv
      /\ generation \in 0..MaxBatches /\ MaxItems \in Nat /\ Chunk \in Nat
      /\ Chunk > 0 /\ MaxBatches \in Nat
      /\ size \in [Batches -> 0..MaxItems]
      /\ nextWork \in [Batches -> Nat]
      /\ bitmaps \in [Batches -> SUBSET (0..MaxItems - 1)]
      /\ hpc \in [Helpers -> HelperPlaces] /\ observed \in [Helpers -> Nat]
      /\ index \in [Helpers -> Nat] /\ end \in [Helpers -> 0..MaxItems]
  BY DEF IInv, TypeOK, PoolTypeOK, BatchTypeOK, HelperTypeOK
<1>1. CASE Prepare
  <2>1. \A h \in Helpers : hpc'[h] = hpc[h] \/ hpc'[h] = "wait"
    BY <1>0, <1>1 DEF Prepare
  <2> QED
    BY <1>0, <1>1, <2>1, ChunksKept DEF Prepare, InChunk
<1>2. CASE Dispatch
  <2>1. CASE UNCHANGED poolVars
    BY <1>0, <1>2, <2>1, ChunksKept DEF Dispatch, InChunk
  <2>2. CASE ~UNCHANGED poolVars
    <3>1. \A h \in Helpers : ~InChunk(h)
      BY <1>2, <2>2 DEF Dispatch, Refuses, IInv, HelperInv, HelperOK, InChunk,
         Running, RunPlaces
    <3>2. PICK n \in 1..MaxItems :
             size' = [size EXCEPT ![generation + 1] = n]
      BY <1>2, <2>2 DEF Dispatch
    <3>3. \A b \in Batches : \A i \in bitmaps[b] :
             i < nextWork[b] /\ i < size'[b]
      <4>1. generation + 1 \in Batches => bitmaps[generation + 1] = {}
        BY <1>0 DEF FreshInv
      <4> QED
        BY <1>0, <3>2, <4>1 DEF ItemInv
    <3> QED
      BY <1>2, <2>2, <3>1, <3>3 DEF Dispatch, ItemInv, InChunk
  <2> QED
    BY <2>1, <2>2
<1>3. CASE ExecuteCompletes \/ ExecuteTimesOut \/ StopJoins \/ Stop
           \/ StopTimesOut \/ TakeResults \/ BatchThrows \/ StopRequested
  BY <1>0, <1>3, ChunksKept
  DEF ExecuteCompletes, ExecuteTimesOut, StopJoins, Stop, StopTimesOut,
      TakeResults, BatchThrows, StopRequested, InChunk
<1>4. ASSUME NEW h \in Helpers, HelperClaims(h) PROVE ItemInv'
  <2>1. observed[h] = generation /\ generation \in Batches
    BY <1>0, <1>4, RunsInNewest DEF HelperClaims, Running, RunPlaces
  <2>2. /\ nextWork' = [nextWork EXCEPT
                          ![generation] = nextWork[generation] + Chunk]
        /\ UNCHANGED <<generation, size, bitmaps>>
    BY <1>4, <2>1 DEF HelperClaims
  <2>3. CASE nextWork[generation] >= size[generation]
    <3>1. /\ UNCHANGED <<index, end>>
          /\ \A k \in Helpers :
                /\ InChunk(k)' => InChunk(k)
                /\ hpc'[k] = "build" => hpc[k] = "build"
      BY <1>0, <1>4, <2>1, <2>3 DEF HelperClaims, InChunk
    <3>2. \A b \in Batches : nextWork'[b] >= nextWork[b]
      BY <1>0, <2>1, <2>2
    <3> QED
      BY <1>0, <2>1, <2>2, <3>1, <3>2 DEF ItemInv, InChunk
  <2>4. CASE ~(nextWork[generation] >= size[generation])
    <3> DEFINE first == nextWork[generation]
               last == Smaller(size[generation], first + Chunk)
    <3>1. /\ index' = [index EXCEPT ![h] = first]
          /\ end' = [end EXCEPT ![h] = last]
          /\ hpc' = [hpc EXCEPT ![h] = "items"]
      BY <1>4, <2>1, <2>4 DEF HelperClaims
    <3>2. /\ first \in Nat /\ last \in Nat /\ first < last
          /\ last <= size[generation] /\ last <= first + Chunk
      BY <1>0, <2>1, <2>4
    <3>3. nextWork'[generation] = first + Chunk
      BY <1>0, <2>1, <2>2
    <3>4. \A k \in Helpers \ {h} : InChunk(k)' =>
             /\ InChunk(k) /\ index'[k] = index[k] /\ end'[k] = end[k]
             /\ hpc'[k] = hpc[k] /\ end[k] <= first
      BY <1>0, <3>1 DEF InChunk, ItemInv
    <3>5. \A i \in bitmaps[generation] : i < first
      BY <1>0, <2>1 DEF ItemInv
    <3>6. ASSUME NEW k \in Helpers, InChunk(k)'
          PROVE  /\ index'[k] <= end'[k] /\ end'[k] <= size'[generation']
                 /\ end'[k] <= nextWork'[generation']
                 /\ hpc'[k] = "build" => index'[k] < end'[k]
                 /\ \A i \in index'[k]..end'[k] - 1 :
                      i \notin bitmaps'[generation']
      <4>1. CASE k = h
        <5> HIDE DEF first, last
        <5>1. index'[h] = first /\ end'[h] = last /\ hpc'[h] = "items"
          BY <1>0, <3>1
        <5>2. \A i \in first..last - 1 : i \notin bitmaps[generation]
          BY <3>2, <3>5
        <5> QED
          BY <2>2, <3>2, <3>3, <4>1, <5>1, <5>2
      <4>2. CASE k # h
        <5> HIDE DEF first, last
        <5>1. /\ index[k] <= end[k] /\ end[k] <= size[generation]
              /\ hpc[k] = "build" => index[k] < end[k]
              /\ \A i \in index[k]..end[k] - 1 : i \notin bitmaps[generation]
          BY <3>4, <3>6, <4>2 DEF ItemInv, IInv
        <5>2. end[k] \in Nat
          BY <1>0
        <5> QED
          BY <1>0, <2>2, <3>2, <3>3, <3>4, <3>6, <4>2, <5>1, <5>2
      <4> QED
        BY <4>1, <4>2
    <3>7. \A k, m \in Helpers : k # m /\ InChunk(k)' /\ InChunk(m)' =>
             end'[k] <= index'[m] \/ end'[m] <= index'[k]
      <4> HIDE DEF first, last
      <4>1. index'[h] = first
        BY <1>0, <3>1
      <4> QED
        BY <1>0, <3>4, <4>1 DEF ItemInv
    <3>8. \A b \in Batches : \A i \in bitmaps'[b] :
             i < nextWork'[b] /\ i < size'[b]
      <4>1. \A b \in Batches : nextWork'[b] >= nextWork[b]
        BY <1>0, <2>1, <2>2
      <4> QED
        BY <1>0, <2>2, <4>1 DEF ItemInv
    <3> QED
      BY <3>6, <3>7, <3>8 DEF ItemInv
  <2> QED
    BY <2>3, <2>4
<1>5. ASSUME NEW h \in Helpers, HelperBuilds(h) PROVE ItemInv'
  <2>1. observed[h] = generation /\ generation \in Batches
    BY <1>0, <1>5, RunsInNewest DEF HelperBuilds, Running, RunPlaces
  <2>2. /\ bitmaps' = [bitmaps EXCEPT
                         ![generation] = @ \cup {index[h]}]
        /\ index' = [index EXCEPT ![h] = @ + 1]
        /\ hpc' = [hpc EXCEPT ![h] = "items"] /\ hpc[h] = "build"
        /\ UNCHANGED <<generation, size, nextWork, end>>
    BY <1>5, <2>1 DEF HelperBuilds
  <2>3. /\ index[h] < end[h] /\ end[h] <= size[generation]
        /\ end[h] <= nextWork[generation] /\ InChunk(h)
        /\ \A i \in index[h]..end[h] - 1 : i \notin bitmaps[generation]
    BY <1>0, <2>2 DEF ItemInv, InChunk
  <2>4. /\ index'[h] = index[h] + 1 /\ hpc'[h] = "items"
        /\ bitmaps'[generation] = bitmaps[generation] \cup {index[h]}
        /\ \A k \in Helpers \ {h} :
              hpc'[k] = hpc[k] /\ index'[k] = index[k]
    BY <1>0, <2>1, <2>2
  <2>5. ASSUME NEW k \in Helpers, InChunk(k)'
        PROVE  /\ index'[k] <= end'[k] /\ end'[k] <= size'[generation']
               /\ end'[k] <= nextWork'[generation']
               /\ hpc'[k] = "build" => index'[k] < end'[k]
               /\ \A i \in index'[k]..end'[k] - 1 :
                    i \notin bitmaps'[generation']
    <3>1. CASE k = h
      BY <1>0, <2>2, <2>3, <2>4, <3>1
    <3>2. CASE k # h
      <4>1. InChunk(k)
        BY <2>4, <2>5, <3>2 DEF InChunk
      <4>2. end[k] <= index[h] \/ end[h] <= index[k]
        BY <1>0, <2>3, <3>2, <4>1 DEF ItemInv
      <4>3. index[h] \notin index[k]..end[k] - 1
        BY <1>0, <2>3, <4>2
      <4> QED
        BY <1>0, <2>2, <2>4, <3>2, <4>1, <4>3 DEF ItemInv
    <3> QED
      BY <3>1, <3>2
  <2>6. \A k, m \in Helpers : k # m /\ InChunk(k)' /\ InChunk(m)' =>
           end'[k] <= index'[m] \/ end'[m] <= index'[k]
    <3>1. \A k \in Helpers : /\ InChunk(k)' => InChunk(k)
                             /\ index'[k] >= index[k] /\ end'[k] = end[k]
      BY <1>0, <2>2, <2>3, <2>4 DEF InChunk
    <3>2. index' \in [Helpers -> Nat]
      BY <1>0, <2>2
    <3> QED
      BY <1>0, <3>1, <3>2 DEF ItemInv
  <2>7. \A b \in Batches : \A i \in bitmaps'[b] :
           i < nextWork'[b] /\ i < size'[b]
    BY <1>0, <2>1, <2>2, <2>3 DEF ItemInv
  <2> QED
    BY <2>5, <2>6, <2>7 DEF ItemInv
<1>6. ASSUME NEW h \in Helpers, HelperTakesItem(h) \/ HelperThrows(h)
      PROVE  ItemInv'
  <2>1. CASE UNCHANGED <<index, end>>
    <3>1. \A k \in Helpers : /\ InChunk(k)' => InChunk(k)
                             /\ hpc'[k] = "build" =>
                                  hpc[k] = "build" \/ index[k] < end[k]
      BY <1>0, <1>6 DEF HelperTakesItem, HelperThrows, InChunk
    <3> QED
      BY <1>0, <1>6, <2>1, <3>1
      DEF HelperTakesItem, HelperThrows, ItemInv, InChunk
  <2>2. CASE ~UNCHANGED <<index, end>>
    <3>1. /\ ~InChunk(h)'
          /\ \A k \in Helpers \ {h} :
                /\ hpc'[k] = hpc[k] /\ index'[k] = index[k]
                /\ end'[k] = end[k]
          /\ UNCHANGED <<generation, size, nextWork, bitmaps>>
      BY <1>0, <1>6, <2>2 DEF HelperTakesItem, HelperThrows, InChunk
    <3> QED
      BY <1>0, <3>1 DEF ItemInv, InChunk
  <2> QED
    BY <2>1, <2>2
<1>7. ASSUME NEW h \in Helpers,
             HelperWakes(h) \/ HelperChecks(h) \/ HelperCancels(h)
             \/ HelperReports(h) \/ HelperLeaves(h) \/ HelperEnds(h)
      PROVE  ItemInv'
  <2>1. \A k \in Helpers : /\ InChunk(k)' => InChunk(k)
                           /\ hpc'[k] = "build" => hpc[k] = "build"
    BY <1>0, <1>7 DEF HelperWakes, HelperChecks, HelperCancels,
       HelperReports, HelperLeaves, HelperEnds, InChunk
  <2> QED
    BY <1>0, <1>7, <2>1, ChunksKept DEF HelperWakes, HelperChecks,
       HelperCancels, HelperReports, HelperLeaves, HelperEnds
<1> QED
  BY <1>1, <1>2, <1>3, <1>4, <1>5, <1>6, <1>7
  DEF Next, CallerStep, TimesOut, HelperStep

LEMMA BlameInvStep == IInv /\ Next => BlameInv'
<1> SUFFICES ASSUME IInv, Next PROVE BlameInv'
  OBVIOUS
<1>0. /\ TypeOK /\ HelperInv /\ CallInv /\ FreshInv /\ BlameInv
      /\ generation \in 0..MaxBatches /\ MaxBatches \in Nat
      /\ cancelled \in [Batches -> BOOLEAN]
      /\ failed \in [Batches -> BOOLEAN]
      /\ hpc \in [Helpers -> HelperPlaces]
  BY DEF IInv, WorkInv, TypeOK, PoolTypeOK, BatchTypeOK, HelperTypeOK
<1>1. CASE Prepare
  BY <1>0, <1>1 DEF Prepare, BlameInv
<1>2. CASE Dispatch
  <2>1. CASE UNCHANGED poolVars
    BY <1>0, <1>2, <2>1 DEF Dispatch, BlameInv
  <2>2. CASE ~UNCHANGED poolVars
    <3>1. \A h \in Helpers : hpc'[h] # "cancel"
      BY <1>2, <2>2 DEF Dispatch, Refuses, IInv, HelperInv, HelperOK, Running,
         RunPlaces
    <3>2. generation' = generation + 1 /\ cancelled' = cancelled
      BY <1>2, <2>2 DEF Dispatch
    <3>3. ~cancelled[generation + 1]
      BY <1>0, <1>2 DEF Dispatch, FreshInv, Batches
    <3> QED
      BY <3>1, <3>2, <3>3 DEF BlameInv
  <2> QED
    BY <2>1, <2>2
<1>3. CASE ExecuteTimesOut
  BY <1>0, <1>3 DEF ExecuteTimesOut, BlameInv
<1>4. CASE ExecuteCompletes \/ StopJoins \/ Stop \/ StopTimesOut
           \/ TakeResults \/ BatchThrows \/ StopRequested
  BY <1>0, <1>4 DEF ExecuteCompletes, StopJoins, Stop, StopTimesOut,
     TakeResults, BatchThrows, StopRequested, BlameInv
<1>5. ASSUME NEW h \in Helpers, HelperThrows(h) \/ HelperCancels(h)
      PROVE  BlameInv'
  <2>1. observed[h] = generation /\ generation \in Batches
    BY <1>0, <1>5, RunsInNewest
    DEF HelperThrows, HelperCancels, Running, RunPlaces
  <2> QED
    BY <1>0, <1>5, <2>1 DEF HelperThrows, HelperCancels, BlameInv
<1>6. ASSUME NEW h \in Helpers,
             HelperWakes(h) \/ HelperChecks(h) \/ HelperClaims(h)
             \/ HelperTakesItem(h) \/ HelperBuilds(h) \/ HelperReports(h)
             \/ HelperLeaves(h) \/ HelperEnds(h)
      PROVE  BlameInv'
  <2>1. /\ UNCHANGED <<generation, failed, cancelled, poisoned>>
        /\ \A k \in Helpers : hpc'[k] = "cancel" => hpc[k] = "cancel"
    BY <1>0, <1>6 DEF HelperWakes, HelperChecks, HelperClaims,
       HelperTakesItem, HelperBuilds, HelperReports, HelperLeaves, HelperEnds
  <2> QED
    BY <1>0, <2>1 DEF BlameInv
<1> QED
  BY <1>1, <1>2, <1>3, <1>4, <1>5, <1>6
  DEF Next, CallerStep, TimesOut, HelperStep

\* Only Dispatch goes on to another batch or sets a size.
LEMMA OnlyDispatch ==
  ASSUME TypeOK, Next
  PROVE  \/ /\ generation' = generation
            /\ \A b \in Batches : b <= generation => size'[b] = size[b]
         \/ /\ Dispatch /\ ~UNCHANGED poolVars
            /\ generation' = generation + 1
BY DEF Next, CallerStep, TimesOut, HelperStep, Prepare, BatchThrows,
     Dispatch, ExecuteCompletes, TakeResults, Stop, StopJoins,
     ExecuteTimesOut, StopTimesOut, StopRequested, HelperWakes, HelperChecks,
     HelperClaims, HelperTakesItem, HelperBuilds, HelperThrows,
     HelperCancels, HelperReports, HelperLeaves, HelperEnds, TypeOK, PoolTypeOK, BatchTypeOK, Batches

\* What has disturbed a batch stays.
LEMMA StillUndisturbed ==
  ASSUME TypeOK, Next, generation' = generation, Undisturbed'
  PROVE  Undisturbed
<1>0. /\ cancelled \in [Batches -> BOOLEAN]
      /\ failed \in [Batches -> BOOLEAN]
      /\ generation \in 0..MaxBatches
  BY DEF TypeOK, PoolTypeOK, BatchTypeOK
<1>1. generation > 0 => generation \in Batches
  BY <1>0 DEF Batches
<1>2. stop => stop'
  BY DEF Next, CallerStep, TimesOut, HelperStep, Prepare, BatchThrows,
     Dispatch, ExecuteCompletes, TakeResults, Stop, StopJoins,
     ExecuteTimesOut, StopTimesOut, StopRequested, HelperWakes, HelperChecks,
     HelperClaims, HelperTakesItem, HelperBuilds, HelperThrows,
     HelperCancels, HelperReports, HelperLeaves, HelperEnds
<1>3. \A b \in Batches : /\ failed[b] => failed'[b]
                         /\ cancelled[b] => cancelled'[b]
  BY <1>0 DEF Next, CallerStep, TimesOut, HelperStep, Prepare, BatchThrows,
     Dispatch, ExecuteCompletes, TakeResults, Stop, StopJoins,
     ExecuteTimesOut, StopTimesOut, StopRequested, HelperWakes, HelperChecks,
     HelperClaims, HelperTakesItem, HelperBuilds, HelperThrows,
     HelperCancels, HelperReports, HelperLeaves, HelperEnds
<1> QED
  BY <1>1, <1>2, <1>3 DEF Undisturbed

LEMMA CoverInvStep == IInv /\ Next => CoverInv'
<1> SUFFICES ASSUME IInv, Next, Undisturbed',
                    NEW i \in 0..size'[generation'] - 1,
                    i < nextWork'[generation']
             PROVE  Covered(i)'
  BY DEF CoverInv
<1>0. /\ TypeOK /\ HelperInv /\ CallInv /\ FreshInv /\ CoverInv
      /\ generation \in 0..MaxBatches /\ MaxItems \in Nat /\ Chunk \in Nat
      /\ Chunk > 0 /\ MaxBatches \in Nat
      /\ size \in [Batches -> 0..MaxItems]
      /\ nextWork \in [Batches -> Nat]
      /\ bitmaps \in [Batches -> SUBSET (0..MaxItems - 1)]
      /\ hpc \in [Helpers -> HelperPlaces] /\ observed \in [Helpers -> Nat]
      /\ index \in [Helpers -> Nat] /\ end \in [Helpers -> 0..MaxItems]
  BY DEF IInv, WorkInv, TypeOK, PoolTypeOK, BatchTypeOK, HelperTypeOK
<1>a. i \in Nat
  OBVIOUS
<1>1. CASE Dispatch /\ generation' = generation + 1
  <2>1. nextWork' = nextWork /\ nextWork[generation + 1] = 0
    BY <1>0, <1>1 DEF Dispatch, FreshInv, Batches
  <2> QED
    BY <1>a, <1>1, <2>1
<1>b. CASE generation' = generation
  <2>0. /\ Undisturbed /\ generation \in Batches
        /\ size'[generation] = size[generation]
    <3>1. Undisturbed
      BY <1>0, <1>b, StillUndisturbed
    <3>2. generation \in Batches
      BY <1>0, <3>1 DEF Undisturbed, Batches
    <3>3. size'[generation] = size[generation]
      BY <1>0, <1>b, <3>2, OnlyDispatch DEF Batches
    <3> QED
      BY <3>1, <3>2, <3>3
  <2>1. i < nextWork[generation] => Covered(i)
    BY <1>0, <1>b, <2>0 DEF CoverInv
  <2>2. ASSUME \A h \in Helpers :
                  InChunk(h) => /\ InChunk(h)' /\ index'[h] = index[h]
                                /\ end'[h] = end[h],
               UNCHANGED <<nextWork, bitmaps>>
        PROVE  Covered(i)'
    BY <1>b, <2>1, <2>2 DEF Covered
  <2>3. CASE CallerStep \/ TimesOut \/ StopRequested
    <3>1. /\ UNCHANGED <<nextWork, bitmaps, index, end>>
          /\ \A h \in Helpers : InChunk(h) => InChunk(h)'
      BY <1>0, <2>3 DEF CallerStep, TimesOut, Prepare,
       BatchThrows, Dispatch, ExecuteCompletes, TakeResults, Stop, StopJoins,
       ExecuteTimesOut, StopTimesOut, StopRequested, InChunk, HelperInv,
       HelperOK, Ended
    <3> QED
      BY <2>2, <3>1
  <2>4. ASSUME NEW h \in Helpers,
               HelperWakes(h) \/ HelperChecks(h) \/ HelperCancels(h)
               \/ HelperReports(h) \/ HelperLeaves(h) \/ HelperEnds(h)
        PROVE  Covered(i)'
    <3>1. /\ UNCHANGED <<nextWork, bitmaps, index, end>>
          /\ \A k \in Helpers : InChunk(k) => InChunk(k)'
      BY <1>0, <2>4 DEF HelperWakes, HelperChecks, HelperCancels,
         HelperReports, HelperLeaves, HelperEnds, InChunk
    <3> QED
      BY <2>2, <3>1
  <2>5. ASSUME NEW h \in Helpers, HelperThrows(h) PROVE FALSE
    <3>1. observed[h] = generation
      BY <1>0, <2>5, RunsInNewest DEF HelperThrows, Running, RunPlaces
    <3>2. failed'[generation]
      <4>1. failed \in [Batches -> BOOLEAN]
        BY <1>0 DEF TypeOK, BatchTypeOK
      <4> QED
        BY <2>0, <2>5, <3>1, <4>1 DEF HelperThrows
    <3> QED
      BY <1>b, <3>2 DEF Undisturbed
  <2>6. ASSUME NEW h \in Helpers, HelperTakesItem(h) PROVE Covered(i)'
    <3>1. observed[h] = generation
      BY <1>0, <2>6, RunsInNewest DEF HelperTakesItem, Running, RunPlaces
    <3>2. ~Interrupted(h)
      BY <2>0, <3>1 DEF Interrupted, Undisturbed
    <3>3. CASE index[h] >= end[h]
      <4>1. ~(index[h] <= i /\ i < end[h])
        BY <1>0, <1>a, <3>3
      <4>2. \A k \in Helpers \ {h} :
               InChunk(k) => /\ InChunk(k)' /\ index'[k] = index[k]
                             /\ end'[k] = end[k]
        BY <1>0, <2>6 DEF HelperTakesItem, InChunk
      <4>3. UNCHANGED <<nextWork, bitmaps>>
        BY <2>6 DEF HelperTakesItem
      <4> QED
        BY <1>b, <2>1, <4>1, <4>2, <4>3 DEF Covered
    <3>4. CASE ~(index[h] >= end[h])
      BY <1>0, <2>2, <2>6, <3>2, <3>4 DEF HelperTakesItem, InChunk
    <3> QED
      BY <3>3, <3>4
  <2>7. ASSUME NEW h \in Helpers, HelperBuilds(h) PROVE Covered(i)'
    <3>1. observed[h] = generation
      BY <1>0, <2>7, RunsInNewest DEF HelperBuilds, Running, RunPlaces
    <3>2. /\ bitmaps'[generation] = bitmaps[generation] \cup {index[h]}
          /\ InChunk(h)' /\ end'[h] = end[h] /\ index'[h] = index[h] + 1
          /\ \A k \in Helpers \ {h} :
               InChunk(k) => /\ InChunk(k)' /\ index'[k] = index[k]
                             /\ end'[k] = end[k]
          /\ nextWork' = nextWork
      BY <1>0, <2>0, <2>7, <3>1 DEF HelperBuilds, InChunk
    <3>3. index[h] <= i => i = index[h] \/ index'[h] <= i
      BY <1>0, <1>a, <3>2
    <3> QED
      BY <1>b, <2>1, <3>2, <3>3 DEF Covered
  <2>8. ASSUME NEW h \in Helpers, HelperClaims(h) PROVE Covered(i)'
    <3>1. observed[h] = generation /\ hpc[h] = "claim" /\ bitmaps' = bitmaps
      BY <1>0, <2>8, RunsInNewest DEF HelperClaims, Running, RunPlaces
    <3>2. \A k \in Helpers :
             InChunk(k) => /\ InChunk(k)' /\ index'[k] = index[k]
                           /\ end'[k] = end[k]
      BY <1>0, <2>8 DEF HelperClaims, InChunk
    <3>3. CASE i < nextWork[generation]
      BY <1>b, <2>1, <3>1, <3>2, <3>3 DEF Covered
    <3>4. CASE ~(i < nextWork[generation])
      <4>1. nextWork[generation] \in Nat /\ size[generation] \in Nat
        BY <1>0, <2>0
      <4>2. i < size[generation] /\ i >= nextWork[generation]
        BY <1>0, <1>a, <1>b, <2>0, <3>4, <4>1
      <4>3. nextWork'[generation] = nextWork[generation] + Chunk
        BY <1>0, <2>0, <2>8, <3>1 DEF HelperClaims
      <4>4. /\ index'[h] = nextWork[generation] /\ InChunk(h)'
            /\ end'[h] = Smaller(size[generation],
                                 nextWork[generation] + Chunk)
        BY <1>0, <2>8, <3>1, <4>1, <4>2 DEF HelperClaims, InChunk
      <4>5. index'[h] <= i /\ i < end'[h]
        BY <1>0, <1>a, <1>b, <4>1, <4>2, <4>3, <4>4
      <4> QED
        BY <4>4, <4>5 DEF Covered
    <3> QED
      BY <3>3, <3>4
  <2> QED
    BY <2>3, <2>4, <2>5, <2>6, <2>7, <2>8 DEF Next, HelperStep
<1> QED
  BY <1>0, <1>1, <1>b, OnlyDispatch

LEMMA ThroughInvStep == IInv /\ Next => ThroughInv'
<1> SUFFICES ASSUME IInv, Next, Undisturbed',
                    NEW k \in Helpers, Through(k)'
             PROVE  nextWork'[generation'] >= size'[generation']
  BY DEF ThroughInv
<1>0. /\ TypeOK /\ HelperInv /\ CallInv /\ ThroughInv /\ HelperOK(k)
      /\ generation \in 0..MaxBatches /\ Chunk \in Nat
      /\ size \in [Batches -> 0..MaxItems]
      /\ nextWork \in [Batches -> Nat]
      /\ cancelled \in [Batches -> BOOLEAN]
      /\ failed \in [Batches -> BOOLEAN]
      /\ hpc \in [Helpers -> HelperPlaces] /\ observed \in [Helpers -> Nat]
  BY DEF IInv, WorkInv, TypeOK, PoolTypeOK, BatchTypeOK, HelperTypeOK,
     HelperInv
<1>1. ASSUME Dispatch, ~UNCHANGED poolVars PROVE FALSE
  <2>1. generation' = generation + 1 /\ UNCHANGED <<hpc, observed>>
    BY <1>1 DEF Dispatch
  <2>2. ~Running(k)
    BY <1>0, <1>1 DEF Dispatch, Refuses, HelperOK
  <2>3. observed[k] # generation + 1
    BY <1>0 DEF HelperOK
  <2> QED
    BY <2>1, <2>2, <2>3 DEF Through, Running, RunPlaces
<1>2. CASE generation' = generation
  <2>0. /\ Undisturbed /\ generation \in Batches /\ generation > 0
        /\ nextWork[generation] \in Nat /\ size[generation] \in Nat
        /\ MaxItems \in Nat
    <3>1. Undisturbed
      BY <1>0, <1>2, StillUndisturbed
    <3>2. generation \in Batches
      BY <1>0, <3>1 DEF Undisturbed, Batches
    <3> QED
      BY <1>0, <3>1, <3>2 DEF Undisturbed
  <2>1. Through(k) => nextWork[generation] >= size[generation]
    BY <1>0, <2>0 DEF ThroughInv
  <2>2. CASE CallerStep \/ TimesOut \/ StopRequested
    <3>1. /\ nextWork' = nextWork
          /\ size'[generation] = size[generation]
      BY <1>0, <1>1, <2>0, <2>2 DEF CallerStep, TimesOut, Prepare,
       BatchThrows, Dispatch, ExecuteCompletes, TakeResults, Stop, StopJoins,
       ExecuteTimesOut, StopTimesOut, StopRequested
    <3>2. \/ hpc'[k] = hpc[k] /\ observed'[k] = observed[k]
          \/ hpc'[k] = "wait" /\ observed'[k] = 0
      BY <1>0, <2>2 DEF CallerStep, TimesOut, Prepare,
       BatchThrows, Dispatch, ExecuteCompletes, TakeResults, Stop, StopJoins,
       ExecuteTimesOut, StopTimesOut, StopRequested
    <3> QED
      BY <1>2, <2>0, <2>1, <3>1, <3>2 DEF Through, Running
  <2>3. ASSUME NEW h \in Helpers, HelperClaims(h)
        PROVE  nextWork'[generation'] >= size'[generation']
    <3>1. observed[h] = generation
      BY <1>0, <2>3, RunsInNewest DEF HelperClaims, Running, RunPlaces
    <3>2. /\ nextWork'[generation] = nextWork[generation] + Chunk
          /\ size' = size /\ observed' = observed
      BY <1>0, <2>0, <2>3, <3>1 DEF HelperClaims
    <3>3. nextWork'[generation] >= nextWork[generation]
      BY <1>0, <2>0, <3>2
    <3>4. Through(k) \/ nextWork[generation] >= size[generation]
      BY <1>0, <1>2, <2>0, <2>3, <3>1, <3>2
      DEF HelperClaims, Through, Running, RunPlaces
    <3> QED
      BY <1>0, <1>2, <2>0, <2>1, <3>2, <3>3, <3>4
  <2>4. ASSUME NEW h \in Helpers, HelperThrows(h) \/ HelperCancels(h)
        PROVE  FALSE
    <3>1. observed[h] = generation
      BY <1>0, <2>4, RunsInNewest
      DEF HelperThrows, HelperCancels, Running, RunPlaces
    <3>2. failed'[generation] \/ cancelled'[generation]
      BY <1>0, <2>0, <2>4, <3>1 DEF HelperThrows, HelperCancels
    <3> QED
      BY <1>2, <3>2 DEF Undisturbed
  <2>5. ASSUME NEW h \in Helpers,
               HelperWakes(h) \/ HelperChecks(h) \/ HelperTakesItem(h)
               \/ HelperBuilds(h) \/ HelperReports(h) \/ HelperLeaves(h)
               \/ HelperEnds(h)
        PROVE  nextWork'[generation'] >= size'[generation']
    <3>1. UNCHANGED <<nextWork, size>>
      BY <2>5 DEF HelperWakes, HelperChecks, HelperTakesItem, HelperBuilds,
         HelperReports, HelperLeaves, HelperEnds
    <3>2. ASSUME HelperChecks(h) PROVE ~Interrupted(h)
      <4>1. observed[h] = generation
        BY <1>0, <3>2, RunsInNewest DEF HelperChecks, Running, RunPlaces
      <4> QED
        BY <2>0, <4>1 DEF Interrupted, Undisturbed
    <3>3. Through(k)
      BY <1>0, <1>2, <2>5, <3>2 DEF HelperWakes, HelperChecks,
         HelperTakesItem, HelperBuilds, HelperReports, HelperLeaves,
         HelperEnds, Through, Running, RunPlaces, HelperOK
    <3> QED
      BY <1>2, <2>1, <3>1, <3>3
  <2> QED
    BY <2>2, <2>3, <2>4, <2>5 DEF Next, HelperStep
<1> QED
  BY <1>0, <1>1, <1>2, OnlyDispatch

\* A batch left by all without a failure or a stop is built in full.
LEMMA AllBuilt ==
  ASSUME IInv, cpc = "returned", MayCopy
  PROVE  bitmaps[generation] = 0..size[generation] - 1
<1>1. /\ generation \in Batches /\ generation > 0 /\ ~poisoned
      /\ nextWork[generation] \in Nat /\ size[generation] \in Nat
      /\ bitmaps[generation] \in SUBSET Nat /\ MaxItems \in Nat
  BY DEF IInv, CallInv, TypeOK, PoolTypeOK, BatchTypeOK, Batches
<1>2. Undisturbed
  BY <1>1 DEF IInv, WorkInv, BlameInv, Undisturbed, MayCopy
<1>3. 1 \in Helpers /\ Through(1) /\ \A h \in Helpers : ~InChunk(h)
  BY DEF IInv, DoneInv, Through, Helpers, InChunk, Running, RunPlaces
<1>4. nextWork[generation] >= size[generation]
  BY <1>2, <1>3 DEF IInv, WorkInv, ThroughInv
<1>5. ASSUME NEW i \in 0..size[generation] - 1
      PROVE  i \in bitmaps[generation]
  <2>1. i < nextWork[generation]
    BY <1>1, <1>4
  <2>2. Covered(i)
    BY <1>2, <2>1 DEF IInv, WorkInv, CoverInv
  <2> QED
    BY <1>3, <2>2 DEF Covered
<1>6. ASSUME NEW i \in bitmaps[generation]
      PROVE  i \in 0..size[generation] - 1
  <2>1. i \in Nat /\ i < size[generation]
    BY <1>1 DEF IInv, ItemInv
  <2> QED
    BY <1>1, <2>1
<1> QED
  BY <1>5, <1>6

LEMMA DoneInvStep == IInv /\ Next => DoneInv'
<1> SUFFICES ASSUME IInv, Next PROVE DoneInv'
  OBVIOUS
<1>0. /\ TypeOK /\ CallInv /\ HelperInv /\ CountInv /\ DoneInv
      /\ hpc \in [Helpers -> HelperPlaces] /\ cpc \in CallerPlaces
  BY DEF IInv, TypeOK, HelperTypeOK, CallerTypeOK
<1>1. CASE ExecuteCompletes
  <2>1. observed[1] = generation /\ \A h \in Helpers : ~Running(h)
    BY <1>0, <1>1, AllReportedLeft DEF ExecuteCompletes, CallInv
  <2> QED
    BY <1>1, <2>1 DEF ExecuteCompletes, DoneInv, CompleteBatch, Running
<1>2. CASE TakeResults
  <2>1. MayCopy => bitmaps[generation] = 0..size[generation] - 1
    BY <1>2, AllBuilt DEF TakeResults
  <2> QED
    BY <1>0, <1>2, <2>1 DEF TakeResults, DoneInv, CompleteBatch, Running
<1>3. CASE Prepare \/ BatchThrows \/ Dispatch \/ Stop \/ StopJoins
           \/ ExecuteTimesOut \/ StopTimesOut
  <2>1. cpc' \notin {"returned", "copied"}
    BY <1>3 DEF Prepare, BatchThrows, Dispatch, Stop, StopJoins,
       ExecuteTimesOut, StopTimesOut
  <2> QED
    BY <2>1 DEF DoneInv, CompleteBatch
<1>4. CASE StopRequested
  BY <1>0, <1>4 DEF StopRequested, DoneInv, CompleteBatch, Running
<1>5. ASSUME NEW h \in Helpers, HelperStep(h) PROVE DoneInv'
  <2>1. cpc' = cpc /\ generation' = generation /\ size' = size
    BY <1>5 DEF HelperStep, HelperWakes, HelperChecks, HelperClaims,
       HelperTakesItem, HelperBuilds, HelperThrows, HelperCancels,
       HelperReports, HelperLeaves, HelperEnds
  <2>2. CASE cpc \notin {"returned", "copied"}
    BY <2>1, <2>2 DEF DoneInv, CompleteBatch
  <2>3. CASE cpc \in {"returned", "copied"}
    <3>1. /\ ~batchActive /\ observed[1] = generation
          /\ \A k \in Helpers : ~Running(k)
      BY <1>0, <2>3 DEF CallInv, DoneInv
    <3>2. HelperWakes(h) \/ HelperLeaves(h) \/ HelperEnds(h)
      BY <1>5, <3>1 DEF HelperStep, HelperChecks, HelperClaims,
         HelperTakesItem, HelperBuilds, HelperThrows, HelperCancels,
         HelperReports, Running, RunPlaces
    <3>3. /\ UNCHANGED <<bitmaps, observed>>
          /\ \A k \in Helpers : ~Running(k)'
      BY <1>0, <3>1, <3>2 DEF HelperWakes, Woken, HelperLeaves, HelperEnds,
         Running, RunPlaces
    <3> QED
      BY <1>0, <2>1, <3>1, <3>3 DEF DoneInv, CompleteBatch
  <2> QED
    BY <2>2, <2>3
<1> QED
  BY <1>1, <1>2, <1>3, <1>4, <1>5 DEF Next, CallerStep, TimesOut

LEMMA BatchTypeStep == IInv /\ Next => BatchTypeOK'
<1> SUFFICES ASSUME IInv, Next PROVE BatchTypeOK'
  OBVIOUS
<1>0. /\ BatchTypeOK /\ MaxItems \in Nat /\ Chunk \in Nat
      /\ generation \in 0..MaxBatches /\ observed \in [Helpers -> Nat]
      /\ index \in [Helpers -> Nat] /\ end \in [Helpers -> 0..MaxItems]
  BY DEF IInv, TypeOK, PoolTypeOK, HelperTypeOK
<1>a. CASE Dispatch
  <2>1. CASE UNCHANGED size
    BY <1>0, <1>a, <2>1 DEF Dispatch, BatchTypeOK
  <2>2. CASE ~UNCHANGED size
    <3>1. PICK n \in 1..MaxItems :
             size' = [size EXCEPT ![generation + 1] = n]
      BY <1>a, <2>2 DEF Dispatch
    <3>2. size' \in [Batches -> 0..MaxItems]
      <4>1. n \in 0..MaxItems /\ size \in [Batches -> 0..MaxItems]
        BY <1>0 DEF BatchTypeOK
      <4> QED
        BY <3>1, <4>1
    <3> QED
      BY <1>0, <1>a, <3>2 DEF Dispatch, BatchTypeOK
  <2> QED
    BY <2>1, <2>2
<1>b. CASE ExecuteTimesOut
  BY <1>0, <1>b DEF ExecuteTimesOut, BatchTypeOK
<1>1. CASE Prepare \/ BatchThrows \/ ExecuteCompletes \/ TakeResults \/ Stop
           \/ StopJoins \/ StopTimesOut \/ StopRequested
  BY <1>0, <1>1 DEF Prepare, BatchThrows, ExecuteCompletes, TakeResults,
     Stop, StopJoins, StopTimesOut, StopRequested, BatchTypeOK
<1>2. ASSUME NEW h \in Helpers, HelperBuilds(h) PROVE BatchTypeOK'
  <2>1. index[h] < end[h]
    BY <1>2 DEF HelperBuilds, IInv, ItemInv, InChunk
  <2>2. index[h] \in 0..MaxItems - 1
    BY <1>0, <2>1
  <2> QED
    BY <1>0, <1>2, <2>2 DEF HelperBuilds, BatchTypeOK
<1>3. ASSUME NEW h \in Helpers, HelperClaims(h) PROVE BatchTypeOK'
  <2>1. nextWork' \in [Batches -> Nat]
    <3>1. /\ nextWork \in [Batches -> Nat]
          /\ nextWork' = [nextWork EXCEPT ![observed[h]] =
                                       nextWork[observed[h]] + Chunk]
      BY <1>0, <1>3 DEF HelperClaims, BatchTypeOK
    <3>2. observed[h] \in Batches => nextWork[observed[h]] + Chunk \in Nat
      BY <1>0, <3>1
    <3> QED
      BY <3>1, <3>2
  <2> QED
    BY <1>0, <1>3, <2>1 DEF HelperClaims, BatchTypeOK
<1>4. ASSUME NEW h \in Helpers, HelperStep(h), ~HelperBuilds(h),
             ~HelperClaims(h)
      PROVE  BatchTypeOK'
  BY <1>0, <1>4 DEF HelperStep, HelperWakes, HelperChecks, HelperTakesItem,
     HelperThrows, HelperCancels, HelperReports, HelperLeaves, HelperEnds,
     BatchTypeOK
<1> QED
  BY <1>a, <1>b, <1>1, <1>2, <1>3, <1>4 DEF Next, CallerStep, TimesOut

LEMMA HelperTypeStep == IInv /\ Next => HelperTypeOK'
<1> SUFFICES ASSUME IInv, Next PROVE HelperTypeOK'
  OBVIOUS
<1>0. /\ HelperTypeOK /\ HelperInv /\ TypeOK /\ MaxItems \in Nat
      /\ Chunk \in Nat /\ generation \in 0..MaxBatches
      /\ size \in [Batches -> 0..MaxItems] /\ nextWork \in [Batches -> Nat]
  BY DEF IInv, TypeOK, PoolTypeOK, BatchTypeOK
<1>1. CASE CallerStep \/ TimesOut \/ StopRequested
  BY <1>0, <1>1 DEF CallerStep, TimesOut, Prepare, BatchThrows, Dispatch,
     ExecuteCompletes, TakeResults, Stop, StopJoins, ExecuteTimesOut,
     StopTimesOut, StopRequested, HelperTypeOK, HelperPlaces
<1>2. ASSUME NEW h \in Helpers, HelperClaims(h) PROVE HelperTypeOK'
  <2>1. observed[h] \in Batches
    BY <1>0, <1>2, RunsInNewest DEF HelperClaims, Running, RunPlaces
  <2>2. nextWork[observed[h]] \in Nat /\ size[observed[h]] \in 0..MaxItems
    BY <1>0, <2>1
  <2> QED
    BY <1>0, <1>2, <2>2
    DEF HelperClaims, HelperTypeOK, HelperPlaces, RunPlaces
<1>3. ASSUME NEW h \in Helpers, HelperStep(h), ~HelperClaims(h)
      PROVE  HelperTypeOK'
  BY <1>0, <1>3 DEF HelperStep, HelperWakes, HelperChecks, HelperTakesItem,
     HelperBuilds, HelperThrows, HelperCancels, HelperReports, HelperLeaves,
     HelperEnds, HelperTypeOK, HelperPlaces, RunPlaces
<1> QED
  BY <1>1, <1>2, <1>3 DEF Next

\* The counters are in range because they count.
LEMMA PoolTypeStep == IInv /\ Next => PoolTypeOK'
<1> SUFFICES ASSUME IInv, Next PROVE PoolTypeOK'
  OBVIOUS
<1>0. /\ PoolTypeOK /\ granted \in 0..MaxWorkers /\ MaxWorkers \in Nat
      /\ MaxBatches \in Nat /\ 0 \in 0..MaxWorkers
  BY DEF IInv, TypeOK, CallerTypeOK
<1>1. /\ workers' \in 0..MaxWorkers /\ generation' \in 0..MaxBatches
      /\ activeWorkers' \in 0..MaxWorkers
      /\ batchActive' \in BOOLEAN /\ stopping' \in BOOLEAN
      /\ poisoned' \in BOOLEAN
  <2>a. CASE Prepare
    BY <1>0, <2>a DEF Prepare, PoolTypeOK, Helpers
  <2>b. CASE Dispatch
    <3>1. generation \in Nat /\ generation < MaxBatches
      BY <1>0, <2>b DEF Dispatch, PoolTypeOK
    <3>2. generation + 1 \in 0..MaxBatches
      BY <1>0, <3>1
    <3>3. Smaller(granted, workers) \in 0..MaxWorkers
      BY <1>0 DEF PoolTypeOK
    <3> QED
      BY <1>0, <2>b, <3>2, <3>3 DEF Dispatch, PoolTypeOK
  <2>1. CASE BatchThrows \/ TakeResults \/ Stop \/ StopTimesOut
             \/ StopRequested
    BY <1>0, <2>1 DEF BatchThrows, TakeResults, Stop, StopTimesOut,
       StopRequested, PoolTypeOK
  <2>c. CASE ExecuteCompletes \/ StopJoins \/ ExecuteTimesOut
    BY <1>0, <2>c DEF ExecuteCompletes, StopJoins, ExecuteTimesOut,
       PoolTypeOK
  <2>2. CASE \E h \in Helpers : HelperStep(h)
    BY <1>0, <2>2 DEF HelperStep, HelperWakes, HelperChecks, HelperClaims,
       HelperTakesItem, HelperBuilds, HelperThrows, HelperCancels,
       HelperReports, HelperLeaves, HelperEnds, PoolTypeOK
  <2> QED
    BY <2>a, <2>b, <2>c, <2>1, <2>2 DEF Next, CallerStep, TimesOut
<1>2. CountInv'
  BY CountInvStep
<1>3. completedWorkers' \in 0..MaxWorkers
  <2>1. /\ IsFiniteSet(1..activeWorkers')
        /\ Cardinality(1..activeWorkers') = activeWorkers'
    BY <1>0, <1>1, FS_Interval
  <2>2. Reported' \in SUBSET (1..activeWorkers')
    BY DEF Reported
  <2>3. /\ Cardinality(Reported') <= activeWorkers'
        /\ Cardinality(Reported') \in Nat
    BY <2>1, <2>2, FS_Subset, FS_CardinalityType
  <2> QED
    BY <1>0, <1>1, <1>2, <2>3 DEF CountInv
<1>4. liveWorkers' \in 0..MaxWorkers
  <2>1. IsFiniteSet(Helpers) /\ Cardinality(Helpers) = MaxWorkers
    <3>1. /\ IsFiniteSet(1..MaxWorkers)
          /\ Cardinality(1..MaxWorkers) =
               IF 1 > MaxWorkers THEN 0 ELSE MaxWorkers - 1 + 1
      <4>1. 1 \in Int /\ MaxWorkers \in Int
        BY <1>0
      <4> QED
        BY <4>1, FS_Interval, Zenon
    <3> QED
      BY <1>0, <3>1 DEF Helpers
  <2>2. Live' \in SUBSET Helpers
    BY DEF Live
  <2>3. Cardinality(Live') <= MaxWorkers /\ Cardinality(Live') \in Nat
    BY <2>1, <2>2, FS_Subset, FS_CardinalityType
  <2> QED
    BY <1>0, <1>2, <2>3 DEF CountInv
<1> QED
  BY <1>1, <1>3, <1>4 DEF PoolTypeOK

LEMMA CallerTypeStep == IInv /\ Next => CallerTypeOK'
<1> SUFFICES ASSUME IInv, Next PROVE CallerTypeOK'
  OBVIOUS
<1>0. CallerTypeOK /\ workers \in 0..MaxWorkers /\ MaxWorkers \in Nat
  BY DEF IInv, TypeOK, PoolTypeOK
<1>a. CASE Prepare
  <2>1. CASE stop' = TRUE /\ granted' = granted /\ cpc' = "idle"
    BY <1>0, <2>1 DEF CallerTypeOK, CallerPlaces
  <2>2. CASE ~(stop' = TRUE /\ granted' = granted /\ cpc' = "idle")
    <3>1. PICK requested \in Helpers, now \in Helpers :
             /\ granted' = Smaller(requested, now)
             /\ cpc' = "ready" /\ stop' = stop
      BY <1>a, <2>2 DEF Prepare
    <3>2. Smaller(requested, now) \in 0..MaxWorkers
      BY <1>0 DEF Helpers
    <3> QED
      BY <1>0, <3>1, <3>2 DEF CallerTypeOK, CallerPlaces
  <2> QED
    BY <2>1, <2>2
<1>1. CASE BatchThrows \/ Dispatch \/ ExecuteCompletes \/ TakeResults
           \/ Stop \/ StopJoins \/ TimesOut \/ StopRequested
  BY <1>0, <1>1 DEF TimesOut, BatchThrows, Dispatch, ExecuteCompletes,
     TakeResults, Stop, StopJoins, ExecuteTimesOut, StopTimesOut,
     StopRequested, CallerTypeOK, CallerPlaces
<1>2. CASE \E h \in Helpers : HelperStep(h)
  BY <1>0, <1>2 DEF HelperStep, HelperWakes, HelperChecks, HelperClaims,
     HelperTakesItem, HelperBuilds, HelperThrows, HelperCancels,
     HelperReports, HelperLeaves, HelperEnds, CallerTypeOK
<1> QED
  BY <1>a, <1>1, <1>2 DEF Next, CallerStep

-----------------------------------------------------------------------------
(* The inductive invariant.                                                *)

LEMMA IInvInit == Init => IInv
<1> SUFFICES ASSUME Init PROVE IInv
  OBVIOUS
<1>1. TypeOK
  <2>1. PoolTypeOK /\ CallerTypeOK
    <3>1. 0 \in 0..MaxWorkers /\ 0 \in 0..MaxBatches
      <4>1. MaxWorkers \in Nat /\ MaxBatches \in Nat
        OBVIOUS
      <4> QED
        BY <4>1
    <3> QED
      BY <3>1 DEF Init, PoolTypeOK, CallerTypeOK, CallerPlaces
  <2>2. HelperTypeOK
    BY DEF Init, HelperTypeOK, HelperPlaces
  <2>3. BatchTypeOK
    BY DEF Init, BatchTypeOK
  <2> QED
    BY <2>1, <2>2, <2>3 DEF TypeOK
<1>2. CallInv
  BY DEF Init, CallInv
<1>3. HelperInv
  BY DEF Init, HelperInv, HelperOK, Running, Ended, RunPlaces, Helpers
<1>4. CountInv
  <2>1. Live = {}
    BY DEF Init, Live, Ended
  <2> QED
    BY <2>1, FS_EmptySet DEF Init, CountInv
<1>5. FreshInv /\ ItemInv
  BY DEF Init, FreshInv, ItemInv, InChunk
<1>6. WorkInv /\ DoneInv
  BY DEF Init, WorkInv, BlameInv, CoverInv, ThroughInv, Undisturbed, DoneInv,
     CompleteBatch
<1> QED
  BY <1>1, <1>2, <1>3, <1>4, <1>5, <1>6 DEF IInv

LEMMA IInvStep == IInv /\ [Next]_vars => IInv'
<1> SUFFICES ASSUME IInv, [Next]_vars PROVE IInv'
  OBVIOUS
<1>1. CASE Next
  <2>1. TypeOK'
    BY <1>1, PoolTypeStep, BatchTypeStep, HelperTypeStep, CallerTypeStep
    DEF TypeOK
  <2>2. WorkInv'
    BY <1>1, BlameInvStep, CoverInvStep, ThroughInvStep DEF WorkInv
  <2> QED
    BY <1>1, <2>1, <2>2, CallInvStep, HelperInvStep, CountInvStep,
       FreshInvStep, ItemInvStep, DoneInvStep
    DEF IInv
<1>2. CASE UNCHANGED vars
  BY <1>2 DEF vars, IInv, TypeOK, PoolTypeOK, BatchTypeOK, HelperTypeOK,
     CallerTypeOK, CallInv, HelperInv, HelperOK, CountInv, Reported, Live,
     FreshInv, ItemInv, InChunk, WorkInv, BlameInv, CoverInv, ThroughInv,
     Undisturbed, Covered, Through, DoneInv, CompleteBatch, Running, Ended
<1> QED
  BY <1>1, <1>2

THEOREM IInvHolds == Spec => []IInv
BY IInvInit, IInvStep, PTL DEF Spec

-----------------------------------------------------------------------------
(* The theorems.                                                           *)

\* Type correctness: among others, no counter of the pool leaves its range,
\* however late a helper reports (WorkerMain).
THEOREM TypeCorrect == Spec => []TypeOK
<1>1. IInv => TypeOK
  BY DEF IInv
<1> QED
  BY <1>1, IInvHolds, PTL

\* Whatever GetPrewarmGlyphBitmaps copies is complete, for any number of
\* helpers and items and any interleaving of failures, stops and timeouts.
THEOREM CompleteBatchHolds == Spec => []CompleteBatch
<1>1. IInv => CompleteBatch
  BY DEF IInv, DoneInv
<1> QED
  BY <1>1, IInvHolds, PTL

\* No two helpers ever write the same work item (PrewarmRasterBatch::Run).
THEOREM OneBuilderHolds == Spec => []OneBuilder
<1>1. IInv => OneBuilder
  <2> SUFFICES ASSUME IInv, NEW h \in Helpers, hpc[h] = "build"
               PROVE  /\ index[h] < end[h]
                      /\ index[h] \notin bitmaps[observed[h]]
                      /\ \A k \in Helpers \ {h} :
                           hpc[k] \in {"items", "build"}
                             /\ observed[k] = observed[h]
                             => index[h] \notin index[k]..end[k] - 1
    BY DEF OneBuilder
  <2>1. observed[h] = generation /\ InChunk(h)
    BY RunsInNewest DEF IInv, Running, RunPlaces, InChunk
  <2>2. /\ MaxItems \in Nat /\ index \in [Helpers -> Nat]
        /\ end \in [Helpers -> 0..MaxItems]
    BY DEF IInv, TypeOK, HelperTypeOK
  <2>3. /\ index[h] < end[h]
        /\ \A i \in index[h]..end[h] - 1 : i \notin bitmaps[generation]
    BY <2>1 DEF IInv, ItemInv
  <2>4. \A k \in Helpers \ {h} : InChunk(k) =>
           end[h] <= index[k] \/ end[k] <= index[h]
    BY <2>1 DEF IInv, ItemInv
  <2> QED
    BY <2>1, <2>2, <2>3, <2>4 DEF InChunk
<1> QED
  BY <1>1, IInvHolds, PTL

\* No helper is in a batch the caller takes for completed, nor in an earlier
\* one when the next is active: CopyResultsTo needs no lock.
THEOREM NoStragglerHolds == Spec => []NoStraggler
<1>1. IInv => NoStraggler
  BY DEF IInv, DoneInv, HelperInv, HelperOK, NoStraggler
<1> QED
  BY <1>1, IInvHolds, PTL

\* Between two calls the pool is stopped exactly when it is poisoned, and its
\* count of live threads is right (PrewarmRasterWorkerPool::Stop).
THEOREM StopLeavesPoolSoundHolds == Spec => []StopLeavesPoolSound
<1>1. IInv => StopLeavesPoolSound
  BY DEF IInv, CallInv, HelperInv, HelperOK, CountInv, Live,
     StopLeavesPoolSound
<1> QED
  BY <1>1, IInvHolds, PTL
=============================================================================
