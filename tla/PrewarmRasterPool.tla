--------------------------- MODULE PrewarmRasterPool ---------------------------
(***************************************************************************)
(* The raster helpers of the prewarm worker: GetPrewarmGlyphBitmaps hands  *)
(* the bitmaps the caches do not have to a pool of threads as one batch,   *)
(* waits for all of them, and copies what they built.  A helper stuck in   *)
(* the rasteriser outlives the batch's timeout; it then keeps the batch    *)
(* alive, and the pool takes no further batch.                             *)
(* Source: font_vector_glyph_raster.cpp.                                   *)
(*                                                                         *)
(* One thread at a time owns the prewarm session and calls the pool: the   *)
(* worker, and the main thread when it has joined the worker (Prewarm-     *)
(* Coordinator).  So the dispatch mutex is never contended.  Each helper   *)
(* step is one critical section, one atomic access, or the rasterising of  *)
(* one item.  Items are numbered from 0, the batches by their generation.  *)
(***************************************************************************)
EXTENDS Integers, FiniteSets

CONSTANTS
    MaxWorkers,   \* kMaximumPrewarmRasterWorkers
    MaxItems,     \* bound on the items of a batch
    Chunk,        \* workChunk
    MaxBatches    \* bound on the batches of a run

ASSUME PoolAssumption ==
    {MaxWorkers, MaxItems, Chunk, MaxBatches} \subseteq Nat \ {0}

Helpers == 1..MaxWorkers
Batches == 1..MaxBatches

VARIABLES
    \* PrewarmRasterWorkerPool
    workers, generation, activeWorkers, completedWorkers, liveWorkers,
    batchActive, stopping, poisoned,
    \* PrewarmRasterBatch, by generation; failed is either failure flag
    size, nextWork, cancelled, failed, bitmaps,
    \* WorkerMain and PrewarmRasterBatch::Run: place, observedGeneration, and
    \* the items index..end - 1 of the chunk
    hpc, observed, index, end,
    \* the caller: place, and the worker count of Prepare
    cpc, granted,
    \* IsFontPrewarmStopRequested
    stop

poolVars   == <<workers, generation, activeWorkers, completedWorkers,
                liveWorkers, batchActive, stopping, poisoned>>
batchVars  == <<size, nextWork, cancelled, failed, bitmaps>>
helperVars == <<hpc, observed, index, end>>
callVars   == <<cpc, granted>>
vars == <<poolVars, batchVars, helperVars, callVars, stop>>

\* The places of Run, and with them those between Run and its report.
RunPlaces ==
    {"start", "check", "claim", "items", "build", "cancel", "report"}
HelperPlaces == RunPlaces \cup {"none", "wait", "leave", "ending", "gone"}
CallerPlaces == {"idle", "ready", "wait", "returned", "copied", "stopping"}

Running(h) == hpc[h] \in RunPlaces
Ended(h) == hpc[h] \in {"none", "gone"}

Init ==
    /\ workers = 0 /\ generation = 0 /\ activeWorkers = 0
    /\ completedWorkers = 0 /\ liveWorkers = 0
    /\ batchActive = FALSE /\ stopping = FALSE /\ poisoned = FALSE
    /\ size = [b \in Batches |-> 0] /\ nextWork = [b \in Batches |-> 0]
    /\ cancelled = [b \in Batches |-> FALSE]
    /\ failed = [b \in Batches |-> FALSE]
    /\ bitmaps = [b \in Batches |-> {}]
    /\ hpc = [h \in Helpers |-> "none"] /\ observed = [h \in Helpers |-> 0]
    /\ index = [h \in Helpers |-> 0] /\ end = [h \in Helpers |-> 0]
    /\ cpc = "idle" /\ granted = 0
    /\ stop = FALSE

Smaller(a, b) == IF a < b THEN a ELSE b

-----------------------------------------------------------------------------
(* The caller.  At "copied" a batch is done and its results are copied.    *)

CallerFree == cpc \in {"idle", "copied"}

Refuses == stopping \/ poisoned \/ batchActive

\* Prepare starts the missing threads, or as many of them as it gets; no
\* thread at all ends the run.
Prepare ==
    /\ CallerFree
    /\ \/ /\ Refuses \/ workers = 0
          /\ cpc' = "idle"
          /\ stop' = TRUE
          /\ UNCHANGED <<poolVars, helperVars, granted>>
       \/ \E requested \in Helpers, now \in Helpers :
          /\ ~Refuses
          /\ now >= workers /\ (now > workers => now <= requested)
          /\ workers' = now
          /\ liveWorkers' = liveWorkers + (now - workers)
          /\ hpc' = [h \in Helpers |->
                       IF h > workers /\ h <= now THEN "wait" ELSE hpc[h]]
          /\ observed' = [h \in Helpers |->
                       IF h > workers /\ h <= now THEN 0 ELSE observed[h]]
          /\ granted' = Smaller(requested, now)
          /\ cpc' = "ready"
          /\ UNCHANGED <<generation, activeWorkers, completedWorkers,
                         batchActive, stopping, poisoned, index, end, stop>>
    /\ UNCHANGED batchVars

\* Copying the work items into the batch throws.
BatchThrows ==
    /\ cpc = "ready"
    /\ cpc' = "idle"
    /\ UNCHANGED <<poolVars, batchVars, helperVars, granted, stop>>

\* Execute, up to the wait.
Dispatch ==
    /\ cpc = "ready"
    /\ generation < MaxBatches
    /\ IF Refuses \/ workers = 0
       THEN /\ cpc' = "idle"
            /\ stop' = TRUE
            /\ UNCHANGED <<poolVars, size>>
       ELSE /\ generation' = generation + 1
            /\ \E n \in 1..MaxItems :
                  size' = [size EXCEPT ![generation + 1] = n]
            /\ activeWorkers' = Smaller(granted, workers)
            /\ completedWorkers' = 0
            /\ batchActive' = TRUE
            /\ cpc' = "wait"
            /\ UNCHANGED <<workers, liveWorkers, stopping, poisoned, stop>>
    /\ UNCHANGED <<nextWork, cancelled, failed, bitmaps, helperVars, granted>>

AllReported == completedWorkers >= activeWorkers

EndBatch ==
    /\ activeWorkers' = 0 /\ completedWorkers' = 0
    /\ batchActive' = FALSE

ExecuteCompletes ==
    /\ cpc = "wait"
    /\ AllReported /\ ~stopping
    /\ EndBatch
    /\ cpc' = "returned"
    /\ UNCHANGED <<workers, generation, liveWorkers, stopping, poisoned,
                   batchVars, helperVars, granted, stop>>

Unpoisoned == stopping' = FALSE /\ poisoned' = FALSE             \* mutant
Quarantine == stopping' = TRUE /\ poisoned' = TRUE

\* The batch's timeout; the caller then stops the run.
ExecuteTimesOut ==
    /\ cpc = "wait"
    /\ ~AllReported \/ stopping
    /\ cancelled' = [cancelled EXCEPT ![generation] = TRUE]
    /\ Quarantine
    /\ EndBatch
    /\ cpc' = "idle"
    /\ stop' = TRUE
    /\ UNCHANGED <<workers, generation, liveWorkers, size, nextWork, failed,
                   bitmaps, helperVars, granted>>

CopiesAlways == TRUE                                             \* mutant
MayCopy == ~stop /\ ~failed[generation]

\* GetPrewarmGlyphBitmaps after Execute: it returns for a stop, throws for a
\* failure, and else copies the results.
TakeResults ==
    /\ cpc = "returned"
    /\ cpc' = IF MayCopy THEN "copied" ELSE "idle"
    /\ UNCHANGED <<poolVars, batchVars, helperVars, granted, stop>>

\* ReleasePrewarmRasterWorkers.
Stop ==
    /\ CallerFree
    /\ workers > 0
    /\ stopping' = TRUE
    /\ cpc' = "stopping"
    /\ UNCHANGED <<workers, generation, activeWorkers, completedWorkers,
                   liveWorkers, batchActive, poisoned, batchVars, helperVars,
                   granted, stop>>

Acknowledged == liveWorkers = 0                                  \* mutant
Exited == liveWorkers = 0 /\ \A h \in 1..workers : hpc[h] = "gone"

StopJoins ==
    /\ cpc = "stopping"
    /\ Exited
    /\ workers' = 0
    /\ EndBatch
    /\ stopping' = poisoned
    /\ cpc' = "idle"
    /\ UNCHANGED <<generation, liveWorkers, poisoned, batchVars, helperVars,
                   granted, stop>>

LeavesThreads == poisoned' = TRUE /\ UNCHANGED stopping

StopTimesOut ==
    /\ cpc = "stopping"
    /\ ~Exited
    /\ LeavesThreads
    /\ cpc' = "idle"
    /\ UNCHANGED <<workers, generation, activeWorkers, completedWorkers,
                   liveWorkers, batchActive, batchVars, helperVars, granted,
                   stop>>

CallerStep ==
    \/ Prepare \/ BatchThrows \/ Dispatch \/ ExecuteCompletes \/ TakeResults
    \/ Stop \/ StopJoins

TimesOut == ExecuteTimesOut \/ StopTimesOut

\* Any other thread, RequestFontPrewarmStop.
StopRequested ==
    /\ ~stop /\ stop' = TRUE
    /\ UNCHANGED <<poolVars, batchVars, helperVars, callVars>>

-----------------------------------------------------------------------------
(* A helper: WorkerMain, and Run in between.                               *)

Goto(h, place) == hpc' = [hpc EXCEPT ![h] = place]

WokenAgain(h) == batchActive /\ h <= activeWorkers               \* mutant
WokenBelow(h) ==                                                 \* mutant
    batchActive /\ generation # observed[h] /\ h < activeWorkers
Woken(h) ==
    batchActive /\ generation # observed[h] /\ h <= activeWorkers

HelperWakes(h) ==
    /\ hpc[h] = "wait"
    /\ \/ /\ stopping
          /\ Goto(h, "leave")
          /\ UNCHANGED observed
       \/ /\ ~stopping /\ Woken(h)
          /\ Goto(h, "start")
          /\ observed' = [observed EXCEPT ![h] = generation]
    /\ UNCHANGED <<poolVars, batchVars, index, end, callVars, stop>>

Interrupted(h) == cancelled[observed[h]] \/ stop

\* At "start" the helper's FreeType context has been prepared, too.
HelperChecks(h) ==
    /\ hpc[h] \in {"start", "check"}
    /\ Goto(h, IF Interrupted(h) THEN "report" ELSE "claim")
    /\ UNCHANGED <<poolVars, batchVars, observed, index, end, callVars, stop>>

OneItem == 1                                                     \* mutant
Claimed == Chunk

HelperClaims(h) ==
    /\ hpc[h] = "claim"
    /\ LET b == observed[h]
           first == nextWork[b]
       IN /\ nextWork' = [nextWork EXCEPT ![b] = first + Claimed]
          /\ IF first >= size[b]
             THEN /\ Goto(h, "report")
                  /\ UNCHANGED <<index, end>>
             ELSE /\ index' = [index EXCEPT ![h] = first]
                  /\ end' = [end EXCEPT ![h] = Smaller(size[b], first + Chunk)]
                  /\ Goto(h, "items")
    /\ UNCHANGED <<poolVars, size, cancelled, failed, bitmaps, observed,
                   callVars, stop>>

\* The locals of a chunk, at the end of their scope.
LeaveChunk(h) ==
    /\ index' = [index EXCEPT ![h] = 0]
    /\ end' = [end EXCEPT ![h] = 0]

HelperTakesItem(h) ==
    /\ hpc[h] = "items"
    /\ IF index[h] >= end[h] \/ Interrupted(h)
       THEN Goto(h, "check") /\ LeaveChunk(h)
       ELSE Goto(h, "build") /\ UNCHANGED <<index, end>>
    /\ UNCHANGED <<poolVars, batchVars, observed, callVars, stop>>

HelperBuilds(h) ==
    /\ hpc[h] = "build"
    /\ bitmaps' = [bitmaps EXCEPT ![observed[h]] = @ \cup {index[h]}]
    /\ index' = [index EXCEPT ![h] = @ + 1]
    /\ Goto(h, "items")
    /\ UNCHANGED <<poolVars, size, nextWork, cancelled, failed, observed, end,
                   callVars, stop>>

\* Any allocation or call of the rasteriser fails: the flag, then Cancel.
HelperThrows(h) ==
    /\ hpc[h] \in {"start", "build"}
    /\ failed' = [failed EXCEPT ![observed[h]] = TRUE]
    /\ Goto(h, "cancel")
    /\ LeaveChunk(h)
    /\ UNCHANGED <<poolVars, size, nextWork, cancelled, bitmaps, observed,
                   callVars, stop>>

HelperCancels(h) ==
    /\ hpc[h] = "cancel"
    /\ cancelled' = [cancelled EXCEPT ![observed[h]] = TRUE]
    /\ Goto(h, "report")
    /\ UNCHANGED <<poolVars, size, nextWork, failed, bitmaps, observed, index,
                   end, callVars, stop>>

HelperReports(h) ==
    /\ hpc[h] = "report"
    /\ completedWorkers' = IF batchActive /\ generation = observed[h]
                           THEN completedWorkers + 1 ELSE completedWorkers
    /\ Goto(h, "wait")
    /\ UNCHANGED <<workers, generation, activeWorkers, liveWorkers,
                   batchActive, stopping, poisoned, batchVars, observed, index,
                   end, callVars, stop>>

HelperLeaves(h) ==
    /\ hpc[h] = "leave"
    /\ liveWorkers' = liveWorkers - 1
    /\ Goto(h, "ending")
    /\ UNCHANGED <<workers, generation, activeWorkers, completedWorkers,
                   batchActive, stopping, poisoned, batchVars, observed, index,
                   end, callVars, stop>>

HelperEnds(h) ==
    /\ hpc[h] = "ending"
    /\ Goto(h, "gone")
    /\ UNCHANGED <<poolVars, batchVars, observed, index, end, callVars, stop>>

HelperStep(h) ==
    \/ HelperWakes(h) \/ HelperChecks(h) \/ HelperClaims(h)
    \/ HelperTakesItem(h) \/ HelperBuilds(h) \/ HelperThrows(h)
    \/ HelperCancels(h) \/ HelperReports(h) \/ HelperLeaves(h)
    \/ HelperEnds(h)

-----------------------------------------------------------------------------

Next ==
    \/ CallerStep \/ TimesOut \/ StopRequested
    \/ \E h \in Helpers : HelperStep(h)

Spec == Init /\ [][Next]_vars

\* No helper hangs; the caller notices that all have reported or exited.
HelperFairSpec ==
    /\ Spec
    /\ \A h \in Helpers : WF_vars(HelperStep(h))
    /\ WF_vars(ExecuteCompletes) /\ WF_vars(StopJoins)

-----------------------------------------------------------------------------
(* Properties.                                                             *)

PoolTypeOK ==
    /\ workers \in 0..MaxWorkers /\ generation \in 0..MaxBatches
    /\ activeWorkers \in 0..MaxWorkers /\ completedWorkers \in 0..MaxWorkers
    /\ liveWorkers \in 0..MaxWorkers
    /\ batchActive \in BOOLEAN /\ stopping \in BOOLEAN /\ poisoned \in BOOLEAN

BatchTypeOK ==
    /\ size \in [Batches -> 0..MaxItems] /\ nextWork \in [Batches -> Nat]
    /\ cancelled \in [Batches -> BOOLEAN] /\ failed \in [Batches -> BOOLEAN]
    /\ bitmaps \in [Batches -> SUBSET (0..MaxItems - 1)]

HelperTypeOK ==
    /\ hpc \in [Helpers -> HelperPlaces] /\ observed \in [Helpers -> Nat]
    /\ index \in [Helpers -> Nat] /\ end \in [Helpers -> 0..MaxItems]

CallerTypeOK ==
    /\ cpc \in CallerPlaces /\ granted \in 0..MaxWorkers
    /\ stop \in BOOLEAN

TypeOK == PoolTypeOK /\ BatchTypeOK /\ HelperTypeOK /\ CallerTypeOK

\* What GetPrewarmGlyphBitmaps copies is complete: when no failure flag and no
\* stop is seen after the batch, no item was skipped on account of either.
CompleteBatch ==
    cpc = "copied" => bitmaps[generation] = 0..size[generation] - 1

\* Run writes each item.bitmap once: two helpers never build the same item,
\* and none builds one that is there.
OneBuilder ==
    \A h \in Helpers : hpc[h] = "build" =>
      /\ index[h] < end[h] /\ index[h] \notin bitmaps[observed[h]]
      /\ \A k \in Helpers \ {h} :
            hpc[k] \in {"items", "build"} /\ observed[k] = observed[h]
              => index[h] \notin index[k]..end[k] - 1

\* CopyResultsTo reads without a lock, and helper contexts are indexed by
\* helper: no helper is inside a batch the caller takes for completed, and
\* none is left in an earlier batch when the next is dispatched.
NoStraggler ==
    /\ cpc \in {"returned", "copied"} => \A h \in Helpers : ~Running(h)
    /\ batchActive =>
         \A h \in Helpers : Running(h) => observed[h] = generation

\* A pool refuses work only for good reason: between two calls it is stopped
\* exactly when it is poisoned, and no thread is joined that might block.
StopLeavesPoolSound ==
    /\ cpc # "stopping" => (stopping <=> poisoned)
    /\ \A h \in Helpers : h > workers => Ended(h)
    /\ liveWorkers = Cardinality({h \in Helpers :
                        ~Ended(h) /\ hpc[h] # "ending"})

\* A dispatched batch completes without its timeout if no helper hangs: each
\* of the active helpers is woken for it and reports once (Execute).  And so
\* does a stop: each helper sees it and exits (Stop).
CallsComplete ==
    /\ cpc = "wait" ~> cpc # "wait"
    /\ stopping ~> \A h \in Helpers : Ended(h)
=============================================================================
