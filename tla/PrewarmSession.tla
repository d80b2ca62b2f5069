--------------------------- MODULE PrewarmSession ---------------------------
(***************************************************************************)
(* What the prewarm worker pumps: the transaction that restores or         *)
(* generates the atlas of every configured font, retries what runs out of  *)
(* memory, restarts what fails, and gives up in a bounded number of steps. *)
(* Source: font_prewarm.cpp, font_prewarm_session.cpp, font_prewarm_       *)
(* steps.cpp, and the job order of font_prewarm_policy.cpp.                *)
(*                                                                         *)
(* PrewarmRuntime belongs to the worker, so one PumpFontPrewarm call is    *)
(* one action; the stop and the main thread's service are in Prewarm-      *)
(* Coordinator, the progress reporting in PrewarmOverlay.  DeferredInit    *)
(* settles the cache route before the barrier, and configurations and      *)
(* runtime fonts are not removed, so a queued job stays valid and the      *)
(* code's "cancelled" branches are left out.  The route is one that builds *)
(* atlases only (not ArgbFallback).  The profile of a font is its          *)
(* BuildProfileKey; two fonts of one profile are served by one job.        *)
(***************************************************************************)
EXTENDS Naturals, FiniteSets, Sequences, SequencesExt

CONSTANTS
    Fonts,            \* the configured fonts, by number
    Profile,          \* [Fonts -> profile key]
    Owner,            \* [Fonts -> Fonts]: mtsdfDoubleByteOwnerFontId
    Units,            \* encoded units of the code page, in batches
    MaxMemory,        \* kMaximumFontMemoryFailures
    MaxGenerations,   \* kMaximumFontGenerationRestarts
    MaxTransactions,  \* kMaximumTransactionRestarts
    MaxDeferrals,     \* 2 in BeginNextPrewarmFont
    NoFont

\* ConfigureMtsdfSharedRasterGroups: the owner of a group owns itself.
ASSUME SessionAssumption ==
    /\ Fonts \subseteq Nat /\ Fonts # {} /\ IsFiniteSet(Fonts)
    /\ NoFont \notin Fonts
    /\ \A f \in Fonts : Owner[f] \in Fonts /\ Owner[Owner[f]] = Owner[f]
    /\ Units \in Nat \ {0} /\ MaxMemory \in Nat \ {0}
    /\ {MaxGenerations, MaxTransactions, MaxDeferrals} \subseteq Nat

VARIABLES
    \* PrewarmRuntimeState
    jobs, scheduled, configuredQueued, configuredPrewarmed, restartPending,
    restartCount, terminal, prewarmActive, workerThread, policy,
    \* PrewarmSession
    phase, restoreJobs, generationJobs, activeFont, outcome, queued,
    completed, streamFailed, finished, verified, everyVerified,
    \* the job of a font: units still to scan, and its retry counters
    left, memory, restarts, deferrals,
    \* elsewhere: runtime fonts, the emergency reserve, and the enforcing flag
    \* of EnforceCpuMemoryBudget, left set by a trim that threw
    ready, reserve, trimStuck,
    \* what the last PumpFontPrewarm returned
    status

queueVars   == <<jobs, scheduled, configuredQueued>>
runVars     == <<configuredPrewarmed, restartPending, restartCount, terminal,
                 prewarmActive, workerThread>>
countVars   == <<queued, completed, streamFailed, finished, verified>>
jobVars     == <<left, memory, restarts, deferrals>>
sessionVars == <<phase, restoreJobs, generationJobs, activeFont, outcome,
                 countVars, everyVerified>>
vars == <<queueVars, runVars, policy, sessionVars, jobVars, ready, reserve,
          trimStuck, status>>

Phases ==
    {"idle", "restore", "begin", "generate", "finalize", "flush", "profiles",
     "groups", "pools", "masks", "budget", "files", "complete"}

IsAlias(f) == Owner[f] # f

\* SortPrewarmJobsByDependencies: owners, then their aliases.
Before(f, g) ==
    \/ ~IsAlias(f) /\ IsAlias(g)
    \/ /\ IsAlias(f) <=> IsAlias(g)
       /\ \/ Owner[f] < Owner[g]
          \/ Owner[f] = Owner[g] /\ f < g

\* The one enumeration of the fonts in that order.
InOrder(fonts) ==
    CHOOSE queue \in [1..Cardinality(fonts) -> fonts] :
        \A i, j \in DOMAIN queue : i < j => Before(queue[i], queue[j])

ProfilesOf(fonts) == {Profile[f] : f \in fonts}

\* One job for each profile, an owner's before an alias'.
OwnerJobs(fonts) ==
    {f \in fonts : \A g \in fonts :
        g # f /\ Profile[g] = Profile[f] => Before(f, g)}

\* The aliases PublishSealedProfileAliases has to serve have a runtime.
Publishable(f) == \A g \in Fonts : Profile[g] = Profile[f] => g \in ready

Zero == [f \in Fonts |-> 0]

Init ==
    /\ jobs = {} /\ scheduled = {} /\ configuredQueued = FALSE
    /\ configuredPrewarmed = FALSE /\ restartPending = FALSE
    /\ restartCount = 0 /\ terminal = FALSE
    /\ prewarmActive = FALSE /\ workerThread = FALSE /\ policy = FALSE
    /\ phase = "idle" /\ restoreJobs = <<>> /\ generationJobs = <<>>
    /\ activeFont = NoFont /\ outcome = "ok"
    /\ queued = 0 /\ completed = 0 /\ streamFailed = 0 /\ finished = 0
    /\ verified = <<>> /\ everyVerified = FALSE
    /\ left = Zero /\ memory = Zero /\ restarts = Zero /\ deferrals = Zero
    /\ ready \in SUBSET Fonts /\ reserve = FALSE /\ trimStuck = FALSE
    /\ status = "active"

-----------------------------------------------------------------------------
(* Fonts arrive: another thread activates one, and the pump drains them.   *)

\* QueueFontPrewarmOwned: a profile that is scheduled gets no second job, but
\* an owner takes the place of an alias in the queue.
Enqueue(queue, f) ==
    LET shared == {g \in queue : Profile[g] = Profile[f]} IN
    IF Profile[f] \notin scheduled /\ shared = {} THEN queue \cup {f}
    ELSE IF \E g \in shared : IsAlias(g) /\ ~IsAlias(f)
         THEN (queue \ shared) \cup {f}
         ELSE queue

\* The worker goes round until the pump reports the failure of the run.
Running == status \notin {"failed", "shutdown"}
Pumped == ~terminal /\ status # "shutdown"

ActivateFreeTypeFont(f) ==
    /\ Running /\ f \notin ready
    /\ ready' = ready \cup {f}
    /\ UNCHANGED <<queueVars, runVars, policy, sessionVars, jobVars, reserve,
                   trimStuck, status>>

DrainPendingFontPrewarm(f) ==
    /\ Running /\ f \in ready
    /\ jobs' = Enqueue(jobs, f)
    /\ scheduled' = scheduled \cup {Profile[f]}
    /\ UNCHANGED <<configuredQueued, runVars, policy, sessionVars, jobVars,
                   ready, reserve, trimStuck, status>>

-----------------------------------------------------------------------------
(* The ways a transaction ends.                                            *)

ClearSession ==
    /\ phase' = "idle" /\ restoreJobs' = <<>> /\ generationJobs' = <<>>
    /\ activeFont' = NoFont /\ outcome' = "ok"
    /\ queued' = 0 /\ completed' = 0 /\ streamFailed' = 0 /\ finished' = 0
    /\ verified' = <<>> /\ everyVerified' = FALSE
    /\ left' = Zero /\ memory' = Zero /\ restarts' = Zero /\ deferrals' = Zero

ClearQueue == jobs' = {} /\ scheduled' = {}

CloseTransaction ==
    /\ policy' = FALSE /\ reserve' = FALSE
    /\ ClearSession /\ ClearQueue
    /\ configuredQueued' = TRUE /\ configuredPrewarmed' = FALSE
    /\ restartPending' = FALSE /\ terminal' = TRUE
    /\ prewarmActive' = FALSE /\ workerThread' = FALSE
    /\ UNCHANGED restartCount

AbortPrewarmTransaction == CloseTransaction /\ status' = "failed"

Restart(count) ==
    /\ policy' = FALSE /\ reserve' = FALSE
    /\ ClearSession /\ ClearQueue
    /\ configuredQueued' = FALSE /\ configuredPrewarmed' = FALSE
    /\ restartPending' = TRUE /\ restartCount' = count
    /\ status' = "active"
    /\ UNCHANGED <<terminal, prewarmActive, workerThread>>

RestartAtLimit == restartCount <= MaxTransactions                \* mutant
CanRestartPrewarmTransaction == restartCount < MaxTransactions

ResetPrewarmTransactionForRetry ==
    IF CanRestartPrewarmTransaction THEN Restart(restartCount + 1)
                                    ELSE AbortPrewarmTransaction

UncountedRestart == restartCount                                 \* mutant
ForcedRestart == IF restartPending THEN restartCount ELSE restartCount + 1

\* ResetPrewarmTransactionForRetry itself throws half-way.
ForcePrewarmTransactionRetryState ==
    /\ CanRestartPrewarmTransaction
    /\ Restart(ForcedRestart)

\* Any allocation of a pump step may throw, the budget's trim once, which its
\* own flag then disables; what the step did is undone.  The retry throws in
\* turn if cancelling the active font does, or the trim.
PumpThrows ==
    /\ Pumped
    /\ \/ /\ ResetPrewarmTransactionForRetry
          /\ trimStuck' \in {trimStuck, TRUE}
       \/ /\ ForcePrewarmTransactionRetryState
          /\ \/ activeFont # NoFont /\ UNCHANGED trimStuck
             \/ ~trimStuck /\ trimStuck' = TRUE
    /\ UNCHANGED ready

-----------------------------------------------------------------------------
(* One pump step in each phase.                                            *)

Proceed(next) ==
    /\ phase' = next
    /\ status' = "active"

\* QueueConfiguredFontPrewarms, for the fonts whose runtime can be made.
ConfiguredJobs(made) ==
    IF configuredQueued THEN jobs
    ELSE FoldLeft(Enqueue, jobs, InOrder(made))

\* Without a job the pump returns before it looks at the outcome, so an abort
\* here is reported by the next call (PumpFails).
RetryWithoutJobs ==
    IF CanRestartPrewarmTransaction THEN Restart(restartCount + 1)
    ELSE CloseTransaction /\ status' = "active"

PumpFails ==
    /\ terminal /\ status = "active"
    /\ status' = "failed"
    /\ UNCHANGED <<queueVars, runVars, policy, sessionVars, jobVars, ready,
                   reserve, trimStuck>>

\* Phase Idle, and PrepareIncrementalSession in the same call.
BeginSession ==
    /\ Pumped /\ phase = "idle"
    /\ \E made \in SUBSET Fonts :
        /\ ready \subseteq made
        /\ configuredQueued => made = ready
        /\ ready' = made
        /\ LET now == ConfiguredJobs(made) IN
           \/ /\ now # {}
              /\ restoreJobs' = InOrder(OwnerJobs(now))
              /\ jobs' = {} /\ scheduled' = ProfilesOf(now)
              /\ configuredQueued' = TRUE
              /\ queued' = Cardinality(OwnerJobs(now))
              /\ prewarmActive' = TRUE /\ workerThread' = TRUE
              /\ restartPending' = FALSE
              /\ reserve' \in {reserve, TRUE}
              /\ Proceed("restore")
              /\ UNCHANGED <<configuredPrewarmed, restartCount, terminal,
                             policy, generationJobs, activeFont, outcome,
                             completed, streamFailed, finished, verified,
                             everyVerified, jobVars>>
           \/ /\ now = {} /\ ~(configuredPrewarmed /\ ~restartPending)
              /\ RetryWithoutJobs
           \/ /\ now = {} /\ configuredPrewarmed /\ ~restartPending
              /\ configuredQueued' = TRUE
              /\ status' = "idle"
              /\ UNCHANGED <<jobs, scheduled, runVars, policy, sessionVars,
                             jobVars, reserve>>
    /\ UNCHANGED trimStuck

Stepping(p) == Pumped /\ phase = p

\* A request the main thread does not answer ends the run.
RequestFails ==
    /\ AbortPrewarmTransaction
    /\ UNCHANGED <<ready, trimStuck>>

\* RecordPrewarmMemoryPressure and PreparePrewarmMemoryRetry: the font may
\* try again until it has failed MaxMemory times.
MemoryFailure(f) ==
    /\ memory' = [memory EXCEPT ![f] = @ + 1]
    /\ reserve' = FALSE

CanRetryAfterMemoryFailure(f) == memory[f] + 1 < MaxMemory

Finish(f) ==
    /\ verified' = Append(verified, f)
    /\ completed' = completed + 1 /\ finished' = finished + 1
    /\ UNCHANGED <<queued, streamFailed>>

UnsortedGeneration == generationJobs                             \* mutant
SortedGeneration == InOrder(ToSet(generationJobs))

RestoreDone ==
    /\ Stepping("restore") /\ restoreJobs = <<>>
    /\ generationJobs' = SortedGeneration
    /\ Proceed(IF generationJobs = <<>> THEN "flush" ELSE "begin")
    /\ UNCHANGED <<queueVars, runVars, policy, restoreJobs, activeFont,
                   outcome, countVars, everyVerified, jobVars, ready, reserve,
                   trimStuck>>

\* RestoreOnePrewarmSnapshot: the snapshot is ready, or there is none (or it
\* is discarded) and the font is generated, or memory is short.
RestoreOnePrewarmSnapshot ==
    /\ Stepping("restore") /\ restoreJobs # <<>>
    /\ LET f == Head(restoreJobs) IN
       \/ RequestFails
       \/ /\ ~CanRetryAfterMemoryFailure(f)
          /\ AbortPrewarmTransaction
          /\ UNCHANGED <<ready, trimStuck>>
       \/ /\ CanRetryAfterMemoryFailure(f)
          /\ MemoryFailure(f)
          /\ Proceed("restore")
          /\ UNCHANGED <<queueVars, runVars, policy, restoreJobs,
                         generationJobs, activeFont, outcome, countVars,
                         everyVerified, left, restarts, deferrals, ready,
                         trimStuck>>
       \/ /\ Publishable(f)
          /\ restoreJobs' = Tail(restoreJobs)
          /\ Finish(f)
          /\ Proceed("restore")
          /\ UNCHANGED <<queueVars, runVars, policy, generationJobs,
                         activeFont, outcome, everyVerified, jobVars, ready,
                         reserve, trimStuck>>
       \/ /\ restoreJobs' = Tail(restoreJobs)
          /\ generationJobs' = Append(generationJobs, f)
          /\ left' = [left EXCEPT ![f] = Units]
          /\ Proceed("restore")
          /\ UNCHANGED <<queueVars, runVars, policy, activeFont, outcome,
                         countVars, everyVerified, memory, restarts,
                         deferrals, ready, reserve, trimStuck>>

GenerationDone ==
    /\ Stepping("begin") /\ generationJobs = <<>>
    /\ Proceed("flush")
    /\ UNCHANGED <<queueVars, runVars, policy, restoreJobs, generationJobs,
                   activeFont, outcome, countVars, everyVerified, jobVars,
                   ready, reserve, trimStuck>>

OwnerPending(f) ==
    Profile[Owner[f]] \in ProfilesOf(ToSet(Tail(generationJobs)))

\* BeginNextPrewarmFont: an alias needs its owner's double-byte role first.
BeginNextPrewarmFont ==
    /\ Stepping("begin") /\ generationJobs # <<>>
    /\ LET f == Head(generationJobs) IN
       \/ /\ IsAlias(f)
          /\ RequestFails
       \/ /\ IsAlias(f) /\ ~CanRetryAfterMemoryFailure(f)
          /\ AbortPrewarmTransaction
          /\ UNCHANGED <<ready, trimStuck>>
       \/ /\ IsAlias(f) /\ CanRetryAfterMemoryFailure(f)
          /\ MemoryFailure(f)
          /\ Proceed("begin")
          /\ UNCHANGED <<queueVars, runVars, policy, restoreJobs,
                         generationJobs, activeFont, outcome, countVars,
                         everyVerified, left, restarts, deferrals, ready,
                         trimStuck>>
       \/ /\ IsAlias(f)
          /\ IF OwnerPending(f) /\ deferrals[f] < MaxDeferrals
             THEN /\ deferrals' = [deferrals EXCEPT ![f] = @ + 1]
                  /\ generationJobs' = Append(Tail(generationJobs), f)
                  /\ UNCHANGED countVars
             ELSE /\ generationJobs' = Tail(generationJobs)
                  /\ streamFailed' = streamFailed + 1
                  /\ finished' = finished + 1
                  /\ UNCHANGED <<deferrals, queued, completed, verified>>
          /\ Proceed("begin")
          /\ UNCHANGED <<queueVars, runVars, policy, restoreJobs, activeFont,
                         outcome, everyVerified, left, memory, restarts,
                         ready, reserve, trimStuck>>
       \/ /\ activeFont' = f /\ outcome' = "ok"
          /\ generationJobs' = Tail(generationJobs)
          /\ policy' = TRUE
          /\ \/ MemoryFailure(f)     \* too little headroom: constrained mode
             \/ UNCHANGED <<memory, reserve>>
          /\ Proceed("generate")
          /\ UNCHANGED <<queueVars, runVars, restoreJobs, countVars,
                         everyVerified, left, restarts, deferrals, ready,
                         trimStuck>>

RolledBack(rest) == "generate"

\* GenerateOnePrewarmBatch: the scan stops with rest units left; a memory
\* failure at any later point takes the scan back.  Of the two limits on
\* memory failures the font's always trips first.
GenerateOnePrewarmBatch ==
    /\ Stepping("generate")
    /\ LET f == activeFont IN \E rest \in 0..left[f] :
       \/ /\ rest < left[f]
          /\ left' = [left EXCEPT ![f] = rest]
          /\ Proceed(IF rest = 0 THEN "finalize" ELSE "generate")
          /\ UNCHANGED <<outcome, memory, reserve>>
       \/ /\ MemoryFailure(f)
          /\ IF CanRetryAfterMemoryFailure(f)
             THEN /\ Proceed(RolledBack(rest))
                  /\ UNCHANGED outcome
             ELSE /\ Proceed("finalize")
                  /\ outcome' = "terminal"
          /\ UNCHANGED left
       \/ /\ outcome' = "failed"
          /\ Proceed("finalize")
          /\ left' = [left EXCEPT ![f] = rest]
          /\ UNCHANGED <<memory, reserve>>
    /\ UNCHANGED <<queueVars, runVars, policy, restoreJobs, generationJobs,
                   activeFont, countVars, everyVerified, restarts, deferrals,
                   ready, trimStuck>>

CanRestartFontGeneration(f) == restarts[f] + 1 <= MaxGenerations

\* FinalizeActivePrewarmFont, for a font whose batches failed.
FinalizeFailed ==
    /\ Stepping("finalize") /\ outcome # "ok"
    /\ LET f == activeFont IN
       IF outcome = "failed" /\ CanRestartFontGeneration(f)
       THEN /\ restarts' = [restarts EXCEPT ![f] = @ + 1]
            /\ left' = [left EXCEPT ![f] = Units]
            /\ generationJobs' = <<f>> \o generationJobs
            /\ activeFont' = NoFont /\ outcome' = "ok"
            /\ Proceed("begin")
            /\ UNCHANGED <<queueVars, runVars, policy, restoreJobs, countVars,
                           everyVerified, memory, deferrals, reserve>>
       ELSE AbortPrewarmTransaction
    /\ UNCHANGED <<ready, trimStuck>>

RetryBehind(f) ==                                                \* mutant
    /\ restoreJobs' = restoreJobs \o <<f>>
    /\ UNCHANGED activeFont
RetryRestore(f) ==
    /\ restoreJobs' = <<f>> \o restoreJobs
    /\ activeFont' = NoFont

\* The atlas is finished and published, or goes back to the snapshots for
\* want of memory, or because it did not validate.
FinalizeActivePrewarmFont ==
    /\ Stepping("finalize") /\ outcome = "ok"
    /\ LET f == activeFont IN
       \/ RequestFails
       \/ /\ Publishable(f)
          /\ Finish(f)
          /\ activeFont' = NoFont
          /\ Proceed("begin")
          /\ UNCHANGED <<queueVars, runVars, policy, restoreJobs,
                         generationJobs, outcome, everyVerified, jobVars,
                         ready, reserve, trimStuck>>
       \/ /\ ~CanRetryAfterMemoryFailure(f) \/ ~CanRestartFontGeneration(f)
          /\ AbortPrewarmTransaction
          /\ UNCHANGED <<ready, trimStuck>>
       \/ /\ \/ /\ CanRetryAfterMemoryFailure(f)
                /\ MemoryFailure(f)
                /\ UNCHANGED restarts
             \/ /\ CanRestartFontGeneration(f)
                /\ restarts' = [restarts EXCEPT ![f] = @ + 1]
                /\ UNCHANGED <<memory, reserve>>
          /\ RetryRestore(f)
          /\ Proceed("restore")
          /\ UNCHANGED <<queueVars, runVars, policy, generationJobs, outcome,
                         countVars, everyVerified, left, deferrals, ready,
                         trimStuck>>

PolicyKept == policy                                             \* mutant
PolicyEnded == FALSE

\* CleanupFlush: the atlas-only policy ends before the consolidation.
CleanupFlush ==
    /\ Stepping("flush")
    /\ policy' = PolicyEnded
    /\ Proceed("profiles")
    /\ UNCHANGED <<queueVars, runVars, restoreJobs, generationJobs,
                   activeFont, outcome, countVars, everyVerified, jobVars,
                   ready, reserve, trimStuck>>

CountOfQueued == completed = queued                              \* mutant
\* CollectPrewarmProfileResults.
EveryConfiguredProfileVerified ==
    /\ completed = queued
    /\ queued = Cardinality(ProfilesOf(Fonts))
    /\ ready = Fonts
    /\ Len(verified) = queued
    /\ Cardinality(ProfilesOf(ToSet(verified)))
         = Cardinality(ProfilesOf(Fonts))

CleanupProfiles ==
    /\ Stepping("profiles")
    /\ everyVerified' = EveryConfiguredProfileVerified
    /\ Proceed(IF everyVerified' THEN "groups" ELSE "masks")
    /\ UNCHANGED <<queueVars, runVars, policy, restoreJobs, generationJobs,
                   activeFont, outcome, countVars, jobVars, ready, reserve,
                   trimStuck>>

\* The remaining cleanup, none of which decides the transaction.
CleanupStep ==
    /\ Pumped
    /\ \/ phase = "groups" /\ Proceed("pools")
       \/ phase = "pools" /\ Proceed("masks")
       \/ phase = "masks" /\ Proceed("budget")
       \/ phase = "budget" /\ Proceed("files")
    /\ UNCHANGED <<queueVars, runVars, policy, restoreJobs, generationJobs,
                   activeFont, outcome, countVars, everyVerified, jobVars,
                   ready, reserve, trimStuck>>

\* CleanupFiles and FinishIncrementalSession.
FinishIncrementalSession ==
    /\ Stepping("files")
    /\ \/ /\ everyVerified
          /\ Proceed("complete")
          /\ UNCHANGED <<queueVars, runVars, policy, restoreJobs,
                         generationJobs, activeFont, outcome, countVars,
                         everyVerified, jobVars, reserve>>
       \/ /\ ~everyVerified
          /\ ResetPrewarmTransactionForRetry
    /\ UNCHANGED <<ready, trimStuck>>

CompletePrewarm ==
    /\ Stepping("complete")
    /\ reserve' = FALSE
    /\ ClearSession
    /\ configuredPrewarmed' = TRUE
    /\ restartPending' = FALSE /\ restartCount' = 0
    /\ workerThread' = FALSE /\ prewarmActive' = FALSE
    /\ status' = "completed"
    /\ UNCHANGED <<queueVars, terminal, policy, ready, trimStuck>>

\* The rollback by the main thread, when no worker is left to pump.
ShutdownFontPrewarm ==
    /\ status # "shutdown"
    /\ policy' = FALSE /\ reserve' = FALSE
    /\ ClearSession /\ ClearQueue
    /\ configuredQueued' = FALSE /\ configuredPrewarmed' = FALSE
    /\ restartPending' = FALSE /\ restartCount' = 0 /\ terminal' = FALSE
    /\ prewarmActive' = FALSE /\ workerThread' = FALSE
    /\ status' = "shutdown"
    /\ UNCHANGED <<ready, trimStuck>>

PumpFontPrewarm ==
    \/ PumpThrows \/ PumpFails \/ BeginSession
    \/ RestoreDone \/ RestoreOnePrewarmSnapshot
    \/ GenerationDone \/ BeginNextPrewarmFont \/ GenerateOnePrewarmBatch
    \/ FinalizeFailed \/ FinalizeActivePrewarmFont \/ CleanupFlush
    \/ CleanupProfiles \/ CleanupStep \/ FinishIncrementalSession
    \/ CompletePrewarm

Next ==
    \/ PumpFontPrewarm \/ ShutdownFontPrewarm
    \/ \E f \in Fonts : ActivateFreeTypeFont(f) \/ DrainPendingFontPrewarm(f)

Spec == Init /\ [][Next]_vars

\* The worker keeps pumping.
PumpFairSpec == Spec /\ WF_vars(PumpFontPrewarm)

-----------------------------------------------------------------------------
(* Properties.                                                             *)

Counters == [Fonts -> Nat]

TypeOK ==
    /\ jobs \subseteq Fonts /\ scheduled \subseteq ProfilesOf(Fonts)
    /\ configuredQueued \in BOOLEAN /\ configuredPrewarmed \in BOOLEAN
    /\ restartPending \in BOOLEAN /\ restartCount \in 0..MaxTransactions
    /\ terminal \in BOOLEAN /\ prewarmActive \in BOOLEAN
    /\ workerThread \in BOOLEAN /\ policy \in BOOLEAN
    /\ phase \in Phases
    /\ restoreJobs \in Seq(Fonts) /\ generationJobs \in Seq(Fonts)
    /\ activeFont \in Fonts \cup {NoFont}
    /\ outcome \in {"ok", "failed", "terminal"}
    /\ queued \in Nat /\ completed \in Nat /\ streamFailed \in Nat
    /\ finished \in Nat /\ verified \in Seq(Fonts)
    /\ everyVerified \in BOOLEAN
    /\ left \in [Fonts -> 0..Units] /\ memory \in Counters
    /\ restarts \in Counters /\ deferrals \in Counters
    /\ ready \subseteq Fonts /\ reserve \in BOOLEAN /\ trimStuck \in BOOLEAN
    /\ status \in {"active", "idle", "completed", "failed", "shutdown"}

\* A job is in exactly one place: a session's jobs are waiting, active or
\* finished, none is lost and none is finished twice on its way between the
\* queues (FinishIncrementalSession trusts these counters).
JobConservation ==
    LET waiting == restoreJobs \o generationJobs
        active  == IF activeFont = NoFont THEN <<>> ELSE <<activeFont>>
        placed  == waiting \o active \o verified
    IN /\ Len(waiting) + Len(active) + finished = queued
       /\ finished = completed + streamFailed /\ Len(verified) = completed
       /\ \A i, j \in DOMAIN placed :
             Profile[placed[i]] = Profile[placed[j]] => i = j

\* An alias is generated only after its owner's job, whatever retries that
\* job needed, and is deferred only when the owner has no job of its own and
\* another font stands in for its profile (SortPrewarmJobsByDependencies and
\* the deferral of BeginNextPrewarmFont).
OwnersFirst ==
    LET waiting == ToSet(restoreJobs \o generationJobs) IN
    /\ activeFont # NoFont /\ IsAlias(activeFont)
         => Owner[activeFont] \notin waiting
    /\ \A f \in Fonts : deferrals[f] > 0
         => Owner[f] \notin waiting \cup ToSet(verified) \cup {activeFont}

\* What counts as done is done: a font is finalised as generated only when its
\* whole code page has been scanned, rolled back batches included
\* (GenerateOnePrewarmBatch); in the last phases of a transaction, and so when it
\* reports completion, each configured font has its profile verified and no job
\* is left queued (CollectPrewarmProfileResults).
CompletionIsComplete ==
    /\ phase = "finalize" /\ outcome = "ok" => left[activeFont] = 0
    /\ phase = "complete" =>
         ProfilesOf(Fonts) = ProfilesOf(ToSet(verified)) /\ ready = Fonts
    /\ status = "completed" => jobs = {}

\* What a transaction holds is released by every way out of it: the
\* atlas-only policy, the reserved address space, the activity flag that
\* routes engine calls, and the worker's identity.
ResourcesReleased ==
    status # "active"
      => ~policy /\ ~reserve /\ ~prewarmActive /\ ~workerThread

\* The retries end: a pump that keeps being called stops being active
\* (kMaximumTransactionRestarts and the budgets below it).
PumpTerminates == status = "active" ~> status # "active"
=============================================================================
