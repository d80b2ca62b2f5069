--------------------------- MODULE PrewarmOverlay ---------------------------
(***************************************************************************)
(* The prewarm progress overlay: the worker reports its session into a     *)
(* latest-state mailbox, the main thread closes the run when it gives up,  *)
(* and the LoadingMenu thread draws what it reads there into a Tile tree   *)
(* the game owns.  Source: prewarm_overlay_mailbox.h, native_tile_overlay_ *)
(* prewarm.cpp, and the RebuildProgress functions of font_prewarm_         *)
(* policy.cpp with their callers.                                          *)
(*                                                                         *)
(* A process has one prewarm run (see PrewarmCoordinator), so run tokens   *)
(* are left out: the mailbox has a current run once it is opened.  Each    *)
(* mailbox operation is one action, because it runs under the SRW lock;    *)
(* the second publication of one reporting call is an action of its own    *)
(* (todo).  Which phase of the session follows which is kept, why is not.   *)
(***************************************************************************)
EXTENDS Naturals

CONSTANTS
    Full,         \* the progress 1.0; 0..Full are the progress values
    MaxSequence,  \* bound on the progress commands of the run
    Roots,        \* the roots LoadingMenu may have, one after the other
    NoRoot        \* no root; also: no component attached

ASSUME OverlayAssumption ==
    Full \in Nat /\ MaxSequence \in Nat /\ NoRoot \notin Roots

VARIABLES
    \* PrewarmOverlayMailbox
    command, opened, terminal, disabled, maximumProgress, consumed, requested,
    \* PrewarmRuntimeState: the rebuildProgress flags, and the session's phase
    tracked, reporting, suspended, closed, progress, phase,
    \* the worker thread, and the publication its reporting call still owes
    worker, failed, todo,
    \* the main thread's barrier, and the stop it requests
    barrier, stop,
    \* the LoadingMenu thread: its place, the command it has read
    place, read,
    \* BasicPrewarmOverlayInstance: its state, and the root it is attached to
    instance, host,
    \* the game: LoadingMenu's root, its former roots, and what each shows
    root, gone, shown

mailVars == <<command, opened, terminal, disabled, maximumProgress, consumed,
              requested>>
repVars  == <<tracked, reporting, suspended, closed, progress, phase>>
workVars == <<worker, failed, todo>>
mainVars == <<barrier, stop>>
loadVars == <<place, read, instance, host, root, gone, shown>>
vars == <<mailVars, repVars, workVars, mainVars, loadVars>>

Progress == 0..Full
Hidden == Full + 1
Actions == {"present", "suspend", "close"}
Command == [sequence : Nat, progress : Progress, action : Actions]
Phases == {"idle", "restore", "generate", "cleanup", "retry"}
Places == {"update", "apply", "disable", "mark"}
InstanceStates == {"detached", "attached", "suspended", "disabled"}

Larger(p, q) == IF p > q THEN p ELSE q

Init ==
    /\ command = [sequence |-> 0, progress |-> 0, action |-> "suspend"]
    /\ opened = FALSE /\ terminal = FALSE /\ disabled = FALSE
    /\ maximumProgress = 0 /\ consumed = 0 /\ requested = FALSE
    /\ tracked = FALSE /\ reporting = FALSE /\ suspended = FALSE
    /\ closed = FALSE /\ progress = 0 /\ phase = "idle"
    /\ worker = "running" /\ failed = FALSE /\ todo = "nothing"
    /\ barrier = "open" /\ stop = FALSE
    /\ place = "update" /\ read = command
    /\ instance = "detached" /\ host = NoRoot
    /\ root \in Roots \cup {NoRoot} /\ gone = {}
    /\ shown = [r \in Roots |-> Hidden]

-----------------------------------------------------------------------------
(* PrewarmOverlayMailbox, under its lock.                                  *)

Publish(action, value) ==
    command' = [sequence |-> command.sequence + 1, progress |-> value,
                action |-> action]

\* What makes PublishProgress return without a command.
RefusesProgress == terminal \/ disabled

PublishProgress(value) ==
    LET next == Larger(value, maximumProgress) IN
    \/ /\ RefusesProgress
       /\ UNCHANGED mailVars
    \/ /\ ~RefusesProgress
       /\ opened /\ command.action = "present" /\ command.progress = next
       /\ requested' = TRUE
       /\ UNCHANGED <<command, opened, terminal, disabled, maximumProgress,
                      consumed>>
    \/ /\ ~RefusesProgress
       /\ ~(opened /\ command.action = "present" /\ command.progress = next)
       /\ Publish("present", next)
       /\ opened' = TRUE /\ maximumProgress' = next /\ requested' = TRUE
       /\ UNCHANGED <<terminal, disabled, consumed>>

PublishSuspend ==
    \/ /\ ~opened \/ terminal \/ disabled \/ command.action = "suspend"
       /\ UNCHANGED mailVars
    \/ /\ opened /\ ~terminal /\ ~disabled /\ command.action # "suspend"
       /\ Publish("suspend", maximumProgress)
       /\ requested' = FALSE
       /\ UNCHANGED <<opened, terminal, disabled, maximumProgress, consumed>>

\* A run that was never opened has nothing to close.
PublishClose ==
    \/ /\ ~opened \/ terminal
       /\ UNCHANGED mailVars
    \/ /\ opened /\ ~terminal
       /\ terminal' = TRUE
       /\ Publish("close", maximumProgress)
       /\ requested' = FALSE
       /\ UNCHANGED <<opened, disabled, maximumProgress, consumed>>

-----------------------------------------------------------------------------
(* The worker: the session's phases and its reporting calls.               *)

MayPublish == command.sequence < MaxSequence

Pumping(p) == worker = "running" /\ todo = "nothing" /\ phase = p

ClearReporting ==
    /\ tracked' = FALSE /\ reporting' = FALSE /\ suspended' = FALSE
    /\ progress' = 0

\* ReportPrewarmTransactionProgress; a call that is not forced may be
\* dropped by its time throttle.
Reports(value, forced) ==
    \/ /\ ~(tracked /\ reporting /\ ~closed)
       /\ UNCHANGED <<progress, mailVars>>
    \/ /\ tracked /\ reporting /\ ~closed
       /\ progress' = Larger(value, progress)
       /\ \/ ~suspended /\ PublishProgress(progress')
          \/ suspended /\ UNCHANGED mailVars
          \/ ~forced /\ UNCHANGED mailVars

\* PumpFontPrewarmStep opens a session, the first or one after a retry.
BeginSession ==
    /\ worker = "running" /\ todo = "nothing" /\ phase \in {"idle", "retry"}
    /\ phase' = "restore"
    /\ UNCHANGED <<mailVars, tracked, reporting, suspended, closed, progress,
                   workVars, mainVars, loadVars>>

\* RestoreOnePrewarmSnapshot, cache miss: LatchRebuildProgress.
LatchRebuildProgress ==
    /\ Pumping("restore") /\ ~tracked
    /\ tracked' = TRUE /\ reporting' = FALSE /\ suspended' = FALSE
    /\ closed' = FALSE /\ progress' = 0
    /\ UNCHANGED <<phase, mailVars, workVars, mainVars, loadVars>>

\* Progress of a restored font, a batch, a finalisation or a cleanup step.
ReportPrewarmProgress(value, forced) ==
    /\ worker = "running" /\ todo = "nothing" /\ MayPublish
    /\ phase \in {"restore", "generate", "cleanup"}
    /\ Reports(value, forced)
    /\ UNCHANGED <<tracked, reporting, suspended, closed, phase, workVars,
                   mainVars, loadVars>>

\* RestoreOnePrewarmSnapshot with no job left, something to generate.
BeginGeneration ==
    /\ Pumping("restore")
    /\ phase' = "generate"
    /\ UNCHANGED <<mailVars, tracked, reporting, suspended, closed, progress,
                   workVars, mainVars, loadVars>>

\* BeginNextPrewarmFont: StartRebuildProgressReporting.
StartRebuildProgressReporting ==
    /\ Pumping("generate") /\ tracked /\ ~closed /\ MayPublish
    /\ reporting => suspended
    /\ reporting' = TRUE /\ suspended' = FALSE
    /\ progress' = IF reporting THEN progress ELSE 0
    /\ PublishProgress(progress')
    /\ UNCHANGED <<tracked, closed, phase, workVars, mainVars, loadVars>>

\* SuspendRebuildProgressReporting follows a forced report.
OweSuspend ==
    IF reporting /\ ~closed /\ ~suspended THEN todo' = "suspend"
                                          ELSE UNCHANGED todo

\* FinalizeActivePrewarmFont sends a font back to the snapshots.
RestoreAgain ==
    /\ Pumping("generate") /\ MayPublish
    /\ Reports(progress, TRUE)
    /\ phase' = "restore"
    /\ OweSuspend
    /\ UNCHANGED <<tracked, reporting, suspended, closed, worker, failed,
                   mainVars, loadVars>>

\* ResetPrewarmTransactionForRetry, and ForcePrewarmTransactionRetryState,
\* which does not suspend the presentation.
RetryTransaction ==
    /\ worker = "running" /\ todo = "nothing" /\ MayPublish
    /\ Reports(progress, TRUE)
    /\ phase' = "retry"
    /\ \/ OweSuspend
       \/ UNCHANGED todo
    /\ UNCHANGED <<tracked, reporting, suspended, closed, worker, failed,
                   mainVars, loadVars>>

SuspendRebuildProgressReporting ==
    /\ worker = "running" /\ todo = "suspend"
    /\ PublishSuspend
    /\ suspended' = TRUE
    /\ todo' = "nothing"
    /\ UNCHANGED <<tracked, reporting, closed, progress, phase, worker,
                   failed, mainVars, loadVars>>

\* The last font is done (or there was none to generate): full progress is
\* published, and then the close.
CloseCompleted ==
    /\ \/ Pumping("restore") \/ Pumping("generate")
    /\ phase' = "cleanup"
    /\ IF reporting /\ ~closed
       THEN /\ suspended' = FALSE
            /\ \/ /\ tracked /\ progress' = Full /\ PublishProgress(Full)
               \/ /\ ~tracked /\ UNCHANGED <<progress, mailVars>>
            /\ todo' = "close"
       ELSE UNCHANGED <<suspended, progress, mailVars, todo>>
    /\ UNCHANGED <<tracked, reporting, closed, worker, failed, mainVars,
                   loadVars>>

CloseRebuildProgressReporting ==
    /\ worker = "running" /\ todo = "close"
    /\ PublishClose
    /\ closed' = TRUE /\ suspended' = FALSE
    /\ todo' = "nothing"
    /\ UNCHANGED <<tracked, reporting, progress, phase, worker, failed,
                   mainVars, loadVars>>

\* PumpFontPrewarmStep, phase Complete.
CompleteSession ==
    /\ Pumping("cleanup")
    /\ ClearReporting /\ closed' = FALSE
    /\ phase' = "idle"
    /\ UNCHANGED <<mailVars, workVars, mainVars, loadVars>>

\* The close of a failed, cancelled or rolled back run.
ClosesRun ==
    \/ reporting /\ ~closed /\ PublishClose
    \/ ~(reporting /\ ~closed) /\ UNCHANGED mailVars

\* AbortPrewarmTransaction; the worker then leaves the pump.
AbortPrewarmTransaction ==
    /\ worker = "running" /\ todo = "nothing"
    /\ ClosesRun
    /\ ClearReporting /\ closed' = TRUE
    /\ phase' = "idle"
    /\ failed' = TRUE /\ worker' = "leaving"
    /\ UNCHANGED <<todo, mainVars, loadVars>>

\* The raster pool or an atlas request fails inside a step.
WorkerRequestsStop ==
    /\ worker = "running" /\ todo = "nothing" /\ ~stop
    /\ stop' = TRUE
    /\ UNCHANGED <<barrier, mailVars, repVars, workVars, loadVars>>

\* The worker sees a stop after any step, or the barrier's exit request once
\* there is nothing left to pump.
WorkerLeaves ==
    /\ worker = "running" /\ todo = "nothing"
    /\ stop \/ (barrier # "open" /\ phase = "idle")
    /\ worker' = "leaving"
    /\ UNCHANGED <<mailVars, repVars, failed, todo, mainVars, loadVars>>

LeavesOpen == failed                                             \* mutant
LeavesClosing == failed \/ stop

\* The end of FontPrewarmWorkerMain.
WorkerEnds ==
    /\ worker = "leaving"
    /\ worker' = "gone"
    /\ IF LeavesClosing
       THEN /\ ClosesRun
            /\ closed' = (closed \/ reporting)
            /\ suspended' = (suspended /\ ~(reporting /\ ~closed))
       ELSE UNCHANGED <<mailVars, closed, suspended>>
    /\ UNCHANGED <<tracked, reporting, progress, phase, failed, todo,
                   mainVars, loadVars>>

WorkerStep ==
    \/ BeginSession \/ LatchRebuildProgress
    \/ \E value \in Progress, forced \in BOOLEAN :
          ReportPrewarmProgress(value, forced)
    \/ BeginGeneration \/ StartRebuildProgressReporting \/ RestoreAgain
    \/ RetryTransaction \/ SuspendRebuildProgressReporting \/ CloseCompleted
    \/ CloseRebuildProgressReporting \/ CompleteSession
    \/ AbortPrewarmTransaction \/ WorkerRequestsStop \/ WorkerLeaves \/ WorkerEnds

-----------------------------------------------------------------------------
(* The main thread: RunFontPrewarmLoadingBarrier.                          *)

\* WM_QUIT closes the run as cancelled, the watchdog as given up; the stop
\* follows in a step of its own.  A worker that is not reaped in time and the
\* game's exit stop the run without a close.
CloseNativePrewarmOverlay ==
    /\ barrier = "open"
    /\ PublishClose
    /\ barrier' \in {"quitting", "expired"}
    /\ UNCHANGED <<stop, repVars, workVars, loadVars>>

RequestFontPrewarmStop ==
    /\ stop' = TRUE
    /\ \/ barrier = "quitting" /\ barrier' = "open"
       \/ barrier = "expired" /\ barrier' = "closed"
       \/ barrier = "closed" /\ UNCHANGED barrier
    /\ UNCHANGED <<mailVars, repVars, workVars, loadVars>>

\* The work has settled.
BarrierEnds ==
    /\ barrier = "open"
    /\ barrier' = "closed"
    /\ UNCHANGED <<stop, mailVars, repVars, workVars, loadVars>>

\* ShutdownFontPrewarm, once the worker is joined.
ShutdownFontPrewarm ==
    /\ barrier = "closed" /\ worker = "gone" /\ stop
    /\ barrier' = "over"
    /\ ClosesRun
    /\ ClearReporting /\ closed' = FALSE
    /\ phase' = "idle"
    /\ UNCHANGED <<stop, workVars, loadVars>>

MainStep ==
    \/ CloseNativePrewarmOverlay \/ RequestFontPrewarmStop \/ BarrierEnds
    \/ ShutdownFontPrewarm

-----------------------------------------------------------------------------
(* The LoadingMenu thread: ConsumeNativePrewarmOverlayCommand.             *)

HasPending == command.sequence # consumed

\* The hot path's test, and ReadLatest.
ReadLatest ==
    /\ place = "update" /\ HasPending /\ root # NoRoot
    /\ read' = command
    /\ place' = "apply"
    /\ UNCHANGED <<mailVars, repVars, workVars, mainVars, instance, host,
                   root, gone, shown>>

\* BeginCommand's comparison of the host with LoadingMenu's present root.
HostUnchecked == FALSE                                           \* mutant
HostChanged == host # NoRoot /\ host # root

Applying == place = "apply" /\ instance # "disabled"

\* A disabled run only drains its commands.
SkipDisabled ==
    /\ place = "apply" /\ instance = "disabled"
    /\ place' = "mark"
    /\ UNCHANGED <<mailVars, repVars, workVars, mainVars, read, instance,
                   host, root, gone, shown>>

ForgetHost ==
    /\ Applying /\ HostChanged
    /\ instance' = "disabled" /\ host' = NoRoot
    /\ place' = "disable"
    /\ UNCHANGED <<mailVars, repVars, workVars, mainVars, read, root, gone,
                   shown>>

ApplyClose ==
    /\ Applying /\ ~HostChanged /\ read.action = "close"
    /\ shown' = IF host = NoRoot THEN shown
                ELSE [shown EXCEPT ![host] = Hidden]
    /\ instance' = "detached" /\ host' = NoRoot
    /\ place' = "mark"
    /\ UNCHANGED <<mailVars, repVars, workVars, mainVars, read, root, gone>>

ApplySuspend ==
    /\ Applying /\ ~HostChanged /\ read.action = "suspend"
    /\ shown' = IF host = NoRoot THEN shown
                ELSE [shown EXCEPT ![host] = Hidden]
    /\ instance' = "suspended"
    /\ place' = "mark"
    /\ UNCHANGED <<mailVars, repVars, workVars, mainVars, read, host, root,
                   gone>>

\* AttachPrewarmInstance when there is no component yet.
ApplyPresent ==
    /\ Applying /\ ~HostChanged /\ read.action = "present"
    /\ host' = IF host = NoRoot THEN root ELSE host
    /\ shown' = [shown EXCEPT ![host'] = read.progress]
    /\ instance' = "attached"
    /\ place' = "mark"
    /\ UNCHANGED <<mailVars, repVars, workVars, mainVars, read, root, gone>>

\* The component does not validate, or the Tile engine throws: an attached
\* component is hidden, unless that throws too, and the run is disabled.
ApplyFails ==
    /\ Applying /\ ~HostChanged
    /\ \/ host # NoRoot /\ shown' = [shown EXCEPT ![host] = Hidden]
       \/ UNCHANGED shown
    /\ instance' = "disabled" /\ host' = NoRoot
    /\ place' = "disable"
    /\ UNCHANGED <<mailVars, repVars, workVars, mainVars, read, root, gone>>

DisableRun ==
    /\ place = "disable"
    /\ disabled' = TRUE /\ requested' = FALSE
    /\ place' = "mark"
    /\ UNCHANGED <<command, opened, terminal, maximumProgress, consumed,
                   repVars, workVars, mainVars, read, instance, host, root,
                   gone, shown>>

LatestSequence == command.sequence                               \* mutant
AppliedSequence == read.sequence

MarkConsumed ==
    /\ place = "mark"
    /\ consumed' = AppliedSequence
    /\ place' = "update"
    /\ UNCHANGED <<command, opened, terminal, disabled, maximumProgress,
                   requested, repVars, workVars, mainVars, read, instance,
                   host, root, gone, shown>>

ConsumeStep ==
    \/ ReadLatest \/ SkipDisabled \/ ForgetHost \/ ApplyClose \/ ApplySuspend
    \/ ApplyPresent \/ ApplyFails \/ DisableRun \/ MarkConsumed

\* Between two updates the game may give LoadingMenu another root; the old
\* tree is reclaimed, and no later tree has its address.
ReplaceRoot ==
    /\ place = "update"
    /\ root' \in Roots \ (gone \cup {root})
    /\ gone' = gone \cup ({root} \ {NoRoot})
    /\ UNCHANGED <<mailVars, repVars, workVars, mainVars, place, read,
                   instance, host, shown>>

-----------------------------------------------------------------------------

Next == WorkerStep \/ MainStep \/ ConsumeStep \/ ReplaceRoot

Spec == Init /\ [][Next]_vars

\* LoadingMenu keeps updating while the game loads, and has a root.
ConsumerFairSpec == Spec /\ WF_vars(ConsumeStep)

-----------------------------------------------------------------------------
(* Properties.                                                             *)

TypeOK ==
    /\ command \in Command /\ read \in Command
    /\ opened \in BOOLEAN /\ terminal \in BOOLEAN /\ disabled \in BOOLEAN
    /\ maximumProgress \in Progress /\ consumed \in Nat
    /\ requested \in BOOLEAN
    /\ tracked \in BOOLEAN /\ reporting \in BOOLEAN /\ suspended \in BOOLEAN
    /\ closed \in BOOLEAN /\ progress \in Progress /\ phase \in Phases
    /\ worker \in {"running", "leaving", "gone"} /\ failed \in BOOLEAN
    /\ todo \in {"nothing", "suspend", "close"}
    /\ barrier \in {"open", "quitting", "expired", "closed", "over"}
    /\ stop \in BOOLEAN
    /\ place \in Places /\ instance \in InstanceStates
    /\ host \in Roots \cup {NoRoot} /\ root \in Roots \cup {NoRoot}
    /\ gone \subseteq Roots /\ shown \in [Roots -> 0..Hidden]

\* The overlay's claim on the screen, which keeps the IME candidate window
\* hidden (PumpCandidateOverlay), ends with the run: it outlives neither its
\* close, nor its disabling, nor the worker that reports into it.
ClaimReleased ==
    terminal \/ disabled \/ worker = "gone" => ~requested

\* Once the LoadingMenu thread has caught up the screen shows the last
\* command: that progress, or nothing (ConsumeNativePrewarmOverlayCommand).
ScreenFollowsMailbox ==
    /\ place = "update" /\ command.sequence = consumed
    /\ instance # "disabled"
    => IF command.action = "present"
       THEN host # NoRoot /\ shown[host] = command.progress
       ELSE root # NoRoot /\ host \in {root, NoRoot} => shown[root] = Hidden

\* A tree LoadingMenu has given up "may already have" been reclaimed and is
\* not touched again (PreparePrewarmInstance).
ReclaimedTreeUntouched ==
    [][\A r \in gone : shown'[r] = shown[r]]_vars

\* When the worker is gone the overlay leaves the screen for good, as long as
\* LoadingMenu updates and its Tile engine has not failed.
OverlayLeaves ==
    worker = "gone"
      ~> [](instance = "disabled" \/ (root # NoRoot => shown[root] = Hidden))
=============================================================================
