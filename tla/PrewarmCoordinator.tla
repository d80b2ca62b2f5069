------------------------- MODULE PrewarmCoordinator -------------------------
(***************************************************************************)
(* The pre-entry font prewarm: the game's main thread holds DeferredInit   *)
(* in a loading barrier while one worker thread pumps the prewarm session, *)
(* and serves the worker's Direct3D atlas requests through a single        *)
(* request slot.  Source: font_prewarm_thread.cpp, font_prewarm_run_       *)
(* control.h, and PumpFontPrewarm of font_prewarm.cpp.                     *)
(*                                                                         *)
(* Each action is one critical section, one atomic access that another     *)
(* thread can observe, or one unlocked call.  Wall-clock deadlines may     *)
(* expire at any moment; what the pump does between two accesses to shared *)
(* state is left open (any status, at most MaxCalls requests a step).       *)
(* One run only: StartFontPrewarmWorker is called by the barrier alone,    *)
(* which DeferredInit enters once, so tokens of other runs never occur.    *)
(***************************************************************************)
EXTENDS Naturals

CONSTANTS
    Fonts,      \* fonts that have a configuration (FindConfig succeeds)
    MaxToken,   \* bound on the atlas requests of the run
    MaxCalls    \* bound on the atlas requests of one pump step

ASSUME BoundsAssumption == MaxToken \in Nat /\ MaxCalls \in Nat

VARIABLES
    \* PrewarmCoordinatorState
    stopRequested, worker, started, pending, workRequested, settled,
    lastStatus, barrierClosed, exitRequested, workerExited, quarantined,
    \* PrewarmRunControl: m_commitToken = run token, m_stopToken = run token
    commitOpen, runStopped,
    \* MainThreadAtlasRequest
    reqState, reqToken, nextToken,
    \* the main thread: place, locals of the barrier and of the service
    mpc, status, quitRequested, watchdogFired, svcToken, overdue,
    \* the worker thread: place and locals
    wpc, wToken, wStatus, wFailed, wCalls,
    \* a RequestFontPrewarmStop call in progress in each thread
    stopPc,
    \* PrewarmRuntime: a transaction or its restart is open
    session,
    \* history: the fate of each request token
    begun, published, delivered, refused

coordVars == <<stopRequested, worker, started, pending, workRequested, settled,
               lastStatus, barrierClosed, exitRequested, workerExited,
               quarantined>>
runVars   == <<commitOpen, runStopped>>
reqVars   == <<reqState, reqToken, nextToken>>
mainVars  == <<mpc, status, quitRequested, watchdogFired, svcToken, overdue>>
workVars  == <<wpc, wToken, wStatus, wFailed, wCalls>>
histVars  == <<begun, published, delivered, refused>>
vars == <<coordVars, runVars, reqVars, mainVars, workVars, stopPc, session,
          histVars>>

Threads == {"main", "worker"}
Tokens == 0..MaxToken     \* 0 is the token of no request
PumpStatus == {"idle", "active", "completed", "failed"}
RequestStates ==
    {"idle", "queued", "executing", "completed", "cancelled", "abandoned"}
MainPlaces ==
    {"boot", "enter", "messages", "service", "peek", "claim", "exec",
     "observe", "watch", "close", "shut", "reap", "rollback", "ended",
     "exitFlag", "exitReap", "exitRollback", "exited"}
WorkerPlaces ==
    {"none", "wait", "check", "drain", "pump", "reqEnter", "reqQueue",
     "reqWait", "publish", "repend", "tail", "leave", "closing", "gone"}
StopPlaces == {"out", "closeCommit", "stopRun", "slot"}

Init ==
    /\ stopRequested = FALSE /\ worker = FALSE /\ started = FALSE
    /\ pending = {} /\ workRequested = FALSE /\ settled = FALSE
    /\ lastStatus = "idle" /\ barrierClosed = FALSE /\ exitRequested = FALSE
    /\ workerExited = FALSE /\ quarantined = FALSE
    /\ commitOpen = FALSE /\ runStopped = FALSE
    /\ reqState = "idle" /\ reqToken = 0 /\ nextToken = 1
    /\ mpc = "boot" /\ status = "failed" /\ quitRequested = FALSE
    /\ watchdogFired = FALSE /\ svcToken = 0 /\ overdue = FALSE
    /\ wpc = "none" /\ wToken = 0 /\ wStatus = "idle"
    /\ wFailed = FALSE /\ wCalls = 0
    /\ stopPc = [t \in Threads |-> "out"]
    /\ session = FALSE
    /\ begun = {} /\ published = {} /\ delivered = {} /\ refused = {}

-----------------------------------------------------------------------------
(* PrewarmRunControl, for the one run of the process.                      *)

CanCommit == commitOpen /\ ~runStopped

\* The pair every worker loop tests: IsFontPrewarmStopRequested() or the
\* run control's StopRequested(runToken).
StopSeen == stopRequested \/ runStopped

-----------------------------------------------------------------------------
(* RequestFontPrewarmStop: the flag, CloseCommit, the stop token, and then *)
(* the request slot under its mutex.  The caller resumes at stopPc "out".  *)

BeginStop(t) ==
    /\ stopRequested' = TRUE
    /\ stopPc' = [stopPc EXCEPT ![t] = "closeCommit"]

StopCloseCommit(t) ==
    /\ stopPc[t] = "closeCommit"
    /\ commitOpen' = FALSE
    /\ stopPc' = [stopPc EXCEPT ![t] = "stopRun"]
    /\ UNCHANGED <<coordVars, runStopped, reqVars, mainVars, workVars,
                   session, histVars>>

StopRun(t) ==
    /\ stopPc[t] = "stopRun"
    /\ runStopped' = TRUE
    /\ stopPc' = [stopPc EXCEPT ![t] = "slot"]
    /\ UNCHANGED <<coordVars, commitOpen, reqVars, mainVars, workVars,
                   session, histVars>>

SlotAfterStop ==
    IF reqState = "queued" THEN "cancelled"
    ELSE IF reqState = "executing" THEN "abandoned"
    ELSE reqState

StopSlot(t) ==
    /\ stopPc[t] = "slot"
    /\ reqState' = SlotAfterStop
    /\ stopPc' = [stopPc EXCEPT ![t] = "out"]
    /\ UNCHANGED <<coordVars, runVars, reqToken, nextToken, mainVars,
                   workVars, session, histVars>>

StopStep(t) == StopCloseCommit(t) \/ StopRun(t) \/ StopSlot(t)

-----------------------------------------------------------------------------
(* Any thread that activates a font: QueuePendingFontPrewarm.              *)

QueuePendingFontPrewarm(font) ==
    /\ ~stopRequested /\ ~barrierClosed
    /\ pending' = pending \cup {font}
    /\ workRequested' = TRUE
    /\ settled' = FALSE
    /\ UNCHANGED <<stopRequested, worker, started, lastStatus, barrierClosed,
                   exitRequested, workerExited, quarantined, runVars, reqVars,
                   mainVars, workVars, stopPc, session, histVars>>

-----------------------------------------------------------------------------
(* The main thread.                                                        *)

MainAt(place) == mpc = place /\ stopPc["main"] = "out"

\* StartFontPrewarmWorker, when the thread is created ...
StartWorker ==
    /\ MainAt("boot") /\ ~stopRequested /\ ~barrierClosed /\ ~started
    /\ started' = TRUE /\ worker' = TRUE /\ workRequested' = TRUE
    /\ settled' = FALSE /\ exitRequested' = FALSE /\ workerExited' = FALSE
    /\ quarantined' = FALSE /\ lastStatus' = "active"
    /\ commitOpen' = TRUE
    /\ wpc' = "wait"
    /\ mpc' = "enter"
    /\ UNCHANGED <<stopRequested, pending, barrierClosed, runStopped, reqVars,
                   status, quitRequested, watchdogFired, svcToken, overdue,
                   wToken, wStatus, wFailed, wCalls, stopPc, session,
                   histVars>>

\* ... and when std::thread throws: the run is begun and stopped at once.
StartWorkerFails ==
    /\ MainAt("boot") /\ ~stopRequested /\ ~barrierClosed /\ ~started
    /\ workRequested' = TRUE /\ exitRequested' = FALSE
    /\ quarantined' = FALSE /\ workerExited' = TRUE /\ settled' = TRUE
    /\ lastStatus' = "failed"
    /\ runStopped' = TRUE
    /\ mpc' = "enter"
    /\ UNCHANGED <<stopRequested, worker, started, pending, barrierClosed,
                   commitOpen, reqVars, status, quitRequested, watchdogFired,
                   svcToken, overdue, workVars, stopPc, session, histVars>>

EnterBarrier ==
    /\ MainAt("enter") /\ ~barrierClosed
    /\ \/ /\ started /\ worker
          /\ mpc' = "messages"
          /\ UNCHANGED <<barrierClosed, status>>
       \/ /\ ~(started /\ worker)
          /\ barrierClosed' = TRUE
          /\ status' = "failed"
          /\ mpc' = "ended"
    /\ UNCHANGED <<stopRequested, worker, started, pending, workRequested,
                   settled, lastStatus, exitRequested, workerExited,
                   quarantined, runVars, reqVars, quitRequested,
                   watchdogFired, svcToken, overdue, workVars, stopPc,
                   session, histVars>>

\* The overall deadline of PrewarmProgressWatchdog passes while the barrier
\* loops; from then on every Observe reports it.
DeadlinePasses ==
    /\ mpc \in {"messages", "service", "peek", "claim", "exec", "observe",
                "watch"}
    /\ ~overdue
    /\ overdue' = TRUE
    /\ UNCHANGED <<coordVars, runVars, reqVars, mpc, status, quitRequested,
                   watchdogFired, svcToken, workVars, stopPc, session,
                   histVars>>

\* PumpPrewarmBarrierWindowMessages: WM_QUIT is taken at most once.
PumpMessages ==
    /\ MainAt("messages")
    /\ mpc' = "service"
    /\ \/ UNCHANGED <<stopRequested, stopPc, quitRequested>>
       \/ /\ ~quitRequested
          /\ quitRequested' = TRUE
          /\ BeginStop("main")
    /\ UNCHANGED <<worker, started, pending, workRequested, settled,
                   lastStatus, barrierClosed, exitRequested, workerExited,
                   quarantined, runVars, reqVars, status, watchdogFired,
                   svcToken, overdue, workVars, session, histVars>>

\* ServiceFontPrewarmMainThread, first critical section.
ServiceCheck ==
    /\ MainAt("service")
    /\ mpc' = IF stopRequested THEN "observe" ELSE "peek"
    /\ UNCHANGED <<coordVars, runVars, reqVars, status, quitRequested,
                   watchdogFired, svcToken, overdue, workVars, stopPc,
                   session, histVars>>

\* Second: copy the queued request.
ServicePeek ==
    /\ MainAt("peek")
    /\ IF reqState = "queued"
       THEN mpc' = "claim" /\ svcToken' = reqToken
       ELSE mpc' = "observe" /\ UNCHANGED svcToken
    /\ UNCHANGED <<coordVars, runVars, reqVars, status, quitRequested,
                   watchdogFired, overdue, workVars, stopPc, session,
                   histVars>>

\* The recheck of the third.
PeekedToken == reqToken = svcToken                               \* mutant
PeekedRequest == reqState = "queued" /\ reqToken = svcToken

\* Third: recheck it and start executing, or cancel it if commit is closed.
ServiceClaim ==
    /\ MainAt("claim")
    /\ IF PeekedRequest /\ CanCommit
       THEN /\ reqState' = "executing"
            /\ begun' = begun \cup {svcToken}
            /\ mpc' = "exec"
       ELSE /\ reqState' = IF PeekedRequest THEN "cancelled" ELSE reqState
            /\ mpc' = "observe"
            /\ UNCHANGED begun
    /\ UNCHANGED <<coordVars, runVars, reqToken, nextToken, status,
                   quitRequested, watchdogFired, svcToken, overdue, workVars,
                   stopPc, session, published, delivered, refused>>

\* Fourth, after the unlocked atlas operation: publish or discard its result.
ServiceFinish ==
    /\ MainAt("exec")
    /\ mpc' = "observe"
    /\ \/ /\ reqToken = svcToken
          /\ reqState = "abandoned" \/ ~CanCommit
          /\ reqState' = "idle"
          /\ UNCHANGED published
       \/ /\ reqToken = svcToken /\ reqState = "executing" /\ CanCommit
          /\ reqState' = "completed"
          /\ published' = published \cup {svcToken}
       \/ /\ \/ reqToken # svcToken
             \/ reqState \notin {"abandoned", "executing"} /\ CanCommit
          /\ UNCHANGED <<reqState, published>>
    /\ UNCHANGED <<coordVars, runVars, reqToken, nextToken, status,
                   quitRequested, watchdogFired, svcToken, overdue, workVars,
                   stopPc, session, begun, delivered, refused>>

BarrierObserve ==
    /\ MainAt("observe")
    /\ status' = lastStatus
    /\ mpc' = IF settled THEN "close" ELSE "watch"
    /\ UNCHANGED <<coordVars, runVars, reqVars, quitRequested, watchdogFired,
                   svcToken, overdue, workVars, stopPc, session, histVars>>

\* PrewarmProgressWatchdog::Observe: the overall deadline must be reported,
\* the absence of progress may be.
NeverOverdue == TRUE                                             \* mutant
WithinDeadline == ~overdue

BarrierWatch ==
    /\ MainAt("watch")
    /\ \/ /\ WithinDeadline
          /\ mpc' = "messages"
          /\ UNCHANGED <<status, watchdogFired, stopRequested, stopPc>>
       \/ /\ watchdogFired' = TRUE
          /\ status' = "failed"
          /\ mpc' = "close"
          /\ BeginStop("main")
    /\ UNCHANGED <<worker, started, pending, workRequested, settled,
                   lastStatus, barrierClosed, exitRequested, workerExited,
                   quarantined, runVars, reqVars, quitRequested, svcToken,
                   overdue, workVars, session, histVars>>

BarrierClose ==
    /\ MainAt("close")
    /\ barrierClosed' = TRUE
    /\ exitRequested' = TRUE
    /\ mpc' = "shut"
    /\ UNCHANGED <<stopRequested, worker, started, pending, workRequested,
                   settled, lastStatus, workerExited, quarantined, runVars,
                   reqVars, status, quitRequested, watchdogFired, svcToken,
                   overdue, workVars, stopPc, session, histVars>>

BarrierCloseCommit ==
    /\ MainAt("shut")
    /\ commitOpen' = FALSE
    /\ mpc' = "reap"
    /\ UNCHANGED <<coordVars, runStopped, reqVars, status, quitRequested,
                   watchdogFired, svcToken, overdue, workVars, stopPc,
                   session, histVars>>

\* The native thread handle, not what the worker says of itself.
FlaggedExit == workerExited                                      \* mutant
Signalled == wpc = "gone"

RollbackAfterWatchdog == watchdogFired                           \* mutant
RunCancelled == watchdogFired \/ quitRequested \/ stopRequested

JoinedInQuarantine ==                                            \* mutant
    /\ worker' = FALSE /\ started' = FALSE
    /\ workerExited' = TRUE /\ UNCHANGED quarantined

\* The thread is given up, one that was left in quarantine before included.
Joined ==
    /\ worker' = FALSE /\ started' = FALSE
    /\ workerExited' = TRUE /\ quarantined' = FALSE

\* ReapFontPrewarmWorker finds the native handle signalled.  The barrier then
\* rolls back only a cancelled run, the shutdown always does.
ReapSignalled ==
    /\ MainAt("reap") \/ MainAt("exitReap")
    /\ worker /\ Signalled
    /\ Joined
    /\ mpc' = IF mpc = "exitReap" THEN "exitRollback"
              ELSE IF RunCancelled THEN "rollback" ELSE "ended"
    /\ UNCHANGED <<stopRequested, pending, workRequested, settled, lastStatus,
                   barrierClosed, exitRequested, runVars, reqVars, status,
                   quitRequested, watchdogFired, svcToken, overdue, workVars,
                   stopPc, session, histVars>>

\* A window message in the barrier's reap loop turns out to be WM_QUIT.
ReapQuit ==
    /\ MainAt("reap") /\ worker /\ ~quitRequested
    /\ quitRequested' = TRUE
    /\ BeginStop("main")
    /\ UNCHANGED <<worker, started, pending, workRequested, settled,
                   lastStatus, barrierClosed, exitRequested, workerExited,
                   quarantined, runVars, reqVars, mpc, status, watchdogFired,
                   svcToken, overdue, workVars, session, histVars>>

\* The exit grace expires: the worker is left running and owned.
ReapTimesOut ==
    /\ worker
    /\ quarantined' = TRUE
    /\ \/ /\ MainAt("reap")
          /\ BeginStop("main")
          /\ status' = "failed"
          /\ mpc' = "ended"
       \/ /\ MainAt("exitReap")
          /\ mpc' = "exited"
          /\ UNCHANGED <<stopRequested, stopPc, status>>
    /\ UNCHANGED <<worker, started, pending, workRequested, settled,
                   lastStatus, barrierClosed, exitRequested, workerExited,
                   runVars, reqVars, quitRequested, watchdogFired, svcToken,
                   overdue, workVars, session, histVars>>

\* Nothing to reap at exit: creation failed or the barrier already joined.
ReapNothing ==
    /\ MainAt("exitReap") /\ ~worker
    /\ mpc' = "exitRollback"
    /\ UNCHANGED <<coordVars, runVars, reqVars, status, quitRequested,
                   watchdogFired, svcToken, overdue, workVars, stopPc,
                   session, histVars>>

\* ShutdownFontPrewarm resets PrewarmRuntime, which the worker owned.
ShutdownFontPrewarm ==
    /\ \/ MainAt("rollback") /\ mpc' = "ended"
       \/ MainAt("exitRollback") /\ mpc' = "exited"
    /\ session' = FALSE
    /\ UNCHANGED <<coordVars, runVars, reqVars, status, quitRequested,
                   watchdogFired, svcToken, overdue, workVars, stopPc,
                   histVars>>

\* kMessage_ExitGame: ShutdownFontPrewarmWorker.
ExitGame ==
    /\ MainAt("ended")
    /\ BeginStop("main")
    /\ mpc' = "exitFlag"
    /\ UNCHANGED <<worker, started, pending, workRequested, settled,
                   lastStatus, barrierClosed, exitRequested, workerExited,
                   quarantined, runVars, reqVars, status, quitRequested,
                   watchdogFired, svcToken, overdue, workVars, session,
                   histVars>>

ExitRequest ==
    /\ MainAt("exitFlag")
    /\ exitRequested' = TRUE
    /\ mpc' = "exitReap"
    /\ UNCHANGED <<stopRequested, worker, started, pending, workRequested,
                   settled, lastStatus, barrierClosed, workerExited,
                   quarantined, runVars, reqVars, status, quitRequested,
                   watchdogFired, svcToken, overdue, workVars, stopPc,
                   session, histVars>>

BarrierStep ==
    \/ StartWorker \/ StartWorkerFails \/ EnterBarrier
    \/ PumpMessages \/ ServiceCheck \/ ServicePeek \/ ServiceClaim
    \/ ServiceFinish \/ BarrierObserve \/ BarrierWatch \/ BarrierClose
    \/ BarrierCloseCommit \/ ReapSignalled \/ ReapQuit \/ ReapTimesOut
    \/ ReapNothing \/ ShutdownFontPrewarm \/ ExitRequest
    \/ StopStep("main")

MainStep == BarrierStep \/ ExitGame

-----------------------------------------------------------------------------
(* The worker thread: FontPrewarmWorkerMain.                               *)

WorkerAt(place) == wpc = place /\ stopPc["worker"] = "out"

\* Fonts were queued, or work was requested, since the worker last looked.
MoreFonts == pending # {}                                        \* mutant
MoreWork == workRequested \/ pending # {}

\* The outer wait: its predicate, and what it decides under the mutex.
WorkerWake ==
    /\ WorkerAt("wait")
    /\ \/ /\ StopSeen \/ exitRequested
          /\ wpc' = "leave"
          /\ UNCHANGED <<workRequested, settled>>
       \/ /\ ~(StopSeen \/ exitRequested)
          /\ MoreWork
          /\ workRequested' = FALSE
          /\ settled' = FALSE
          /\ wpc' = "check"
    /\ UNCHANGED <<stopRequested, worker, started, pending, lastStatus,
                   barrierClosed, exitRequested, workerExited, quarantined,
                   runVars, reqVars, mainVars, wToken, wStatus, wFailed,
                   wCalls, stopPc, session, histVars>>

\* The head of the pump loop; exitRequested is not consulted here.
WorkerCheck ==
    /\ WorkerAt("check")
    /\ wpc' = IF StopSeen THEN "tail" ELSE "drain"
    /\ UNCHANGED <<coordVars, runVars, reqVars, mainVars, wToken, wStatus,
                   wFailed, wCalls, stopPc, session, histVars>>

DrainPendingFontPrewarms ==
    /\ WorkerAt("drain")
    /\ pending' = {}
    /\ wCalls' = 0
    /\ wpc' = "pump"
    /\ UNCHANGED <<stopRequested, worker, started, workRequested, settled,
                   lastStatus, barrierClosed, exitRequested, workerExited,
                   quarantined, runVars, reqVars, mainVars, wToken, wStatus,
                   wFailed, stopPc, session, histVars>>

\* One PumpFontPrewarmStep may issue atlas requests, may stop the run when
\* the raster pool fails, and ends with a status.
PumpCallsRequest ==
    /\ WorkerAt("pump") /\ nextToken <= MaxToken /\ wCalls < MaxCalls
    /\ wCalls' = wCalls + 1
    /\ wpc' = "reqEnter"
    /\ UNCHANGED <<coordVars, runVars, reqVars, mainVars, wToken, wStatus,
                   wFailed, stopPc, session, histVars>>

PumpRasterFails ==
    /\ WorkerAt("pump") /\ ~stopRequested
    /\ BeginStop("worker")
    /\ UNCHANGED <<worker, started, pending, workRequested, settled,
                   lastStatus, barrierClosed, exitRequested, workerExited,
                   quarantined, runVars, reqVars, mainVars, workVars, session,
                   histVars>>

PumpReturns(result) ==
    /\ WorkerAt("pump")
    /\ wStatus' = result
    /\ session' = (result = "active")
    /\ wpc' = "publish"
    /\ UNCHANGED <<coordVars, runVars, reqVars, mainVars, wToken, wFailed,
                   wCalls, stopPc, histVars>>

\* ExecutePrewarmAtlasRequestOnMainThread, before the slot is taken.
RequestEnter ==
    /\ WorkerAt("reqEnter")
    /\ wpc' = IF stopRequested \/ ~CanCommit THEN "pump" ELSE "reqQueue"
    /\ UNCHANGED <<coordVars, runVars, reqVars, mainVars, wToken, wStatus,
                   wFailed, wCalls, stopPc, session, histVars>>

RequestQueue ==
    /\ WorkerAt("reqQueue")
    /\ IF reqState = "idle"
       THEN /\ reqState' = "queued"
            /\ reqToken' = nextToken
            /\ wToken' = nextToken
            /\ nextToken' = nextToken + 1
            /\ wpc' = "reqWait"
       ELSE /\ wpc' = "pump"
            /\ UNCHANGED <<reqVars, wToken>>
    /\ UNCHANGED <<coordVars, runVars, mainVars, wStatus, wFailed, wCalls,
                   stopPc, session, histVars>>

\* The wait ends without a result: the request is refused and the pump goes on.
Refuse ==
    /\ wpc' = "pump"
    /\ refused' = refused \cup {wToken}
    /\ UNCHANGED <<begun, published, delivered>>

ExecutionTimed == {"executing"}                                  \* mutant
TimedStates == {"queued", "executing"}

FreedByTimeout == "idle"                                         \* mutant
\* Cancelled, and back to Idle in the same critical section; an operation
\* that has begun keeps the slot until the main thread returns from it.
LeftByTimeout == IF reqState = "queued" THEN "idle" ELSE "abandoned"

\* The queue timeout or the execution timeout; both go on to stop the run.
RequestTimesOut ==
    /\ WorkerAt("reqWait") /\ reqToken = wToken
    /\ reqState \in TimedStates
    /\ reqState' = LeftByTimeout
    /\ Refuse
    /\ BeginStop("worker")
    /\ UNCHANGED <<worker, started, pending, workRequested, settled,
                   lastStatus, barrierClosed, exitRequested, workerExited,
                   quarantined, runVars, reqToken, nextToken, mainVars,
                   wToken, wStatus, wFailed, wCalls, session>>

\* The slot has settled or the run is stopped.  A result that is already
\* there is taken even after the stop.
RequestResolves ==
    /\ WorkerAt("reqWait")
    /\ \/ reqToken # wToken \/ runStopped
       \/ reqState \notin {"queued", "executing"}
    /\ IF reqToken = wToken /\ reqState = "completed"
       THEN /\ reqState' = "idle"
            /\ wpc' = "pump"
            /\ delivered' = delivered \cup {wToken}
            /\ UNCHANGED <<begun, published, refused>>
       ELSE /\ Refuse
            /\ reqState' = IF reqToken # wToken THEN reqState
                           ELSE IF reqState \in {"queued", "cancelled"}
                           THEN "idle"
                           ELSE IF reqState = "executing" THEN "abandoned"
                           ELSE reqState
    /\ UNCHANGED <<coordVars, runVars, reqToken, nextToken, mainVars, wToken,
                   wStatus, wFailed, wCalls, stopPc, session>>

PumpCompletes == wStatus # "active" /\ ~MoreWork                 \* mutant
PumpSettles == wStatus = "failed" \/ (wStatus # "active" /\ ~MoreWork)

\* After the pump: the status becomes public, and settled with it.
WorkerPublish ==
    /\ WorkerAt("publish")
    /\ lastStatus' = wStatus
    /\ settled' = PumpSettles
    /\ wFailed' = (wStatus = "failed")
    /\ wpc' = IF wStatus = "active" THEN "check"
              ELSE IF MoreWork /\ wStatus # "failed" THEN "repend"
              ELSE "tail"
    /\ UNCHANGED <<stopRequested, worker, started, pending, workRequested,
                   barrierClosed, exitRequested, workerExited, quarantined,
                   runVars, reqVars, mainVars, wToken, wStatus, wCalls,
                   stopPc, session, histVars>>

WorkerRepend ==
    /\ WorkerAt("repend")
    /\ workRequested' = FALSE
    /\ settled' = FALSE
    /\ wpc' = "check"
    /\ UNCHANGED <<stopRequested, worker, started, pending, lastStatus,
                   barrierClosed, exitRequested, workerExited, quarantined,
                   runVars, reqVars, mainVars, wToken, wStatus, wFailed,
                   wCalls, stopPc, session, histVars>>

WorkerTail ==
    /\ WorkerAt("tail")
    /\ wpc' = IF StopSeen \/ wFailed THEN "leave" ELSE "wait"
    /\ UNCHANGED <<coordVars, runVars, reqVars, mainVars, wToken, wStatus,
                   wFailed, wCalls, stopPc, session, histVars>>

\* The last critical section, and then the thread's end: it still closes its
\* progress reporting in PrewarmRuntime before the handle is signalled.
WorkerLeave ==
    /\ WorkerAt("leave")
    /\ workerExited' = TRUE
    /\ IF StopSeen THEN lastStatus' = "failed" /\ settled' = TRUE
                   ELSE UNCHANGED <<lastStatus, settled>>
    /\ wpc' = "closing"
    /\ UNCHANGED <<stopRequested, worker, started, pending, workRequested,
                   barrierClosed, exitRequested, quarantined, runVars,
                   reqVars, mainVars, wToken, wStatus, wFailed, wCalls,
                   stopPc, session, histVars>>

WorkerEnds ==
    /\ WorkerAt("closing")
    /\ wpc' = "gone"
    /\ UNCHANGED <<coordVars, runVars, reqVars, mainVars, wToken, wStatus,
                   wFailed, wCalls, stopPc, session, histVars>>

WorkerStep ==
    \/ WorkerWake \/ WorkerCheck \/ DrainPendingFontPrewarms
    \/ PumpCallsRequest \/ PumpRasterFails
    \/ \E result \in PumpStatus : PumpReturns(result)
    \/ RequestEnter \/ RequestQueue \/ RequestTimesOut \/ RequestResolves
    \/ WorkerPublish \/ WorkerRepend \/ WorkerTail \/ WorkerLeave
    \/ WorkerEnds
    \/ StopStep("worker")

-----------------------------------------------------------------------------

Next ==
    \/ MainStep \/ DeadlinePasses \/ WorkerStep
    \/ \E font \in Fonts : QueuePendingFontPrewarm(font)

Spec == Init /\ [][Next]_vars

\* The main thread runs and time passes; the worker may hang anywhere.
MainFairness == WF_vars(BarrierStep) /\ WF_vars(DeadlinePasses)

\* The worker runs and its timeouts expire; the main thread may hang anywhere.
WorkerFairness == WF_vars(WorkerStep)

-----------------------------------------------------------------------------
(* Properties.                                                             *)

CoordTypeOK ==
    /\ stopRequested \in BOOLEAN /\ worker \in BOOLEAN /\ started \in BOOLEAN
    /\ pending \subseteq Fonts
    /\ workRequested \in BOOLEAN /\ settled \in BOOLEAN
    /\ lastStatus \in PumpStatus
    /\ barrierClosed \in BOOLEAN /\ exitRequested \in BOOLEAN
    /\ workerExited \in BOOLEAN /\ quarantined \in BOOLEAN
    /\ started = worker /\ (quarantined => worker)

SlotTypeOK ==
    /\ commitOpen \in BOOLEAN /\ runStopped \in BOOLEAN
    /\ reqState \in RequestStates
    /\ reqToken \in Tokens /\ nextToken \in 1..MaxToken + 1
    /\ wpc \in {"reqEnter", "reqQueue"} => nextToken \in Tokens

MainTypeOK ==
    /\ mpc \in MainPlaces /\ status \in PumpStatus
    /\ quitRequested \in BOOLEAN /\ watchdogFired \in BOOLEAN
    /\ svcToken \in Tokens /\ overdue \in BOOLEAN

WorkerTypeOK ==
    /\ wpc \in WorkerPlaces /\ wToken \in Tokens
    /\ wStatus \in PumpStatus /\ wFailed \in BOOLEAN
    /\ wCalls \in 0..MaxCalls /\ session \in BOOLEAN

StopTypeOK == stopPc \in [Threads -> StopPlaces]

HistoryTypeOK ==
    /\ begun \subseteq Tokens /\ published \subseteq Tokens
    /\ delivered \subseteq Tokens /\ refused \subseteq Tokens

\* The ranges of all variables.  A request is on its way only while there is a
\* token left for it.  The coordinator's flags agree with the thread it owns:
\* started exactly while there is one, and in quarantine only while there is
\* one (StartFontPrewarmWorker, ReapFontPrewarmWorker).
TypeOK ==
    /\ CoordTypeOK /\ SlotTypeOK /\ MainTypeOK /\ WorkerTypeOK
    /\ StopTypeOK /\ HistoryTypeOK

\* The request slot belongs to exactly one thread at a time: while the main
\* thread runs the operation it is executing or abandoned and carries that
\* operation's token, and whatever else it holds the worker is waiting for.
\* (MainThreadAtlasRequest, shared by ExecutePrewarmAtlasRequestOnMainThread,
\* ServiceFontPrewarmMainThread and RequestFontPrewarmStop.)
SlotOwnership ==
    /\ reqState \in {"executing", "abandoned"} <=> mpc = "exec"
    /\ mpc = "exec" => reqToken = svcToken
    /\ reqState \in {"queued", "cancelled", "completed"}
         => wpc = "reqWait" /\ wToken = reqToken

\* What RunFontPrewarmLoadingBarrier takes for the end of the work is the end
\* of it: settled with a good status leaves no accepted font undrained, no
\* request for more work, and no prewarm transaction open.
SettledMeansDrained ==
    settled /\ lastStatus \in {"completed", "idle"}
      => pending = {} /\ ~workRequested /\ ~session

\* PrewarmRuntime is rolled back only when no worker can touch it any more:
\* "The worker owns PrewarmRuntime while active" (RunFontPrewarmLoadingBarrier).
RollbackAfterWorker ==
    mpc \in {"rollback", "exitRollback"} => wpc \in {"none", "gone"}

\* The barrier never lets the game continue with a transaction half open:
\* either the worker is joined and nothing is open, or the worker is kept in
\* quarantine and the barrier reports failure; it never reports "active".
BarrierVerdict ==
    mpc = "ended" =>
      /\ status # "active"
      /\ IF worker THEN status = "failed" /\ quarantined ELSE ~session

\* A worker that has left the pump loop does not leave the barrier waiting,
\* unless a font was queued after its failure: that call clears settled and
\* nobody is left to set it again, so only the watchdog ends the barrier.
DeadWorkerReleasesBarrier ==
    wpc \in {"closing", "gone"} /\ ~barrierClosed => settled \/ pending # {}

\* The request slot with its stop and timeouts implements the one-answer,
\* at-most-once service of AtlasRequestService.
Service == INSTANCE AtlasRequestService WITH issued <- nextToken - 1

ImplementsService == Service!Spec

\* Whatever the worker does, hang included, the loading barrier ends: the
\* watchdog and the exit grace bound it (RunFontPrewarmLoadingBarrier).
BarrierEnds == MainFairness => (mpc = "enter" ~> mpc = "ended")

\* Whatever the main thread does, hang included, a stop reaches the worker,
\* and it leaves (FontPrewarmWorkerMain); and a worker waiting for an atlas
\* request is answered: the queue and the execution timeout do not need the
\* main thread.
WorkerReleased ==
    WorkerFairness =>
        /\ stopRequested /\ wpc # "none" ~> wpc = "gone"
        /\ wpc = "reqWait" ~> wpc # "reqWait"
=============================================================================
