---------------------- MODULE PrewarmCoordinatorProofs ----------------------
(***************************************************************************)
(* The safety properties of PrewarmCoordinator, for every set of fonts and *)
(* every bound.  The inductive invariant is stated in parts, one per       *)
(* protocol: the stop, the request slot, the life of the request tokens,   *)
(* the settled flag, and the end of the barrier.                           *)
(***************************************************************************)
EXTENDS PrewarmCoordinator, TLAPS

\* Inside the pump loop, between two decisions about settled.
Pumping == {"check", "drain", "pump", "reqEnter", "reqQueue", "reqWait",
            "publish", "repend"}

\* A stop in progress has already set the flag, and the run control is never
\* stopped without it while a worker exists.
StopInv ==
    /\ \A t \in Threads : stopPc[t] # "out" => stopRequested
    /\ runStopped /\ wpc # "none" => stopRequested
    /\ mpc = "boot" => ~stopRequested /\ ~runStopped

\* The barrier closes before exit is asked for, and what the main thread
\* knows of the worker thread: it owns one from StartWorker to the join.
OwnerInv ==
    /\ exitRequested => barrierClosed
    /\ mpc \in {"shut", "reap", "rollback", "ended", "exitFlag", "exitReap",
                "exitRollback", "exited"} => barrierClosed
    /\ mpc = "boot" => ~barrierClosed /\ wpc = "none" /\ ~worker /\ ~started
    /\ mpc = "enter" /\ ~worker => wpc = "none"
    /\ worker = started
    /\ worker => wpc # "none"
    /\ ~worker => wpc \in {"none", "gone"}
    /\ mpc \in {"rollback", "exitRollback"} => ~worker

\* The slot is the main thread's while it executes, the worker's otherwise;
\* the worker always waits for the token that is in the slot, the newest.
SlotInv ==
    /\ SlotOwnership
    /\ reqState = "executing" => wpc = "reqWait"
    /\ wpc = "reqWait" => wToken = reqToken /\ reqToken > 0
    /\ nextToken = reqToken + 1
    /\ reqToken = 0 => reqState = "idle"

\* Every token but the one being waited for is answered, and what is
\* published is either answered or lies in the slot.
TokenInv ==
    /\ delivered \cup refused =
         (1..nextToken - 1) \ (IF wpc = "reqWait" THEN {wToken} ELSE {})
    /\ begun \subseteq 1..nextToken - 1
    /\ published \subseteq begun
    /\ reqState = "queued" => reqToken \notin begun
    /\ mpc = "exec" => svcToken \in begun /\ svcToken \notin published
    /\ wpc = "reqWait" => (wToken \in published <=> reqState = "completed")

\* settled is false while the worker pumps; when it is true with a good
\* status, nothing is left to do.
SettledInv ==
    /\ wpc \in Pumping => ~settled
    /\ settled => lastStatus # "active"
    /\ wpc = "publish" => session = (wStatus = "active")
    /\ wpc = "none" => ~session
    /\ session /\ wpc \in {"wait", "tail", "leave", "closing", "gone"}
         => stopRequested
    /\ SettledMeansDrained

\* How the worker left, and what the barrier has seen when it ends.
EndInv ==
    /\ wFailed => wpc \in {"tail", "leave", "closing", "gone"}
    /\ wFailed /\ ~barrierClosed => settled \/ pending # {}
    /\ wpc = "leave" => StopSeen \/ exitRequested \/ wFailed
    /\ DeadWorkerReleasesBarrier
    /\ mpc \in {"close", "shut", "reap", "rollback"} => status # "active"
    /\ BarrierVerdict

IInv == StopInv /\ OwnerInv /\ SlotInv /\ TokenInv /\ SettledInv /\ EndInv


-----------------------------------------------------------------------------
(* The groups of variables are only an abbreviation of UNCHANGED, and the  *)
(* slot left by a timeout of the one assignment in RequestTimesOut.        *)

USE DEF coordVars, runVars, reqVars, mainVars, workVars, histVars,
        LeftByTimeout

\* The elements of the enumerations, so that the sets stay opaque below: the
\* results of the pump,
LEMMA PumpStatusElements ==
    /\ "idle" \in PumpStatus /\ "active" \in PumpStatus
    /\ "completed" \in PumpStatus /\ "failed" \in PumpStatus
  BY DEF PumpStatus

\* the states of the request slot,
LEMMA RequestStatesElements ==
    /\ "idle" \in RequestStates /\ "queued" \in RequestStates
    /\ "executing" \in RequestStates /\ "completed" \in RequestStates
    /\ "cancelled" \in RequestStates /\ "abandoned" \in RequestStates
  BY DEF RequestStates

\* the places of the main thread,
LEMMA MainPlacesElements ==
    /\ "boot" \in MainPlaces /\ "enter" \in MainPlaces
    /\ "messages" \in MainPlaces /\ "service" \in MainPlaces
    /\ "peek" \in MainPlaces /\ "claim" \in MainPlaces /\ "exec" \in MainPlaces
    /\ "observe" \in MainPlaces /\ "watch" \in MainPlaces
    /\ "close" \in MainPlaces /\ "shut" \in MainPlaces /\ "reap" \in MainPlaces
    /\ "rollback" \in MainPlaces /\ "ended" \in MainPlaces
    /\ "exitFlag" \in MainPlaces /\ "exitReap" \in MainPlaces
    /\ "exitRollback" \in MainPlaces /\ "exited" \in MainPlaces
  BY DEF MainPlaces

\* of the worker,
LEMMA WorkerPlacesElements ==
    /\ "none" \in WorkerPlaces /\ "wait" \in WorkerPlaces
    /\ "check" \in WorkerPlaces /\ "drain" \in WorkerPlaces
    /\ "pump" \in WorkerPlaces /\ "reqEnter" \in WorkerPlaces
    /\ "reqQueue" \in WorkerPlaces /\ "reqWait" \in WorkerPlaces
    /\ "publish" \in WorkerPlaces /\ "repend" \in WorkerPlaces
    /\ "tail" \in WorkerPlaces /\ "leave" \in WorkerPlaces
    /\ "closing" \in WorkerPlaces /\ "gone" \in WorkerPlaces
  BY DEF WorkerPlaces

\* and of a stop in progress.
LEMMA StopPlacesElements ==
    /\ "out" \in StopPlaces /\ "closeCommit" \in StopPlaces
    /\ "stopRun" \in StopPlaces /\ "slot" \in StopPlaces
  BY DEF StopPlaces

\* Type correctness, one lemma for each group of variables: every action
\* that changes one of them, and all the others at once.
LEMMA CoordTypeOKStep == TypeOK /\ Next => CoordTypeOK'
<1> SUFFICES ASSUME TypeOK, Next PROVE CoordTypeOK'
  OBVIOUS
<1> USE DEF TypeOK, CoordTypeOK
<1>1. CASE StartWorker
  BY <1>1, PumpStatusElements DEF StartWorker, MainAt, WorkerTypeOK
<1>2. CASE StartWorkerFails
  BY <1>2, PumpStatusElements DEF StartWorkerFails, MainAt, WorkerTypeOK
<1>3. CASE EnterBarrier
  BY <1>3 DEF EnterBarrier, MainAt
<1>4. CASE PumpMessages
  BY <1>4 DEF PumpMessages, MainAt, BeginStop
<1>5. CASE BarrierWatch
  BY <1>5 DEF BarrierWatch, MainAt, BeginStop, WithinDeadline
<1>6. CASE BarrierClose
  BY <1>6 DEF BarrierClose, MainAt
<1>7. CASE ReapSignalled
  BY <1>7 DEF ReapSignalled, Joined, MainAt, Signalled, RunCancelled
<1>8. CASE ReapQuit
  BY <1>8 DEF ReapQuit, MainAt, BeginStop
<1>9. CASE ReapTimesOut
  BY <1>9 DEF ReapTimesOut, MainAt, BeginStop
<1>10. CASE ExitRequest
  BY <1>10 DEF ExitRequest, MainAt
<1>11. CASE ExitGame
  BY <1>11 DEF ExitGame, MainAt, BeginStop
<1>12. CASE WorkerWake
  BY <1>12 DEF WorkerWake, WorkerAt, StopSeen, MoreWork
<1>13. CASE DrainPendingFontPrewarms
  BY <1>13 DEF DrainPendingFontPrewarms, WorkerAt
<1>14. CASE PumpRasterFails
  BY <1>14 DEF PumpRasterFails, WorkerAt, BeginStop
<1>15. CASE RequestTimesOut
  BY <1>15 DEF RequestTimesOut, WorkerAt, BeginStop, Refuse, TimedStates
<1>16. CASE WorkerPublish
  BY <1>16, PumpStatusElements
    DEF WorkerPublish, WorkerAt, MoreWork, PumpSettles, WorkerTypeOK
<1>17. CASE WorkerRepend
  BY <1>17 DEF WorkerRepend, WorkerAt
<1>18. CASE WorkerLeave
  BY <1>18, PumpStatusElements
    DEF WorkerLeave, WorkerAt, StopSeen, WorkerTypeOK
<1>19. ASSUME NEW font \in Fonts, QueuePendingFontPrewarm(font)
      PROVE CoordTypeOK'
  BY <1>19 DEF QueuePendingFontPrewarm
<1>20. CASE \/ ServiceCheck \/ ServicePeek \/ ServiceClaim \/ ServiceFinish
            \/ BarrierObserve \/ BarrierCloseCommit \/ ReapNothing
            \/ ShutdownFontPrewarm \/ DeadlinePasses \/ WorkerCheck
            \/ PumpCallsRequest \/ RequestEnter \/ RequestQueue
            \/ RequestResolves \/ WorkerTail \/ WorkerEnds
            \/ (\E result \in PumpStatus : PumpReturns(result))
            \/ (\E t \in Threads : StopCloseCommit(t))
            \/ (\E t \in Threads : StopRun(t))
            \/ (\E t \in Threads : StopSlot(t))
  BY <1>20
    DEF ServiceCheck, MainAt, ServicePeek, ServiceClaim, CanCommit,
        PeekedRequest, ServiceFinish, BarrierObserve, BarrierCloseCommit,
        ReapNothing, ShutdownFontPrewarm, DeadlinePasses, WorkerCheck,
        WorkerAt, StopSeen, PumpCallsRequest, RequestEnter, RequestQueue,
        RequestResolves, Refuse, WorkerTail, WorkerEnds, PumpReturns,
        StopCloseCommit, StopRun, StopSlot, SlotAfterStop
<1>21. QED
  BY <1>1, <1>2, <1>3, <1>4, <1>5, <1>6, <1>7, <1>8, <1>9, <1>10, <1>11, <1>12,
      <1>13, <1>14, <1>15, <1>16, <1>17, <1>18, <1>19, <1>20
    DEF Next, MainStep, BarrierStep, WorkerStep, StopStep, Threads

\* The token counter stays within its bound.
LEMMA SlotTypeOKStep == TypeOK /\ Next => SlotTypeOK'
<1> SUFFICES ASSUME TypeOK, Next PROVE SlotTypeOK'
  OBVIOUS
<1> USE DEF TypeOK, SlotTypeOK
<1>1. CASE StartWorker
  BY <1>1 DEF StartWorker, MainAt, Tokens
<1>2. CASE StartWorkerFails
  BY <1>2 DEF StartWorkerFails, MainAt, Tokens
<1>3. CASE ServiceClaim
  BY <1>3, RequestStatesElements
    DEF ServiceClaim, MainAt, CanCommit, PeekedRequest, Tokens
<1>4. CASE ServiceFinish
  BY <1>4, RequestStatesElements DEF ServiceFinish, MainAt, CanCommit, Tokens
<1>5. CASE BarrierCloseCommit
  BY <1>5 DEF BarrierCloseCommit, MainAt, Tokens
<1>6. CASE PumpCallsRequest
  BY <1>6, WorkerPlacesElements, BoundsAssumption
    DEF PumpCallsRequest, WorkerAt, Tokens
<1>7. CASE RequestEnter
  BY <1>7, WorkerPlacesElements DEF RequestEnter, WorkerAt, CanCommit, Tokens
<1>8. CASE RequestQueue
  BY <1>8, RequestStatesElements, BoundsAssumption
    DEF RequestQueue, WorkerAt, Tokens
<1>9. CASE RequestTimesOut
  BY <1>9, RequestStatesElements
    DEF RequestTimesOut, WorkerAt, BeginStop, Refuse, TimedStates, Tokens
<1>10. CASE RequestResolves
  BY <1>10, RequestStatesElements DEF RequestResolves, WorkerAt, Refuse, Tokens
<1>11. ASSUME NEW t \in Threads, StopCloseCommit(t) PROVE SlotTypeOK'
  BY <1>11 DEF StopCloseCommit, Tokens
<1>12. ASSUME NEW t \in Threads, StopRun(t) PROVE SlotTypeOK'
  BY <1>12 DEF StopRun, Tokens
<1>13. ASSUME NEW t \in Threads, StopSlot(t) PROVE SlotTypeOK'
  BY <1>13, RequestStatesElements DEF StopSlot, SlotAfterStop, Tokens
<1>14. CASE \/ EnterBarrier \/ PumpMessages \/ ServiceCheck \/ ServicePeek
            \/ BarrierObserve \/ BarrierWatch \/ BarrierClose \/ ReapSignalled
            \/ ReapQuit \/ ReapTimesOut \/ ReapNothing \/ ShutdownFontPrewarm
            \/ ExitRequest \/ ExitGame \/ DeadlinePasses \/ WorkerWake
            \/ WorkerCheck \/ DrainPendingFontPrewarms \/ PumpRasterFails
            \/ WorkerPublish \/ WorkerRepend \/ WorkerTail \/ WorkerLeave
            \/ WorkerEnds
            \/ (\E font \in Fonts : QueuePendingFontPrewarm(font))
            \/ (\E result \in PumpStatus : PumpReturns(result))
  BY <1>14
    DEF EnterBarrier, MainAt, PumpMessages, BeginStop, ServiceCheck,
        ServicePeek, BarrierObserve, BarrierWatch, WithinDeadline,
        BarrierClose, ReapSignalled, Joined, Signalled, RunCancelled, ReapQuit,
        ReapTimesOut, ReapNothing, ShutdownFontPrewarm, ExitRequest, ExitGame,
        DeadlinePasses, WorkerWake, WorkerAt, StopSeen, MoreWork, WorkerCheck,
        DrainPendingFontPrewarms, PumpRasterFails, WorkerPublish, PumpSettles,
        WorkerRepend, WorkerTail, WorkerLeave, WorkerEnds,
        QueuePendingFontPrewarm, PumpReturns
<1>15. QED
  BY <1>1, <1>2, <1>3, <1>4, <1>5, <1>6, <1>7, <1>8, <1>9, <1>10, <1>11, <1>12,
      <1>13, <1>14
    DEF Next, MainStep, BarrierStep, WorkerStep, StopStep, Threads

\* The main thread's place and locals.
LEMMA MainTypeOKStep == TypeOK /\ Next => MainTypeOK'
<1> SUFFICES ASSUME TypeOK, Next PROVE MainTypeOK'
  OBVIOUS
<1> USE DEF TypeOK, MainTypeOK
<1>1. CASE StartWorker
  BY <1>1, MainPlacesElements DEF StartWorker, MainAt
<1>2. CASE StartWorkerFails
  BY <1>2, MainPlacesElements DEF StartWorkerFails, MainAt
<1>3. CASE EnterBarrier
  BY <1>3, MainPlacesElements, PumpStatusElements
    DEF EnterBarrier, MainAt, CoordTypeOK
<1>4. CASE PumpMessages
  BY <1>4, MainPlacesElements DEF PumpMessages, MainAt, BeginStop
<1>5. CASE ServiceCheck
  BY <1>5, MainPlacesElements DEF ServiceCheck, MainAt
<1>6. CASE ServicePeek
  BY <1>6, MainPlacesElements, BoundsAssumption
    DEF ServicePeek, MainAt, SlotTypeOK
<1>7. CASE ServiceClaim
  BY <1>7, MainPlacesElements
    DEF ServiceClaim, MainAt, CanCommit, PeekedRequest
<1>8. CASE ServiceFinish
  BY <1>8, MainPlacesElements DEF ServiceFinish, MainAt, CanCommit
<1>9. CASE BarrierObserve
  BY <1>9, MainPlacesElements, PumpStatusElements
    DEF BarrierObserve, MainAt, CoordTypeOK
<1>10. CASE BarrierWatch
  BY <1>10, MainPlacesElements, PumpStatusElements
    DEF BarrierWatch, MainAt, BeginStop, WithinDeadline, CoordTypeOK
<1>11. CASE BarrierClose
  BY <1>11, MainPlacesElements DEF BarrierClose, MainAt
<1>12. CASE BarrierCloseCommit
  BY <1>12, MainPlacesElements DEF BarrierCloseCommit, MainAt
<1>13. CASE ReapSignalled
  BY <1>13, MainPlacesElements
    DEF ReapSignalled, Joined, MainAt, Signalled, RunCancelled
<1>14. CASE ReapQuit
  BY <1>14 DEF ReapQuit, MainAt, BeginStop
<1>15. CASE ReapTimesOut
  BY <1>15, MainPlacesElements, PumpStatusElements
    DEF ReapTimesOut, MainAt, BeginStop, CoordTypeOK
<1>16. CASE ReapNothing
  BY <1>16, MainPlacesElements DEF ReapNothing, MainAt
<1>17. CASE ShutdownFontPrewarm
  BY <1>17, MainPlacesElements DEF ShutdownFontPrewarm, MainAt
<1>18. CASE ExitRequest
  BY <1>18, MainPlacesElements DEF ExitRequest, MainAt
<1>19. CASE ExitGame
  BY <1>19, MainPlacesElements DEF ExitGame, MainAt, BeginStop
<1>20. CASE DeadlinePasses
  BY <1>20 DEF DeadlinePasses
<1>21. CASE \/ WorkerWake \/ WorkerCheck \/ DrainPendingFontPrewarms
            \/ PumpCallsRequest \/ PumpRasterFails \/ RequestEnter
            \/ RequestQueue \/ RequestTimesOut \/ RequestResolves
            \/ WorkerPublish \/ WorkerRepend \/ WorkerTail \/ WorkerLeave
            \/ WorkerEnds
            \/ (\E font \in Fonts : QueuePendingFontPrewarm(font))
            \/ (\E result \in PumpStatus : PumpReturns(result))
            \/ (\E t \in Threads : StopCloseCommit(t))
            \/ (\E t \in Threads : StopRun(t))
            \/ (\E t \in Threads : StopSlot(t))
  BY <1>21
    DEF WorkerWake, WorkerAt, StopSeen, MoreWork, WorkerCheck,
        DrainPendingFontPrewarms, PumpCallsRequest, PumpRasterFails, BeginStop,
        RequestEnter, CanCommit, RequestQueue, RequestTimesOut, Refuse,
        TimedStates, RequestResolves, WorkerPublish, PumpSettles, WorkerRepend,
        WorkerTail, WorkerLeave, WorkerEnds, QueuePendingFontPrewarm,
        PumpReturns, StopCloseCommit, StopRun, StopSlot, SlotAfterStop
<1>22. QED
  BY <1>1, <1>2, <1>3, <1>4, <1>5, <1>6, <1>7, <1>8, <1>9, <1>10, <1>11, <1>12,
      <1>13, <1>14, <1>15, <1>16, <1>17, <1>18, <1>19, <1>20, <1>21
    DEF Next, MainStep, BarrierStep, WorkerStep, StopStep, Threads

\* The worker's place and locals.
LEMMA WorkerTypeOKStep == TypeOK /\ Next => WorkerTypeOK'
<1> SUFFICES ASSUME TypeOK, Next PROVE WorkerTypeOK'
  OBVIOUS
<1> USE DEF TypeOK, WorkerTypeOK
<1>1. CASE StartWorker
  BY <1>1, WorkerPlacesElements DEF StartWorker, MainAt
<1>2. CASE ShutdownFontPrewarm
  BY <1>2 DEF ShutdownFontPrewarm, MainAt
<1>3. CASE WorkerWake
  BY <1>3, WorkerPlacesElements DEF WorkerWake, WorkerAt, StopSeen, MoreWork
<1>4. CASE WorkerCheck
  BY <1>4, WorkerPlacesElements DEF WorkerCheck, WorkerAt, StopSeen
<1>5. CASE DrainPendingFontPrewarms
  BY <1>5, WorkerPlacesElements, BoundsAssumption
    DEF DrainPendingFontPrewarms, WorkerAt
<1>6. CASE PumpCallsRequest
  BY <1>6, WorkerPlacesElements, BoundsAssumption
    DEF PumpCallsRequest, WorkerAt
<1>7. CASE RequestEnter
  BY <1>7, WorkerPlacesElements DEF RequestEnter, WorkerAt, CanCommit
<1>8. CASE RequestQueue
  BY <1>8, WorkerPlacesElements, BoundsAssumption
    DEF RequestQueue, WorkerAt, SlotTypeOK
<1>9. CASE RequestTimesOut
  BY <1>9, WorkerPlacesElements
    DEF RequestTimesOut, WorkerAt, BeginStop, Refuse, TimedStates
<1>10. CASE RequestResolves
  BY <1>10, WorkerPlacesElements DEF RequestResolves, WorkerAt, Refuse
<1>11. CASE WorkerPublish
  BY <1>11, WorkerPlacesElements
    DEF WorkerPublish, WorkerAt, MoreWork, PumpSettles
<1>12. CASE WorkerRepend
  BY <1>12, WorkerPlacesElements DEF WorkerRepend, WorkerAt
<1>13. CASE WorkerTail
  BY <1>13, WorkerPlacesElements DEF WorkerTail, WorkerAt, StopSeen
<1>14. CASE WorkerLeave
  BY <1>14, WorkerPlacesElements DEF WorkerLeave, WorkerAt, StopSeen
<1>15. CASE WorkerEnds
  BY <1>15, WorkerPlacesElements DEF WorkerEnds, WorkerAt
<1>16. ASSUME NEW result \in PumpStatus, PumpReturns(result)
      PROVE WorkerTypeOK'
  BY <1>16, PumpStatusElements, WorkerPlacesElements DEF PumpReturns, WorkerAt
<1>17. CASE \/ StartWorkerFails \/ EnterBarrier \/ PumpMessages \/ ServiceCheck
            \/ ServicePeek \/ ServiceClaim \/ ServiceFinish \/ BarrierObserve
            \/ BarrierWatch \/ BarrierClose \/ BarrierCloseCommit
            \/ ReapSignalled \/ ReapQuit \/ ReapTimesOut \/ ReapNothing
            \/ ExitRequest \/ ExitGame \/ DeadlinePasses \/ PumpRasterFails
            \/ (\E font \in Fonts : QueuePendingFontPrewarm(font))
            \/ (\E t \in Threads : StopCloseCommit(t))
            \/ (\E t \in Threads : StopRun(t))
            \/ (\E t \in Threads : StopSlot(t))
  BY <1>17
    DEF StartWorkerFails, MainAt, EnterBarrier, PumpMessages, BeginStop,
        ServiceCheck, ServicePeek, ServiceClaim, CanCommit, PeekedRequest,
        ServiceFinish, BarrierObserve, BarrierWatch, WithinDeadline,
        BarrierClose, BarrierCloseCommit, ReapSignalled, Joined, Signalled,
        RunCancelled, ReapQuit, ReapTimesOut, ReapNothing, ExitRequest,
        ExitGame, DeadlinePasses, PumpRasterFails, WorkerAt,
        QueuePendingFontPrewarm, StopCloseCommit, StopRun, StopSlot,
        SlotAfterStop
<1>18. QED
  BY <1>1, <1>2, <1>3, <1>4, <1>5, <1>6, <1>7, <1>8, <1>9, <1>10, <1>11, <1>12,
      <1>13, <1>14, <1>15, <1>16, <1>17
    DEF Next, MainStep, BarrierStep, WorkerStep, StopStep, Threads

\* The progress of a stop in each thread.
LEMMA StopTypeOKStep == TypeOK /\ Next => StopTypeOK'
<1> SUFFICES ASSUME TypeOK, Next PROVE StopTypeOK'
  OBVIOUS
<1> USE DEF TypeOK, StopTypeOK
<1>1. CASE PumpMessages
  BY <1>1, StopPlacesElements DEF PumpMessages, MainAt, BeginStop, Threads
<1>2. CASE BarrierWatch
  BY <1>2, StopPlacesElements
    DEF BarrierWatch, MainAt, BeginStop, WithinDeadline, Threads
<1>3. CASE ReapQuit
  BY <1>3, StopPlacesElements DEF ReapQuit, MainAt, BeginStop, Threads
<1>4. CASE ReapTimesOut
  BY <1>4, StopPlacesElements DEF ReapTimesOut, MainAt, BeginStop, Threads
<1>5. CASE ExitGame
  BY <1>5, StopPlacesElements DEF ExitGame, MainAt, BeginStop, Threads
<1>6. CASE PumpRasterFails
  BY <1>6, StopPlacesElements DEF PumpRasterFails, WorkerAt, BeginStop, Threads
<1>7. CASE RequestTimesOut
  BY <1>7, StopPlacesElements
    DEF RequestTimesOut, WorkerAt, BeginStop, Refuse, TimedStates, Threads
<1>8. ASSUME NEW t \in Threads, StopCloseCommit(t) PROVE StopTypeOK'
  BY <1>8, StopPlacesElements DEF StopCloseCommit, Threads
<1>9. ASSUME NEW t \in Threads, StopRun(t) PROVE StopTypeOK'
  BY <1>9, StopPlacesElements DEF StopRun, Threads
<1>10. ASSUME NEW t \in Threads, StopSlot(t) PROVE StopTypeOK'
  BY <1>10, StopPlacesElements DEF StopSlot, SlotAfterStop, Threads
<1>11. CASE \/ StartWorker \/ StartWorkerFails \/ EnterBarrier \/ ServiceCheck
            \/ ServicePeek \/ ServiceClaim \/ ServiceFinish \/ BarrierObserve
            \/ BarrierClose \/ BarrierCloseCommit \/ ReapSignalled
            \/ ReapNothing \/ ShutdownFontPrewarm \/ ExitRequest
            \/ DeadlinePasses \/ WorkerWake \/ WorkerCheck
            \/ DrainPendingFontPrewarms \/ PumpCallsRequest \/ RequestEnter
            \/ RequestQueue \/ RequestResolves \/ WorkerPublish \/ WorkerRepend
            \/ WorkerTail \/ WorkerLeave \/ WorkerEnds
            \/ (\E font \in Fonts : QueuePendingFontPrewarm(font))
            \/ (\E result \in PumpStatus : PumpReturns(result))
  BY <1>11
    DEF StartWorker, MainAt, StartWorkerFails, EnterBarrier, ServiceCheck,
        ServicePeek, ServiceClaim, CanCommit, PeekedRequest, ServiceFinish,
        BarrierObserve, BarrierClose, BarrierCloseCommit, ReapSignalled, Joined,
        Signalled, RunCancelled, ReapNothing, ShutdownFontPrewarm, ExitRequest,
        DeadlinePasses, WorkerWake, WorkerAt, StopSeen, MoreWork, WorkerCheck,
        DrainPendingFontPrewarms, PumpCallsRequest, RequestEnter, RequestQueue,
        RequestResolves, Refuse, WorkerPublish, PumpSettles, WorkerRepend,
        WorkerTail, WorkerLeave, WorkerEnds, QueuePendingFontPrewarm,
        PumpReturns
<1>12. QED
  BY <1>1, <1>2, <1>3, <1>4, <1>5, <1>6, <1>7, <1>8, <1>9, <1>10, <1>11
    DEF Next, MainStep, BarrierStep, WorkerStep, StopStep, Threads

\* The histories hold tokens.
LEMMA HistoryTypeOKStep == TypeOK /\ Next => HistoryTypeOK'
<1> SUFFICES ASSUME TypeOK, Next PROVE HistoryTypeOK'
  OBVIOUS
<1> USE DEF TypeOK, HistoryTypeOK
<1>1. CASE ServiceClaim
  BY <1>1
    DEF ServiceClaim, MainAt, CanCommit, PeekedRequest, MainTypeOK,
        WorkerTypeOK
<1>2. CASE ServiceFinish
  BY <1>2 DEF ServiceFinish, MainAt, CanCommit, MainTypeOK, WorkerTypeOK
<1>3. CASE RequestTimesOut
  BY <1>3
    DEF RequestTimesOut, WorkerAt, BeginStop, Refuse, TimedStates, MainTypeOK,
        WorkerTypeOK
<1>4. CASE RequestResolves
  BY <1>4 DEF RequestResolves, WorkerAt, Refuse, MainTypeOK, WorkerTypeOK
<1>5. CASE \/ StartWorker \/ StartWorkerFails \/ EnterBarrier \/ PumpMessages
           \/ ServiceCheck \/ ServicePeek \/ BarrierObserve \/ BarrierWatch
           \/ BarrierClose \/ BarrierCloseCommit \/ ReapSignalled \/ ReapQuit
           \/ ReapTimesOut \/ ReapNothing \/ ShutdownFontPrewarm \/ ExitRequest
           \/ ExitGame \/ DeadlinePasses \/ WorkerWake \/ WorkerCheck
           \/ DrainPendingFontPrewarms \/ PumpCallsRequest \/ PumpRasterFails
           \/ RequestEnter \/ RequestQueue \/ WorkerPublish \/ WorkerRepend
           \/ WorkerTail \/ WorkerLeave \/ WorkerEnds
           \/ (\E font \in Fonts : QueuePendingFontPrewarm(font))
           \/ (\E result \in PumpStatus : PumpReturns(result))
           \/ (\E t \in Threads : StopCloseCommit(t))
           \/ (\E t \in Threads : StopRun(t))
           \/ (\E t \in Threads : StopSlot(t))
  BY <1>5
    DEF StartWorker, MainAt, StartWorkerFails, EnterBarrier, PumpMessages,
        BeginStop, ServiceCheck, ServicePeek, BarrierObserve, BarrierWatch,
        WithinDeadline, BarrierClose, BarrierCloseCommit, ReapSignalled, Joined,
        Signalled, RunCancelled, ReapQuit, ReapTimesOut, ReapNothing,
        ShutdownFontPrewarm, ExitRequest, ExitGame, DeadlinePasses, WorkerWake,
        WorkerAt, StopSeen, MoreWork, WorkerCheck, DrainPendingFontPrewarms,
        PumpCallsRequest, PumpRasterFails, RequestEnter, CanCommit,
        RequestQueue, WorkerPublish, PumpSettles, WorkerRepend, WorkerTail,
        WorkerLeave, WorkerEnds, QueuePendingFontPrewarm, PumpReturns,
        StopCloseCommit, StopRun, StopSlot, SlotAfterStop
<1>6. QED
  BY <1>1, <1>2, <1>3, <1>4, <1>5
    DEF Next, MainStep, BarrierStep, WorkerStep, StopStep, Threads

\* A stop sets the flag before anything else and nothing takes it back.
LEMMA StopInvStep == TypeOK /\ IInv /\ Next => StopInv'
<1> SUFFICES ASSUME TypeOK, IInv, Next PROVE StopInv'
  OBVIOUS
<1> USE DEF IInv, StopInv, Threads
<1>1. CASE StartWorkerFails
  BY <1>1 DEF StartWorkerFails, MainAt, OwnerInv
<1>2. CASE PumpMessages
  BY <1>2 DEF PumpMessages, MainAt, BeginStop
<1>3. CASE BarrierWatch
  BY <1>3 DEF BarrierWatch, MainAt, BeginStop, WithinDeadline
<1>4. CASE ReapQuit
  BY <1>4 DEF ReapQuit, MainAt, BeginStop
<1>5. CASE ReapTimesOut
  BY <1>5 DEF ReapTimesOut, MainAt, BeginStop
<1>6. CASE ExitGame
  BY <1>6 DEF ExitGame, MainAt, BeginStop
<1>7. CASE PumpRasterFails
  BY <1>7 DEF PumpRasterFails, WorkerAt, BeginStop, OwnerInv
<1>8. CASE RequestTimesOut
  BY <1>8
    DEF RequestTimesOut, WorkerAt, BeginStop, Refuse, TimedStates, OwnerInv
<1>9. ASSUME NEW t \in Threads, StopCloseCommit(t) PROVE StopInv'
  BY <1>9 DEF StopCloseCommit
<1>10. ASSUME NEW t \in Threads, StopRun(t) PROVE StopInv'
  BY <1>10 DEF StopRun
<1>11. ASSUME NEW t \in Threads, StopSlot(t) PROVE StopInv'
  BY <1>11 DEF StopSlot, SlotAfterStop
<1>12. CASE \/ StartWorker \/ EnterBarrier \/ ServiceCheck \/ ServicePeek
            \/ ServiceClaim \/ ServiceFinish \/ BarrierObserve \/ BarrierClose
            \/ BarrierCloseCommit \/ ReapSignalled \/ ReapNothing
            \/ ShutdownFontPrewarm \/ ExitRequest \/ DeadlinePasses
  BY <1>12
    DEF StartWorker, MainAt, EnterBarrier, ServiceCheck, ServicePeek,
        ServiceClaim, CanCommit, PeekedRequest, ServiceFinish, BarrierObserve,
        BarrierClose, BarrierCloseCommit, ReapSignalled, Joined, Signalled,
        RunCancelled, ReapNothing, ShutdownFontPrewarm, ExitRequest,
        DeadlinePasses
<1>13. CASE \/ WorkerWake \/ WorkerCheck \/ DrainPendingFontPrewarms
            \/ PumpCallsRequest \/ RequestEnter \/ RequestQueue
            \/ RequestResolves \/ WorkerPublish \/ WorkerRepend \/ WorkerTail
            \/ WorkerLeave \/ WorkerEnds
            \/ (\E font \in Fonts : QueuePendingFontPrewarm(font))
            \/ (\E result \in PumpStatus : PumpReturns(result))
  BY <1>13
    DEF WorkerWake, WorkerAt, StopSeen, MoreWork, WorkerCheck,
        DrainPendingFontPrewarms, PumpCallsRequest, RequestEnter, CanCommit,
        RequestQueue, RequestResolves, Refuse, WorkerPublish, PumpSettles,
        WorkerRepend, WorkerTail, WorkerLeave, WorkerEnds,
        QueuePendingFontPrewarm, PumpReturns
<1> HIDE DEF StopInv
<1>14. QED
  BY <1>1, <1>2, <1>3, <1>4, <1>5, <1>6, <1>7, <1>8, <1>9, <1>10, <1>11, <1>12,
      <1>13
    DEF Next, MainStep, BarrierStep, WorkerStep, StopStep, Threads

\* The main thread owns a worker from StartWorker until the join.
LEMMA OwnerInvStep == TypeOK /\ IInv /\ Next => OwnerInv'
<1> SUFFICES ASSUME TypeOK, IInv, Next PROVE OwnerInv'
  OBVIOUS
<1> USE DEF IInv, OwnerInv
<1>1. CASE StartWorker
  BY <1>1 DEF StartWorker, MainAt
<1>2. CASE StartWorkerFails
  BY <1>2 DEF StartWorkerFails, MainAt
<1>3. CASE EnterBarrier
  BY <1>3 DEF EnterBarrier, MainAt
<1>4. CASE BarrierClose
  BY <1>4 DEF BarrierClose, MainAt
<1>5. CASE ReapSignalled
  BY <1>5 DEF ReapSignalled, Joined, MainAt, Signalled, RunCancelled
<1>6. CASE ExitRequest
  BY <1>6 DEF ExitRequest, MainAt
<1>7. CASE \/ PumpMessages \/ ServiceCheck \/ ServicePeek \/ ServiceClaim
           \/ ServiceFinish \/ BarrierObserve \/ BarrierWatch
           \/ BarrierCloseCommit \/ ReapQuit \/ ReapTimesOut \/ ReapNothing
           \/ ShutdownFontPrewarm \/ ExitGame \/ DeadlinePasses
  BY <1>7
    DEF PumpMessages, MainAt, BeginStop, ServiceCheck, ServicePeek,
        ServiceClaim, CanCommit, PeekedRequest, ServiceFinish, BarrierObserve,
        BarrierWatch, WithinDeadline, BarrierCloseCommit, ReapQuit,
        ReapTimesOut, ReapNothing, ShutdownFontPrewarm, ExitGame,
        DeadlinePasses
<1>8. CASE \/ WorkerWake \/ WorkerCheck \/ DrainPendingFontPrewarms
           \/ PumpCallsRequest \/ PumpRasterFails \/ RequestEnter
           \/ RequestQueue \/ RequestTimesOut \/ RequestResolves
           \/ WorkerPublish \/ WorkerRepend \/ WorkerTail \/ WorkerLeave
           \/ WorkerEnds \/ (\E font \in Fonts : QueuePendingFontPrewarm(font))
           \/ (\E result \in PumpStatus : PumpReturns(result))
           \/ (\E t \in Threads : StopCloseCommit(t))
           \/ (\E t \in Threads : StopRun(t))
           \/ (\E t \in Threads : StopSlot(t))
  BY <1>8
    DEF WorkerWake, WorkerAt, StopSeen, MoreWork, WorkerCheck,
        DrainPendingFontPrewarms, PumpCallsRequest, PumpRasterFails, BeginStop,
        RequestEnter, CanCommit, RequestQueue, RequestTimesOut, Refuse,
        TimedStates, RequestResolves, WorkerPublish, PumpSettles, WorkerRepend,
        WorkerTail, WorkerLeave, WorkerEnds, QueuePendingFontPrewarm,
        PumpReturns, StopCloseCommit, StopRun, StopSlot, SlotAfterStop
<1> HIDE DEF OwnerInv
<1>9. QED
  BY <1>1, <1>2, <1>3, <1>4, <1>5, <1>6, <1>7, <1>8
    DEF Next, MainStep, BarrierStep, WorkerStep, StopStep, Threads

\* The request slot: its state, its token and the thread that holds it.
LEMMA SlotInvStep == TypeOK /\ IInv /\ Next => SlotInv'
<1> SUFFICES ASSUME TypeOK, IInv, Next PROVE SlotInv'
  OBVIOUS
<1> USE DEF IInv, SlotInv, SlotOwnership
<1>1. CASE ServicePeek
  BY <1>1 DEF ServicePeek, MainAt
<1>2. CASE ServiceClaim
  BY <1>2 DEF ServiceClaim, MainAt, CanCommit, PeekedRequest
<1>3. CASE ServiceFinish
  BY <1>3 DEF ServiceFinish, MainAt, CanCommit
<1>4. CASE RequestQueue
  BY <1>4, BoundsAssumption DEF RequestQueue, WorkerAt, TypeOK, SlotTypeOK
<1>5. CASE RequestTimesOut
  BY <1>5 DEF RequestTimesOut, WorkerAt, BeginStop, Refuse, TimedStates
<1>6. CASE RequestResolves
  BY <1>6 DEF RequestResolves, WorkerAt, Refuse
<1>7. ASSUME NEW t \in Threads, StopSlot(t) PROVE SlotInv'
  BY <1>7 DEF StopSlot, SlotAfterStop
<1>8. CASE \/ StartWorker \/ StartWorkerFails \/ EnterBarrier \/ PumpMessages
           \/ ServiceCheck \/ BarrierObserve \/ BarrierWatch \/ BarrierClose
           \/ BarrierCloseCommit \/ ReapSignalled \/ ReapQuit \/ ReapTimesOut
           \/ ReapNothing \/ ShutdownFontPrewarm \/ ExitRequest \/ ExitGame
           \/ DeadlinePasses
  BY <1>8
    DEF OwnerInv, StartWorker, MainAt, StartWorkerFails, EnterBarrier,
        PumpMessages, BeginStop, ServiceCheck, BarrierObserve, BarrierWatch,
        WithinDeadline, BarrierClose, BarrierCloseCommit, ReapSignalled, Joined,
        Signalled, RunCancelled, ReapQuit, ReapTimesOut, ReapNothing,
        ShutdownFontPrewarm, ExitRequest, ExitGame, DeadlinePasses
<1>9. CASE \/ WorkerWake \/ WorkerCheck \/ DrainPendingFontPrewarms
           \/ PumpCallsRequest \/ PumpRasterFails \/ RequestEnter
           \/ WorkerPublish \/ WorkerRepend \/ WorkerTail \/ WorkerLeave
           \/ WorkerEnds \/ (\E font \in Fonts : QueuePendingFontPrewarm(font))
           \/ (\E result \in PumpStatus : PumpReturns(result))
           \/ (\E t \in Threads : StopCloseCommit(t))
           \/ (\E t \in Threads : StopRun(t))
  BY <1>9
    DEF OwnerInv, WorkerWake, WorkerAt, StopSeen, MoreWork, WorkerCheck,
        DrainPendingFontPrewarms, PumpCallsRequest, PumpRasterFails, BeginStop,
        RequestEnter, CanCommit, WorkerPublish, PumpSettles, WorkerRepend,
        WorkerTail, WorkerLeave, WorkerEnds, QueuePendingFontPrewarm,
        PumpReturns, StopCloseCommit, StopRun
<1> HIDE DEF SlotInv, SlotOwnership
<1>10. QED
  BY <1>1, <1>2, <1>3, <1>4, <1>5, <1>6, <1>7, <1>8, <1>9
    DEF Next, MainStep, BarrierStep, WorkerStep, StopStep, Threads

\* settled is only true when the worker has nothing in hand.
LEMMA SettledInvStep == TypeOK /\ IInv /\ Next => SettledInv'
<1> SUFFICES ASSUME TypeOK, IInv, Next PROVE SettledInv'
  OBVIOUS
<1> USE DEF IInv, SettledInv, Pumping, SettledMeansDrained
<1>1. CASE StartWorker
  BY <1>1 DEF StartWorker, MainAt, OwnerInv
<1>2. CASE StartWorkerFails
  BY <1>2 DEF StartWorkerFails, MainAt, OwnerInv
<1>3. CASE PumpMessages
  BY <1>3 DEF PumpMessages, MainAt, BeginStop
<1>4. CASE BarrierWatch
  BY <1>4 DEF BarrierWatch, MainAt, BeginStop, WithinDeadline
<1>5. CASE ReapQuit
  BY <1>5 DEF ReapQuit, MainAt, BeginStop
<1>6. CASE ReapTimesOut
  BY <1>6 DEF ReapTimesOut, MainAt, BeginStop
<1>7. CASE ShutdownFontPrewarm
  BY <1>7 DEF ShutdownFontPrewarm, MainAt, OwnerInv
<1>8. CASE ExitGame
  BY <1>8 DEF ExitGame, MainAt, BeginStop
<1>9. CASE WorkerWake
  BY <1>9 DEF WorkerWake, WorkerAt, StopSeen, MoreWork
<1>10. CASE DrainPendingFontPrewarms
  BY <1>10 DEF DrainPendingFontPrewarms, WorkerAt
<1>11. CASE PumpRasterFails
  BY <1>11 DEF PumpRasterFails, WorkerAt, BeginStop
<1>12. CASE RequestTimesOut
  BY <1>12 DEF RequestTimesOut, WorkerAt, BeginStop, Refuse, TimedStates
<1>13. CASE WorkerPublish
  BY <1>13 DEF WorkerPublish, WorkerAt, MoreWork, PumpSettles
<1>14. CASE WorkerRepend
  BY <1>14 DEF WorkerRepend, WorkerAt
<1>15. CASE WorkerLeave
  BY <1>15 DEF WorkerLeave, WorkerAt, StopSeen
<1>16. ASSUME NEW font \in Fonts, QueuePendingFontPrewarm(font)
      PROVE SettledInv'
  BY <1>16 DEF QueuePendingFontPrewarm
<1>17. ASSUME NEW result \in PumpStatus, PumpReturns(result) PROVE SettledInv'
  BY <1>17 DEF PumpReturns, WorkerAt
<1>18. CASE \/ EnterBarrier \/ ServiceCheck \/ ServicePeek \/ ServiceClaim
            \/ ServiceFinish \/ BarrierObserve \/ BarrierClose
            \/ BarrierCloseCommit \/ ReapSignalled \/ ReapNothing
            \/ ExitRequest \/ DeadlinePasses
  BY <1>18
    DEF StopInv, EnterBarrier, MainAt, ServiceCheck, ServicePeek, ServiceClaim,
        CanCommit, PeekedRequest, ServiceFinish, BarrierObserve, BarrierClose,
        BarrierCloseCommit, ReapSignalled, Joined, Signalled, RunCancelled,
        ReapNothing, ExitRequest, DeadlinePasses
<1>19. CASE \/ WorkerCheck \/ PumpCallsRequest \/ RequestEnter \/ RequestQueue
            \/ RequestResolves \/ WorkerTail \/ WorkerEnds
            \/ (\E t \in Threads : StopCloseCommit(t))
            \/ (\E t \in Threads : StopRun(t))
            \/ (\E t \in Threads : StopSlot(t))
  BY <1>19
    DEF StopInv, WorkerCheck, WorkerAt, StopSeen, PumpCallsRequest,
        RequestEnter, CanCommit, RequestQueue, RequestResolves, Refuse,
        WorkerTail, WorkerEnds, StopCloseCommit, StopRun, StopSlot,
        SlotAfterStop
<1> HIDE DEF SettledInv, Pumping, SettledMeansDrained
<1>20. QED
  BY <1>1, <1>2, <1>3, <1>4, <1>5, <1>6, <1>7, <1>8, <1>9, <1>10, <1>11, <1>12,
      <1>13, <1>14, <1>15, <1>16, <1>17, <1>18, <1>19
    DEF Next, MainStep, BarrierStep, WorkerStep, StopStep, Threads

\* How the worker leaves and the barrier ends.
LEMMA EndInvStep == TypeOK /\ IInv /\ Next => EndInv'
<1> SUFFICES ASSUME TypeOK, IInv, Next PROVE EndInv'
  OBVIOUS
<1> USE DEF IInv, EndInv, BarrierVerdict, DeadWorkerReleasesBarrier, StopSeen
<1>1. CASE StartWorker
  BY <1>1 DEF StartWorker, MainAt, OwnerInv
<1>2. CASE StartWorkerFails
  BY <1>2 DEF StartWorkerFails, MainAt
<1>3. CASE EnterBarrier
  BY <1>3 DEF EnterBarrier, MainAt, OwnerInv, SettledInv
<1>4. CASE PumpMessages
  BY <1>4 DEF PumpMessages, MainAt, BeginStop
<1>5. CASE BarrierObserve
  BY <1>5 DEF BarrierObserve, MainAt, SettledInv
<1>6. CASE BarrierWatch
  BY <1>6 DEF BarrierWatch, MainAt, BeginStop, WithinDeadline
<1>7. CASE BarrierClose
  BY <1>7 DEF BarrierClose, MainAt
<1>8. CASE ReapSignalled
  BY <1>8
    DEF ReapSignalled, Joined, MainAt, Signalled, RunCancelled, OwnerInv, SettledInv
<1>9. CASE ReapQuit
  BY <1>9 DEF ReapQuit, MainAt, BeginStop
<1>10. CASE ReapTimesOut
  BY <1>10 DEF ReapTimesOut, MainAt, BeginStop
<1>11. CASE ShutdownFontPrewarm
  BY <1>11 DEF ShutdownFontPrewarm, MainAt, OwnerInv
<1>12. CASE ExitRequest
  BY <1>12 DEF ExitRequest, MainAt
<1>13. CASE ExitGame
  BY <1>13 DEF ExitGame, MainAt, BeginStop
<1>14. CASE WorkerWake
  BY <1>14 DEF WorkerWake, WorkerAt, MoreWork
<1>15. CASE DrainPendingFontPrewarms
  BY <1>15 DEF DrainPendingFontPrewarms, WorkerAt
<1>16. CASE PumpRasterFails
  BY <1>16 DEF PumpRasterFails, WorkerAt, BeginStop
<1>17. CASE RequestTimesOut
  BY <1>17 DEF RequestTimesOut, WorkerAt, BeginStop, Refuse, TimedStates
<1>18. CASE WorkerPublish
  BY <1>18 DEF WorkerPublish, WorkerAt, MoreWork, PumpSettles
<1>19. CASE WorkerRepend
  BY <1>19 DEF WorkerRepend, WorkerAt
<1>20. CASE WorkerLeave
  BY <1>20 DEF WorkerLeave, WorkerAt, OwnerInv
<1>21. ASSUME NEW font \in Fonts, QueuePendingFontPrewarm(font) PROVE EndInv'
  BY <1>21 DEF QueuePendingFontPrewarm
<1>22. ASSUME NEW result \in PumpStatus, PumpReturns(result) PROVE EndInv'
  BY <1>22 DEF PumpReturns, WorkerAt, OwnerInv
<1>23. ASSUME NEW t \in Threads, StopRun(t) PROVE EndInv'
  BY <1>23 DEF StopRun
<1>24. CASE \/ ServiceCheck \/ ServicePeek \/ ServiceClaim \/ ServiceFinish
            \/ BarrierCloseCommit \/ ReapNothing \/ DeadlinePasses
  BY <1>24
    DEF ServiceCheck, MainAt, ServicePeek, ServiceClaim, CanCommit,
        PeekedRequest, ServiceFinish, BarrierCloseCommit, ReapNothing,
        DeadlinePasses
<1>25. CASE \/ WorkerCheck \/ PumpCallsRequest \/ RequestEnter \/ RequestQueue
            \/ RequestResolves \/ WorkerTail \/ WorkerEnds
            \/ (\E t \in Threads : StopCloseCommit(t))
            \/ (\E t \in Threads : StopSlot(t))
  BY <1>25
    DEF WorkerCheck, WorkerAt, StopSeen, PumpCallsRequest, RequestEnter,
        CanCommit, RequestQueue, RequestResolves, Refuse, WorkerTail,
        WorkerEnds, StopCloseCommit, StopSlot, SlotAfterStop
<1> HIDE DEF EndInv, BarrierVerdict, DeadWorkerReleasesBarrier, StopSeen
<1>26. QED
  BY <1>1, <1>2, <1>3, <1>4, <1>5, <1>6, <1>7, <1>8, <1>9, <1>10, <1>11, <1>12,
      <1>13, <1>14, <1>15, <1>16, <1>17, <1>18, <1>19, <1>20, <1>21, <1>22,
      <1>23, <1>24, <1>25
    DEF Next, MainStep, BarrierStep, WorkerStep, StopStep, Threads

\* The life of a request token, from RequestQueue to its answer.
LEMMA TokenInvStep == TypeOK /\ IInv /\ Next => TokenInv'
<1> SUFFICES ASSUME TypeOK, IInv, Next PROVE TokenInv'
  OBVIOUS
<1> USE DEF IInv, TokenInv
<1>1. CASE ServicePeek
  BY <1>1 DEF ServicePeek, MainAt
<1>2. CASE ServiceClaim
  <2>1. UNCHANGED <<nextToken, reqToken, wToken, wpc, svcToken, published,
                    delivered, refused>>
    BY <1>2 DEF ServiceClaim
  <2>2. CASE /\ reqState = "queued" /\ reqToken = svcToken
             /\ reqState' = "executing" /\ begun' = begun \cup {svcToken}
             /\ mpc' = "exec"
    <3>1. svcToken \in 1..nextToken - 1
      BY <2>2, BoundsAssumption DEF TypeOK, SlotTypeOK, SlotInv, Tokens
    <3>2. svcToken \notin published
      BY <2>2
    <3>3. begun' \subseteq 1..nextToken' - 1
      BY <2>1, <2>2, <3>1
    <3>4. published' \subseteq begun'
      BY <2>1, <2>2
    <3>5. QED
      BY <2>1, <2>2, <3>2, <3>3, <3>4
  <2>3. CASE /\ begun' = begun /\ mpc' = "observe"
             /\ reqState' # reqState => reqState' = "cancelled"
             /\ reqState' # reqState => reqState = "queued"
    BY <2>1, <2>3
  <2>4. QED
    BY <1>2, <2>2, <2>3 DEF ServiceClaim, PeekedRequest
<1>3. CASE ServiceFinish
  BY <1>3, BoundsAssumption
    DEF ServiceFinish, MainAt, CanCommit, TypeOK, SlotTypeOK, SlotInv,
        SlotOwnership
<1>4. CASE RequestQueue
  BY <1>4, BoundsAssumption
    DEF RequestQueue, WorkerAt, TypeOK, SlotTypeOK, SlotInv, SlotOwnership
<1>5. CASE RequestTimesOut
  <2>1. /\ wToken \in 1..nextToken - 1 /\ wToken = reqToken
        /\ wpc = "reqWait" /\ wpc' = "pump"
        /\ reqState \in {"queued", "executing"}
        /\ reqState' \in {"idle", "abandoned"}
        /\ UNCHANGED <<nextToken, reqToken, svcToken, mpc>>
    BY <1>5, BoundsAssumption
      DEF RequestTimesOut, TimedStates, WorkerAt, Refuse, TypeOK, SlotTypeOK, SlotInv,
          Tokens
  <2>2. /\ refused' = refused \cup {wToken}
        /\ UNCHANGED <<begun, published, delivered>>
    BY <1>5 DEF RequestTimesOut, Refuse
  <2>3. (delivered \cup refused)' = 1..nextToken' - 1
    BY <2>1, <2>2
  <2>4. QED
    BY <2>1, <2>2, <2>3
<1>6. CASE RequestResolves
  <2>0. wpc = "reqWait" /\ wpc' = "pump"
    BY <1>6 DEF RequestResolves, WorkerAt, Refuse
  <2>1. /\ wToken \in 1..nextToken - 1 /\ wToken = reqToken
        /\ UNCHANGED <<nextToken, reqToken, svcToken, mpc>>
    BY <1>6, <2>0, BoundsAssumption
      DEF RequestResolves, TypeOK, SlotTypeOK, SlotInv, Tokens
  <2>5. reqState' # "queued" /\ reqState' # "completed"
    BY <1>6, <2>1 DEF RequestResolves, Refuse
  <2>2. /\ (delivered \cup refused)' = delivered \cup refused \cup {wToken}
        /\ UNCHANGED <<begun, published>>
    BY <1>6 DEF RequestResolves, Refuse
  <2>3. (delivered \cup refused)' = 1..nextToken' - 1
    BY <2>1, <2>2
  <2>4. QED
    BY <2>0, <2>1, <2>2, <2>3, <2>5
<1>7. ASSUME NEW t \in Threads, StopSlot(t) PROVE TokenInv'
  BY <1>7 DEF StopSlot, SlotAfterStop
<1>8. CASE \/ StartWorker \/ StartWorkerFails \/ EnterBarrier \/ PumpMessages
           \/ ServiceCheck \/ BarrierObserve \/ BarrierWatch \/ BarrierClose
           \/ BarrierCloseCommit \/ ReapSignalled \/ ReapQuit \/ ReapTimesOut
           \/ ReapNothing \/ ShutdownFontPrewarm \/ ExitRequest \/ ExitGame
           \/ DeadlinePasses
  BY <1>8
    DEF OwnerInv, StartWorker, MainAt, StartWorkerFails, EnterBarrier,
        PumpMessages, BeginStop, ServiceCheck, BarrierObserve, BarrierWatch,
        WithinDeadline, BarrierClose, BarrierCloseCommit, ReapSignalled, Joined,
        Signalled, RunCancelled, ReapQuit, ReapTimesOut, ReapNothing,
        ShutdownFontPrewarm, ExitRequest, ExitGame, DeadlinePasses
<1>9. CASE \/ WorkerWake \/ WorkerCheck \/ DrainPendingFontPrewarms
           \/ PumpCallsRequest \/ PumpRasterFails \/ RequestEnter
           \/ WorkerPublish \/ WorkerRepend \/ WorkerTail \/ WorkerLeave
           \/ WorkerEnds \/ (\E font \in Fonts : QueuePendingFontPrewarm(font))
           \/ (\E result \in PumpStatus : PumpReturns(result))
           \/ (\E t \in Threads : StopCloseCommit(t))
           \/ (\E t \in Threads : StopRun(t))
  BY <1>9
    DEF OwnerInv, WorkerWake, WorkerAt, StopSeen, MoreWork, WorkerCheck,
        DrainPendingFontPrewarms, PumpCallsRequest, PumpRasterFails, BeginStop,
        RequestEnter, CanCommit, WorkerPublish, PumpSettles, WorkerRepend,
        WorkerTail, WorkerLeave, WorkerEnds, QueuePendingFontPrewarm,
        PumpReturns, StopCloseCommit, StopRun
<1> HIDE DEF TokenInv
<1>10. QED
  BY <1>1, <1>2, <1>3, <1>4, <1>5, <1>6, <1>7, <1>8, <1>9
    DEF Next, MainStep, BarrierStep, WorkerStep, StopStep, Threads

-----------------------------------------------------------------------------
(* The parts together.                                                     *)

\* The initial state is in range.
LEMMA TypeInit == Init => TypeOK
<1> SUFFICES ASSUME Init PROVE TypeOK
  OBVIOUS
<1>0. 0 \in Tokens /\ 1 \in 1..MaxToken + 1 /\ 0 \in 0..MaxCalls
  BY BoundsAssumption DEF Tokens
<1>1. CoordTypeOK /\ HistoryTypeOK
  BY PumpStatusElements DEF Init, CoordTypeOK, HistoryTypeOK
<1>2. StopTypeOK
  BY StopPlacesElements DEF Init, StopTypeOK
<1>3. SlotTypeOK
  BY <1>0, RequestStatesElements DEF Init, SlotTypeOK
<1>4. MainTypeOK
  BY <1>0, PumpStatusElements, MainPlacesElements DEF Init, MainTypeOK
<1>5. WorkerTypeOK
  BY <1>0, PumpStatusElements, WorkerPlacesElements DEF Init, WorkerTypeOK
<1>6. QED
  BY <1>1, <1>2, <1>3, <1>4, <1>5 DEF TypeOK

\* Every step keeps the ranges.
LEMMA TypeStep == TypeOK /\ [Next]_vars => TypeOK'
<1> SUFFICES ASSUME TypeOK, [Next]_vars PROVE TypeOK'
  OBVIOUS
<1>1. CASE Next
  BY <1>1, CoordTypeOKStep, SlotTypeOKStep, MainTypeOKStep, WorkerTypeOKStep,
     StopTypeOKStep, HistoryTypeOKStep DEF TypeOK
<1>2. CASE UNCHANGED vars
  BY <1>2 DEF vars, TypeOK, CoordTypeOK, SlotTypeOK, MainTypeOK,
              WorkerTypeOK, StopTypeOK, HistoryTypeOK
<1>3. QED
  BY <1>1, <1>2

\* The invariant holds initially ...
LEMMA IInvInit == Init => IInv
<1> SUFFICES ASSUME Init PROVE IInv
  OBVIOUS
<1>1. StopInv /\ OwnerInv
  BY DEF Init, StopInv, OwnerInv
<1>2. SlotInv /\ TokenInv
  BY DEF Init, SlotInv, SlotOwnership, TokenInv
<1>3. SettledInv /\ EndInv
  BY DEF Init, SettledInv, Pumping, SettledMeansDrained, EndInv,
         DeadWorkerReleasesBarrier, BarrierVerdict
<1>4. QED
  BY <1>1, <1>2, <1>3 DEF IInv

\* ... and every step keeps it.
LEMMA IInvStep == TypeOK /\ IInv /\ [Next]_vars => IInv'
<1> SUFFICES ASSUME TypeOK, IInv, [Next]_vars PROVE IInv'
  OBVIOUS
<1>1. CASE Next
  BY <1>1, StopInvStep, OwnerInvStep, SlotInvStep, TokenInvStep,
     SettledInvStep, EndInvStep DEF IInv
<1>2. CASE UNCHANGED vars
  <2>1. StopInv' /\ OwnerInv'
    BY <1>2 DEF vars, IInv, StopInv, OwnerInv
  <2>2. SlotInv' /\ TokenInv'
    BY <1>2 DEF vars, IInv, SlotInv, SlotOwnership, TokenInv
  <2>3. SettledInv' /\ EndInv'
    BY <1>2 DEF vars, IInv, SettledInv, SettledMeansDrained, EndInv,
                DeadWorkerReleasesBarrier, BarrierVerdict, StopSeen
  <2>4. QED
    BY <2>1, <2>2, <2>3 DEF IInv
<1>3. QED
  BY <1>1, <1>2

\* The variables keep to their ranges, and the token counter to its bound, in
\* every behaviour of the coordinator.
THEOREM TypeCorrect == Spec => []TypeOK
<1>1. QED
  BY TypeInit, TypeStep, PTL DEF Spec

\* The inductive invariant holds in every reachable state.
THEOREM InvariantCorrect == Spec => []IInv
<1>1. QED
  BY IInvInit, IInvStep, TypeCorrect, PTL DEF Spec

\* The request slot never has two owners, whatever the order of stops,
\* timeouts and late completions.
THEOREM SlotOwnershipHolds == Spec => []SlotOwnership
<1>1. IInv => SlotOwnership
  BY DEF IInv, SlotInv
<1>2. QED
  BY <1>1, InvariantCorrect, PTL

\* When the barrier may take the work for finished, no accepted font is left.
THEOREM SettledMeansDrainedHolds == Spec => []SettledMeansDrained
<1>1. IInv => SettledMeansDrained
  BY DEF IInv, SettledInv
<1>2. QED
  BY <1>1, InvariantCorrect, PTL

\* PrewarmRuntime is rolled back by the main thread only after the join.
THEOREM RollbackAfterWorkerHolds == Spec => []RollbackAfterWorker
<1>1. IInv => RollbackAfterWorker
  BY DEF IInv, OwnerInv, RollbackAfterWorker
<1>2. QED
  BY <1>1, InvariantCorrect, PTL

\* The barrier reports what it leaves behind.
THEOREM BarrierVerdictHolds == Spec => []BarrierVerdict
<1>1. IInv => BarrierVerdict
  BY DEF IInv, EndInv
<1>2. QED
  BY <1>1, InvariantCorrect, PTL

\* A worker that has left does not hold the barrier, but for the font that
\* was queued after a failure.
THEOREM DeadWorkerReleasesBarrierHolds == Spec => []DeadWorkerReleasesBarrier
<1>1. IInv => DeadWorkerReleasesBarrier
  BY DEF IInv, EndInv
<1>2. QED
  BY <1>1, InvariantCorrect, PTL

-----------------------------------------------------------------------------
(* The refinement: every step is a step of the service or leaves it alone. *)

\* The token the worker waits for has been issued and not answered.
LEMMA WaitedTokenUnanswered ==
    ASSUME TypeOK, IInv, wpc = "reqWait"
    PROVE  /\ wToken = reqToken /\ wToken \in 1..nextToken - 1
           /\ wToken \notin delivered \cup refused
BY BoundsAssumption DEF TypeOK, SlotTypeOK, Tokens, IInv, SlotInv, TokenInv

\* RequestQueue issues, ServiceClaim begins, ServiceFinish publishes, the two
\* ends of the wait deliver or refuse, and all other steps stutter.
LEMMA ServiceStep ==
    TypeOK /\ IInv /\ [Next]_vars => [Service!Next]_(Service!vars)
<1> SUFFICES ASSUME TypeOK, IInv, [Next]_vars
             PROVE  [Service!Next]_(Service!vars)
  OBVIOUS
<1> USE DEF Service!Next, Service!vars, Service!Answered
<1>1. CASE RequestQueue
  <2>1. CASE reqState = "idle"
    <3>1. 1..nextToken - 1 \subseteq delivered \cup refused
      BY <1>1 DEF RequestQueue, WorkerAt, IInv, TokenInv
    <3>2. /\ nextToken' - 1 = nextToken - 1 + 1
          /\ UNCHANGED <<begun, published, delivered, refused>>
      BY <1>1, <2>1, BoundsAssumption DEF RequestQueue, TypeOK, SlotTypeOK
    <3>3. Service!Issue
      BY <3>1, <3>2 DEF Service!Issue
    <3>4. QED
      BY <3>3
  <2>2. CASE reqState # "idle"
    BY <1>1, <2>2 DEF RequestQueue
  <2>3. QED
    BY <2>1, <2>2
<1>2. CASE ServiceClaim
  <2>1. CASE UNCHANGED begun
    BY <1>2, <2>1 DEF ServiceClaim
  <2>2. CASE begun' # begun
    <3>1. /\ reqState = "queued" /\ reqToken = svcToken
          /\ begun' = begun \cup {svcToken}
          /\ UNCHANGED <<nextToken, published, delivered, refused>>
      BY <1>2, <2>2 DEF ServiceClaim, PeekedRequest
    <3>2. wpc = "reqWait" /\ wToken = svcToken /\ svcToken \notin begun
      BY <3>1 DEF IInv, SlotInv, SlotOwnership, TokenInv
    <3>3. svcToken \in 1..nextToken - 1 /\ Service!Begin(svcToken)
      BY <3>1, <3>2, WaitedTokenUnanswered DEF Service!Begin
    <3>4. QED
      BY <3>3
  <2>3. QED
    BY <2>1, <2>2
<1>3. CASE ServiceFinish
  <2>1. CASE UNCHANGED published
    BY <1>3, <2>1 DEF ServiceFinish
  <2>2. CASE published' # published
    <3>1. /\ mpc = "exec" /\ reqState = "executing" /\ reqToken = svcToken
          /\ published' = published \cup {svcToken}
          /\ UNCHANGED <<nextToken, begun, delivered, refused>>
      BY <1>3, <2>2 DEF ServiceFinish, MainAt
    <3>2. /\ wpc = "reqWait" /\ wToken = svcToken
          /\ svcToken \in begun /\ svcToken \notin published
      BY <3>1 DEF IInv, SlotInv, TokenInv
    <3>3. svcToken \in 1..nextToken - 1 /\ Service!Publish(svcToken)
      BY <3>1, <3>2, WaitedTokenUnanswered DEF Service!Publish
    <3>4. QED
      BY <3>3
  <2>3. QED
    BY <2>1, <2>2
<1>4. CASE RequestTimesOut
  <2>1. /\ wpc = "reqWait" /\ reqState # "completed"
        /\ refused' = refused \cup {wToken}
        /\ UNCHANGED <<nextToken, begun, published, delivered>>
    BY <1>4 DEF RequestTimesOut, TimedStates, WorkerAt, Refuse
  <2>2. wToken \notin published
    BY <2>1 DEF IInv, TokenInv
  <2>3. wToken \in 1..nextToken - 1 /\ Service!Refuse(wToken)
    BY <2>1, <2>2, WaitedTokenUnanswered DEF Service!Refuse
  <2>4. QED
    BY <2>3
<1>5. CASE RequestResolves
  <2>1. wpc = "reqWait" /\ UNCHANGED <<nextToken, begun, published>>
    BY <1>5 DEF RequestResolves, WorkerAt, Refuse
  <2>2. wToken \in published <=> reqState = "completed"
    BY <2>1 DEF IInv, TokenInv
  <2>3. CASE reqState = "completed"
    <3>1. delivered' = delivered \cup {wToken} /\ UNCHANGED refused
      BY <1>5, <2>1, <2>3, WaitedTokenUnanswered DEF RequestResolves
    <3>2. wToken \in 1..nextToken - 1 /\ Service!Deliver(wToken)
      BY <2>1, <2>2, <2>3, <3>1, WaitedTokenUnanswered DEF Service!Deliver
    <3>3. QED
      BY <3>2
  <2>4. CASE reqState # "completed"
    <3>1. refused' = refused \cup {wToken} /\ UNCHANGED delivered
      BY <1>5, <2>4 DEF RequestResolves, Refuse
    <3>2. wToken \in 1..nextToken - 1 /\ Service!Refuse(wToken)
      BY <2>1, <2>2, <2>4, <3>1, WaitedTokenUnanswered DEF Service!Refuse
    <3>3. QED
      BY <3>2
  <2>5. QED
    BY <2>3, <2>4
<1>6. CASE \/ StartWorker \/ StartWorkerFails \/ EnterBarrier \/ PumpMessages
           \/ ServiceCheck \/ ServicePeek \/ BarrierObserve \/ BarrierWatch
           \/ BarrierClose \/ BarrierCloseCommit \/ ReapSignalled \/ ReapQuit
           \/ ReapTimesOut \/ ReapNothing \/ ShutdownFontPrewarm \/ ExitRequest
           \/ ExitGame \/ DeadlinePasses
  BY <1>6
    DEF StartWorker, StartWorkerFails, EnterBarrier, PumpMessages,
        ServiceCheck, ServicePeek, BarrierObserve, BarrierWatch, BarrierClose,
        BarrierCloseCommit, ReapSignalled, Joined, ReapQuit, ReapTimesOut, ReapNothing,
        ShutdownFontPrewarm, ExitRequest, ExitGame, DeadlinePasses
<1>7. CASE \/ WorkerWake \/ WorkerCheck \/ DrainPendingFontPrewarms
           \/ PumpCallsRequest \/ PumpRasterFails \/ RequestEnter
           \/ WorkerPublish \/ WorkerRepend \/ WorkerTail \/ WorkerLeave
           \/ WorkerEnds \/ (\E font \in Fonts : QueuePendingFontPrewarm(font))
           \/ (\E result \in PumpStatus : PumpReturns(result))
           \/ (\E t \in Threads : StopCloseCommit(t))
           \/ (\E t \in Threads : StopRun(t))
           \/ (\E t \in Threads : StopSlot(t))
  BY <1>7
    DEF WorkerWake, WorkerCheck, DrainPendingFontPrewarms, PumpCallsRequest,
        PumpRasterFails, RequestEnter, WorkerPublish, WorkerRepend, WorkerTail,
        WorkerLeave, WorkerEnds, QueuePendingFontPrewarm, PumpReturns,
        StopCloseCommit, StopRun, StopSlot
<1>8. CASE UNCHANGED vars
  BY <1>8 DEF vars
<1>9. QED
  BY <1>1, <1>2, <1>3, <1>4, <1>5, <1>6, <1>7, <1>8
    DEF Next, MainStep, BarrierStep, WorkerStep, StopStep, Threads

\* What the worker is promised about its atlas requests, at most one start and
\* exactly one answer each, and no result once it has given up.
THEOREM ServiceImplemented == Spec => ImplementsService
<1>1. Init => Service!Init
  BY DEF Init, Service!Init
<1>2. QED
  BY <1>1, ServiceStep, TypeCorrect, InvariantCorrect, PTL
    DEF Spec, ImplementsService, Service!Spec
=============================================================================
