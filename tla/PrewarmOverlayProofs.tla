------------------------ MODULE PrewarmOverlayProofs ------------------------
(* Proofs of the safety properties of PrewarmOverlay for every Full, every     *)
(* MaxSequence and every set of roots.                                         *)
EXTENDS PrewarmOverlay, TLAPS

-----------------------------------------------------------------------------
(* The inductive invariant, one part for each party.                           *)

MailTypes ==
    /\ command \in Command
    /\ opened \in BOOLEAN /\ terminal \in BOOLEAN /\ disabled \in BOOLEAN
    /\ maximumProgress \in Progress /\ consumed \in Nat
    /\ requested \in BOOLEAN

ReportTypes ==
    /\ tracked \in BOOLEAN /\ reporting \in BOOLEAN /\ suspended \in BOOLEAN
    /\ closed \in BOOLEAN /\ progress \in Progress /\ phase \in Phases

ThreadTypes ==
    /\ worker \in {"running", "leaving", "gone"} /\ failed \in BOOLEAN
    /\ todo \in {"nothing", "suspend", "close"}
    /\ barrier \in {"open", "quitting", "expired", "closed", "over"}
    /\ stop \in BOOLEAN

LoadTypes ==
    /\ read \in Command
    /\ place \in Places /\ instance \in InstanceStates
    /\ host \in Roots \cup {NoRoot} /\ root \in Roots \cup {NoRoot}
    /\ gone \subseteq Roots /\ shown \in [Roots -> 0..Hidden]

\* The claim on the screen is made only for a run that is open, and only while
\* the worker reports into it.
ClaimInv ==
    requested => /\ opened /\ ~terminal /\ ~disabled
                 /\ worker # "gone"
                 /\ tracked /\ reporting /\ ~closed

\* The phases of the session in which it may report, and how the worker leaves.
PhaseInv ==
    /\ reporting => tracked
    /\ phase = "idle" => ~reporting
    /\ phase = "cleanup" => todo = "close" \/ ~reporting \/ closed
    /\ worker = "leaving" /\ ~failed /\ ~stop => phase = "idle"

\* A tree that has been given up is not LoadingMenu's, and no tree shows
\* anything before LoadingMenu had it.
TreeInv ==
    /\ root \notin gone
    /\ host \in gone \cup {root, NoRoot}
    /\ \A r \in Roots : shown[r] # Hidden => r \in gone \cup {root}
    /\ place = "apply" => root # NoRoot

\* The command that was read is the mailbox's, or an older one.
ReadInv ==
    /\ read.sequence <= command.sequence
    /\ read.sequence = command.sequence => read = command
    /\ place = "update" => consumed = read.sequence

\* What was read is on the screen unless it is still to be applied; a root no
\* component is attached to shows nothing.
ScreenInv ==
    instance # "disabled" =>
        /\ host = NoRoot /\ root # NoRoot => shown[root] = Hidden
        /\ place # "apply" =>
               IF read.action = "present"
               THEN host # NoRoot /\ shown[host] = read.progress
               ELSE root # NoRoot /\ host \in {root, NoRoot}
                        => shown[root] = Hidden
        /\ place # "disable"

OverlayInv == TypeOK /\ ClaimInv /\ PhaseInv /\ TreeInv /\ ReadInv /\ ScreenInv

LEMMA TypeParts == TypeOK <=> MailTypes /\ ReportTypes /\ ThreadTypes /\ LoadTypes
  BY DEF TypeOK, MailTypes, ReportTypes, ThreadTypes, LoadTypes

-----------------------------------------------------------------------------
(* The mailbox.                                                                *)

LEMMA LargerProgress ==
  ASSUME NEW p \in Progress, NEW q \in Progress PROVE Larger(p, q) \in Progress
  BY DEF Larger

LEMMA ProgressTypes == 0 \in Progress /\ Full \in Progress
  BY OverlayAssumption DEF Progress

LEMMA PublishTyped ==
  ASSUME MailTypes, NEW action \in Actions, NEW value \in Progress,
         Publish(action, value)
  PROVE  command' \in Command
  BY DEF MailTypes, Publish, Command

LEMMA PublishProgressTyped ==
  ASSUME MailTypes, NEW value \in Progress, PublishProgress(value)
  PROVE  MailTypes'
<1> DEFINE next == Larger(value, maximumProgress)
<1>1. next \in Progress
  BY LargerProgress DEF MailTypes
<1>2. CASE UNCHANGED mailVars
  BY <1>2 DEF MailTypes, mailVars
<1>3. CASE /\ requested' = TRUE
           /\ UNCHANGED <<command, opened, terminal, disabled, maximumProgress, consumed>>
  BY <1>3 DEF MailTypes
<1>4. CASE /\ Publish("present", next)
           /\ opened' = TRUE /\ maximumProgress' = next /\ requested' = TRUE
           /\ UNCHANGED <<terminal, disabled, consumed>>
  <2>1. command' \in Command
    BY <1>1, <1>4, PublishTyped DEF Actions
  <2> QED
    BY <1>1, <1>4, <2>1 DEF MailTypes
<1> QED
  BY <1>2, <1>3, <1>4 DEF PublishProgress

LEMMA PublishSuspendTyped ==
  ASSUME MailTypes, PublishSuspend PROVE MailTypes'
<1>1. CASE UNCHANGED mailVars
  BY <1>1 DEF MailTypes, mailVars
<1>2. CASE /\ Publish("suspend", maximumProgress)
           /\ requested' = FALSE
           /\ UNCHANGED <<opened, terminal, disabled, maximumProgress, consumed>>
  <2>1. command' \in Command
    BY <1>2, PublishTyped DEF Actions, MailTypes
  <2> QED
    BY <1>2, <2>1 DEF MailTypes
<1> QED
  BY <1>1, <1>2 DEF PublishSuspend

LEMMA PublishCloseTyped ==
  ASSUME MailTypes, PublishClose PROVE MailTypes'
<1>1. CASE UNCHANGED mailVars
  BY <1>1 DEF MailTypes, mailVars
<1>2. CASE /\ terminal' = TRUE
           /\ Publish("close", maximumProgress)
           /\ requested' = FALSE
           /\ UNCHANGED <<opened, disabled, maximumProgress, consumed>>
  <2>1. command' \in Command
    BY <1>2, PublishTyped DEF Actions, MailTypes
  <2> QED
    BY <1>2, <2>1 DEF MailTypes
<1> QED
  BY <1>1, <1>2 DEF PublishClose

\* What a report does to the session's progress and to the mailbox.
LEMMA ReportsTyped ==
  ASSUME MailTypes, ReportTypes, NEW value \in Progress, NEW forced \in BOOLEAN,
         Reports(value, forced)
  PROVE  MailTypes' /\ progress' \in Progress
<1>1. CASE UNCHANGED <<progress, mailVars>>
  BY <1>1 DEF MailTypes, ReportTypes, mailVars
<1>2. CASE /\ progress' = Larger(value, progress)
           /\ PublishProgress(progress') \/ UNCHANGED mailVars
  <2>1. progress' \in Progress
    BY <1>2, LargerProgress DEF ReportTypes
  <2>2. CASE PublishProgress(progress')
    BY <2>1, <2>2, PublishProgressTyped
  <2>3. CASE UNCHANGED mailVars
    BY <2>1, <2>3 DEF MailTypes, mailVars
  <2> QED
    BY <1>2, <2>1, <2>2, <2>3
<1> QED
  BY <1>1, <1>2 DEF Reports

LEMMA ClosesTyped ==
  ASSUME MailTypes, ClosesRun PROVE MailTypes'
<1>1. CASE PublishClose
  BY <1>1, PublishCloseTyped
<1>2. CASE UNCHANGED mailVars
  BY <1>2 DEF MailTypes, mailVars
<1> QED
  BY <1>1, <1>2 DEF ClosesRun

-----------------------------------------------------------------------------
(* Types.  Worker and main thread leave what the LoadingMenu thread keeps, and *)
(* the other way round.                                                        *)

LEMMA WorkerMail ==
  ASSUME MailTypes, ReportTypes, WorkerStep PROVE MailTypes' /\ ReportTypes'
<1> USE ProgressTypes
<1>1. CASE BeginSession \/ LatchRebuildProgress \/ BeginGeneration
           \/ CompleteSession \/ WorkerRequestsStop \/ WorkerLeaves
  <2>1. UNCHANGED mailVars
    BY <1>1 DEF BeginSession, LatchRebuildProgress, BeginGeneration,
         CompleteSession, WorkerRequestsStop, WorkerLeaves
  <2>2. ReportTypes'
    BY <1>1 DEF BeginSession, LatchRebuildProgress, BeginGeneration,
         CompleteSession, WorkerRequestsStop, WorkerLeaves, ClearReporting,
         ReportTypes, Phases, repVars
  <2> QED
    BY <2>1, <2>2 DEF MailTypes, mailVars
<1>2. CASE \E value \in Progress, forced \in BOOLEAN :
              ReportPrewarmProgress(value, forced)
  BY <1>2, ReportsTyped DEF ReportPrewarmProgress, ReportTypes
<1>3. CASE StartRebuildProgressReporting
  <2>1. progress' \in Progress
    BY <1>3 DEF StartRebuildProgressReporting, ReportTypes
  <2>2. MailTypes'
    BY <1>3, <2>1, PublishProgressTyped DEF StartRebuildProgressReporting
  <2> QED
    BY <1>3, <2>1, <2>2 DEF StartRebuildProgressReporting, ReportTypes
<1>4. CASE RestoreAgain \/ RetryTransaction
  <2>1. Reports(progress, TRUE) /\ phase' \in {"restore", "retry"}
        /\ UNCHANGED <<tracked, reporting, suspended, closed>>
    BY <1>4 DEF RestoreAgain, RetryTransaction
  <2>2. MailTypes' /\ progress' \in Progress
    BY <2>1, ReportsTyped DEF ReportTypes
  <2> QED
    BY <2>1, <2>2 DEF ReportTypes, Phases
<1>5. CASE SuspendRebuildProgressReporting
  BY <1>5, PublishSuspendTyped DEF SuspendRebuildProgressReporting, ReportTypes
<1>6. CASE CloseCompleted
  <2>1. CASE tracked /\ progress' = Full /\ PublishProgress(Full)
    BY <1>6, <2>1, PublishProgressTyped DEF CloseCompleted, ReportTypes, Phases
  <2>2. CASE UNCHANGED <<progress, mailVars>>
    BY <1>6, <2>2 DEF CloseCompleted, ReportTypes, Phases, MailTypes, mailVars
  <2> QED
    BY <1>6, <2>1, <2>2 DEF CloseCompleted
<1>7. CASE CloseRebuildProgressReporting
  BY <1>7, PublishCloseTyped DEF CloseRebuildProgressReporting, ReportTypes
<1>8. CASE AbortPrewarmTransaction
  BY <1>8, ClosesTyped
     DEF AbortPrewarmTransaction, ClearReporting, ReportTypes, Phases
<1>9. CASE WorkerEnds
  <2>1. MailTypes'
    BY <1>9, ClosesTyped DEF WorkerEnds, MailTypes, mailVars
  <2>2. UNCHANGED <<tracked, reporting, progress, phase>>
        /\ closed' \in BOOLEAN /\ suspended' \in BOOLEAN
    BY <1>9 DEF WorkerEnds, ReportTypes
  <2> QED
    BY <2>1, <2>2 DEF ReportTypes
<1> QED
  BY <1>1, <1>2, <1>3, <1>4, <1>5, <1>6, <1>7, <1>8, <1>9 DEF WorkerStep

LEMMA MainMail ==
  ASSUME MailTypes, ReportTypes, MainStep PROVE MailTypes' /\ ReportTypes'
<1>1. CASE CloseNativePrewarmOverlay
  BY <1>1, PublishCloseTyped DEF CloseNativePrewarmOverlay, repVars, ReportTypes
<1>2. CASE RequestFontPrewarmStop \/ BarrierEnds
  BY <1>2 DEF RequestFontPrewarmStop, BarrierEnds, mailVars, repVars, MailTypes,
       ReportTypes
<1>3. CASE ShutdownFontPrewarm
  BY <1>3, ClosesTyped, ProgressTypes
     DEF ShutdownFontPrewarm, ClearReporting, ReportTypes, Phases
<1> QED
  BY <1>1, <1>2, <1>3 DEF MainStep

LEMMA ThreadsTyped ==
  ASSUME ThreadTypes, WorkerStep \/ MainStep PROVE ThreadTypes'
  BY DEF ThreadTypes, WorkerStep, MainStep, workVars, mainVars, OweSuspend,
     BeginSession, LatchRebuildProgress, ReportPrewarmProgress, BeginGeneration,
     StartRebuildProgressReporting, RestoreAgain, RetryTransaction,
     SuspendRebuildProgressReporting, CloseCompleted,
     CloseRebuildProgressReporting, CompleteSession, AbortPrewarmTransaction,
     WorkerRequestsStop, WorkerLeaves, WorkerEnds, CloseNativePrewarmOverlay,
     RequestFontPrewarmStop, BarrierEnds, ShutdownFontPrewarm

LEMMA WorkerFrame == WorkerStep \/ MainStep => UNCHANGED loadVars
  BY DEF WorkerStep, MainStep, BeginSession, LatchRebuildProgress,
     ReportPrewarmProgress, BeginGeneration, StartRebuildProgressReporting,
     RestoreAgain, RetryTransaction, SuspendRebuildProgressReporting,
     CloseCompleted, CloseRebuildProgressReporting, CompleteSession,
     AbortPrewarmTransaction, WorkerRequestsStop, WorkerLeaves, WorkerEnds,
     CloseNativePrewarmOverlay, RequestFontPrewarmStop, BarrierEnds,
     ShutdownFontPrewarm

LEMMA ConsumerFrame ==
  ConsumeStep \/ ReplaceRoot =>
      /\ UNCHANGED <<repVars, workVars, mainVars>>
      /\ UNCHANGED <<command, opened, terminal, maximumProgress>>
  BY DEF ConsumeStep, ReadLatest, SkipDisabled, ForgetHost, ApplyClose,
     ApplySuspend, ApplyPresent, ApplyFails, DisableRun, MarkConsumed,
     ReplaceRoot, mailVars

LEMMA ConsumerTyped ==
  ASSUME TypeOK, TreeInv, ConsumeStep \/ ReplaceRoot PROVE TypeOK'
<1> USE DEF TypeOK
<1> DEFINE Rest == <<repVars, workVars, mainVars, command, opened, terminal,
                     maximumProgress>>
<1>1. UNCHANGED Rest
  BY ConsumerFrame
<1>2. /\ Hidden \in 0..Hidden
      /\ \A p \in Progress : p \in 0..Hidden
  BY OverlayAssumption DEF Hidden, Progress
<1>3. MailTypes'
  <2>1. consumed' \in Nat /\ requested' \in BOOLEAN /\ disabled' \in BOOLEAN
    BY DEF ConsumeStep, ReadLatest, SkipDisabled, ForgetHost, ApplyClose,
       ApplySuspend, ApplyPresent, ApplyFails, DisableRun, MarkConsumed,
       AppliedSequence, Command, ReplaceRoot, mailVars
  <2> QED
    BY <1>1, <2>1 DEF MailTypes
<1>4. /\ read' \in Command /\ place' \in Places /\ instance' \in InstanceStates
      /\ root' \in Roots \cup {NoRoot} /\ gone' \subseteq Roots
  BY DEF ConsumeStep, ReadLatest, SkipDisabled, ForgetHost, ApplyClose,
     ApplySuspend, ApplyPresent, ApplyFails, DisableRun, MarkConsumed,
     ReplaceRoot, Places, InstanceStates
<1>5. host' \in Roots \cup {NoRoot} /\ shown' \in [Roots -> 0..Hidden]
  <2>1. CASE UNCHANGED <<host, shown>>
    BY <2>1
  <2>2. CASE ForgetHost
    BY <2>2 DEF ForgetHost
  <2>3. CASE ApplyClose \/ ApplySuspend \/ ApplyFails
    <3>1. \/ UNCHANGED shown
          \/ host \in Roots /\ shown' = [shown EXCEPT ![host] = Hidden]
      BY <2>3 DEF ApplyClose, ApplySuspend, ApplyFails
    <3>2. shown' \in [Roots -> 0..Hidden]
      BY <3>1, <1>2
    <3> QED
      BY <2>3, <3>2 DEF ApplyClose, ApplySuspend, ApplyFails
  <2>4. CASE ApplyPresent
    <3>1. host' \in Roots
      BY <2>4 DEF ApplyPresent, Applying, TreeInv
    <3>2. shown' = [shown EXCEPT ![host'] = read.progress]
      BY <2>4 DEF ApplyPresent
    <3>3. read.progress \in 0..Hidden
      BY <1>2 DEF Command
    <3> QED
      BY <3>1, <3>2, <3>3
  <2> QED
    BY <2>1, <2>2, <2>3, <2>4 DEF ConsumeStep, ReadLatest, SkipDisabled,
       DisableRun, MarkConsumed, ReplaceRoot
<1> QED
  BY <1>1, <1>3, <1>4, <1>5 DEF MailTypes, repVars, workVars, mainVars

LEMMA TypeStep == TypeOK /\ TreeInv /\ [Next]_vars => TypeOK'
<1> SUFFICES ASSUME TypeOK, TreeInv, [Next]_vars PROVE TypeOK'
  OBVIOUS
<1>1. CASE WorkerStep \/ MainStep
  <2>1. MailTypes' /\ ReportTypes'
    BY <1>1, TypeParts, WorkerMail, MainMail
  <2>2. ThreadTypes'
    BY <1>1, TypeParts, ThreadsTyped
  <2>3. LoadTypes'
    BY <1>1, WorkerFrame, TypeParts DEF LoadTypes, loadVars
  <2> QED
    BY <2>1, <2>2, <2>3 DEF TypeOK, MailTypes, ReportTypes, ThreadTypes, LoadTypes
<1>2. CASE ConsumeStep \/ ReplaceRoot
  BY <1>2, ConsumerTyped
<1>3. CASE UNCHANGED vars
  BY <1>3 DEF TypeOK, vars, mailVars, repVars, workVars, mainVars, loadVars
<1> QED
  BY <1>1, <1>2, <1>3 DEF Next

-----------------------------------------------------------------------------
(* The claim on the screen.                                                    *)

MailClaim == requested => opened /\ ~terminal /\ ~disabled

LEMMA MailClaimKept ==
  ASSUME MailClaim, NEW value,
         PublishProgress(value) \/ PublishSuspend \/ UNCHANGED mailVars
  PROVE  MailClaim'
  BY DEF MailClaim, PublishProgress, PublishSuspend, mailVars, RefusesProgress

LEMMA CloseEndsClaim ==
  ASSUME MailClaim, PublishClose PROVE ~requested'
  BY DEF MailClaim, PublishClose, mailVars

\* ClosesRun leaves no claim behind: a run that does not report has none.
LEMMA ClosesEndsClaim ==
  ASSUME ClaimInv, ClosesRun PROVE ~requested'
<1>1. CASE PublishClose
  BY <1>1, CloseEndsClaim DEF ClaimInv, MailClaim
<1>2. CASE ~(reporting /\ ~closed) /\ UNCHANGED mailVars
  BY <1>2 DEF ClaimInv, mailVars
<1> QED
  BY <1>1, <1>2 DEF ClosesRun

LEMMA ReportsClaim ==
  ASSUME ClaimInv, NEW value, NEW forced, Reports(value, forced)
  PROVE  MailClaim' /\ (requested' => tracked /\ reporting /\ ~closed)
<1> MailClaim
  BY DEF ClaimInv, MailClaim
<1>1. CASE UNCHANGED mailVars
  BY <1>1 DEF ClaimInv, MailClaim, mailVars
<1>2. CASE tracked /\ reporting /\ ~closed /\ PublishProgress(progress')
  BY <1>2, MailClaimKept
<1> QED
  BY <1>1, <1>2 DEF Reports

LEMMA ClaimStep ==
  ASSUME TypeOK, ClaimInv, PhaseInv, [Next]_vars PROVE ClaimInv'
<1> MailClaim
  BY DEF ClaimInv, MailClaim
<1>1. CASE BeginSession \/ BeginGeneration \/ WorkerRequestsStop \/ WorkerLeaves
           \/ LatchRebuildProgress \/ CompleteSession
  BY <1>1 DEF BeginSession, BeginGeneration, WorkerRequestsStop, WorkerLeaves,
     LatchRebuildProgress, CompleteSession, ClearReporting, Pumping,
     ClaimInv, PhaseInv, mailVars, repVars, workVars
<1>2. CASE \/ \E value \in Progress, forced \in BOOLEAN :
                 ReportPrewarmProgress(value, forced)
           \/ RestoreAgain \/ RetryTransaction
  <2>1. \E value, forced : Reports(value, forced)
    BY <1>2 DEF ReportPrewarmProgress, RestoreAgain, RetryTransaction
  <2>2. MailClaim' /\ (requested' => tracked /\ reporting /\ ~closed)
    BY <2>1, ReportsClaim
  <2>3. UNCHANGED <<tracked, reporting, closed, worker>> /\ worker = "running"
    BY <1>2 DEF ReportPrewarmProgress, RestoreAgain, RetryTransaction, Pumping,
       workVars
  <2> QED
    BY <2>2, <2>3 DEF ClaimInv, MailClaim
<1>3. CASE StartRebuildProgressReporting
  <2>1. MailClaim'
    BY <1>3, MailClaimKept DEF StartRebuildProgressReporting
  <2> QED
    BY <1>3, <2>1
       DEF StartRebuildProgressReporting, Pumping, workVars, ClaimInv, MailClaim
<1>4. CASE SuspendRebuildProgressReporting
  <2>1. MailClaim'
    BY <1>4, MailClaimKept DEF SuspendRebuildProgressReporting
  <2>2. requested' => requested
    BY <1>4 DEF SuspendRebuildProgressReporting, PublishSuspend, mailVars
  <2> QED
    BY <1>4, <2>1, <2>2 DEF SuspendRebuildProgressReporting, ClaimInv, MailClaim
<1>5. CASE CloseCompleted
  <2>1. CASE UNCHANGED mailVars
    BY <1>5, <2>1 DEF CloseCompleted, mailVars, ClaimInv, Pumping
  <2>2. CASE reporting /\ ~closed /\ tracked /\ PublishProgress(Full)
    <3>1. MailClaim'
      BY <2>2, MailClaimKept
    <3> QED
      BY <1>5, <2>2, <3>1 DEF CloseCompleted, ClaimInv, MailClaim, Pumping
  <2> QED
    BY <1>5, <2>1, <2>2 DEF CloseCompleted
<1>6. CASE CloseRebuildProgressReporting
  BY <1>6, CloseEndsClaim DEF CloseRebuildProgressReporting, ClaimInv
<1>7. CASE AbortPrewarmTransaction
  BY <1>7, ClosesEndsClaim DEF AbortPrewarmTransaction, ClaimInv
<1>8. CASE WorkerEnds
  <2>1. CASE LeavesClosing
    BY <1>8, <2>1, ClosesEndsClaim DEF WorkerEnds, ClaimInv
  <2>2. CASE ~LeavesClosing
    BY <1>8, <2>2 DEF WorkerEnds, LeavesClosing, ClaimInv, PhaseInv, mailVars
  <2> QED
    BY <2>1, <2>2
<1>9. CASE MainStep
  <2>1. CASE CloseNativePrewarmOverlay
    BY <2>1, CloseEndsClaim DEF CloseNativePrewarmOverlay, ClaimInv
  <2>2. CASE ShutdownFontPrewarm
    BY <2>2, ClosesEndsClaim DEF ShutdownFontPrewarm, ClaimInv
  <2>3. CASE RequestFontPrewarmStop \/ BarrierEnds
    BY <2>3 DEF RequestFontPrewarmStop, BarrierEnds, ClaimInv, mailVars, repVars,
       workVars
  <2> QED
    BY <1>9, <2>1, <2>2, <2>3 DEF MainStep
<1>10. CASE ConsumeStep \/ ReplaceRoot
  <2>1. \/ UNCHANGED <<disabled, requested>>
        \/ ~requested'
    BY <1>10 DEF ConsumeStep, ReadLatest, SkipDisabled, ForgetHost, ApplyClose,
       ApplySuspend, ApplyPresent, ApplyFails, DisableRun, MarkConsumed,
       ReplaceRoot, mailVars
  <2> QED
    BY <1>10, <2>1, ConsumerFrame DEF ClaimInv, repVars, workVars
<1>11. CASE UNCHANGED vars
  BY <1>11 DEF vars, mailVars, repVars, workVars, ClaimInv
<1> QED
  BY <1>1, <1>2, <1>3, <1>4, <1>5, <1>6, <1>7, <1>8, <1>9, <1>10, <1>11
     DEF Next, WorkerStep

LEMMA PhaseStep ==
  ASSUME TypeOK, PhaseInv, [Next]_vars PROVE PhaseInv'
<1> USE DEF PhaseInv
<1>1. CASE BeginSession \/ BeginGeneration \/ WorkerRequestsStop
  BY <1>1 DEF BeginSession, BeginGeneration, WorkerRequestsStop, Pumping,
     repVars, workVars, mainVars
<1>2. CASE WorkerLeaves
  BY <1>2 DEF WorkerLeaves, repVars, mainVars
<1>3. CASE LatchRebuildProgress \/ CompleteSession \/ StartRebuildProgressReporting
  BY <1>3 DEF LatchRebuildProgress, CompleteSession, ClearReporting, Pumping,
     StartRebuildProgressReporting, workVars, mainVars
<1>4. CASE \E value \in Progress, forced \in BOOLEAN :
                 ReportPrewarmProgress(value, forced)
  BY <1>4 DEF ReportPrewarmProgress, workVars, mainVars
<1>5. CASE RestoreAgain \/ RetryTransaction
  <2>1. /\ UNCHANGED <<tracked, reporting, worker>> /\ worker = "running"
        /\ phase' \in {"restore", "retry"}
    BY <1>5 DEF RestoreAgain, RetryTransaction, Pumping
  <2> QED
    BY <2>1
<1>6. CASE SuspendRebuildProgressReporting \/ CloseCompleted
           \/ CloseRebuildProgressReporting
  BY <1>6 DEF SuspendRebuildProgressReporting, CloseCompleted, mainVars, Pumping,
     CloseRebuildProgressReporting
<1>7. CASE AbortPrewarmTransaction
  BY <1>7 DEF AbortPrewarmTransaction, ClearReporting
<1>8. CASE WorkerEnds
  <2>1. /\ UNCHANGED <<tracked, reporting, phase, todo>> /\ worker' = "gone"
        /\ closed => closed'
    BY <1>8 DEF WorkerEnds
  <2> QED
    BY <2>1
<1>9. CASE MainStep
  BY <1>9 DEF MainStep, CloseNativePrewarmOverlay, RequestFontPrewarmStop,
     BarrierEnds, ShutdownFontPrewarm, ClearReporting, repVars, workVars
<1>10. CASE ConsumeStep \/ ReplaceRoot
  BY <1>10, ConsumerFrame DEF repVars, workVars, mainVars
<1>11. CASE UNCHANGED vars
  BY <1>11 DEF vars, repVars, workVars, mainVars
<1> QED
  BY <1>1, <1>2, <1>3, <1>4, <1>5, <1>6, <1>7, <1>8, <1>9, <1>10, <1>11
     DEF Next, WorkerStep

-----------------------------------------------------------------------------
(* The trees.                                                                  *)

LEMMA TreeStep ==
  ASSUME TypeOK, TreeInv, [Next]_vars PROVE TreeInv'
<1> USE DEF TreeInv
<1>1. CASE WorkerStep \/ MainStep \/ UNCHANGED vars
  <2>1. UNCHANGED loadVars
    BY <1>1, WorkerFrame DEF vars
  <2> QED
    BY <2>1 DEF loadVars
<1>2. CASE ReadLatest \/ SkipDisabled \/ ForgetHost \/ DisableRun \/ MarkConsumed
  BY <1>2 DEF ReadLatest, SkipDisabled, ForgetHost, DisableRun, MarkConsumed
<1>3. CASE ApplyClose \/ ApplySuspend \/ ApplyPresent \/ ApplyFails
  <2>1. /\ UNCHANGED <<root, gone>> /\ place' # "apply" /\ root # NoRoot
        /\ host \in {root, NoRoot}
    BY <1>3 DEF ApplyClose, ApplySuspend, ApplyPresent, ApplyFails, Applying,
       HostChanged
  <2>2. host' \in {root, NoRoot}
    BY <1>3, <2>1 DEF ApplyClose, ApplySuspend, ApplyPresent, ApplyFails
  <2>3. UNCHANGED shown \/ \E value : shown' = [shown EXCEPT ![root] = value]
    <3>1. CASE ApplyPresent
      BY <2>1, <3>1 DEF ApplyPresent
    <3>2. CASE ApplyClose \/ ApplySuspend \/ ApplyFails
      BY <2>1, <3>2 DEF ApplyClose, ApplySuspend, ApplyFails
    <3> QED
      BY <1>3, <3>1, <3>2
  <2>4. \A r \in Roots : r # root => shown'[r] = shown[r]
    BY <2>3 DEF TypeOK
  <2> QED
    BY <2>1, <2>2, <2>4
<1>4. CASE ReplaceRoot
  BY <1>4, OverlayAssumption DEF ReplaceRoot
<1> QED
  BY <1>1, <1>2, <1>3, <1>4 DEF Next, ConsumeStep

-----------------------------------------------------------------------------
(* The command that was read, and what is on the screen.                       *)

LEMMA NewerCommand ==
  ASSUME TypeOK, [Next]_vars
  PROVE  command' = command \/ command'.sequence = command.sequence + 1
<1> DEFINE Newer == command' = command \/ command'.sequence = command.sequence + 1
<1>1. \A action, value : Publish(action, value) => Newer
  BY DEF Publish
<1>2. \A value : PublishProgress(value) => Newer
  BY <1>1 DEF PublishProgress, mailVars
<1>3. PublishSuspend \/ PublishClose \/ ClosesRun => Newer
  BY <1>1 DEF PublishSuspend, PublishClose, ClosesRun, mailVars
<1>4. \A value, forced : Reports(value, forced) => Newer
  BY <1>2 DEF Reports, mailVars
<1>5. CASE WorkerStep
  <2>1. CASE \/ \E value \in Progress, forced \in BOOLEAN :
                   ReportPrewarmProgress(value, forced)
             \/ RestoreAgain \/ RetryTransaction
    BY <1>4, <2>1 DEF ReportPrewarmProgress, RestoreAgain, RetryTransaction
  <2>2. CASE StartRebuildProgressReporting \/ CloseCompleted
    BY <1>2, <2>2 DEF StartRebuildProgressReporting, CloseCompleted, mailVars
  <2>3. CASE SuspendRebuildProgressReporting \/ CloseRebuildProgressReporting
             \/ AbortPrewarmTransaction \/ WorkerEnds
    BY <1>3, <2>3 DEF SuspendRebuildProgressReporting, WorkerEnds, mailVars,
       CloseRebuildProgressReporting, AbortPrewarmTransaction
  <2>4. CASE BeginSession \/ LatchRebuildProgress \/ BeginGeneration
             \/ CompleteSession \/ WorkerRequestsStop \/ WorkerLeaves
    BY <2>4 DEF BeginSession, LatchRebuildProgress, BeginGeneration,
       CompleteSession, WorkerRequestsStop, WorkerLeaves, mailVars
  <2> QED
    BY <1>5, <2>1, <2>2, <2>3, <2>4 DEF WorkerStep
<1>6. CASE MainStep
  BY <1>3, <1>6 DEF MainStep, CloseNativePrewarmOverlay, RequestFontPrewarmStop,
     BarrierEnds, ShutdownFontPrewarm, mailVars
<1>7. CASE ConsumeStep \/ ReplaceRoot
  BY <1>7, ConsumerFrame
<1>8. CASE UNCHANGED vars
  BY <1>8 DEF vars, mailVars
<1> QED
  BY <1>5, <1>6, <1>7, <1>8 DEF Next

LEMMA ConsumedStays ==
  WorkerStep \/ MainStep \/ UNCHANGED vars => UNCHANGED consumed
<1>1. \A value : PublishProgress(value) => UNCHANGED consumed
  BY DEF PublishProgress, mailVars
<1>2. PublishSuspend \/ PublishClose \/ ClosesRun => UNCHANGED consumed
  BY DEF PublishSuspend, PublishClose, ClosesRun, mailVars
<1>3. \A value, forced : Reports(value, forced) => UNCHANGED consumed
  BY <1>1 DEF Reports, mailVars
<1>4. CASE \/ \E value \in Progress, forced \in BOOLEAN :
                 ReportPrewarmProgress(value, forced)
           \/ RestoreAgain \/ RetryTransaction
  BY <1>3, <1>4 DEF ReportPrewarmProgress, RestoreAgain, RetryTransaction
<1>5. CASE StartRebuildProgressReporting \/ CloseCompleted
  BY <1>1, <1>5 DEF StartRebuildProgressReporting, CloseCompleted, mailVars
<1>6. CASE SuspendRebuildProgressReporting \/ CloseRebuildProgressReporting
           \/ AbortPrewarmTransaction \/ WorkerEnds \/ MainStep
  BY <1>2, <1>6 DEF SuspendRebuildProgressReporting, WorkerEnds, mailVars,
     CloseRebuildProgressReporting, AbortPrewarmTransaction, MainStep,
     CloseNativePrewarmOverlay, RequestFontPrewarmStop, BarrierEnds,
     ShutdownFontPrewarm
<1>7. CASE BeginSession \/ LatchRebuildProgress \/ BeginGeneration
           \/ CompleteSession \/ WorkerRequestsStop \/ WorkerLeaves
  BY <1>7 DEF BeginSession, LatchRebuildProgress, BeginGeneration,
     CompleteSession, WorkerRequestsStop, WorkerLeaves, mailVars
<1>8. CASE UNCHANGED vars
  BY <1>8 DEF vars, mailVars
<1> QED
  BY <1>4, <1>5, <1>6, <1>7, <1>8 DEF WorkerStep

LEMMA ReadStep ==
  ASSUME TypeOK, ReadInv, [Next]_vars PROVE ReadInv'
<1> USE DEF ReadInv
<1>1. /\ command.sequence \in Nat /\ read.sequence \in Nat
  BY DEF TypeOK, Command
<1>2. CASE WorkerStep \/ MainStep \/ UNCHANGED vars
  <2>1. UNCHANGED <<read, place>>
    BY <1>2, WorkerFrame DEF vars, loadVars
  <2>2. UNCHANGED consumed
    BY <1>2, ConsumedStays
  <2> QED
    BY <1>1, <2>1, <2>2, NewerCommand
<1>3. CASE ReadLatest
  BY <1>1, <1>3 DEF ReadLatest, mailVars
<1>4. CASE MarkConsumed
  BY <1>4 DEF MarkConsumed, AppliedSequence
<1>5. CASE ForgetHost \/ ApplyClose \/ ApplySuspend \/ ApplyPresent \/ ApplyFails
           \/ SkipDisabled \/ DisableRun \/ ReplaceRoot
  <2>1. UNCHANGED <<command, read>> /\ (place' = "update" => place = "update")
        /\ UNCHANGED consumed
    BY <1>5 DEF ForgetHost, ApplyClose, ApplySuspend, ApplyPresent, ApplyFails,
       SkipDisabled, DisableRun, ReplaceRoot, mailVars
  <2> QED
    BY <2>1
<1> QED
  BY <1>2, <1>3, <1>4, <1>5 DEF Next, ConsumeStep

LEMMA ScreenStep ==
  ASSUME TypeOK, TreeInv, ReadInv, ScreenInv, [Next]_vars PROVE ScreenInv'
<1> USE DEF ScreenInv
<1>1. CASE WorkerStep \/ MainStep \/ UNCHANGED vars
  <2>1. UNCHANGED loadVars
    BY <1>1, WorkerFrame DEF vars
  <2> QED
    BY <2>1 DEF loadVars
<1>2. CASE ReadLatest \/ SkipDisabled \/ ForgetHost \/ DisableRun \/ MarkConsumed
  BY <1>2 DEF ReadLatest, SkipDisabled, ForgetHost, DisableRun, MarkConsumed
<1>3. CASE ApplyClose \/ ApplySuspend
  <2>1. /\ host \in {root, NoRoot} /\ root \in Roots /\ root # NoRoot
        /\ UNCHANGED <<root, read>> /\ read.action # "present"
        /\ place' = "mark" /\ instance # "disabled"
    BY <1>3 DEF ApplyClose, ApplySuspend, Applying, HostChanged, TypeOK, TreeInv
  <2>2. shown'[root] = Hidden
    <3>1. CASE host = NoRoot
      <4>1. shown[root] = Hidden
        BY <2>1, <3>1
      <4>2. UNCHANGED shown
        BY <1>3, <3>1 DEF ApplyClose, ApplySuspend
      <4> QED
        BY <4>1, <4>2
    <3>2. CASE host = root /\ host # NoRoot
      BY <1>3, <2>1, <3>2 DEF ApplyClose, ApplySuspend, TypeOK
    <3> QED
      BY <2>1, <3>1, <3>2
  <2> QED
    BY <2>1, <2>2
<1>4. CASE ApplyPresent
  <2>1. /\ host' = root /\ root \in Roots /\ root # NoRoot
        /\ UNCHANGED <<root, read>> /\ read.action = "present"
        /\ shown' = [shown EXCEPT ![root] = read.progress]
        /\ place' = "mark"
    BY <1>4 DEF ApplyPresent, Applying, HostChanged, TypeOK, TreeInv
  <2>2. shown'[root] = read.progress
    BY <2>1 DEF TypeOK
  <2> QED
    BY <2>1, <2>2
<1>5. CASE ApplyFails
  BY <1>5 DEF ApplyFails
<1>6. CASE ReplaceRoot
  <2>1. /\ root' \in Roots /\ root' \notin gone /\ root' # root
        /\ place = "update"
        /\ UNCHANGED <<place, read, instance, host, shown>>
    BY <1>6 DEF ReplaceRoot
  <2>2. shown'[root'] = Hidden
    BY <2>1 DEF TreeInv
  <2> QED
    BY <2>1, <2>2
<1> QED
  BY <1>1, <1>2, <1>3, <1>4, <1>5, <1>6 DEF Next, ConsumeStep

-----------------------------------------------------------------------------
(* The theorems.                                                               *)

LEMMA InitInv == Init => OverlayInv
<1> SUFFICES ASSUME Init PROVE OverlayInv
  OBVIOUS
<1>1. MailTypes /\ read \in Command
  BY ProgressTypes DEF Init, MailTypes, Command, Actions
<1>2. ReportTypes /\ ThreadTypes
  BY ProgressTypes DEF Init, ReportTypes, ThreadTypes, Phases
<1>3. LoadTypes
  <2>1. shown \in [Roots -> 0..Hidden]
    BY OverlayAssumption DEF Init, Hidden
  <2> QED
    BY <1>1, <2>1 DEF Init, LoadTypes, Places, InstanceStates
<1>4. ClaimInv /\ PhaseInv
  BY DEF Init, ClaimInv, PhaseInv
<1>5. TreeInv /\ ReadInv /\ ScreenInv
  BY DEF Init, TreeInv, ReadInv, ScreenInv
<1> QED
  BY <1>1, <1>2, <1>3, <1>4, <1>5, TypeParts DEF OverlayInv

LEMMA NextInv == OverlayInv /\ [Next]_vars => OverlayInv'
  BY TypeStep, ClaimStep, PhaseStep, TreeStep, ReadStep, ScreenStep DEF OverlayInv

LEMMA InvariantHolds == Spec => []OverlayInv
  BY InitInv, NextInv, PTL DEF Spec

\* Type correctness: the mailbox, the reporting flags and the component's state
\* keep their types, and a value on the screen is a progress or hidden.
THEOREM TypeCorrect == Spec => []TypeOK
  BY InvariantHolds, PTL DEF OverlayInv

\* The claim that hides the IME candidate window ends with the run's close, its
\* disabling or its worker, whatever the order of the three threads.
THEOREM ClaimReleasedHolds == Spec => []ClaimReleased
<1>1. OverlayInv => ClaimReleased
  BY DEF OverlayInv, ClaimInv, ClaimReleased
<1> QED
  BY <1>1, InvariantHolds, PTL

\* A LoadingMenu thread that has caught up shows what the mailbox says, although
\* commands arrive between its read and its acknowledgement.
THEOREM ScreenFollowsMailboxHolds == Spec => []ScreenFollowsMailbox
<1>1. OverlayInv => ScreenFollowsMailbox
  BY DEF OverlayInv, ReadInv, ScreenInv, ScreenFollowsMailbox
<1> QED
  BY <1>1, InvariantHolds, PTL

\* No step writes to a tree that LoadingMenu has given up.
THEOREM ReclaimedTreeUntouchedHolds == Spec => ReclaimedTreeUntouched
<1>1. ASSUME OverlayInv, [Next]_vars PROVE \A r \in gone : shown'[r] = shown[r]
  <2> USE <1>1 DEF OverlayInv
  <2>1. CASE UNCHANGED shown
    BY <2>1
  <2>2. CASE ApplyClose \/ ApplySuspend \/ ApplyPresent \/ ApplyFails
    <3>1. root # NoRoot /\ root \notin gone /\ host \in {root, NoRoot}
      BY <2>2 DEF ApplyClose, ApplySuspend, ApplyPresent, ApplyFails, Applying,
         HostChanged, TreeInv
    <3>2. CASE ApplyPresent
      <4>1. shown' = [shown EXCEPT ![root] = read.progress]
        BY <3>1, <3>2 DEF ApplyPresent
      <4> QED
        BY <3>1, <4>1 DEF TypeOK
    <3>3. CASE ApplyClose \/ ApplySuspend \/ ApplyFails
      <4>1. UNCHANGED shown \/ shown' = [shown EXCEPT ![root] = Hidden]
        BY <3>1, <3>3 DEF ApplyClose, ApplySuspend, ApplyFails
      <4> QED
        BY <3>1, <4>1 DEF TypeOK
    <3> QED
      BY <2>2, <3>2, <3>3
  <2>3. CASE WorkerStep \/ MainStep \/ UNCHANGED vars
    BY <2>3, <2>1, WorkerFrame DEF vars, loadVars
  <2>4. CASE ReadLatest \/ SkipDisabled \/ ForgetHost \/ DisableRun
             \/ MarkConsumed \/ ReplaceRoot
    BY <2>1, <2>4 DEF ReadLatest, SkipDisabled, ForgetHost, DisableRun,
       MarkConsumed, ReplaceRoot
  <2> QED
    BY <2>2, <2>3, <2>4 DEF Next, ConsumeStep
<1>2. OverlayInv /\ [Next]_vars => [\A r \in gone : shown'[r] = shown[r]]_vars
  BY <1>1
<1> QED
  BY <1>2, InvariantHolds, PTL DEF Spec, ReclaimedTreeUntouched
=============================================================================
