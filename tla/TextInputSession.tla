-------------------------- MODULE TextInputSession --------------------------
(* Text input: which field of the game gets what the IME and the keyboard      *)
(* send.  The window procedure only captures messages, at any time; the main   *)
(* loop finds the game's open field, works the captured messages off, and lets *)
(* a watchdog repair the association of the IME context.  `input' is ImeState  *)
(* with the captured queue and what Windows keeps; the functions that change   *)
(* it are operators from one such record to the next, and `ok' is whether      *)
(* Windows does what an association asks of it.                                *)
EXTENDS Integers, Sequences

CONSTANTS
    Capacity,     \* kCapturedInputEventCapacity
    MaxMessages,  \* bound: messages the IME and the keyboard send
    MaxChanges,   \* bound: fields the game opens
    MaxTroubles   \* bound: contexts changed by others, exits to the main menu

ASSUME InputAssumption ==
    /\ Capacity \in Nat \ {0}
    /\ MaxMessages \in Nat /\ MaxChanges \in Nat /\ MaxTroubles \in Nat

\* A text edit menu, whose opening is hooked, and a search field, which the
\* main loop discovers; and no field.
Fields == {"edit", "search"}
Targets == Fields \cup {"none"}

\* WM_IME_STARTCOMPOSITION without text and with it; WM_IME_COMPOSITION with
\* GCS_COMPSTR, with GCS_RESULTSTR, with both; WM_IME_ENDCOMPOSITION; WM_CHAR.
Messages == {"start", "begin", "update", "result", "continue", "end", "char"}

VARIABLES
    open,      \* the game: its open text fields
    visible,   \* FindGameWindow finds the game's window
    input,     \* ImeState, the captured queue, the window's IME context
    pc, left,  \* the main loop: its place, captured messages of this frame
    last,      \* history: the text the last processed message inserted
    messages, changes, troubles

\* In `input', besides the code's state:
\*   context              the window has an IME context
\*   composition          the IME shows a composition
\*   started, closing     IMM was told of its start; its whole result was sent
\*   owed                 the text service has not reported its last change
\*   irregular            history: a message was dropped, was captured in no
\*                        session or could not be inserted, or the text
\*                        service ran ahead of a committed result
vars == <<open, visible, input, pc, left, last, messages, changes, troubles>>

NoText == [into |-> "none", from |-> "none"]

Init ==
    /\ open = {} /\ visible = FALSE
    /\ input = [target |-> "none", generation |-> 1, session |-> FALSE,
                observed |-> FALSE, composing |-> FALSE, preview |-> FALSE,
                fallback |-> FALSE, handoff |-> "none", suppressed |-> FALSE,
                edit |-> "none", editGeneration |-> 0,
                window |-> FALSE, enabled |-> FALSE, detached |-> FALSE,
                associated |-> 0, events |-> <<>>, irregular |-> FALSE,
                context |-> TRUE, composition |-> FALSE, started |-> FALSE,
                closing |-> FALSE, owed |-> FALSE]
    /\ pc = "idle" /\ left = 0 /\ last = NoText
    /\ messages = 0 /\ changes = 0 /\ troubles = 0

-----------------------------------------------------------------------------
(* The broker: the current target and its generation.                      *)

\* The game's field that takes text: a text edit menu before a search.
ResolveCurrentTextInputTarget(fields) ==
    IF "edit" \in fields THEN "edit"
    ELSE IF "search" \in fields THEN "search" ELSE "none"

\* A result handoff is of one generation, so a new one ends it.
AdvanceTextInputSessionGeneration(s) ==
    [s EXCEPT !.generation = @ + 1, !.handoff = "none"]

\* The preview of the composition goes, unless a result handoff has already
\* put the next composition there.
ClearImePreviewState(s, handoff) ==
    LET kept == handoff /\ s.handoff = "ready" /\ s.preview
    IN  [s EXCEPT !.preview = kept, !.fallback = kept /\ @,
                  !.handoff = IF handoff THEN @ ELSE "none"]

\* mutant: the preview of the old target is left to the new one
SynchronizeTargetOnly(s, fields) ==
    LET resolved == ResolveCurrentTextInputTarget(fields)
    IN  IF s.target = resolved THEN s
        ELSE [AdvanceTextInputSessionGeneration(s) EXCEPT
                !.target = resolved, !.composing = FALSE]

SynchronizeTextInputTarget(s, fields) ==
    LET resolved == ResolveCurrentTextInputTarget(fields)
    IN  IF s.target = resolved THEN s
        ELSE ClearImePreviewState(
               [AdvanceTextInputSessionGeneration(s) EXCEPT
                  !.target = resolved, !.composing = FALSE], FALSE)

\* mutant: a token is current as long as there is a target
HasCurrentTextInputTarget(s, event) == s.target # "none"

IsCurrentTextInputTargetToken(s, event) ==
    event.generation = s.generation /\ event.field = s.target

-----------------------------------------------------------------------------
(* Capture: the window procedure.                                          *)

\* mutant: a full queue takes one more
EnqueueAnyway(s, event) == [s EXCEPT !.events = Append(@, event)]

EnqueueCapturedInputEvent(s, event) ==
    IF Len(s.events) = Capacity
    THEN [s EXCEPT !.irregular = TRUE,
                   !.handoff = IF event.kind \in {"result", "continue"}
                               THEN "none" ELSE @]
    ELSE [s EXCEPT !.events = Append(@, event)]

\* What the capture itself changes, in a session.
NoteComposition(s, kind) ==
    [s EXCEPT
       !.composing = \/ kind \in {"start", "begin", "update", "continue"}
                     \/ @ /\ kind \notin {"result", "end"},
       !.handoff = IF kind \in {"result", "continue"} THEN "armed" ELSE @]

Captured(s, kind) ==
    [kind |-> kind, bound |-> s.session, field |-> s.target,
     generation |-> s.generation]

MultibyteInputWndProc(s, kind) ==
    IF ~s.window \/ (kind = "char" /\ ~s.session) THEN s
    ELSE EnqueueCapturedInputEvent(
           IF s.session THEN NoteComposition(s, kind) ELSE s,
           Captured(s, kind))

-----------------------------------------------------------------------------
(* The session and the IME context.                                        *)

\* The IME answers a cancelled composition with its end, at once.
CancelGameImeComposition(s) ==
    LET cancelled == [s EXCEPT !.composition = FALSE, !.started = FALSE,
                               !.closing = FALSE, !.owed = s.window]
    IN  IF ~s.context \/ ~(s.composition \/ s.started) THEN s
        ELSE IF s.started THEN MultibyteInputWndProc(cancelled, "end")
        ELSE cancelled

EnableGameIme(s, ok) ==
    IF s.enabled /\ ~s.detached /\ s.associated = s.generation THEN s
    ELSE IF ok
    THEN [s EXCEPT !.context = TRUE, !.enabled = TRUE, !.detached = FALSE,
                   !.associated = s.generation]
    ELSE [CancelGameImeComposition(s) EXCEPT
            !.context = FALSE, !.enabled = FALSE, !.associated = 0]

DisableGameIme(s, ok) ==
    LET published == [s EXCEPT !.enabled = FALSE, !.associated = 0]
        cancelled == ClearImePreviewState(
                       [CancelGameImeComposition(
                          [published EXCEPT !.detached = FALSE])
                        EXCEPT !.composing = FALSE], FALSE)
    IN  IF s.detached /\ ~s.context THEN published
        ELSE [cancelled EXCEPT !.context = @ /\ ~ok,
                               !.detached = ~(s.context /\ ~ok)]

SetGameImeEnabled(s, enable, ok) ==
    IF ~s.window THEN s
    ELSE IF enable THEN EnableGameIme(s, ok) ELSE DisableGameIme(s, ok)

SetTextInputSessionActive(s, active, fields, ok) ==
    LET switched == IF active
                    THEN [SynchronizeTextInputTarget(s, fields) EXCEPT
                            !.session = TRUE]
                    ELSE SynchronizeTextInputTarget(
                           [s EXCEPT !.session = FALSE], fields)
    IN  IF s.session = active THEN s
        ELSE SetGameImeEnabled(AdvanceTextInputSessionGeneration(switched),
                               active, ok)

RefreshTextInputSessionForActiveTarget(s, fields, ok) ==
    LET advanced == AdvanceTextInputSessionGeneration(
                      SynchronizeTextInputTarget(s, fields))
    IN  SetGameImeEnabled(
          ClearImePreviewState(
            [advanced EXCEPT !.composing = FALSE, !.session = TRUE], FALSE),
          TRUE, ok)

UpdateGameImeAssociation(s, fields, ok) ==
    LET synced == SynchronizeTextInputTarget(s, fields)
        hasTarget == synced.target # "none"
        set == SetTextInputSessionActive(synced, hasTarget, fields, ok)
    IN  IF ~s.window THEN s
        ELSE IF hasTarget THEN SetGameImeEnabled(set, TRUE, ok)
        ELSE IF ~set.detached THEN SetGameImeEnabled(set, FALSE, ok) ELSE set

EndStewieTextInputSession(s, fields, ok) ==
    LET cleared == ClearImePreviewState([s EXCEPT !.composing = FALSE], FALSE)
    IN  UpdateGameImeAssociation(
          SetTextInputSessionActive(cleared, FALSE, fields, ok), fields, ok)

-----------------------------------------------------------------------------
(* The game.                                                               *)

\* TextEditMenuEx::Open starts the session itself; the adapter is installed.
OpenField(field, ok) ==
    /\ pc = "idle" /\ field \notin open /\ changes < MaxChanges
    /\ changes' = changes + 1
    /\ open' = open \cup {field}
    /\ field = "edit" => input.window    \* assumption: see README
    /\ input' = IF field = "edit"
                THEN SetTextInputSessionActive(input, TRUE, open', ok)
                ELSE input
    /\ UNCHANGED <<visible, pc, left, last, messages, troubles>>

CloseField(field) ==
    /\ pc = "idle" /\ field \in open
    /\ open' = open \ {field}
    /\ UNCHANGED <<visible, input, pc, left, last, messages, changes, troubles>>

\* The game closes its menus; the adapter is removed, unless another plugin
\* has put its own window procedure on top.
ExitToMainMenu(rollback) ==
    /\ pc = "idle" /\ troubles < MaxTroubles
    /\ troubles' = troubles + 1
    /\ open' = {}
    /\ visible' = (visible /\ ~rollback)
    /\ input' = ClearImePreviewState(
                  [AdvanceTextInputSessionGeneration(input) EXCEPT
                     !.events = <<>>, !.session = FALSE, !.target = "none",
                     !.composing = FALSE, !.suppressed = FALSE,
                     !.observed = FALSE,
                     !.window = @ /\ ~rollback,
                     !.edit = IF rollback THEN "none" ELSE @,
                     !.owed = @ /\ ~rollback], FALSE)
    /\ UNCHANGED <<pc, left, last, messages, changes>>

-----------------------------------------------------------------------------
(* The IME and Windows.                                                    *)

Send(kind, s) ==
    /\ messages < MaxMessages
    /\ messages' = messages + 1
    /\ input' = MultibyteInputWndProc(s, kind)
    /\ UNCHANGED <<open, visible, pc, left, last, changes, troubles>>

\* What the IME shows changes, and the text service hears of it.
Composing(shows, started, closing) ==
    [input EXCEPT !.composition = shows, !.started = started,
                  !.closing = closing, !.owed = input.window]

StartComposition ==
    /\ input.context /\ ~input.started
    /\ \E kind \in {"start", "begin"} : Send(kind, Composing(TRUE, TRUE, FALSE))

UpdateComposition ==
    /\ input.started /\ ~input.closing
    /\ Send("update", Composing(TRUE, TRUE, FALSE))

\* Part of the composition is committed, the rest goes on; or all of it is,
\* and its end follows.
CommitPart ==
    /\ input.started /\ ~input.closing
    /\ Send("continue", Composing(TRUE, TRUE, FALSE))

CommitWhole ==
    /\ input.started /\ ~input.closing
    /\ Send("result", Composing(FALSE, TRUE, TRUE))

\* The next composition has text before the messages that begin it.
NextCompositionShows ==
    /\ input.closing /\ ~input.composition
    /\ input' = Composing(TRUE, TRUE, TRUE)
    /\ UNCHANGED <<open, visible, pc, left, last, messages, changes, troubles>>

EndComposition ==
    /\ input.started
    /\ Send("end", Composing(input.closing /\ input.composition, FALSE, FALSE))

\* The user gives up a composition whose start was never sent.
CancelUnstarted ==
    /\ input.composition /\ ~input.started
    /\ input' = Composing(FALSE, FALSE, FALSE)
    /\ UNCHANGED <<open, visible, pc, left, last, messages, changes, troubles>>

TypeCharacter == input.session /\ Send("char", input)

\* The text service reports the composition as it is now; one report is kept.
OnEndEdit ==
    /\ input.owed
    /\ input' = [input EXCEPT
                   !.owed = FALSE,
                   !.edit = IF input.composition THEN "text" ELSE "empty",
                   !.editGeneration = input.generation]
    /\ UNCHANGED <<open, visible, pc, left, last, messages, changes, troubles>>

\* Another plugin gives the window its default context back
\* (WM_IME_SETCONTEXT) or takes it away.
ContextRebound ==
    /\ ~input.context /\ troubles < MaxTroubles
    /\ troubles' = troubles + 1
    /\ input' = [input EXCEPT
                   !.context = TRUE,
                   !.detached = @ /\ (input.session \/ ~input.window)]
    /\ UNCHANGED <<open, visible, pc, left, last, messages, changes>>

ContextLost ==
    /\ input.context /\ troubles < MaxTroubles
    /\ troubles' = troubles + 1
    /\ input' = [CancelGameImeComposition(input) EXCEPT !.context = FALSE]
    /\ UNCHANGED <<open, visible, pc, left, last, messages, changes>>

\* kImeResultHandoffLifetimeMs
HandoffExpires ==
    /\ input.handoff # "none"
    /\ input' = [input EXCEPT !.handoff = "none"]
    /\ UNCHANGED <<open, visible, pc, left, last, messages, changes, troubles>>

-----------------------------------------------------------------------------
(* The main loop.                                                          *)

WindowFound ==
    /\ ~visible /\ visible' = TRUE
    /\ UNCHANGED <<open, input, pc, left, last, messages, changes, troubles>>

TryInstallWindowProc(s, ok) ==
    IF s.window THEN s
    ELSE SetGameImeEnabled([s EXCEPT !.window = TRUE, !.enabled = FALSE,
                                     !.associated = 0], FALSE, ok)

\* ProcessDialogueHistoryInputTargetState; the other searches do the same.
ProcessSearchTargetState(s, ok) ==
    IF "search" \in open
    THEN IF s.observed \/ s.session THEN [s EXCEPT !.observed = TRUE]
         ELSE RefreshTextInputSessionForActiveTarget(
                [s EXCEPT !.observed = TRUE], open, ok)
    ELSE IF s.observed /\ "edit" \notin open
         THEN EndStewieTextInputSession([s EXCEPT !.observed = FALSE], open, ok)
         ELSE [s EXCEPT !.observed = FALSE]

\* The text service's composition stands in for an IMM composition that has
\* no text; its end is believed only if it did, and IMM has none either.
PumpTsfInputUpdates(s) ==
    LET taken == [s EXCEPT !.edit = "none", !.editGeneration = 0]
        shows == s.context /\ s.composition
    IN  IF ~s.session \/ s.editGeneration # s.generation THEN taken
        ELSE IF s.edit = "text" /\ (~s.preview \/ s.fallback)
        THEN [taken EXCEPT !.preview = TRUE, !.fallback = TRUE,
                !.composing = TRUE,
                !.irregular = @ \/ s.handoff = "armed",
                !.handoff = IF @ = "armed" THEN "ready" ELSE @]
        ELSE IF s.edit = "empty" /\ s.fallback
        THEN [taken EXCEPT !.fallback = FALSE, !.preview = shows,
                !.composing = @ /\ shows]
        ELSE taken

FrameStarts(ok) ==
    /\ pc = "idle" /\ pc' = "pump"
    /\ UNCHANGED <<open, visible, last, messages, changes, troubles>>
    /\ LET installed == IF visible THEN TryInstallWindowProc(input, ok)
                        ELSE input
           synced == SynchronizeTextInputTarget(
                       ProcessSearchTargetState(installed, ok), open)
       IN  input' = PumpTsfInputUpdates(synced)
    /\ left' = Len(input'.events)

IsImeConsumingAscii(s) ==
    /\ s.window
    /\ s.composing \/ (s.context /\ s.composition) \/ (s.session /\ s.preview)

\* A WM_CHAR: one that repeats a committed result is swallowed; printable
\* ASCII goes into a search unless the IME is using it (a text edit menu
\* reads it from the keyboard); other text goes into either.
TakesCharacter(s, wide) ==
    /\ s.target # "none"
    /\ wide \/ (s.target = "search" /\ ~IsImeConsumingAscii(s))

\* A captured WM_IME_COMPOSITION with a result that is not taken, for want of
\* a captured text or because it cannot be converted, ends the preview alike.
ApplyComposition(s, event, taken) ==
    LET cleared == ClearImePreviewState(s, s.handoff # "none")
        continues == event.kind = "continue"
        shown == continues /\ event.bound
    IN  [cleared EXCEPT
           !.composing = continues /\ taken,
           !.preview = IF continues THEN shown ELSE @,
           !.fallback = @ /\ ~shown,
           !.handoff = IF continues /\ taken THEN "none" ELSE @,
           !.suppressed = @ \/ taken]

\* The rest of ProcessCapturedInputMessage, once the target has its context.
Handled(s, event, taken) ==
    IF event.kind \in {"start", "begin"}
    THEN LET texted == event.kind = "begin" /\ event.bound
         IN  [ClearImePreviewState(s, s.handoff # "none") EXCEPT
                !.composing = TRUE, !.handoff = "none",
                !.preview = @ \/ texted, !.fallback = @ /\ ~texted]
    ELSE IF event.kind = "update"
    THEN [s EXCEPT !.composing = TRUE, !.preview = event.bound,
                   !.fallback = @ /\ ~event.bound]
    ELSE IF event.kind = "end"
    THEN ClearImePreviewState([s EXCEPT !.composing = FALSE],
                              s.handoff # "none")
    ELSE ApplyComposition(s, event, taken)

\* One captured message.  `fits': the text can be converted and inserted;
\* `wide': a character is not ASCII; `repeats': it comes soon after a result.
ProcessCapturedInputMessage(ok, fits, wide, repeats) ==
    /\ pc = "pump" /\ left > 0
    /\ left' = left - 1
    /\ UNCHANGED <<open, visible, pc, messages, changes, troubles>>
    /\ LET event == Head(input.events)
           s == [input EXCEPT !.events = Tail(@)]
           hasTarget == s.target # "none"
           active == SetTextInputSessionActive(s, hasTarget, open, ok)
           ready == SetGameImeEnabled(active, TRUE, ok)
           swallowed == s.suppressed /\ repeats
           taken == /\ fits
                    /\ IF event.kind = "char"
                       THEN ~swallowed /\ TakesCharacter(ready, wide)
                       ELSE /\ event.kind \in {"result", "continue"}
                            /\ event.bound /\ hasTarget
           refused == event.kind \in {"result", "continue"} /\ ~taken
       IN  IF event.bound /\ ~IsCurrentTextInputTargetToken(s, event)
           THEN input' = s /\ last' = NoText
           ELSE /\ input' =
                     IF event.kind = "char"
                     THEN [(IF hasTarget THEN ready ELSE active) EXCEPT
                             !.suppressed = swallowed]
                     ELSE IF hasTarget
                     THEN [Handled(ready, event, taken) EXCEPT
                             !.irregular = @ \/ ~event.bound \/ refused]
                     ELSE SetGameImeEnabled(active, FALSE, ok)
                /\ last' = IF taken
                           THEN [into |-> ready.target, from |-> event.field]
                           ELSE NoText

PumpEnds ==
    /\ pc = "pump" /\ left = 0
    /\ pc' = "watchdog" /\ last' = NoText
    /\ UNCHANGED <<open, visible, input, left, messages, changes, troubles>>

\* mutant: only a session is watched
NothingToRetry(s) == FALSE

DetachRetryPending(s) == ~s.session /\ ~s.detached

\* PumpImeStatusWatchdog, when its interval has passed.
WatchdogFires(ok) ==
    /\ pc = "watchdog" /\ pc' = "idle"
    /\ UNCHANGED <<open, visible, left, last, messages, changes, troubles>>
    /\ LET checked == IF input.session /\ input.enabled /\ ~input.context
                      THEN [input EXCEPT !.enabled = FALSE, !.associated = 0]
                      ELSE input
       IN  input' = IF input.window
                       /\ (input.session \/ DetachRetryPending(input))
                    THEN UpdateGameImeAssociation(checked, open, ok)
                    ELSE input

WatchdogRests ==
    /\ pc = "watchdog" /\ pc' = "idle"
    /\ UNCHANGED <<open, visible, input, left, last, messages, changes, troubles>>

-----------------------------------------------------------------------------

Frame ==
    \/ \E ok \in BOOLEAN : FrameStarts(ok)
    \/ \E ok, fits, wide, repeats \in BOOLEAN :
         ProcessCapturedInputMessage(ok, fits, wide, repeats)
    \/ PumpEnds \/ WatchdogRests
    \/ \E ok \in BOOLEAN : WatchdogFires(ok)

Next ==
    \/ Frame
    \/ \E field \in Fields, ok \in BOOLEAN : OpenField(field, ok)
    \/ \E field \in Fields : CloseField(field)
    \/ \E rollback \in BOOLEAN : ExitToMainMenu(rollback)
    \/ StartComposition \/ UpdateComposition \/ CommitPart \/ CommitWhole
    \/ NextCompositionShows \/ EndComposition \/ CancelUnstarted
    \/ TypeCharacter \/ OnEndEdit
    \/ WindowFound \/ ContextRebound \/ ContextLost \/ HandoffExpires

Spec == Init /\ [][Next]_vars

\* The steps of a frame, by what they do to its place alone.
FrameTurn ==
    \/ pc = "idle" /\ pc' = "pump" /\ left' \in 0..Capacity
    \/ pc = "pump" /\ left > 0 /\ left' = left - 1 /\ pc' = pc
    \/ pc = "pump" /\ left = 0 /\ pc' = "watchdog" /\ left' = left
    \/ pc = "watchdog" /\ pc' = "idle" /\ left' = left

\* Frames go on, the window is found, and a watchdog that fires again and
\* again gets what it asks of Windows.
FairSpec ==
    /\ Spec
    /\ WF_<<pc, left>>(FrameTurn)
    /\ WF_vars(WindowFound)
    /\ SF_vars(WatchdogFires(TRUE))

-----------------------------------------------------------------------------

\* Every variable keeps its range and the queue its capacity.
Event == [kind : Messages, bound : BOOLEAN, field : Targets,
          generation : Nat]

Input ==
    [target : Targets, generation : Nat, session : BOOLEAN,
     observed : BOOLEAN, composing : BOOLEAN, preview : BOOLEAN,
     fallback : BOOLEAN, handoff : {"none", "armed", "ready"},
     suppressed : BOOLEAN, edit : {"none", "text", "empty"},
     editGeneration : Nat, window : BOOLEAN, enabled : BOOLEAN,
     detached : BOOLEAN, associated : Nat, events : Seq(Event),
     irregular : BOOLEAN, context : BOOLEAN, composition : BOOLEAN,
     started : BOOLEAN, closing : BOOLEAN, owed : BOOLEAN]

TypeOK ==
    /\ open \subseteq Fields /\ visible \in BOOLEAN
    /\ input \in Input /\ Len(input.events) <= Capacity
    /\ left \in 0..Len(input.events)
    /\ pc \in {"idle", "pump", "watchdog"}

\* What was typed or composed for one field is never inserted into another one,
\* nor into one that is closed, whatever opened or closed between the capture
\* of a message and its turn: the token captured with it is checked when it is
\* processed (IsCurrentTextInputTargetToken).
TextStaysInField ==
    last # NoText => last.into = last.from /\ last.into \in open

\* Everything sent has been processed and reported, and no result's end is due.
Quiet ==
    /\ pc = "idle" /\ input.events = <<>> /\ input.edit = "none"
    /\ ~input.owed /\ ~input.closing

\* Once all is quiet, a field does not lose ASCII to a composition the IME has
\* not got (IsImeConsumingAscii), whatever fields, contexts and sessions came
\* and went during it; the irregular courses excepted.
NoPhantomComposition ==
    Quiet /\ ~input.irregular /\ input.target # "none" =>
        (IsImeConsumingAscii(input) => input.composition)

\* When the game has opened and closed its last field, the window ends up with
\* an IME context and a session if a field is open, and with neither if none
\* is: failed associations are retried, and a context that somebody gave back
\* or took away is repaired (PumpImeStatusWatchdog).
ImeFollowsFields ==
    <>[](input.session = (open # {}) /\ input.context = (open # {}))
=============================================================================
