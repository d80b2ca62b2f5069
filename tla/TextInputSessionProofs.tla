----------------------- MODULE TextInputSessionProofs -----------------------
(* Proofs about TextInputSession for every capacity of the captured queue and  *)
(* every number of messages, openings and troubles: type correctness, that     *)
(* text stays in its field, and that no composition is believed in that the    *)
(* IME has not got once all is quiet.                                          *)
EXTENDS TextInputSession, TLAPS

-----------------------------------------------------------------------------
(* The inductive invariant.                                                    *)

\* A character is captured in a session only, so it is bound to a target.
CharsBound(events) ==
    \A i \in 1..Len(events) : events[i].kind = "char" => events[i].bound

Sound == {s \in Input : Len(s.events) <= Capacity /\ CharsBound(s.events)}

\* While captured messages are worked off no field opens or closes, so the
\* target is the one the frame has found; and only then is text inserted.
PumpInv ==
    /\ pc = "pump" => input.target = ResolveCurrentTextInputTarget(open)
    /\ pc # "pump" => last = NoText /\ left = 0

InputInv == TypeOK /\ input \in Sound /\ PumpInv /\ TextStaysInField

-----------------------------------------------------------------------------
(* The operators on the input state.  Each leads from a sound one to a sound   *)
(* one and drops no captured message; most leave the target alone.             *)

Keeps(s, t) == t \in Sound /\ Len(t.events) >= Len(s.events)
Stays(s, t) == Keeps(s, t) /\ t.target = s.target

\* A change that leaves the captured queue and the target alone.
Same(s, t) == t \in Input /\ t.events = s.events /\ t.target = s.target

LEMMA SameStays ==
    ASSUME NEW s \in Sound, NEW t, Same(s, t)
    PROVE  Stays(s, t)
  BY DEF Same, Stays, Keeps, Sound, Input

LEMMA StaysTwice ==
    ASSUME NEW s, NEW t, NEW u, Stays(s, t), Stays(t, u), s \in Sound
    PROVE  Stays(s, u)
  <1>1. Len(s.events) \in Nat /\ Len(t.events) \in Nat /\ Len(u.events) \in Nat
    BY DEF Stays, Keeps, Sound, Input
  <1> QED
    BY <1>1 DEF Stays, Keeps

LEMMA KeepsTwice ==
    ASSUME NEW s, NEW t, NEW u, Keeps(s, t), Keeps(t, u), s \in Sound
    PROVE  Keeps(s, u)
  <1>1. Len(s.events) \in Nat /\ Len(t.events) \in Nat /\ Len(u.events) \in Nat
    BY DEF Keeps, Sound, Input
  <1> QED
    BY <1>1 DEF Keeps

LEMMA ResolvedTarget ==
    ASSUME NEW fields \in SUBSET Fields
    PROVE  /\ ResolveCurrentTextInputTarget(fields) \in Targets
           /\ ResolveCurrentTextInputTarget(fields) # "none" =>
                ResolveCurrentTextInputTarget(fields) \in fields
  BY DEF ResolveCurrentTextInputTarget, Targets, Fields

LEMMA AdvanceStays ==
    ASSUME NEW s \in Sound
    PROVE  Stays(s, AdvanceTextInputSessionGeneration(s))
  <1>1. s \in Input /\ s.generation + 1 \in Nat
    BY DEF Sound, Input
  <1>2. ASSUME NEW n \in Nat
        PROVE  Same(s, [s EXCEPT !.generation = n, !.handoff = "none"])
    BY <1>1 DEF Same, Input
  <1> QED
    BY <1>1, <1>2, SameStays DEF AdvanceTextInputSessionGeneration

LEMMA ClearStays ==
    ASSUME NEW s \in Sound, NEW handoff \in BOOLEAN
    PROVE  Stays(s, ClearImePreviewState(s, handoff))
  <1> DEFINE kept == handoff /\ s.handoff = "ready" /\ s.preview
             fallback == kept /\ s.fallback
             next == IF handoff THEN s.handoff ELSE "none"
  <1>1. s \in Input
    BY DEF Sound
  <1>2. kept \in BOOLEAN /\ fallback \in BOOLEAN
    OBVIOUS
  <1>3. next \in {"none", "armed", "ready"}
    BY <1>1 DEF Input
  <1>4. ASSUME NEW k \in BOOLEAN, NEW f \in BOOLEAN, NEW n \in {"none", "armed", "ready"}
        PROVE  Same(s, [s EXCEPT !.preview = k, !.fallback = f, !.handoff = n])
    BY ZenonT(60), <1>1 DEF Same, Input
  <1>5. Same(s, [s EXCEPT !.preview = kept, !.fallback = fallback, !.handoff = next])
    <2> HIDE DEF kept, fallback, next
    <2> QED BY <1>2, <1>3, <1>4
  <1>6. ClearImePreviewState(s, handoff)
          = [s EXCEPT !.preview = kept, !.fallback = fallback, !.handoff = next]
    BY DEF ClearImePreviewState
  <1> QED
    BY <1>5, <1>6, SameStays

LEMMA EnqueueStays ==
    ASSUME NEW s \in Sound, NEW event \in Event,
           event.kind = "char" => event.bound
    PROVE  Stays(s, EnqueueCapturedInputEvent(s, event))
  <1>1. s \in Input /\ s.events \in Seq(Event) /\ Len(s.events) \in Nat
    BY DEF Sound, Input
  <1>2. CASE Len(s.events) = Capacity
    <2> DEFINE next == IF event.kind \in {"result", "continue"}
                       THEN "none" ELSE s.handoff
    <2>1. next \in {"none", "armed", "ready"}
      BY <1>1 DEF Input
    <2>2. ASSUME NEW n \in {"none", "armed", "ready"}
          PROVE  Same(s, [s EXCEPT !.irregular = TRUE, !.handoff = n])
      BY <1>1 DEF Same, Input
    <2>3. EnqueueCapturedInputEvent(s, event)
            = [s EXCEPT !.irregular = TRUE, !.handoff = next]
      BY <1>2 DEF EnqueueCapturedInputEvent
    <2> HIDE DEF next
    <2> QED
      BY <2>1, <2>2, <2>3, SameStays
  <1>3. CASE Len(s.events) # Capacity
    <2> DEFINE queue == Append(s.events, event)
    <2>1. Len(s.events) < Capacity
      BY <1>1, <1>3, InputAssumption DEF Sound
    <2>2. queue \in Seq(Event) /\ Len(queue) = Len(s.events) + 1
      BY <1>1
    <2>3. CharsBound(queue)
      <3> SUFFICES ASSUME NEW i \in 1..Len(queue), queue[i].kind = "char"
                   PROVE  queue[i].bound
        BY DEF CharsBound
      <3>1. CASE i \in 1..Len(s.events)
        <4>1. queue[i] = s.events[i]
          BY <1>1, <3>1
        <4> QED
          BY <3>1, <4>1 DEF Sound, CharsBound
      <3>2. CASE i = Len(s.events) + 1
        <4>1. queue[i] = event
          BY <1>1, <3>2
        <4> HIDE DEF queue
        <4>2. event.kind = "char"
          BY <4>1
        <4>3. event.bound
          BY <4>2
        <4> QED
          BY <4>1, <4>3, Zenon
      <3> QED
        BY <1>1, <2>2, <3>1, <3>2
    <2>4. ASSUME NEW q \in Seq(Event)
          PROVE  LET t == [s EXCEPT !.events = q]
                 IN  t \in Input /\ t.events = q /\ t.target = s.target
      BY <1>1 DEF Input
    <2>5. EnqueueCapturedInputEvent(s, event) = [s EXCEPT !.events = queue]
      BY <1>3 DEF EnqueueCapturedInputEvent
    <2> HIDE DEF queue
    <2> DEFINE next == [s EXCEPT !.events = queue]
    <2>6. next \in Input /\ next.events = queue /\ next.target = s.target
      BY <2>2, <2>4
    <2> HIDE DEF next
    <2>7. Len(queue) <= Capacity /\ Len(queue) >= Len(s.events)
      BY <1>1, <2>1, <2>2, InputAssumption
    <2>8. next \in Sound
      BY <2>3, <2>6, <2>7 DEF Sound
    <2>9. Stays(s, next)
      BY <2>6, <2>7, <2>8 DEF Stays, Keeps
    <2> QED
      BY <2>5, <2>9 DEF next
  <1> QED
    BY <1>2, <1>3

LEMMA NoteStays ==
    ASSUME NEW s \in Sound, NEW kind \in Messages
    PROVE  Stays(s, NoteComposition(s, kind))
  <1> DEFINE composes == \/ kind \in {"start", "begin", "update", "continue"}
                         \/ s.composing /\ kind \notin {"result", "end"}
             next == IF kind \in {"result", "continue"} THEN "armed" ELSE s.handoff
  <1>1. s \in Input
    BY DEF Sound
  <1>2. composes \in BOOLEAN
    OBVIOUS
  <1>3. next \in {"none", "armed", "ready"}
    BY <1>1 DEF Input
  <1>4. ASSUME NEW c \in BOOLEAN, NEW n \in {"none", "armed", "ready"}
        PROVE  Same(s, [s EXCEPT !.composing = c, !.handoff = n])
    BY <1>1 DEF Same, Input
  <1>5. NoteComposition(s, kind)
          = [s EXCEPT !.composing = composes, !.handoff = next]
    BY DEF NoteComposition
  <1> HIDE DEF composes, next
  <1> QED
    BY <1>2, <1>3, <1>4, <1>5, SameStays

LEMMA CaptureStays ==
    ASSUME NEW s \in Sound, NEW kind \in Messages
    PROVE  Stays(s, MultibyteInputWndProc(s, kind))
  <1>1. s \in Input
    BY DEF Sound
  <1>2. CASE ~s.window \/ (kind = "char" /\ ~s.session)
    <2>1. MultibyteInputWndProc(s, kind) = s
      BY <1>2 DEF MultibyteInputWndProc
    <2> QED
      BY <1>1, <2>1, SameStays DEF Same
  <1>3. CASE ~(~s.window \/ (kind = "char" /\ ~s.session))
    <2> DEFINE noted == IF s.session THEN NoteComposition(s, kind) ELSE s
               event == Captured(s, kind)
    <2>1. Stays(s, noted)
      BY <1>1, NoteStays, SameStays DEF Same
    <2>2. s.session \in BOOLEAN /\ s.target \in Targets /\ s.generation \in Nat
      BY <1>1 DEF Input
    <2>3. event \in Event
      BY <2>2 DEF Captured, Event
    <2>4. event.kind = "char" => event.bound
      BY <1>3 DEF Captured
    <2>5. MultibyteInputWndProc(s, kind) = EnqueueCapturedInputEvent(noted, event)
      BY <1>3 DEF MultibyteInputWndProc
    <2> HIDE DEF noted, event
    <2>6. noted \in Sound
      BY <2>1 DEF Stays, Keeps
    <2>7. Stays(noted, EnqueueCapturedInputEvent(noted, event))
      BY <2>3, <2>4, <2>6, EnqueueStays
    <2> QED
      BY <2>1, <2>5, <2>7, StaysTwice
  <1> QED
    BY <1>2, <1>3

-----------------------------------------------------------------------------
(* The session and the context.                                                *)

LEMMA CancelStays ==
    ASSUME NEW s \in Sound
    PROVE  Stays(s, CancelGameImeComposition(s))
  <1> DEFINE cancelled == [s EXCEPT !.composition = FALSE, !.started = FALSE,
                                    !.closing = FALSE, !.owed = s.window]
  <1>1. s \in Input /\ s.window \in BOOLEAN
    BY DEF Sound, Input
  <1>2. Stays(s, s)
    BY <1>1, SameStays DEF Same
  <1>3. Same(s, cancelled)
    BY <1>1 DEF Same, Input
  <1>4. Stays(s, cancelled) /\ cancelled \in Sound
    BY <1>3, SameStays DEF Stays, Keeps
  <1>5. \/ CancelGameImeComposition(s) = s
        \/ CancelGameImeComposition(s) = cancelled
        \/ CancelGameImeComposition(s) = MultibyteInputWndProc(cancelled, "end")
    BY DEF CancelGameImeComposition
  <1> HIDE DEF cancelled
  <1>6. Stays(cancelled, MultibyteInputWndProc(cancelled, "end"))
    BY <1>4, CaptureStays DEF Messages
  <1> QED
    BY <1>2, <1>4, <1>5, <1>6, StaysTwice

LEMMA EnableStays ==
    ASSUME NEW s \in Sound, NEW ok \in BOOLEAN
    PROVE  Stays(s, EnableGameIme(s, ok))
  <1> DEFINE cancelled == CancelGameImeComposition(s)
             attached == [s EXCEPT !.context = TRUE, !.enabled = TRUE,
                                   !.detached = FALSE,
                                   !.associated = s.generation]
             failed == [cancelled EXCEPT !.context = FALSE, !.enabled = FALSE,
                                         !.associated = 0]
  <1>1. s \in Input /\ s.generation \in Nat
    BY DEF Sound, Input
  <1>2. Stays(s, s)
    BY <1>1, SameStays DEF Same
  <1>3. Stays(s, attached)
    <2>1. ASSUME NEW n \in Nat
          PROVE  Same(s, [s EXCEPT !.context = TRUE, !.enabled = TRUE,
                                   !.detached = FALSE, !.associated = n])
      BY <1>1 DEF Same, Input
    <2> QED
      BY <1>1, <2>1, SameStays
  <1>4. Stays(s, cancelled)
    BY CancelStays
  <1>5. EnableGameIme(s, ok) \in {s, attached, failed}
    BY DEF EnableGameIme
  <1>6. Stays(cancelled, failed)
    <2> HIDE DEF cancelled
    <2>1. cancelled \in Sound /\ cancelled \in Input
      BY <1>4 DEF Stays, Keeps, Sound
    <2>2. Same(cancelled, failed)
      BY <2>1 DEF Same, Input
    <2> QED
      BY <2>1, <2>2, SameStays
  <1> HIDE DEF cancelled, attached, failed
  <1> QED
    BY <1>2, <1>3, <1>4, <1>5, <1>6, StaysTwice

LEMMA DisableStays ==
    ASSUME NEW s \in Sound, NEW ok \in BOOLEAN
    PROVE  Stays(s, DisableGameIme(s, ok))
  <1> DEFINE published == [s EXCEPT !.enabled = FALSE, !.associated = 0]
             reset == [published EXCEPT !.detached = FALSE]
             cancelled == CancelGameImeComposition(reset)
             idle == [cancelled EXCEPT !.composing = FALSE]
             cleared == ClearImePreviewState(idle, FALSE)
             context == cleared.context /\ ~ok
             detached == ~(s.context /\ ~ok)
             released == [cleared EXCEPT !.context = context,
                                         !.detached = detached]
  <1>1. DisableGameIme(s, ok) \in {published, released}
    BY DEF DisableGameIme
  <1>2. Stays(s, published) /\ published \in Sound /\ published \in Input
    <2>1. s \in Input
      BY DEF Sound
    <2>2. Same(s, published)
      BY <2>1 DEF Same, Input
    <2> QED
      BY <2>2, SameStays DEF Stays, Keeps, Sound
  <1> HIDE DEF published
  <1>3. Stays(published, reset) /\ reset \in Sound
    <2>1. Same(published, reset)
      BY <1>2 DEF Same, Input
    <2> QED
      BY <1>2, <2>1, SameStays DEF Stays, Keeps
  <1> HIDE DEF reset
  <1>4. Stays(reset, cancelled) /\ cancelled \in Sound /\ cancelled \in Input
    BY <1>3, CancelStays DEF Stays, Keeps, Sound
  <1> HIDE DEF cancelled
  <1>5. Stays(cancelled, idle) /\ idle \in Sound
    <2>1. Same(cancelled, idle)
      BY <1>4 DEF Same, Input
    <2> QED
      BY <1>4, <2>1, SameStays DEF Stays, Keeps
  <1> HIDE DEF idle
  <1>6. Stays(idle, cleared) /\ cleared \in Sound /\ cleared \in Input
    BY <1>5, ClearStays DEF Stays, Keeps, Sound
  <1> HIDE DEF cleared
  <1>7. context \in BOOLEAN /\ detached \in BOOLEAN
    OBVIOUS
  <1> HIDE DEF context, detached
  <1>8. Stays(cleared, released)
    <2>1. Same(cleared, released)
      BY ZenonT(60), <1>6, <1>7 DEF Same, Input
    <2> QED
      BY <1>6, <2>1, SameStays
  <1> HIDE DEF released
  <1>9. Stays(s, cancelled)
    BY <1>2, <1>3, <1>4, StaysTwice
  <1>10. Stays(s, cleared)
    BY <1>5, <1>6, <1>9, StaysTwice
  <1> QED
    BY <1>1, <1>2, <1>8, <1>10, StaysTwice

LEMMA SetStays ==
    ASSUME NEW s \in Sound, NEW enable \in BOOLEAN, NEW ok \in BOOLEAN
    PROVE  Stays(s, SetGameImeEnabled(s, enable, ok))
  <1>1. Stays(s, s)
    BY SameStays DEF Same, Sound
  <1> QED
    BY <1>1, EnableStays, DisableStays DEF SetGameImeEnabled

LEMMA SynchronizeKeeps ==
    ASSUME NEW s \in Sound, NEW fields \in SUBSET Fields
    PROVE  /\ Keeps(s, SynchronizeTextInputTarget(s, fields))
           /\ SynchronizeTextInputTarget(s, fields).target
                = ResolveCurrentTextInputTarget(fields)
  <1> DEFINE resolved == ResolveCurrentTextInputTarget(fields)
             advanced == AdvanceTextInputSessionGeneration(s)
             moved == [advanced EXCEPT !.target = resolved, !.composing = FALSE]
             cleared == ClearImePreviewState(moved, FALSE)
  <1>1. resolved \in Targets
    BY ResolvedTarget
  <1>2. Keeps(s, s)
    BY SameStays DEF Same, Stays, Sound
  <1>3. SynchronizeTextInputTarget(s, fields)
          = IF s.target = resolved THEN s ELSE cleared
    BY DEF SynchronizeTextInputTarget
  <1> HIDE DEF resolved
  <1>4. Keeps(s, advanced) /\ advanced \in Sound /\ advanced \in Input
    BY AdvanceStays DEF Stays, Keeps, Sound
  <1> HIDE DEF advanced
  <1>5. moved \in Input /\ moved.events = advanced.events /\ moved.target = resolved
    BY <1>1, <1>4 DEF Input
  <1> HIDE DEF moved
  <1>6. Keeps(advanced, moved) /\ moved \in Sound
    BY <1>4, <1>5 DEF Keeps, Sound, Input
  <1>7. Keeps(moved, cleared) /\ cleared.target = resolved
    BY <1>5, <1>6, ClearStays DEF Stays
  <1> HIDE DEF cleared
  <1>8. Keeps(s, cleared)
    BY <1>4, <1>6, <1>7, KeepsTwice
  <1> QED
    BY <1>2, <1>3, <1>7, <1>8 DEF resolved

\* The session starts or ends; a target that is the game's already is left alone.
LEMMA SessionKeeps ==
    ASSUME NEW s \in Sound, NEW active \in BOOLEAN, NEW fields \in SUBSET Fields,
           NEW ok \in BOOLEAN
    PROVE  /\ Keeps(s, SetTextInputSessionActive(s, active, fields, ok))
           /\ s.target = ResolveCurrentTextInputTarget(fields)
                => Stays(s, SetTextInputSessionActive(s, active, fields, ok))
  <1> DEFINE resolved == ResolveCurrentTextInputTarget(fields)
             synced == SynchronizeTextInputTarget(s, fields)
             begun == [synced EXCEPT !.session = TRUE]
             ended == [s EXCEPT !.session = FALSE]
             resynced == SynchronizeTextInputTarget(ended, fields)
             switched == IF active THEN begun ELSE resynced
             advanced == AdvanceTextInputSessionGeneration(switched)
             set == SetGameImeEnabled(advanced, active, ok)
  <1>1. Stays(s, s)
    BY SameStays DEF Same, Sound
  <1>2. SetTextInputSessionActive(s, active, fields, ok)
          = IF s.session = active THEN s ELSE set
    BY DEF SetTextInputSessionActive
  <1>3. Keeps(s, begun) /\ begun.target = resolved
    <2>1. Keeps(s, synced) /\ synced \in Sound /\ synced \in Input
          /\ synced.target = resolved
      BY SynchronizeKeeps DEF Keeps, Sound
    <2> HIDE DEF synced, resolved
    <2>2. Same(synced, begun)
      BY <2>1 DEF Same, Input
    <2>3. Stays(synced, begun)
      BY <2>1, <2>2, SameStays
    <2> HIDE DEF begun
    <2> QED
      BY <2>1, <2>3, KeepsTwice DEF Stays
  <1>4. Keeps(s, resynced) /\ resynced.target = resolved
    <2>1. Same(s, ended)
      BY DEF Same, Sound, Input
    <2>2. Stays(s, ended) /\ ended \in Sound
      BY <2>1, SameStays DEF Stays, Keeps
    <2> HIDE DEF ended
    <2>3. Keeps(ended, resynced) /\ resynced.target = resolved
      BY <2>2, SynchronizeKeeps
    <2> HIDE DEF resynced, resolved
    <2> QED
      BY <2>2, <2>3, KeepsTwice DEF Stays
  <1> HIDE DEF begun, resynced
  <1>5. Keeps(s, switched) /\ switched.target = resolved /\ switched \in Sound
    BY <1>3, <1>4 DEF Keeps
  <1> HIDE DEF switched
  <1>6. Stays(switched, advanced) /\ advanced \in Sound
    BY <1>5, AdvanceStays DEF Stays, Keeps
  <1> HIDE DEF advanced
  <1>7. Stays(advanced, set)
    BY <1>6, SetStays
  <1> HIDE DEF set
  <1>8. Stays(switched, set)
    BY <1>5, <1>6, <1>7, StaysTwice
  <1>9. Keeps(s, set) /\ set.target = resolved
    BY <1>5, <1>8, KeepsTwice DEF Stays
  <1> HIDE DEF resolved
  <1>10. s.target = resolved => Stays(s, set)
    BY <1>9 DEF Stays
  <1> QED
    BY <1>1, <1>2, <1>9, <1>10 DEF resolved, Stays

LEMMA RefreshKeeps ==
    ASSUME NEW s \in Sound, NEW fields \in SUBSET Fields, NEW ok \in BOOLEAN
    PROVE  Keeps(s, RefreshTextInputSessionForActiveTarget(s, fields, ok))
  <1> DEFINE synced == SynchronizeTextInputTarget(s, fields)
             advanced == AdvanceTextInputSessionGeneration(synced)
             begun == [advanced EXCEPT !.composing = FALSE, !.session = TRUE]
             cleared == ClearImePreviewState(begun, FALSE)
             set == SetGameImeEnabled(cleared, TRUE, ok)
  <1>1. RefreshTextInputSessionForActiveTarget(s, fields, ok) = set
    BY DEF RefreshTextInputSessionForActiveTarget
  <1>2. Keeps(s, synced) /\ synced \in Sound
    BY SynchronizeKeeps DEF Keeps
  <1> HIDE DEF synced
  <1>3. Keeps(synced, advanced) /\ advanced \in Sound /\ advanced \in Input
    BY <1>2, AdvanceStays DEF Stays, Keeps, Sound
  <1> HIDE DEF advanced
  <1>4. Keeps(advanced, begun) /\ begun \in Sound
    <2>1. Same(advanced, begun)
      BY <1>3 DEF Same, Input
    <2> QED
      BY <1>3, <2>1, SameStays DEF Stays, Keeps
  <1> HIDE DEF begun
  <1>5. Keeps(begun, cleared) /\ cleared \in Sound
    BY <1>4, ClearStays DEF Stays, Keeps
  <1> HIDE DEF cleared
  <1>6. Keeps(cleared, set)
    BY <1>5, SetStays DEF Stays
  <1> HIDE DEF set
  <1>7. Keeps(s, begun)
    BY <1>2, <1>3, <1>4, KeepsTwice
  <1> QED
    BY <1>1, <1>5, <1>6, <1>7, KeepsTwice

LEMMA UpdateKeeps ==
    ASSUME NEW s \in Sound, NEW fields \in SUBSET Fields, NEW ok \in BOOLEAN
    PROVE  Keeps(s, UpdateGameImeAssociation(s, fields, ok))
  <1> DEFINE synced == SynchronizeTextInputTarget(s, fields)
             hasTarget == synced.target # "none"
             set == SetTextInputSessionActive(synced, hasTarget, fields, ok)
             attached == SetGameImeEnabled(set, TRUE, ok)
             released == SetGameImeEnabled(set, FALSE, ok)
  <1>1. UpdateGameImeAssociation(s, fields, ok) \in {s, set, attached, released}
    BY DEF UpdateGameImeAssociation
  <1>2. Keeps(s, s)
    BY SameStays DEF Same, Stays, Sound
  <1>3. Keeps(s, synced) /\ synced \in Sound
    BY SynchronizeKeeps DEF Keeps
  <1>4. hasTarget \in BOOLEAN
    OBVIOUS
  <1> HIDE DEF synced, hasTarget
  <1>5. Keeps(synced, set) /\ set \in Sound
    BY <1>3, <1>4, SessionKeeps DEF Keeps
  <1> HIDE DEF set
  <1>6. Keeps(set, attached) /\ Keeps(set, released)
    BY <1>5, SetStays DEF Stays
  <1> HIDE DEF attached, released
  <1>7. Keeps(s, set)
    BY <1>3, <1>5, KeepsTwice
  <1> QED
    BY <1>1, <1>2, <1>6, <1>7, KeepsTwice

LEMMA EndKeeps ==
    ASSUME NEW s \in Sound, NEW fields \in SUBSET Fields, NEW ok \in BOOLEAN
    PROVE  Keeps(s, EndStewieTextInputSession(s, fields, ok))
  <1> DEFINE idle == [s EXCEPT !.composing = FALSE]
             cleared == ClearImePreviewState(idle, FALSE)
             set == SetTextInputSessionActive(cleared, FALSE, fields, ok)
             updated == UpdateGameImeAssociation(set, fields, ok)
  <1>1. EndStewieTextInputSession(s, fields, ok) = updated
    BY DEF EndStewieTextInputSession
  <1>2. Keeps(s, idle) /\ idle \in Sound
    <2>1. Same(s, idle)
      BY DEF Same, Sound, Input
    <2> QED
      BY <2>1, SameStays DEF Stays, Keeps
  <1> HIDE DEF idle
  <1>3. Keeps(idle, cleared) /\ cleared \in Sound
    BY <1>2, ClearStays DEF Stays, Keeps
  <1> HIDE DEF cleared
  <1>4. Keeps(cleared, set) /\ set \in Sound
    BY <1>3, SessionKeeps DEF Keeps
  <1> HIDE DEF set
  <1>5. Keeps(set, updated)
    BY <1>4, UpdateKeeps
  <1> HIDE DEF updated
  <1>6. Keeps(s, set)
    BY <1>2, <1>3, <1>4, KeepsTwice
  <1> QED
    BY <1>1, <1>5, <1>6, KeepsTwice

LEMMA InstallKeeps ==
    ASSUME NEW s \in Sound, NEW ok \in BOOLEAN
    PROVE  Keeps(s, TryInstallWindowProc(s, ok))
  <1> DEFINE installed == [s EXCEPT !.window = TRUE, !.enabled = FALSE,
                                    !.associated = 0]
             set == SetGameImeEnabled(installed, FALSE, ok)
  <1>1. TryInstallWindowProc(s, ok) = IF s.window THEN s ELSE set
    BY DEF TryInstallWindowProc
  <1>2. Keeps(s, s)
    BY SameStays DEF Same, Stays, Sound
  <1>3. Keeps(s, installed) /\ installed \in Sound
    <2>1. Same(s, installed)
      BY DEF Same, Sound, Input
    <2> QED
      BY <2>1, SameStays DEF Stays, Keeps
  <1> HIDE DEF installed
  <1>4. Keeps(installed, set)
    BY <1>3, SetStays DEF Stays
  <1> HIDE DEF set
  <1> QED
    BY <1>1, <1>2, <1>3, <1>4, KeepsTwice

LEMMA SearchKeeps ==
    ASSUME NEW s \in Sound, NEW ok \in BOOLEAN, open \subseteq Fields
    PROVE  Keeps(s, ProcessSearchTargetState(s, ok))
  <1> DEFINE seen == [s EXCEPT !.observed = TRUE]
             unseen == [s EXCEPT !.observed = FALSE]
             refreshed == RefreshTextInputSessionForActiveTarget(seen, open, ok)
             ended == EndStewieTextInputSession(unseen, open, ok)
  <1>1. ProcessSearchTargetState(s, ok) \in {seen, unseen, refreshed, ended}
    BY DEF ProcessSearchTargetState
  <1>2. Keeps(s, seen) /\ seen \in Sound /\ Keeps(s, unseen) /\ unseen \in Sound
    <2>1. Same(s, seen) /\ Same(s, unseen)
      BY DEF Same, Sound, Input
    <2> QED
      BY <2>1, SameStays DEF Stays, Keeps
  <1> HIDE DEF seen, unseen
  <1>3. open \in SUBSET Fields
    OBVIOUS
  <1>4. Keeps(seen, refreshed) /\ Keeps(unseen, ended)
    BY <1>2, <1>3, RefreshKeeps, EndKeeps
  <1> HIDE DEF refreshed, ended
  <1> QED
    BY <1>1, <1>2, <1>4, KeepsTwice

LEMMA PumpTsfStays ==
    ASSUME NEW s \in Sound
    PROVE  Stays(s, PumpTsfInputUpdates(s))
  <1> DEFINE taken == [s EXCEPT !.edit = "none", !.editGeneration = 0]
             shows == s.context /\ s.composition
             irregular == taken.irregular \/ s.handoff = "armed"
             next == IF taken.handoff = "armed" THEN "ready" ELSE taken.handoff
             composes == taken.composing /\ shows
             standIn == [taken EXCEPT
                           !.preview = TRUE, !.fallback = TRUE,
                           !.composing = TRUE, !.irregular = irregular,
                           !.handoff = next]
             ended == [taken EXCEPT !.fallback = FALSE, !.preview = shows,
                                    !.composing = composes]
  <1>1. PumpTsfInputUpdates(s) \in {taken, standIn, ended}
    BY DEF PumpTsfInputUpdates
  <1>2. Stays(s, taken) /\ taken \in Sound /\ taken \in Input
    <2>1. Same(s, taken)
      BY DEF Same, Sound, Input
    <2> QED
      BY <2>1, SameStays DEF Stays, Keeps, Sound
  <1> HIDE DEF taken
  <1>3. irregular \in BOOLEAN /\ shows \in BOOLEAN /\ composes \in BOOLEAN
    OBVIOUS
  <1>4. next \in {"none", "armed", "ready"}
    BY <1>2 DEF Input
  <1>5. ASSUME NEW i \in BOOLEAN, NEW n \in {"none", "armed", "ready"}
        PROVE  Same(taken, [taken EXCEPT !.preview = TRUE, !.fallback = TRUE,
                              !.composing = TRUE, !.irregular = i,
                              !.handoff = n])
    BY <1>2 DEF Same, Input
  <1>6. ASSUME NEW p \in BOOLEAN, NEW c \in BOOLEAN
        PROVE  Same(taken, [taken EXCEPT !.fallback = FALSE, !.preview = p,
                              !.composing = c])
    BY ZenonT(60), <1>2 DEF Same, Input
  <1>7. Stays(taken, standIn) /\ Stays(taken, ended)
    <2> HIDE DEF irregular, next, shows, composes
    <2> QED
      BY <1>2, <1>3, <1>4, <1>5, <1>6, SameStays
  <1> HIDE DEF standIn, ended
  <1> QED
    BY <1>1, <1>2, <1>7, StaysTwice

LEMMA ApplyStays ==
    ASSUME NEW s \in Sound, NEW event \in Event, NEW taken \in BOOLEAN
    PROVE  Stays(s, ApplyComposition(s, event, taken))
  <1> DEFINE cleared == ClearImePreviewState(s, s.handoff # "none")
             continues == event.kind = "continue"
             shown == continues /\ event.bound
             composes == continues /\ taken
             preview == IF continues THEN shown ELSE cleared.preview
             fallback == cleared.fallback /\ ~shown
             next == IF continues /\ taken THEN "none" ELSE cleared.handoff
             suppressed == cleared.suppressed \/ taken
             applied == [cleared EXCEPT
                           !.composing = composes, !.preview = preview,
                           !.fallback = fallback, !.handoff = next,
                           !.suppressed = suppressed]
  <1>1. ApplyComposition(s, event, taken) = applied
    BY DEF ApplyComposition
  <1>2. Stays(s, cleared) /\ cleared \in Sound /\ cleared \in Input
    BY ClearStays DEF Stays, Keeps, Sound
  <1> HIDE DEF cleared
  <1>3. next \in {"none", "armed", "ready"}
    BY <1>2 DEF Input
  <1>4. cleared.preview \in BOOLEAN
    BY <1>2 DEF Input
  <1>5. shown \in BOOLEAN /\ composes \in BOOLEAN /\ fallback \in BOOLEAN
        /\ suppressed \in BOOLEAN
    OBVIOUS
  <1>6. preview \in BOOLEAN
    BY <1>4
  <1> DEFINE shows == [cleared EXCEPT !.composing = composes, !.preview = preview,
                                      !.fallback = fallback]
  <1>7. applied = [shows EXCEPT !.handoff = next, !.suppressed = suppressed]
    OBVIOUS
  <1> HIDE DEF applied
  <1>8. Stays(cleared, shows) /\ shows \in Sound /\ shows \in Input
    <2>1. ASSUME NEW c \in BOOLEAN, NEW p \in BOOLEAN, NEW f \in BOOLEAN
          PROVE  Same(cleared, [cleared EXCEPT !.composing = c, !.preview = p,
                                               !.fallback = f])
      BY ZenonT(60), <1>2 DEF Same, Input
    <2> HIDE DEF shown, composes, preview, fallback
    <2> QED
      BY <1>2, <1>5, <1>6, <2>1, SameStays DEF Stays, Keeps, Sound
  <1> HIDE DEF shows
  <1>9. Stays(shows, applied)
    <2>1. ASSUME NEW n \in {"none", "armed", "ready"}, NEW u \in BOOLEAN
          PROVE  Same(shows, [shows EXCEPT !.handoff = n, !.suppressed = u])
      BY <1>8 DEF Same, Input
    <2> HIDE DEF next, suppressed
    <2> QED
      BY <1>3, <1>5, <1>7, <1>8, <2>1, SameStays
  <1>10. Stays(s, shows)
    BY <1>2, <1>8, StaysTwice
  <1> QED
    BY <1>1, <1>9, <1>10, StaysTwice

LEMMA HandledStays ==
    ASSUME NEW s \in Sound, NEW event \in Event, NEW taken \in BOOLEAN
    PROVE  Stays(s, Handled(s, event, taken))
  <1> DEFINE texted == event.kind = "begin" /\ event.bound
             cleared == ClearImePreviewState(s, s.handoff # "none")
             previewed == cleared.preview \/ texted
             stoodIn == cleared.fallback /\ ~texted
             started == [cleared EXCEPT
                           !.composing = TRUE, !.handoff = "none",
                           !.preview = previewed, !.fallback = stoodIn]
             fallback == s.fallback /\ ~event.bound
             updated == [s EXCEPT !.composing = TRUE, !.preview = event.bound,
                                  !.fallback = fallback]
             idle == [s EXCEPT !.composing = FALSE]
             ended == ClearImePreviewState(idle, s.handoff # "none")
             applied == ApplyComposition(s, event, taken)
  <1>1. Handled(s, event, taken) \in {started, updated, ended, applied}
    BY DEF Handled
  <1>2. Stays(s, cleared) /\ cleared \in Sound /\ cleared \in Input
    BY ClearStays DEF Stays, Keeps, Sound
  <1>3. Stays(s, started)
    <2> HIDE DEF cleared
    <2>1. previewed \in BOOLEAN /\ stoodIn \in BOOLEAN
      OBVIOUS
    <2>2. ASSUME NEW p \in BOOLEAN, NEW f \in BOOLEAN
          PROVE  Same(cleared, [cleared EXCEPT
                                  !.composing = TRUE, !.handoff = "none",
                                  !.preview = p, !.fallback = f])
      BY <1>2 DEF Same, Input
    <2> HIDE DEF texted, previewed, stoodIn
    <2>3. Stays(cleared, started)
      BY <1>2, <2>1, <2>2, SameStays
    <2> HIDE DEF started
    <2> QED
      BY <1>2, <2>3, StaysTwice
  <1>4. Stays(s, updated)
    <2>1. fallback \in BOOLEAN
      OBVIOUS
    <2>2. event.bound \in BOOLEAN
      BY DEF Event
    <2>3. ASSUME NEW p \in BOOLEAN, NEW f \in BOOLEAN
          PROVE  Same(s, [s EXCEPT !.composing = TRUE, !.preview = p,
                                   !.fallback = f])
      BY DEF Same, Sound, Input
    <2> HIDE DEF fallback
    <2> QED
      BY <2>1, <2>2, <2>3, SameStays
  <1>5. Stays(s, ended)
    <2>1. Same(s, idle)
      BY DEF Same, Sound, Input
    <2>2. Stays(s, idle) /\ idle \in Sound
      BY <2>1, SameStays DEF Stays, Keeps
    <2> HIDE DEF idle
    <2>3. Stays(idle, ended)
      BY <2>2, ClearStays
    <2> HIDE DEF ended
    <2> QED
      BY <2>2, <2>3, StaysTwice
  <1>6. Stays(s, applied)
    BY ApplyStays
  <1> HIDE DEF started, updated, ended, applied
  <1> QED
    BY <1>1, <1>3, <1>4, <1>5, <1>6

\* A captured message leaves the queue.
LEMMA TailIsSound ==
    ASSUME NEW s \in Sound, s.events # <<>>
    PROVE  LET t == [s EXCEPT !.events = Tail(@)]
           IN  /\ t \in Sound /\ t.target = s.target
               /\ Len(t.events) = Len(s.events) - 1
               /\ Head(s.events) \in Event
               /\ Head(s.events).kind = "char" => Head(s.events).bound
  <1> DEFINE rest == Tail(s.events)
             event == Head(s.events)
             t == [s EXCEPT !.events = rest]
  <1>1. s \in Input /\ s.events \in Seq(Event) /\ Len(s.events) \in Nat \ {0}
    BY DEF Sound, Input
  <1>2. rest \in Seq(Event) /\ Len(rest) = Len(s.events) - 1
    BY <1>1
  <1>3. event \in Event /\ event = s.events[1]
    BY <1>1
  <1>4. event.kind = "char" => event.bound
    <2>1. CharsBound(s.events) /\ 1 \in 1..Len(s.events)
      BY <1>1 DEF Sound
    <2> HIDE DEF event
    <2> QED
      BY <1>3, <2>1, Zenon DEF CharsBound
  <1>5. CharsBound(rest)
    <2> SUFFICES ASSUME NEW i \in 1..Len(rest), rest[i].kind = "char"
                 PROVE  rest[i].bound
      BY DEF CharsBound
    <2>1. rest[i] = s.events[i + 1] /\ i + 1 \in 1..Len(s.events)
      BY <1>1, <1>2
    <2> HIDE DEF rest
    <2> QED
      BY <2>1 DEF Sound, CharsBound
  <1>6. ASSUME NEW q \in Seq(Event)
        PROVE  LET u == [s EXCEPT !.events = q]
               IN  u \in Input /\ u.events = q /\ u.target = s.target
    BY <1>1 DEF Input
  <1>7. Len(rest) <= Capacity
    BY <1>1, <1>2, InputAssumption DEF Sound
  <1>8. t \in Input /\ t.events = rest /\ t.target = s.target
    <2> HIDE DEF rest
    <2> QED BY <1>2, <1>6
  <1>9. t \in Sound
    <2> HIDE DEF t, rest
    <2> QED BY <1>5, <1>7, <1>8 DEF Sound
  <1> QED
    BY <1>2, <1>3, <1>4, <1>8, <1>9

-----------------------------------------------------------------------------
(* The steps.                                                                  *)

\* Windows, the IME and the text service leave the target and the frame alone.
LEMMA OutsideStep ==
    ASSUME InputInv, Stays(input, input'), visible' \in BOOLEAN,
           UNCHANGED <<open, pc, left, last>>
    PROVE  InputInv'
  <1> DEFINE now == input
             next == input'
  <1>1. next \in Sound /\ next \in Input /\ next.target = now.target
        /\ Len(next.events) <= Capacity
    BY DEF Stays, Keeps, Sound
  <1>2. left \in 0..Len(next.events)
    <2>1. Len(now.events) \in Nat /\ Len(next.events) \in Nat
          /\ Len(next.events) >= Len(now.events)
      BY <1>1 DEF Stays, Keeps, InputInv, Sound, Input
    <2> QED
      BY <2>1 DEF InputInv, TypeOK
  <1> QED
    BY <1>1, <1>2 DEF InputInv, TypeOK, PumpInv, TextStaysInField

\* Outside of the pump nothing is inserted, whatever becomes of the fields.
LEMMA IdleStep ==
    ASSUME input' \in Sound, open' \subseteq Fields, visible' \in BOOLEAN,
           pc' \in {"idle", "watchdog"}, left' = 0, last' = NoText
    PROVE  InputInv'
  <1>1. input' \in Input /\ Len(input'.events) <= Capacity
        /\ Len(input'.events) \in Nat
    BY DEF Sound, Input
  <1> QED
    BY <1>1 DEF InputInv, TypeOK, PumpInv, TextStaysInField

LEMMA FrameStartsStep ==
    ASSUME InputInv, NEW ok \in BOOLEAN, FrameStarts(ok)
    PROVE  InputInv'
  <1> DEFINE installed == IF visible THEN TryInstallWindowProc(input, ok) ELSE input
             searched == ProcessSearchTargetState(installed, ok)
             synced == SynchronizeTextInputTarget(searched, open)
             pumped == PumpTsfInputUpdates(synced)
  <1>1. open \subseteq Fields /\ open \in SUBSET Fields /\ input \in Sound
    BY DEF InputInv, TypeOK
  <1>2. input' = pumped /\ left' = Len(input'.events)
    BY DEF FrameStarts
  <1>3. installed \in Sound
    BY <1>1, InstallKeeps DEF Keeps
  <1> HIDE DEF installed
  <1>4. searched \in Sound
    BY <1>1, <1>3, SearchKeeps DEF Keeps
  <1> HIDE DEF searched
  <1>5. synced \in Sound /\ synced.target = ResolveCurrentTextInputTarget(open)
    BY <1>1, <1>4, SynchronizeKeeps DEF Keeps
  <1> HIDE DEF synced
  <1>6. pumped \in Sound /\ pumped.target = ResolveCurrentTextInputTarget(open)
    BY <1>5, PumpTsfStays DEF Stays, Keeps
  <1> HIDE DEF pumped
  <1>7. input' \in Sound /\ input' \in Input /\ Len(input'.events) \in Nat
        /\ Len(input'.events) <= Capacity
    BY <1>2, <1>6 DEF Sound, Input
  <1>8. UNCHANGED <<open, visible, last>> /\ pc' = "pump" /\ last = NoText
    BY DEF FrameStarts, InputInv, PumpInv
  <1> QED
    BY <1>1, <1>2, <1>6, <1>7, <1>8
    DEF InputInv, TypeOK, PumpInv, TextStaysInField

\* The field of a token that is current is the target, and the target is the
\* field the game has open.
LEMMA ProcessStep ==
    ASSUME InputInv, NEW ok \in BOOLEAN, NEW fits \in BOOLEAN,
           NEW wide \in BOOLEAN, NEW repeats \in BOOLEAN,
           ProcessCapturedInputMessage(ok, fits, wide, repeats)
    PROVE  InputInv'
  <1> DEFINE event == Head(input.events)
             s == [input EXCEPT !.events = Tail(@)]
             hasTarget == s.target # "none"
             active == SetTextInputSessionActive(s, hasTarget, open, ok)
             ready == SetGameImeEnabled(active, TRUE, ok)
             released == SetGameImeEnabled(active, FALSE, ok)
             swallowed == s.suppressed /\ repeats
             taken == /\ fits
                      /\ IF event.kind = "char"
                         THEN ~swallowed /\ TakesCharacter(ready, wide)
                         ELSE /\ event.kind \in {"result", "continue"}
                              /\ event.bound /\ hasTarget
             refused == event.kind \in {"result", "continue"} /\ ~taken
             current == IF hasTarget THEN ready ELSE active
             typed == [current EXCEPT !.suppressed = swallowed]
             handled == Handled(ready, event, taken)
             irregular == handled.irregular \/ ~event.bound \/ refused
             composed == [handled EXCEPT !.irregular = irregular]
  <1>1. open \in SUBSET Fields /\ input \in Sound /\ pc = "pump" /\ pc' = "pump"
        /\ UNCHANGED <<open, visible>> /\ left' = left - 1
    BY DEF InputInv, TypeOK, ProcessCapturedInputMessage
  <1>2. left \in Nat /\ left > 0 /\ left <= Len(input.events)
        /\ input.events \in Seq(Event)
    BY DEF InputInv, TypeOK, Input, ProcessCapturedInputMessage
  <1>3. input.events # <<>>
    BY <1>2
  <1>4. /\ s \in Sound /\ s.target = input.target
        /\ Len(s.events) = Len(input.events) - 1
        /\ event \in Event
        /\ event.kind = "char" => event.bound
    BY <1>1, <1>3, TailIsSound
  <1>5. s.target = ResolveCurrentTextInputTarget(open)
    BY <1>1, <1>4 DEF InputInv, PumpInv
  <1>6. hasTarget \in BOOLEAN /\ swallowed \in BOOLEAN /\ taken \in BOOLEAN
    OBVIOUS
  <1>7. IF event.bound /\ ~IsCurrentTextInputTargetToken(s, event)
        THEN input' = s /\ last' = NoText
        ELSE /\ input' \in {typed, composed, released}
             /\ last' = IF taken THEN [into |-> ready.target, from |-> event.field]
                        ELSE NoText
    BY DEF ProcessCapturedInputMessage
  <1>8. taken => event.bound
    BY <1>4
  <1>9. taken /\ event.kind # "char" => hasTarget
    OBVIOUS
  <1>10. taken /\ event.kind = "char" => ready.target # "none"
    BY DEF TakesCharacter
  <1>11. hasTarget <=> s.target # "none"
    OBVIOUS
  <1> HIDE DEF s, event, hasTarget
  <1>12. Stays(s, active) /\ active \in Sound
    <2>1. s.target = ResolveCurrentTextInputTarget(open)
            => Stays(s, SetTextInputSessionActive(s, hasTarget, open, ok))
      BY <1>1, <1>4, <1>6, SessionKeeps
    <2>2. Stays(s, active)
      BY <1>5, <2>1
    <2> QED
      BY <2>2 DEF Stays, Keeps
  <1>13. Stays(s, s)
    BY <1>4, SameStays DEF Same, Sound
  <1> HIDE DEF active
  <1>14. Stays(active, ready) /\ Stays(active, released)
    BY <1>12, SetStays
  <1> HIDE DEF ready, released
  <1>15. Stays(s, ready) /\ Stays(s, released) /\ ready \in Sound
    BY <1>4, <1>12, <1>14, StaysTwice DEF Stays, Keeps
  <1> HIDE DEF swallowed, taken
  <1>16. Stays(s, typed)
    <2>1. Stays(s, current) /\ current \in Sound /\ current \in Input
      BY <1>12, <1>15 DEF Stays, Keeps, Sound
    <2> HIDE DEF current
    <2>2. Same(current, typed)
      BY <1>6, <2>1 DEF Same, Input
    <2>3. Stays(current, typed)
      BY <2>1, <2>2, SameStays
    <2> HIDE DEF typed
    <2> QED
      BY <1>4, <2>1, <2>3, StaysTwice
  <1>17. Stays(s, composed)
    <2>1. Stays(ready, handled) /\ handled \in Sound /\ handled \in Input
      BY <1>4, <1>6, <1>15, HandledStays DEF Stays, Keeps, Sound
    <2>2. irregular \in BOOLEAN
      OBVIOUS
    <2> HIDE DEF handled, irregular
    <2>3. Same(handled, composed)
      BY <2>1, <2>2 DEF Same, Input
    <2>4. Stays(handled, composed)
      BY <2>1, <2>3, SameStays
    <2> HIDE DEF composed
    <2>5. Stays(s, handled)
      BY <1>4, <1>15, <2>1, StaysTwice
    <2> QED
      BY <1>4, <2>4, <2>5, StaysTwice
  <1> HIDE DEF typed, composed
  <1>18. Stays(s, input')
    BY <1>7, <1>13, <1>15, <1>16, <1>17
  <1>19. TypeOK' /\ input' \in Sound
    <2>1. input' \in Sound /\ input' \in Input /\ Len(input'.events) <= Capacity
          /\ Len(input'.events) \in Nat
      BY <1>18 DEF Stays, Keeps, Sound, Input
    <2>2. Len(input'.events) >= Len(input.events) - 1
      BY <1>4, <1>18 DEF Stays, Keeps
    <2>3. left' \in 0..Len(input'.events)
      BY <1>1, <1>2, <2>1, <2>2
    <2> QED
      BY <1>1, <2>1, <2>3 DEF InputInv, TypeOK
  <1>20. PumpInv'
    BY <1>1, <1>5, <1>18 DEF PumpInv, Stays
  <1>21. TextStaysInField'
    <2> SUFFICES ASSUME last' # NoText
                 PROVE  last'.into = last'.from /\ last'.into \in open'
      BY DEF TextStaysInField
    <2>1. taken /\ IsCurrentTextInputTargetToken(s, event)
          /\ last' = [into |-> ready.target, from |-> event.field]
      BY <1>7, <1>8
    <2>2. event.field = s.target
      BY <2>1 DEF IsCurrentTextInputTargetToken
    <2>3. ready.target = s.target
      BY <1>15 DEF Stays
    <2>4. s.target # "none"
      BY <1>9, <1>10, <1>11, <2>1, <2>3
    <2>5. s.target \in open
      BY <1>1, <1>5, <2>4, ResolvedTarget
    <2> QED
      BY <1>1, <2>1, <2>2, <2>3, <2>5
  <1> QED
    BY <1>19, <1>20, <1>21 DEF InputInv

\* The fields of the game.
LEMMA GameStep ==
    ASSUME InputInv,
           \/ \E field \in Fields, ok \in BOOLEAN : OpenField(field, ok)
           \/ \E field \in Fields : CloseField(field)
           \/ \E rollback \in BOOLEAN : ExitToMainMenu(rollback)
    PROVE  InputInv'
  <1>1. open \subseteq Fields /\ visible \in BOOLEAN /\ input \in Sound
        /\ input \in Input
        /\ (pc # "pump" => last = NoText /\ left = 0)
    BY DEF InputInv, TypeOK, PumpInv
  <1>2. ASSUME NEW field \in Fields, NEW ok \in BOOLEAN, OpenField(field, ok)
        PROVE  InputInv'
    <2>1. /\ open' = open \cup {field} /\ pc = "idle"
          /\ input' \in {input, SetTextInputSessionActive(input, TRUE, open', ok)}
          /\ UNCHANGED <<visible, pc, left, last>>
      BY <1>2 DEF OpenField
    <2> DEFINE fields == open'
    <2>2. fields \in SUBSET Fields
      BY <1>1, <2>1
    <2> HIDE DEF fields
    <2>3. SetTextInputSessionActive(input, TRUE, fields, ok) \in Sound
      BY <1>1, <2>2, SessionKeeps DEF Keeps
    <2>4. input' \in Sound
      BY <1>1, <2>1, <2>3 DEF fields
    <2> QED
      BY <1>1, <2>1, <2>2, <2>4, IdleStep DEF fields
  <1>3. ASSUME NEW field \in Fields, CloseField(field)
        PROVE  InputInv'
    <2>1. open' \subseteq Fields /\ pc = "idle"
          /\ UNCHANGED <<visible, input, pc, left, last>>
      BY <1>1, <1>3 DEF CloseField
    <2> QED
      BY <1>1, <2>1, IdleStep
  <1>4. ASSUME NEW rollback \in BOOLEAN, ExitToMainMenu(rollback)
        PROVE  InputInv'
    <2> DEFINE advanced == AdvanceTextInputSessionGeneration(input)
               window == advanced.window /\ ~rollback
               owed == advanced.owed /\ ~rollback
               edit == IF rollback THEN "none" ELSE advanced.edit
               lost == [advanced EXCEPT
                          !.events = <<>>, !.session = FALSE, !.target = "none"]
               away == [lost EXCEPT
                          !.composing = FALSE, !.suppressed = FALSE,
                          !.observed = FALSE]
               reset == [away EXCEPT !.window = window, !.edit = edit,
                                     !.owed = owed]
    <2>1. input' = ClearImePreviewState(reset, FALSE)
      BY <1>4 DEF ExitToMainMenu
    <2>2. advanced \in Input
      BY <1>1, AdvanceStays DEF Stays, Keeps, Sound
    <2> HIDE DEF advanced
    <2>3. window \in BOOLEAN /\ owed \in BOOLEAN
      OBVIOUS
    <2>4. edit \in {"none", "text", "empty"}
      BY <2>2 DEF Input
    <2>5. lost \in Input /\ lost.events = <<>>
      <3>1. ASSUME NEW q \in Seq(Event), NEW target \in Targets
            PROVE  LET t == [advanced EXCEPT
                               !.events = q, !.session = FALSE, !.target = target]
                   IN  t \in Input /\ t.events = q
        BY <2>2 DEF Input
      <3>2. <<>> \in Seq(Event) /\ "none" \in Targets
        BY DEF Targets
      <3> QED
        BY <3>1, <3>2
    <2> HIDE DEF lost
    <2>6. away \in Input /\ away.events = <<>>
      BY <2>5 DEF Input
    <2> HIDE DEF away, window, owed, edit
    <2>7. reset \in Input /\ reset.events = <<>>
      BY ZenonT(60), <2>3, <2>4, <2>6 DEF Input
    <2> HIDE DEF reset
    <2>8. reset \in Sound
      <3>1. Len(reset.events) <= Capacity /\ 1..Len(reset.events) = {}
        BY <2>7, InputAssumption
      <3> QED
        BY <2>7, <3>1 DEF Sound, CharsBound
    <2>9. input' \in Sound
      BY <2>1, <2>8, ClearStays DEF Stays, Keeps
    <2>10. open' = {} /\ visible' \in BOOLEAN /\ pc' = "idle" /\ pc = "idle"
          /\ UNCHANGED <<left, last>>
      BY <1>1, <1>4 DEF ExitToMainMenu
    <2> QED
      BY <1>1, <2>9, <2>10, IdleStep
  <1> QED
    BY <1>2, <1>3, <1>4

LEMMA ComposingStays ==
    ASSUME input \in Sound, NEW shows \in BOOLEAN, NEW started \in BOOLEAN,
           NEW closing \in BOOLEAN
    PROVE  Stays(input, Composing(shows, started, closing))
  <1> DEFINE changed == [input EXCEPT !.composition = shows, !.started = started]
             next == [changed EXCEPT !.closing = closing, !.owed = input.window]
  <1>1. input \in Input /\ input.window \in BOOLEAN
    BY DEF Sound, Input
  <1>2. next = Composing(shows, started, closing)
    BY DEF Composing
  <1>3. Same(input, changed) /\ changed \in Input
    BY <1>1 DEF Same, Input
  <1> HIDE DEF changed
  <1>4. ASSUME NEW w \in BOOLEAN
        PROVE  Same(changed, [changed EXCEPT !.closing = closing, !.owed = w])
    BY ZenonT(60), <1>3 DEF Same, Input
  <1>5. Same(input, next)
    BY <1>1, <1>3, <1>4 DEF Same
  <1> HIDE DEF next
  <1> QED
    BY <1>2, <1>5, SameStays

\* The IME, the keyboard and Windows.
LEMMA OutsideSteps ==
    ASSUME InputInv,
           \/ StartComposition \/ UpdateComposition \/ CommitPart \/ CommitWhole
           \/ NextCompositionShows \/ EndComposition \/ CancelUnstarted
           \/ TypeCharacter \/ OnEndEdit
           \/ WindowFound \/ ContextRebound \/ ContextLost \/ HandoffExpires
    PROVE  InputInv'
  <1>1. visible \in BOOLEAN /\ input \in Sound /\ input \in Input
    BY DEF InputInv, TypeOK
  <1>2. Stays(input, input)
    BY <1>1, SameStays DEF Same
  <1>3. ASSUME NEW shows \in BOOLEAN, NEW started \in BOOLEAN,
               NEW closing \in BOOLEAN
        PROVE  /\ Stays(input, Composing(shows, started, closing))
               /\ Composing(shows, started, closing) \in Sound
    BY <1>1, ComposingStays DEF Stays, Keeps
  <1>4. ASSUME NEW kind \in Messages, NEW s \in Sound, Stays(input, s),
               Send(kind, s)
        PROVE  InputInv'
    <2>1. input' = MultibyteInputWndProc(s, kind)
          /\ UNCHANGED <<open, visible, pc, left, last>>
      BY <1>4 DEF Send
    <2>2. Stays(s, MultibyteInputWndProc(s, kind))
      BY CaptureStays
    <2>3. Stays(input, input')
      BY <1>1, <1>4, <2>1, <2>2, StaysTwice
    <2> QED
      BY <1>1, <2>1, <2>3, OutsideStep
  <1>5. CASE StartComposition
    BY <1>3, <1>4, <1>5 DEF StartComposition, Messages
  <1>6. CASE UpdateComposition
    BY <1>3, <1>4, <1>6 DEF UpdateComposition, Messages
  <1>7. CASE CommitPart
    BY <1>3, <1>4, <1>7 DEF CommitPart, Messages
  <1>8. CASE CommitWhole
    BY <1>3, <1>4, <1>8 DEF CommitWhole, Messages
  <1>9. CASE NextCompositionShows
    BY <1>1, <1>3, <1>9, OutsideStep DEF NextCompositionShows
  <1>10. CASE EndComposition
    <2> DEFINE shows == input.closing /\ input.composition
    <2>1. shows \in BOOLEAN
      OBVIOUS
    <2>2. Send("end", Composing(shows, FALSE, FALSE))
      BY <1>10 DEF EndComposition
    <2> HIDE DEF shows
    <2> QED
      BY <1>3, <1>4, <2>1, <2>2 DEF Messages
  <1>11. CASE CancelUnstarted
    BY <1>1, <1>3, <1>11, OutsideStep DEF CancelUnstarted
  <1>12. CASE TypeCharacter
    BY <1>1, <1>2, <1>4, <1>12 DEF TypeCharacter, Messages
  <1>13. CASE OnEndEdit
    <2> DEFINE edit == IF input.composition THEN "text" ELSE "empty"
               next == [input EXCEPT !.owed = FALSE, !.edit = edit,
                                     !.editGeneration = input.generation]
    <2>1. ASSUME NEW e \in {"none", "text", "empty"}, NEW n \in Nat
          PROVE  Same(input, [input EXCEPT !.owed = FALSE, !.edit = e,
                                           !.editGeneration = n])
      BY <1>1 DEF Same, Input
    <2>2. edit \in {"none", "text", "empty"} /\ input.generation \in Nat
      BY <1>1 DEF Input
    <2>3. input' = next /\ UNCHANGED <<open, visible, pc, left, last>>
      BY <1>13 DEF OnEndEdit
    <2> HIDE DEF edit
    <2>4. Stays(input, next)
      BY <1>1, <2>1, <2>2, SameStays
    <2> QED
      BY <1>1, <2>3, <2>4, OutsideStep
  <1>14. CASE WindowFound
    BY <1>1, <1>2, <1>14, OutsideStep DEF WindowFound, vars
  <1>15. CASE ContextRebound
    <2> DEFINE detached == input.detached /\ (input.session \/ ~input.window)
               next == [input EXCEPT !.context = TRUE, !.detached = detached]
    <2>1. ASSUME NEW d \in BOOLEAN
          PROVE  Same(input, [input EXCEPT !.context = TRUE, !.detached = d])
      BY <1>1 DEF Same, Input
    <2>2. detached \in BOOLEAN
      OBVIOUS
    <2>3. input' = next /\ UNCHANGED <<open, visible, pc, left, last>>
      BY <1>15 DEF ContextRebound
    <2> HIDE DEF detached
    <2>4. Stays(input, next)
      BY <1>1, <2>1, <2>2, SameStays
    <2> QED
      BY <1>1, <2>3, <2>4, OutsideStep
  <1>16. CASE ContextLost
    <2> DEFINE cancelled == CancelGameImeComposition(input)
               next == [cancelled EXCEPT !.context = FALSE]
    <2>1. Stays(input, cancelled) /\ cancelled \in Sound /\ cancelled \in Input
      BY <1>1, CancelStays DEF Stays, Keeps, Sound
    <2>2. input' = next /\ UNCHANGED <<open, visible, pc, left, last>>
      BY <1>16 DEF ContextLost
    <2> HIDE DEF cancelled
    <2>3. Same(cancelled, next)
      BY <2>1 DEF Same, Input
    <2>4. Stays(cancelled, next)
      BY <2>1, <2>3, SameStays
    <2> HIDE DEF next
    <2>5. Stays(input, next)
      BY <1>1, <2>1, <2>4, StaysTwice
    <2> QED
      BY <1>1, <2>2, <2>5, OutsideStep
  <1>17. CASE HandoffExpires
    <2>1. Same(input, [input EXCEPT !.handoff = "none"])
      BY <1>1 DEF Same, Input
    <2>2. Stays(input, input') /\ UNCHANGED <<open, visible, pc, left, last>>
      BY <1>1, <1>17, <2>1, SameStays DEF HandoffExpires
    <2> QED
      BY <1>1, <2>2, OutsideStep
  <1> QED
    BY <1>5, <1>6, <1>7, <1>8, <1>9, <1>10, <1>11, <1>12, <1>13, <1>14,
       <1>15, <1>16, <1>17

LEMMA WatchdogStep ==
    ASSUME InputInv, NEW ok \in BOOLEAN, WatchdogFires(ok)
    PROVE  InputInv'
  <1> DEFINE disabled == [input EXCEPT !.enabled = FALSE, !.associated = 0]
             checked == IF input.session /\ input.enabled /\ ~input.context
                        THEN disabled ELSE input
             updated == UpdateGameImeAssociation(checked, open, ok)
  <1>1. open \in SUBSET Fields /\ input \in Sound /\ visible \in BOOLEAN
    BY DEF InputInv, TypeOK
  <1>2. pc = "watchdog" /\ pc' = "idle" /\ UNCHANGED <<open, visible, left, last>>
        /\ input' \in {input, updated}
    BY DEF WatchdogFires
  <1>3. checked \in Sound
    <2>1. Same(input, disabled)
      BY <1>1 DEF Same, Sound, Input
    <2>2. disabled \in Sound
      BY <1>1, <2>1, SameStays DEF Stays, Keeps
    <2> HIDE DEF disabled
    <2> QED
      BY <1>1, <2>2
  <1> HIDE DEF checked
  <1>4. updated \in Sound
    BY <1>1, <1>3, UpdateKeeps DEF Keeps
  <1> HIDE DEF updated
  <1>5. last = NoText /\ left = 0
    BY <1>2 DEF InputInv, PumpInv
  <1> QED
    BY <1>1, <1>2, <1>4, <1>5, IdleStep

LEMMA InitInv == Init => InputInv
  <1> SUFFICES ASSUME Init PROVE InputInv
    OBVIOUS
  <1>1. input \in Input /\ input.events = <<>>
    BY DEF Init, Input, Targets
  <1>2. /\ Len(input.events) = 0 /\ 1..0 = {} /\ 0 \in 0..Len(input.events)
        /\ Len(input.events) <= Capacity
    BY <1>1, InputAssumption
  <1>3. input \in Sound
    BY <1>1, <1>2 DEF Sound, CharsBound
  <1>4. open = {} /\ visible = FALSE /\ pc = "idle" /\ left = 0 /\ last = NoText
    BY DEF Init
  <1> QED
    <2>1. TypeOK
      BY <1>1, <1>2, <1>4 DEF TypeOK
    <2>2. PumpInv /\ TextStaysInField
      BY <1>4 DEF PumpInv, TextStaysInField
    <2> QED
      BY <1>3, <2>1, <2>2 DEF InputInv

LEMMA NextInv == InputInv /\ [Next]_vars => InputInv'
  <1> SUFFICES ASSUME InputInv, [Next]_vars PROVE InputInv'
    OBVIOUS
  <1>1. CASE Frame
    <2>1. ASSUME NEW ok \in BOOLEAN, FrameStarts(ok)
          PROVE  InputInv'
      BY <2>1, FrameStartsStep
    <2>2. ASSUME NEW ok \in BOOLEAN, NEW fits \in BOOLEAN, NEW wide \in BOOLEAN,
                 NEW repeats \in BOOLEAN,
                 ProcessCapturedInputMessage(ok, fits, wide, repeats)
          PROVE  InputInv'
      BY <2>2, ProcessStep
    <2>3. CASE PumpEnds
      BY <2>3, IdleStep DEF PumpEnds, InputInv, TypeOK
    <2>4. CASE WatchdogRests
      BY <2>4, IdleStep DEF WatchdogRests, InputInv, TypeOK, PumpInv
    <2>5. ASSUME NEW ok \in BOOLEAN, WatchdogFires(ok)
          PROVE  InputInv'
      BY <2>5, WatchdogStep
    <2> QED
      BY <1>1, <2>1, <2>2, <2>3, <2>4, <2>5 DEF Frame
  <1>2. CASE \/ \E field \in Fields, ok \in BOOLEAN : OpenField(field, ok)
             \/ \E field \in Fields : CloseField(field)
             \/ \E rollback \in BOOLEAN : ExitToMainMenu(rollback)
    BY <1>2, GameStep
  <1>3. CASE \/ StartComposition \/ UpdateComposition \/ CommitPart
             \/ CommitWhole \/ NextCompositionShows \/ EndComposition
             \/ CancelUnstarted \/ TypeCharacter \/ OnEndEdit \/ WindowFound
             \/ ContextRebound \/ ContextLost \/ HandoffExpires
    BY <1>3, OutsideSteps
  <1>4. CASE UNCHANGED vars
    BY <1>4 DEF vars, InputInv, TypeOK, PumpInv, TextStaysInField
  <1> QED
    BY <1>1, <1>2, <1>3, <1>4 DEF Next

LEMMA InvHolds == Spec => []InputInv
  BY InitInv, NextInv, PTL DEF Spec

\* Every variable keeps its range and the captured queue its capacity.
THEOREM TypeCorrect == Spec => []TypeOK
  <1>1. InputInv => TypeOK
    BY DEF InputInv
  <1> QED
    BY <1>1, InvHolds, PTL

\* What was typed or composed for one field is never inserted into another one
\* nor into a closed one (IsCurrentTextInputTargetToken), for every capacity of
\* the queue and every order of messages, openings, closings and contexts.
THEOREM TextStaysInFieldHolds == Spec => []TextStaysInField
  <1>1. InputInv => TextStaysInField
    BY DEF InputInv
  <1> QED
    BY <1>1, InvHolds, PTL

-----------------------------------------------------------------------------
(* The composition.  What the code believes of it (composing, preview,         *)
(* fallback) lags behind what the IME shows, by the captured messages and by   *)
(* the text service's report, so the invariant says which of them will catch   *)
(* it up.  Only messages of the current generation can.                        *)

\* A composition that goes on, of which IMM was told.
Busy(s) == s.started /\ ~s.closing

Current(s, i) == s.events[i].generation = s.generation

Terminal == {"result", "end"}
Going == {"start", "begin", "update", "continue"}

\* After the first n captured messages one still ends the composition.
EndsAfter(s, n) ==
    \E i \in 1..Len(s.events) :
        i > n /\ Current(s, i) /\ s.events[i].kind \in Terminal

\* No token is of a generation to come; a current one is of this target and
\* this session.
TokensOK(s) ==
    /\ s.editGeneration <= s.generation
    /\ \A i \in 1..Len(s.events) :
         /\ s.events[i].generation <= s.generation
         /\ Current(s, i) =>
              s.events[i].field = s.target /\ s.events[i].bound = s.session

ImeOK(s) == (s.closing => s.started) /\ (Busy(s) => s.composition)

Clear(s) == ~s.composing /\ ~s.preview /\ ~s.fallback

\* Without the window procedure nothing is captured, shown or reported.
ClosedOK(s) ==
    ~s.window => Clear(s) /\ s.events = <<>> /\ ~s.owed /\ s.edit = "none"

Reported(s, text) == s.edit = text /\ s.editGeneration = s.generation

\* A report of text that is gone will be replaced; n messages are of this frame.
TextOK(s, n) ==
    Reported(s, "text") /\ ~s.composition
      => s.owed /\ (s.closing => EndsAfter(s, n))

\* A message of a composition is followed by its end, unless it goes on.
MessagesOK(s) ==
    \A i \in 1..Len(s.events) :
        Current(s, i) /\ s.events[i].kind \in Going => Busy(s) \/ EndsAfter(s, i)

\* What IMM's messages show goes on, or its end is in the queue.
ShownOK(s) ==
    (s.composing \/ s.preview) /\ ~s.fallback => Busy(s) \/ EndsAfter(s, 0)

\* What the text service's report shows is ended by its next report, or by a
\* message where that comes too early.
FallbackOK(s) ==
    s.fallback =>
      /\ ~s.composition => s.owed \/ Reported(s, "empty")
      /\ s.closing /\ ~s.composition => EndsAfter(s, 0)
      /\ s.composition /\ Reported(s, "empty") => Busy(s) \/ EndsAfter(s, 0)

\* "shown" between steps.  While a message is handled what is shown may not be
\* right yet: the message has begun a composition, or ended one.
Stages == {"shown", "begun", "ended"}

Tracked(s, n, stage) ==
    /\ TextOK(s, n) /\ MessagesOK(s)
    /\ stage = "shown" => ShownOK(s) /\ FallbackOK(s)
    /\ stage = "begun" => Busy(s) \/ EndsAfter(s, 0)

RegularOK(s, n, stage) ==
    ~s.irregular =>
      /\ s.handoff # "ready"
      /\ s.target # "none" /\ s.session => Tracked(s, n, stage)
      /\ s.target # "none" /\ ~s.session => Clear(s)

Based(s) == s \in Sound /\ TokensOK(s) /\ ImeOK(s) /\ ClosedOK(s)

Right(s, n, stage) ==
    /\ Based(s) /\ n <= Len(s.events) /\ RegularOK(s, n, stage)
    /\ stage # "shown" => s.window

CompositionInv == Right(input, left, "shown")

-----------------------------------------------------------------------------
(* What a change leaves alone, and what may still be said then.                *)

SameTokens(s, t) ==
    /\ t.generation = s.generation /\ t.events = s.events /\ t.target = s.target
    /\ t.session = s.session /\ t.edit = s.edit
    /\ t.editGeneration = s.editGeneration

SameIme(s, t) ==
    /\ t.composition = s.composition /\ t.started = s.started
    /\ t.closing = s.closing /\ t.owed = s.owed /\ t.window = s.window

SameShown(s, t) ==
    /\ t.composing = s.composing /\ t.preview = s.preview
    /\ t.fallback = s.fallback /\ t.handoff = s.handoff
    /\ t.irregular = s.irregular

LEMMA EndsSame ==
    ASSUME NEW s, NEW t, NEW k, SameTokens(s, t)
    PROVE  EndsAfter(t, k) <=> EndsAfter(s, k)
  BY DEF SameTokens, EndsAfter, Current

LEMMA SameBased ==
    ASSUME NEW s, NEW t \in Sound, Based(s), SameTokens(s, t), SameIme(s, t),
           t.window \/ Clear(t)
    PROVE  Based(t)
  <1>1. TokensOK(t)
    BY DEF Based, SameTokens, TokensOK, Current
  <1>2. ImeOK(t)
    BY DEF Based, SameIme, ImeOK, Busy
  <1>3. ClosedOK(t)
    BY DEF Based, SameTokens, SameIme, ClosedOK
  <1> QED
    BY <1>1, <1>2, <1>3 DEF Based

LEMMA SameQueue ==
    ASSUME NEW s, NEW t, NEW n, SameTokens(s, t), SameIme(s, t), TextOK(s, n), MessagesOK(s)
    PROVE  TextOK(t, n) /\ MessagesOK(t)
  <1>1. \A k : EndsAfter(t, k) <=> EndsAfter(s, k)
    BY EndsSame
  <1>2. TextOK(t, n)
    BY <1>1 DEF TextOK, SameTokens, SameIme, Reported
  <1>3. MessagesOK(t)
    BY <1>1 DEF MessagesOK, SameTokens, SameIme, Busy, Current
  <1> QED
    BY <1>2, <1>3

LEMMA SameRight ==
    ASSUME NEW s, NEW t \in Sound, NEW n, NEW stage \in Stages, Right(s, n, stage),
           SameTokens(s, t), SameIme(s, t), SameShown(s, t)
    PROVE  Right(t, n, stage)
  <1>1. \A k : EndsAfter(t, k) <=> EndsAfter(s, k)
    BY EndsSame
  <1>2. Based(t)
    <2>1. t.window \/ Clear(t)
      BY DEF Right, Based, ClosedOK, Clear, SameIme, SameShown
    <2> QED
      BY <2>1, SameBased DEF Right
  <1>3. ASSUME Tracked(s, n, stage) PROVE Tracked(t, n, stage)
    <2>1. TextOK(t, n) /\ MessagesOK(t)
      BY <1>3, SameQueue DEF Tracked
    <2>2. ShownOK(s) => ShownOK(t)
      BY <1>1 DEF ShownOK, SameIme, SameShown, Busy
    <2>3. FallbackOK(s) => FallbackOK(t)
      BY <1>1 DEF FallbackOK, SameTokens, SameIme, SameShown, Busy, Reported
    <2>4. Busy(s) \/ EndsAfter(s, 0) => Busy(t) \/ EndsAfter(t, 0)
      BY <1>1 DEF SameIme, Busy
    <2> QED
      BY <1>3, <2>1, <2>2, <2>3, <2>4 DEF Tracked
  <1>4. RegularOK(t, n, stage)
    BY <1>3 DEF Right, RegularOK, SameTokens, SameShown, Clear
  <1> QED
    BY <1>2, <1>4 DEF Right, SameTokens, SameIme

\* Nothing is shown: nothing is left to be ended.
LEMMA BlankRight ==
    ASSUME NEW s, NEW t \in Sound, NEW n, NEW stage \in Stages, Right(s, n, stage),
           SameTokens(s, t), SameIme(s, t), Clear(t),
           ~t.irregular => ~s.irregular /\ t.handoff # "ready"
    PROVE  Right(t, n, "shown")
  <1>1. Based(t)
    BY SameBased DEF Right
  <1>2. ASSUME TextOK(s, n), MessagesOK(s) PROVE Tracked(t, n, "shown")
    <2>1. TextOK(t, n) /\ MessagesOK(t)
      BY <1>2, SameQueue
    <2> QED
      BY <2>1 DEF Tracked, ShownOK, FallbackOK, Clear
  <1>3. RegularOK(t, n, "shown")
    BY <1>2 DEF Right, RegularOK, SameTokens, Tracked
  <1> QED
    BY <1>1, <1>3 DEF Right, SameTokens

LEMMA EventIs ==
    ASSUME NEW s \in Sound, NEW i \in 1..Len(s.events)
    PROVE  /\ s.events[i] \in Event /\ s.events[i].generation \in Nat
           /\ s.events[i].kind \in Messages
  <1>1. PICK q : q = s.events /\ q \in Seq(Event)
    BY DEF Sound, Input
  <1>2. q[i] \in Event
    BY <1>1
  <1> QED
    BY <1>1, <1>2 DEF Event

\* A new generation: what is captured or reported is of an older one.
LEMMA FreshRight ==
    ASSUME NEW s, NEW t \in Sound, NEW n, n <= Len(s.events), Based(s),
           t.events = s.events, t.generation > s.generation,
           t.editGeneration = s.editGeneration, t.edit = s.edit,
           SameIme(s, t), ~t.irregular => t.handoff # "ready",
           Clear(t) \/ (t.window /\ (t.irregular \/ t.target = "none"))
    PROVE  Right(t, n, "shown")
  <1>1. s \in Input /\ t \in Input
    BY DEF Based, Sound
  <1>2. s.generation \in Nat /\ t.generation \in Nat /\ s.editGeneration \in Nat
    BY <1>1 DEF Input
  <1>3. \A i \in 1..Len(t.events) : t.events[i].generation < t.generation
                                    /\ ~Current(t, i)
    <2> SUFFICES ASSUME NEW i \in 1..Len(s.events)
                 PROVE  s.events[i].generation < t.generation
      BY <1>2 DEF Current
    <2>1. s.events[i].generation \in Nat
      BY EventIs DEF Based
    <2>2. s.events[i].generation <= s.generation
      BY DEF Based, TokensOK
    <2> QED
      BY <1>2, <2>1, <2>2
  <1>4. t.editGeneration < t.generation
    BY <1>2 DEF Based, TokensOK
  <1>5. TokensOK(t)
    <2>1. \A i \in 1..Len(t.events) : t.events[i].generation <= t.generation
      <3> SUFFICES ASSUME NEW i \in 1..Len(t.events)
                   PROVE  t.events[i].generation <= t.generation
        OBVIOUS
      <3>1. t.events[i].generation \in Nat
        BY EventIs
      <3> QED
        BY <1>2, <1>3, <3>1
    <2>2. t.editGeneration <= t.generation
      BY <1>2, <1>4
    <2> QED
      BY <1>3, <2>1, <2>2 DEF TokensOK
  <1>6. ImeOK(t) /\ ClosedOK(t)
    BY DEF Based, ImeOK, ClosedOK, SameIme, Busy
  <1>7. ~Reported(t, "text") /\ ~Reported(t, "empty")
    BY <1>2, <1>4 DEF Reported
  <1>8. Clear(t) => Tracked(t, n, "shown")
    BY <1>3, <1>7 DEF Tracked, TextOK, MessagesOK, ShownOK, FallbackOK, Clear
  <1>9. RegularOK(t, n, "shown")
    BY <1>8 DEF RegularOK
  <1> QED
    BY <1>5, <1>6, <1>9 DEF Right, Based

\* What is shown is right whatever the stage: a message has still to be handled.
LEMMA ShownEnded ==
    ASSUME NEW s, NEW n, Right(s, n, "shown"), s.window
    PROVE  Right(s, n, "ended")
  BY DEF Right, RegularOK, Tracked

\* Without a window procedure there is nothing to be right about.
LEMMA ClosedRight ==
    ASSUME NEW s, NEW n, n <= Len(s.events), Based(s), ~s.window,
           ~s.irregular => s.handoff # "ready"
    PROVE  Right(s, n, "shown")
  <1>1. Clear(s) /\ s.events = <<>> /\ s.edit = "none"
    BY DEF Based, ClosedOK
  <1>2. 1..Len(s.events) = {}
    BY <1>1
  <1>3. Tracked(s, n, "shown")
    BY <1>1, <1>2 DEF Tracked, TextOK, MessagesOK, ShownOK, FallbackOK, Clear, Reported
  <1> QED
    BY <1>1, <1>3 DEF Right, RegularOK

-----------------------------------------------------------------------------
(* A message is captured.                                                      *)

LEMMA AppendIs ==
    ASSUME NEW s \in Sound, NEW e \in Event
    PROVE  LET t == [s EXCEPT !.events = Append(@, e)]
           IN  /\ t.events = Append(s.events, e)
               /\ t.generation = s.generation /\ t.target = s.target
               /\ t.session = s.session /\ t.edit = s.edit
               /\ t.editGeneration = s.editGeneration
               /\ SameIme(s, t) /\ SameShown(s, t)
  <1>1. s \in Input
    BY DEF Sound
  <1>2. \A q : LET t == [s EXCEPT !.events = q]
               IN  /\ t.events = q
                   /\ t.generation = s.generation /\ t.target = s.target
                   /\ t.session = s.session /\ t.edit = s.edit
                   /\ t.editGeneration = s.editGeneration
                   /\ SameIme(s, t) /\ SameShown(s, t)
    BY <1>1 DEF Input, SameIme, SameShown
  <1> QED
    BY <1>2

LEMMA DroppedIs ==
    ASSUME NEW s \in Sound, NEW h
    PROVE  LET t == [s EXCEPT !.irregular = TRUE, !.handoff = h]
           IN  SameTokens(s, t) /\ SameIme(s, t) /\ t.irregular
  BY DEF Sound, Input, SameTokens, SameIme

LEMMA NotedIs ==
    ASSUME NEW s \in Sound, NEW kind \in Messages
    PROVE  LET t == NoteComposition(s, kind)
           IN  /\ SameTokens(s, t) /\ SameIme(s, t)
               /\ t.preview = s.preview /\ t.fallback = s.fallback
               /\ t.irregular = s.irregular
               /\ t.handoff \in {s.handoff, "armed"}
               /\ kind = "char" => t.composing = s.composing
  <1> DEFINE composes == \/ kind \in {"start", "begin", "update", "continue"}
                         \/ s.composing /\ kind \notin {"result", "end"}
             next == IF kind \in {"result", "continue"} THEN "armed" ELSE s.handoff
  <1>1. s \in Input /\ s.composing \in BOOLEAN
    BY DEF Sound, Input
  <1>3. NoteComposition(s, kind) = [s EXCEPT !.composing = composes, !.handoff = next]
    BY DEF NoteComposition
  <1>4. next \in {s.handoff, "armed"}
    OBVIOUS
  <1>5. kind = "char" => composes = s.composing
    BY <1>1
  <1> DEFINE t == NoteComposition(s, kind)
  <1> HIDE DEF composes, next, t
  <1>6. PICK c, h : c = composes /\ h = next
    OBVIOUS
  <1>7. t = [s EXCEPT !.composing = c, !.handoff = h]
    BY <1>3, <1>6 DEF t
  <1>8. /\ SameTokens(s, t) /\ SameIme(s, t)
        /\ t.preview = s.preview /\ t.fallback = s.fallback
        /\ t.irregular = s.irregular
        /\ t.handoff = h /\ t.composing = c
    BY <1>1, <1>7 DEF Input, SameTokens, SameIme
  <1> QED
    BY <1>4, <1>5, <1>6, <1>8 DEF t

\* One message more in the queue.
LEMMA OneMoreEvent ==
    ASSUME NEW s \in Sound, NEW t \in Sound, NEW e \in Event,
           t.events = Append(s.events, e), t.generation = s.generation
    PROVE  /\ Len(t.events) = Len(s.events) + 1 /\ Len(s.events) \in Nat
           /\ t.events[Len(s.events) + 1] = e
           /\ \A i \in 1..Len(s.events) : t.events[i] = s.events[i]
           /\ \A k : EndsAfter(s, k) => EndsAfter(t, k)
           /\ e.generation = s.generation /\ e.kind \in Terminal
                => \A k \in Int : k <= Len(s.events) => EndsAfter(t, k)
  <1>1. PICK q : q = s.events /\ q \in Seq(Event)
    BY DEF Sound, Input
  <1>2. /\ Len(q) \in Nat /\ Len(Append(q, e)) = Len(q) + 1
        /\ Append(q, e)[Len(q) + 1] = e
        /\ \A i \in 1..Len(q) : Append(q, e)[i] = q[i]
    BY <1>1
  <1>3. /\ Len(t.events) = Len(s.events) + 1 /\ Len(s.events) \in Nat
        /\ t.events[Len(s.events) + 1] = e
        /\ \A i \in 1..Len(s.events) : t.events[i] = s.events[i]
    BY <1>1, <1>2
  <1>4. \A i \in 1..Len(s.events) : i \in 1..Len(t.events)
    BY <1>3
  <1>5. \A k : EndsAfter(s, k) => EndsAfter(t, k)
    BY <1>3, <1>4 DEF EndsAfter, Current
  <1>6. ASSUME e.generation = s.generation, e.kind \in Terminal,
               NEW k \in Int, k <= Len(s.events)
        PROVE  EndsAfter(t, k)
    <2>1. Len(s.events) + 1 \in 1..Len(t.events) /\ Len(s.events) + 1 > k
      BY <1>3, <1>6
    <2> QED
      BY <1>3, <1>6, <2>1 DEF EndsAfter, Current
  <1> QED
    BY <1>3, <1>5, <1>6

LEMMA AppendBased ==
    ASSUME NEW s, Based(s), NEW t \in Sound, NEW e \in Event, s.window,
           t.events = Append(s.events, e), t.generation = s.generation,
           t.target = s.target, t.session = s.session,
           t.editGeneration = s.editGeneration, SameIme(s, t),
           e.generation = s.generation, e.field = s.target, e.bound = s.session
    PROVE  Based(t)
  <1>0. s \in Sound /\ s \in Input /\ s.generation \in Nat
    BY DEF Based, Sound, Input
  <1>1. TokensOK(t)
    <2>1. ASSUME NEW i \in 1..Len(t.events)
          PROVE  /\ t.events[i].generation <= t.generation
                 /\ Current(t, i) => t.events[i].field = t.target
                                     /\ t.events[i].bound = t.session
      <3>1. CASE i \in 1..Len(s.events)
        <4>1. t.events[i] = s.events[i]
          BY <1>0, <3>1, OneMoreEvent
        <4> QED
          BY <3>1, <4>1 DEF Based, TokensOK, Current
      <3>2. CASE i = Len(s.events) + 1
        <4>1. t.events[i] = e
          BY <1>0, <3>2, OneMoreEvent
        <4> QED
          BY <1>0, <4>1
      <3>3. i \in 1..Len(s.events) \/ i = Len(s.events) + 1
        BY <1>0, OneMoreEvent
      <3> QED
        BY <3>1, <3>2, <3>3
    <2> QED
      BY <2>1 DEF Based, TokensOK
  <1>2. ImeOK(t)
    BY DEF Based, SameIme, ImeOK, Busy
  <1>3. ClosedOK(t)
    BY DEF SameIme, ClosedOK
  <1> QED
    BY <1>1, <1>2, <1>3 DEF Based

LEMMA AppendTracked ==
    ASSUME NEW s \in Sound, NEW t \in Sound, NEW e \in Event, NEW n \in Nat,
           NEW stage \in Stages, n <= Len(s.events),
           t.events = Append(s.events, e), t.generation = s.generation,
           t.editGeneration = s.editGeneration, t.edit = s.edit, SameIme(s, t),
           t.preview = s.preview, t.fallback = s.fallback, ImeOK(s),
           e.generation = s.generation,
           \/ e.kind \in Terminal /\ s.owed
           \/ e.kind \in Going /\ Busy(s)
           \/ e.kind = "char" /\ Tracked(s, n, stage) /\ t.composing = s.composing
    PROVE  Tracked(t, n, stage)
  <1>1. /\ Len(t.events) = Len(s.events) + 1 /\ Len(s.events) \in Nat
        /\ t.events[Len(s.events) + 1] = e
        /\ \A i \in 1..Len(s.events) : t.events[i] = s.events[i]
        /\ \A k : EndsAfter(s, k) => EndsAfter(t, k)
        /\ e.kind \in Terminal => \A k \in Int : k <= Len(s.events) => EndsAfter(t, k)
    BY OneMoreEvent
  <1>2. Busy(t) <=> Busy(s)
    BY DEF SameIme, Busy
  <1>3. CASE e.kind \in Terminal /\ s.owed
    <2>1. EndsAfter(t, 0) /\ EndsAfter(t, n)
      BY <1>1, <1>3
    <2>2. t.owed
      BY <1>3 DEF SameIme
    <2>3. MessagesOK(t)
      <3> SUFFICES ASSUME NEW i \in 1..Len(t.events), t.events[i].kind \in Going
                   PROVE  EndsAfter(t, i)
        BY DEF MessagesOK
      <3>1. i # Len(s.events) + 1
        BY <1>1, <1>3 DEF Going, Terminal
      <3> QED
        BY <1>1, <1>3, <3>1
    <2> QED
      BY <2>1, <2>2, <2>3 DEF Tracked, TextOK, ShownOK, FallbackOK
  <1>4. CASE e.kind \in Going /\ Busy(s)
    <2>1. Busy(t) /\ t.composition
      BY <1>2, <1>4 DEF ImeOK, SameIme
    <2> QED
      BY <2>1 DEF Tracked, TextOK, MessagesOK, ShownOK, FallbackOK
  <1>5. CASE e.kind = "char" /\ Tracked(s, n, stage) /\ t.composing = s.composing
    <2>1. TextOK(t, n)
      BY <1>1, <1>5 DEF Tracked, TextOK, Reported, SameIme
    <2>2. MessagesOK(t)
      <3> SUFFICES ASSUME NEW i \in 1..Len(t.events), Current(t, i),
                          t.events[i].kind \in Going
                   PROVE  Busy(t) \/ EndsAfter(t, i)
        BY DEF MessagesOK
      <3>1. i # Len(s.events) + 1
        BY <1>1, <1>5 DEF Going
      <3>2. i \in 1..Len(s.events) /\ t.events[i] = s.events[i]
        BY <1>1, <3>1
      <3>3. Current(s, i) /\ s.events[i].kind \in Going
        BY <3>2 DEF Current
      <3> QED
        BY <1>1, <1>2, <1>5, <3>2, <3>3 DEF Tracked, MessagesOK
    <2>3. ShownOK(s) => ShownOK(t)
      BY <1>1, <1>2, <1>5 DEF ShownOK
    <2>4. FallbackOK(s) => FallbackOK(t)
      BY <1>1, <1>2 DEF FallbackOK, Reported, SameIme
    <2> QED
      BY <1>1, <1>2, <1>5, <2>1, <2>2, <2>3, <2>4 DEF Tracked
  <1> QED
    BY <1>3, <1>4, <1>5

LEMMA CaptureRight ==
    ASSUME NEW s, Based(s), NEW n \in Nat, n <= Len(s.events), NEW stage \in Stages,
           NEW kind \in Messages,
           ~s.irregular => /\ s.handoff # "ready"
                           /\ s.target # "none" /\ ~s.session => Clear(s),
           stage # "shown" => s.window,
           kind \in Terminal /\ s.window => s.owed,
           kind \in Going => Busy(s),
           kind = "char" => Right(s, n, stage)
    PROVE  Right(MultibyteInputWndProc(s, kind), n, stage)
  <1> DEFINE t == MultibyteInputWndProc(s, kind)
             noted == IF s.session THEN NoteComposition(s, kind) ELSE s
             e == Captured(s, kind)
             h == IF e.kind \in {"result", "continue"} THEN "none" ELSE noted.handoff
  <1>0. s \in Sound /\ s \in Input
    BY DEF Based, Sound
  <1>1. t \in Sound /\ Len(t.events) >= Len(s.events)
    BY <1>0, CaptureStays DEF Stays, Keeps
  <1>2. CASE ~s.window
    <2>1. t = s
      BY <1>2 DEF MultibyteInputWndProc
    <2>2. Right(s, n, "shown")
      BY <1>2, ClosedRight
    <2>3. Right(s, n, stage)
      BY <1>2, <2>2
    <2> QED
      BY <2>1, <2>3
  <1>3. CASE s.window /\ kind = "char" /\ ~s.session
    BY <1>3 DEF MultibyteInputWndProc
  <1>4. CASE s.window /\ ~(kind = "char" /\ ~s.session)
    <2>1. t = EnqueueCapturedInputEvent(noted, e)
      BY <1>4 DEF MultibyteInputWndProc
    <2>2. /\ SameTokens(s, noted) /\ SameIme(s, noted)
          /\ noted.preview = s.preview /\ noted.fallback = s.fallback
          /\ noted.irregular = s.irregular
          /\ noted.handoff \in {s.handoff, "armed"}
          /\ kind = "char" \/ ~s.session => noted.composing = s.composing
      BY <1>0, NotedIs DEF SameTokens, SameIme
    <2>3. noted \in Sound
      BY <1>0, NoteStays DEF Stays, Keeps
    <2>4. e \in Event /\ e.kind = kind /\ e.generation = s.generation
          /\ e.field = s.target /\ e.bound = s.session
      <3>1. s.session \in BOOLEAN /\ s.target \in Targets /\ s.generation \in Nat
        BY <1>0 DEF Input
      <3> QED
        BY <3>1 DEF Captured, Event
    <2> HIDE DEF noted, e
    <2>5. Based(noted) /\ noted.window
      <3>1. noted.window
        BY <1>4, <2>2 DEF SameIme
      <3> QED
        BY <2>2, <2>3, <3>1, SameBased
    <2>6. CASE Len(noted.events) = Capacity
      <3>1. t = [noted EXCEPT !.irregular = TRUE, !.handoff = h]
        BY <2>1, <2>6 DEF EnqueueCapturedInputEvent
      <3> HIDE DEF h, t
      <3>2. SameTokens(noted, t) /\ SameIme(noted, t) /\ t.irregular
        BY <2>3, <3>1, DroppedIs
      <3>3. Based(t)
        <4>1. t.window
          BY <2>5, <3>2 DEF SameIme
        <4> QED
          BY <1>1, <2>5, <3>2, <4>1, SameBased
      <3>4. n <= Len(t.events)
        BY <2>2, <3>2 DEF SameTokens
      <3>5. t.window
        BY <2>5, <3>2 DEF SameIme
      <3> QED
        BY <3>2, <3>3, <3>4, <3>5 DEF Right, RegularOK, t
    <2>7. CASE Len(noted.events) # Capacity
      <3>1. t = [noted EXCEPT !.events = Append(@, e)]
        BY <2>1, <2>7 DEF EnqueueCapturedInputEvent
      <3> HIDE DEF t
      <3>2. /\ t.events = Append(noted.events, e)
            /\ t.generation = noted.generation /\ t.target = noted.target
            /\ t.session = noted.session /\ t.edit = noted.edit
            /\ t.editGeneration = noted.editGeneration
            /\ SameIme(noted, t) /\ SameShown(noted, t)
        BY <2>3, <2>4, <3>1, AppendIs
      <3>3. Based(t)
        BY <1>1, <2>2, <2>4, <2>5, <3>2, AppendBased DEF SameTokens
      <3>4. n <= Len(t.events)
        <4>1. Len(s.events) \in Nat /\ Len(t.events) \in Nat
          BY <1>0, <1>1 DEF Sound, Input
        <4> QED
          BY <1>1, <4>1
      <3>5. ~s.irregular /\ s.target # "none" /\ ~s.session => Clear(t)
        BY <2>2, <3>2 DEF Clear, SameShown
      <3>6. ASSUME ~s.irregular, s.target # "none", s.session
            PROVE  Tracked(t, n, stage)
        <4>1. /\ t.events = Append(s.events, e) /\ t.generation = s.generation
              /\ t.editGeneration = s.editGeneration /\ t.edit = s.edit
              /\ SameIme(s, t) /\ t.preview = s.preview /\ t.fallback = s.fallback
              /\ kind = "char" => t.composing = s.composing
          BY <2>2, <3>2 DEF SameTokens, SameIme, SameShown
        <4>2. kind \in Terminal \/ kind \in Going \/ kind = "char"
          BY DEF Messages, Terminal, Going
        <4>3. kind = "char" => Tracked(s, n, stage)
          BY <3>6 DEF Right, RegularOK
        <4>4. ImeOK(s)
          BY DEF Based
        <4> QED
          BY <1>0, <1>1, <1>4, <2>4, <4>1, <4>2, <4>3, <4>4, AppendTracked DEF t
      <3>7. RegularOK(t, n, stage)
        <4>1. t.irregular = s.irregular /\ t.target = s.target /\ t.session = s.session
              /\ t.handoff \in {s.handoff, "armed"}
          BY <2>2, <3>2 DEF SameTokens, SameShown
        <4> QED
          BY <3>5, <3>6, <4>1 DEF RegularOK
      <3>8. t.window
        BY <2>5, <3>2 DEF SameIme
      <3> QED
        BY <3>3, <3>4, <3>7, <3>8 DEF Right, t
    <2> QED
      BY <2>6, <2>7
  <1> QED
    BY <1>2, <1>3, <1>4

-----------------------------------------------------------------------------
(* The IME context is associated or taken away.                                *)

\* A composition that nobody was told of is over.
LEMMA UntoldRight ==
    ASSUME NEW s, NEW t \in Sound, NEW n, NEW stage \in Stages, Right(s, n, stage),
           SameTokens(s, t), SameShown(s, t), t.window = s.window, ~Busy(s),
           ~t.composition, ~t.started, ~t.closing, t.owed = t.window
    PROVE  Right(t, n, stage)
  <1>1. \A k : EndsAfter(t, k) <=> EndsAfter(s, k)
    BY EndsSame
  <1>2. ~Busy(t)
    BY DEF Busy
  <1>3. Based(t)
    <2>1. TokensOK(t)
      BY DEF Right, Based, SameTokens, TokensOK, Current
    <2>2. ImeOK(t)
      BY DEF ImeOK, Busy
    <2>3. ClosedOK(t)
      BY DEF Right, Based, SameTokens, SameShown, ClosedOK, Clear
    <2> QED
      BY <2>1, <2>2, <2>3 DEF Based
  <1>4. ASSUME t.window, Tracked(s, n, stage) PROVE Tracked(t, n, stage)
    <2>1. TextOK(t, n)
      BY <1>4 DEF TextOK
    <2>2. MessagesOK(t)
      BY <1>1, <1>4 DEF Tracked, MessagesOK, SameTokens, Current
    <2>3. ShownOK(s) => ShownOK(t)
      BY <1>1 DEF ShownOK, SameShown
    <2>4. FallbackOK(t)
      BY <1>4 DEF FallbackOK
    <2> QED
      BY <1>1, <1>4, <2>1, <2>2, <2>3, <2>4 DEF Tracked
  <1>5. CASE t.window
    <2>1. RegularOK(t, n, stage)
      BY <1>4, <1>5 DEF Right, RegularOK, SameTokens, SameShown, Clear
    <2> QED
      BY <1>3, <1>5, <2>1 DEF Right, SameTokens
  <1>6. CASE ~t.window
    <2>1. stage = "shown" /\ n <= Len(t.events) /\ (~t.irregular => t.handoff # "ready")
      BY <1>6 DEF Right, RegularOK, SameTokens, SameShown
    <2> QED
      BY <1>3, <1>6, <2>1, ClosedRight
  <1> QED
    BY <1>5, <1>6

LEMMA CancelRight ==
    ASSUME NEW s, NEW n \in Nat, NEW stage \in Stages, Right(s, n, stage)
    PROVE  Right(CancelGameImeComposition(s), n, stage)
  <1> DEFINE u == [s EXCEPT !.composition = FALSE, !.started = FALSE,
                            !.closing = FALSE, !.owed = s.window]
             t == CancelGameImeComposition(s)
  <1>1. s \in Sound /\ s \in Input /\ s.window \in BOOLEAN
    BY DEF Right, Based, Sound, Input
  <1>2. u \in Sound
    <2>1. Same(s, u)
      BY <1>1 DEF Same, Input
    <2> QED
      BY <1>1, <2>1, SameStays DEF Stays, Keeps
  <1>3. /\ SameTokens(s, u) /\ SameShown(s, u) /\ u.window = s.window
        /\ ~u.composition /\ ~u.started /\ ~u.closing /\ u.owed = s.window
    BY <1>1 DEF Input, SameTokens, SameShown
  <1>4. \/ t = s
        \/ t = u /\ ~s.started
        \/ t = MultibyteInputWndProc(u, "end")
    BY DEF CancelGameImeComposition
  <1> HIDE DEF u, t
  <1>5. Right(MultibyteInputWndProc(u, "end"), n, stage)
    <2>1. Based(u)
      <3>1. TokensOK(u)
        BY <1>3 DEF Right, Based, SameTokens, TokensOK, Current
      <3>2. ImeOK(u)
        BY <1>3 DEF ImeOK, Busy
      <3>3. ClosedOK(u)
        BY <1>3 DEF Right, Based, SameTokens, SameShown, ClosedOK, Clear
      <3> QED
        BY <1>2, <3>1, <3>2, <3>3 DEF Based
    <2>2. n <= Len(u.events)
      BY <1>3 DEF Right, SameTokens
    <2>3. ~u.irregular => /\ u.handoff # "ready"
                          /\ u.target # "none" /\ ~u.session => Clear(u)
      BY <1>3 DEF Right, RegularOK, SameTokens, SameShown, Clear
    <2>4. stage # "shown" => u.window
      BY <1>3 DEF Right
    <2> QED
      BY <1>3, <2>1, <2>2, <2>3, <2>4, CaptureRight DEF Messages, Terminal, Going
  <1>6. ~s.started => Right(u, n, stage)
    BY <1>2, <1>3, UntoldRight DEF Busy
  <1> QED
    BY <1>4, <1>5, <1>6 DEF t

LEMMA EnableRight ==
    ASSUME NEW s, NEW n \in Nat, NEW stage \in Stages, Right(s, n, stage), NEW ok \in BOOLEAN
    PROVE  Right(EnableGameIme(s, ok), n, stage)
  <1> DEFINE cancelled == CancelGameImeComposition(s)
             attached == [s EXCEPT !.context = TRUE, !.enabled = TRUE,
                                   !.detached = FALSE,
                                   !.associated = s.generation]
             failed == [cancelled EXCEPT !.context = FALSE, !.enabled = FALSE,
                                         !.associated = 0]
             t == EnableGameIme(s, ok)
  <1>1. s \in Sound /\ s \in Input /\ s.generation \in Nat
    BY DEF Right, Based, Sound, Input
  <1>2. t \in Sound
    BY <1>1, EnableStays DEF Stays, Keeps
  <1>3. t \in {s, attached, failed}
    BY DEF EnableGameIme
  <1>4. SameTokens(s, attached) /\ SameIme(s, attached) /\ SameShown(s, attached)
    BY <1>1 DEF Input, SameTokens, SameIme, SameShown
  <1>5. cancelled \in Sound /\ Right(cancelled, n, stage)
    BY CancelRight DEF Right, Based
  <1> HIDE DEF cancelled, attached
  <1>6. SameTokens(cancelled, failed) /\ SameIme(cancelled, failed)
        /\ SameShown(cancelled, failed)
    BY <1>5 DEF Sound, Input, SameTokens, SameIme, SameShown
  <1> HIDE DEF failed, t
  <1>7. CASE t = s
    BY <1>7 DEF t
  <1>8. CASE t = attached
    <2>1. Right(t, n, stage)
      BY <1>2, <1>4, <1>8, SameRight
    <2> QED BY <2>1 DEF t
  <1>9. CASE t = failed
    <2>1. Right(t, n, stage)
      BY <1>2, <1>5, <1>6, <1>9, SameRight
    <2> QED BY <2>1 DEF t
  <1> QED
    BY <1>3, <1>7, <1>8, <1>9

\* Nothing is shown any more.
LEMMA ClearIs ==
    ASSUME NEW s \in Sound, NEW handoff \in BOOLEAN
    PROVE  LET t == ClearImePreviewState(s, handoff)
           IN  /\ t \in Sound /\ SameTokens(s, t) /\ SameIme(s, t)
               /\ t.composing = s.composing /\ t.irregular = s.irregular
               /\ ~handoff \/ s.handoff # "ready" => ~t.preview /\ ~t.fallback
               /\ t.handoff = IF handoff THEN s.handoff ELSE "none"
  <1> DEFINE kept == handoff /\ s.handoff = "ready" /\ s.preview
             fallback == kept /\ s.fallback
             next == IF handoff THEN s.handoff ELSE "none"
             t == ClearImePreviewState(s, handoff)
  <1>1. s \in Input
    BY DEF Sound
  <1>2. t \in Sound
    BY ClearStays DEF Stays, Keeps
  <1>3. PICK k, f, h : k = kept /\ f = fallback /\ h = next
    OBVIOUS
  <1>4. t = [s EXCEPT !.preview = k, !.fallback = f, !.handoff = h]
    BY <1>3 DEF ClearImePreviewState
  <1>5. ~handoff \/ s.handoff # "ready" => ~k /\ ~f
    BY <1>3
  <1>6. h = IF handoff THEN s.handoff ELSE "none"
    BY <1>3
  <1> HIDE DEF kept, fallback, next, t
  <1>7. /\ SameTokens(s, t) /\ SameIme(s, t)
        /\ t.composing = s.composing /\ t.irregular = s.irregular
        /\ t.preview = k /\ t.fallback = f /\ t.handoff = h
    BY <1>1, <1>4 DEF Input, SameTokens, SameIme
  <1> QED
    BY <1>2, <1>5, <1>6, <1>7 DEF t

LEMMA DisableRight ==
    ASSUME NEW s, NEW n \in Nat, NEW stage \in Stages, Right(s, n, stage), NEW ok \in BOOLEAN,
           stage # "begun"
    PROVE  Right(DisableGameIme(s, ok), n, stage)
  <1> DEFINE published == [s EXCEPT !.enabled = FALSE, !.associated = 0]
             reset == [published EXCEPT !.detached = FALSE]
             cancelled == CancelGameImeComposition(reset)
             idle == [cancelled EXCEPT !.composing = FALSE]
             cleared == ClearImePreviewState(idle, FALSE)
             context == cleared.context /\ ~ok
             detached == ~(s.context /\ ~ok)
             released == [cleared EXCEPT !.context = context,
                                         !.detached = detached]
             t == DisableGameIme(s, ok)
  <1>0. s \in Sound /\ s \in Input
    BY DEF Right, Based, Sound
  <1>1. t \in {published, released} /\ t \in Sound
    BY <1>0, DisableStays DEF DisableGameIme, Stays, Keeps
  <1>2. published \in Sound /\ Right(published, n, stage)
    <2>1. SameTokens(s, published) /\ SameIme(s, published) /\ SameShown(s, published)
      BY <1>0 DEF Input, SameTokens, SameIme, SameShown
    <2>2. published \in Sound
      <3>1. Same(s, published)
        BY <1>0 DEF Same, Input
      <3> QED
        BY <1>0, <3>1, SameStays DEF Stays, Keeps
    <2> QED
      BY <2>1, <2>2, SameRight
  <1> HIDE DEF published
  <1>3. reset \in Sound /\ Right(reset, n, stage)
    <2>1. SameTokens(published, reset) /\ SameIme(published, reset) /\ SameShown(published, reset)
      BY <1>2 DEF Sound, Input, SameTokens, SameIme, SameShown
    <2>2. reset \in Sound
      <3>1. Same(published, reset)
        BY <1>2 DEF Same, Sound, Input
      <3> QED
        BY <1>2, <3>1, SameStays DEF Stays, Keeps
    <2> QED
      BY <1>2, <2>1, <2>2, SameRight
  <1> HIDE DEF reset
  <1>4. cancelled \in Sound /\ Right(cancelled, n, stage)
    BY <1>3, CancelRight DEF Right, Based
  <1> HIDE DEF cancelled
  <1>5. idle \in Sound /\ SameTokens(cancelled, idle) /\ SameIme(cancelled, idle)
        /\ ~idle.composing /\ idle.irregular = cancelled.irregular
    <2>1. SameTokens(cancelled, idle) /\ SameIme(cancelled, idle)
          /\ ~idle.composing /\ idle.irregular = cancelled.irregular
      BY <1>4 DEF Sound, Input, SameTokens, SameIme
    <2>2. idle \in Sound
      <3>1. Same(cancelled, idle)
        BY <1>4 DEF Same, Sound, Input
      <3> QED
        BY <1>4, <3>1, SameStays DEF Stays, Keeps
    <2> QED
      BY <2>1, <2>2
  <1> HIDE DEF idle
  <1>6. /\ cleared \in Sound /\ SameTokens(idle, cleared) /\ SameIme(idle, cleared)
        /\ ~cleared.composing /\ cleared.irregular = idle.irregular
        /\ ~cleared.preview /\ ~cleared.fallback /\ cleared.handoff = "none"
    BY <1>5, ClearIs
  <1> HIDE DEF cleared
  <1>7. Right(cleared, n, "shown")
    <2>1. SameTokens(cancelled, cleared) /\ SameIme(cancelled, cleared)
      BY <1>5, <1>6 DEF SameTokens, SameIme
    <2> QED
      BY <1>4, <1>5, <1>6, <2>1, BlankRight DEF Clear
  <1>8. PICK c, d : c = context /\ d = detached
    OBVIOUS
  <1>9. released = [cleared EXCEPT !.context = c, !.detached = d]
    BY <1>8
  <1> HIDE DEF released, context, detached, t
  <1>10. SameTokens(cleared, released) /\ SameIme(cleared, released)
         /\ SameShown(cleared, released)
    BY <1>6, <1>9 DEF Sound, Input, SameTokens, SameIme, SameShown
  <1>11. CASE t = released
    <2>1. Right(t, n, "shown")
      BY <1>1, <1>7, <1>10, <1>11, SameRight DEF Stages
    <2>2. stage # "shown" => t.window
      BY <1>4, <1>5, <1>6, <1>10, <1>11 DEF Right, SameIme
    <2> QED
      BY <2>1, <2>2, ShownEnded DEF Stages, t
  <1>12. CASE t = published
    BY <1>2, <1>12 DEF t
  <1> QED
    BY <1>1, <1>11, <1>12

LEMMA SetRight ==
    ASSUME NEW s, NEW n \in Nat, NEW stage \in Stages, Right(s, n, stage),
           NEW enable \in BOOLEAN, NEW ok \in BOOLEAN, enable \/ stage # "begun"
    PROVE  Right(SetGameImeEnabled(s, enable, ok), n, stage)
  BY EnableRight, DisableRight DEF SetGameImeEnabled

-----------------------------------------------------------------------------
(* A new generation, a new target, a session that begins or ends.              *)

\* A new generation changes nothing else that matters here.
Renewed(s, t) ==
    /\ t \in Sound /\ t.generation > s.generation /\ t.events = s.events
    /\ t.edit = s.edit /\ t.editGeneration = s.editGeneration
    /\ SameIme(s, t) /\ t.irregular = s.irregular /\ t.handoff = "none"

LEMMA RenewedRight ==
    ASSUME NEW s, NEW t, NEW n, n <= Len(s.events), Based(s), Renewed(s, t),
           Clear(t) \/ (t.window /\ (t.irregular \/ t.target = "none"))
    PROVE  /\ Right(t, n, "shown")
           /\ \A stage \in Stages \ {"begun"} :
                 (stage # "shown" => s.window) => Right(t, n, stage)
  <1>1. Right(t, n, "shown")
    BY FreshRight DEF Renewed
  <1>2. t.window = s.window
    BY DEF Renewed, SameIme
  <1> QED
    BY <1>1, <1>2, ShownEnded DEF Stages

LEMMA AdvanceIs ==
    ASSUME NEW s \in Sound
    PROVE  LET t == AdvanceTextInputSessionGeneration(s)
           IN  /\ Renewed(s, t) /\ t.target = s.target /\ t.session = s.session
               /\ t.composing = s.composing /\ t.preview = s.preview
               /\ t.fallback = s.fallback
  <1> DEFINE t == AdvanceTextInputSessionGeneration(s)
  <1>1. s \in Input /\ s.generation \in Nat
    BY DEF Sound, Input
  <1>2. t \in Sound
    BY AdvanceStays DEF Stays, Keeps
  <1>3. PICK g : g = s.generation + 1
    OBVIOUS
  <1>4. t = [s EXCEPT !.generation = g, !.handoff = "none"] /\ g > s.generation
    BY <1>1, <1>3 DEF AdvanceTextInputSessionGeneration
  <1> HIDE DEF t
  <1>5. /\ t.generation = g /\ t.events = s.events
        /\ t.edit = s.edit /\ t.editGeneration = s.editGeneration
        /\ SameIme(s, t) /\ t.irregular = s.irregular /\ t.handoff = "none"
        /\ t.target = s.target /\ t.session = s.session
        /\ t.composing = s.composing /\ t.preview = s.preview
        /\ t.fallback = s.fallback
    BY <1>1, <1>4 DEF Input, SameIme
  <1> QED
    BY <1>2, <1>4, <1>5 DEF Renewed, t

LEMMA SyncIs ==
    ASSUME NEW s \in Sound, NEW fields \in SUBSET Fields
    PROVE  LET t == SynchronizeTextInputTarget(s, fields)
           IN  /\ t \in Sound
               /\ t.target = ResolveCurrentTextInputTarget(fields)
               /\ t.session = s.session
               /\ \/ t = s
                  \/ Renewed(s, t) /\ Clear(t)
  <1> DEFINE resolved == ResolveCurrentTextInputTarget(fields)
             advanced == AdvanceTextInputSessionGeneration(s)
             moved == [advanced EXCEPT !.target = resolved, !.composing = FALSE]
             cleared == ClearImePreviewState(moved, FALSE)
             t == SynchronizeTextInputTarget(s, fields)
  <1>1. resolved \in Targets
    BY ResolvedTarget
  <1>2. /\ t \in Sound /\ t.target = resolved
        /\ t = IF s.target = resolved THEN s ELSE cleared
    BY SynchronizeKeeps DEF SynchronizeTextInputTarget, Keeps
  <1> HIDE DEF resolved
  <1>3. Renewed(s, advanced) /\ advanced \in Sound /\ advanced.session = s.session
    BY AdvanceIs DEF Renewed
  <1> HIDE DEF advanced
  <1>4. moved \in Input /\ moved.events = advanced.events
    BY <1>1, <1>3 DEF Sound, Input
  <1>5. moved \in Sound
    BY <1>3, <1>4 DEF Sound
  <1>6. /\ moved.generation = advanced.generation
        /\ moved.edit = advanced.edit /\ moved.editGeneration = advanced.editGeneration
        /\ SameIme(advanced, moved) /\ moved.irregular = advanced.irregular
        /\ moved.session = advanced.session /\ ~moved.composing
    BY <1>3 DEF Sound, Input, SameIme
  <1> HIDE DEF moved
  <1>7. /\ cleared \in Sound /\ SameTokens(moved, cleared) /\ SameIme(moved, cleared)
        /\ cleared.composing = moved.composing /\ cleared.irregular = moved.irregular
        /\ ~cleared.preview /\ ~cleared.fallback /\ cleared.handoff = "none"
    BY <1>5, ClearIs
  <1> HIDE DEF cleared
  <1>8. Renewed(s, cleared) /\ Clear(cleared) /\ cleared.session = s.session
    BY <1>3, <1>4, <1>6, <1>7 DEF Renewed, SameTokens, SameIme, Clear
  <1> HIDE DEF t
  <1>9. t.session = s.session /\ (t = s \/ (Renewed(s, t) /\ Clear(t)))
    BY <1>2, <1>8
  <1> QED
    BY <1>2, <1>9 DEF t, resolved

LEMMA SyncRight ==
    ASSUME NEW s, NEW n \in Nat, NEW stage \in Stages \ {"begun"}, Right(s, n, stage),
           NEW fields \in SUBSET Fields
    PROVE  Right(SynchronizeTextInputTarget(s, fields), n, stage)
  <1> DEFINE t == SynchronizeTextInputTarget(s, fields)
  <1>1. s \in Sound
    BY DEF Right, Based
  <1>2. t = s \/ (Renewed(s, t) /\ Clear(t))
    BY <1>1, SyncIs
  <1> HIDE DEF t
  <1>3. Right(t, n, stage)
    BY <1>2, RenewedRight DEF Right
  <1> QED
    BY <1>3 DEF t

LEMMA SessionIs ==
    ASSUME NEW s \in Sound, NEW value \in BOOLEAN
    PROVE  LET t == [s EXCEPT !.session = value]
           IN  /\ t \in Sound /\ t.session = value
               /\ t.generation = s.generation /\ t.events = s.events /\ t.target = s.target
               /\ t.edit = s.edit /\ t.editGeneration = s.editGeneration
               /\ SameIme(s, t) /\ SameShown(s, t)
  <1>1. s \in Input
    BY DEF Sound
  <1>2. Same(s, [s EXCEPT !.session = value])
    BY <1>1 DEF Same, Input
  <1>3. [s EXCEPT !.session = value] \in Sound
    BY <1>2, SameStays DEF Stays, Keeps
  <1>4. LET t == [s EXCEPT !.session = value]
        IN  /\ t.session = value
            /\ t.generation = s.generation /\ t.events = s.events /\ t.target = s.target
            /\ t.edit = s.edit /\ t.editGeneration = s.editGeneration
            /\ SameIme(s, t) /\ SameShown(s, t)
    BY <1>1 DEF Input, SameIme, SameShown
  <1> QED
    BY <1>3, <1>4

\* A session begins for a target for which nothing was shown, or it ends when
\* there is no target.
LEMMA SessionRight ==
    ASSUME NEW s, NEW n \in Nat, NEW stage \in Stages, Right(s, n, stage),
           NEW active \in BOOLEAN, NEW fields \in SUBSET Fields, NEW ok \in BOOLEAN,
           \/ s.session = active
           \/ /\ stage # "begun"
              /\ active \/ ResolveCurrentTextInputTarget(fields) = "none"
    PROVE  Right(SetTextInputSessionActive(s, active, fields, ok), n, stage)
  <1> DEFINE synced == SynchronizeTextInputTarget(s, fields)
             begun == [synced EXCEPT !.session = TRUE]
             ended == [s EXCEPT !.session = FALSE]
             resynced == SynchronizeTextInputTarget(ended, fields)
             switched == IF active THEN begun ELSE resynced
             advanced == AdvanceTextInputSessionGeneration(switched)
             set == SetGameImeEnabled(advanced, active, ok)
  <1>0. s \in Sound /\ Based(s) /\ n <= Len(s.events) /\ (stage # "shown" => s.window)
    BY DEF Right, Based
  <1>1. SetTextInputSessionActive(s, active, fields, ok)
          = IF s.session = active THEN s ELSE set
    BY DEF SetTextInputSessionActive
  <1>2. CASE s.session = active
    BY <1>1, <1>2
  <1>3. CASE s.session # active
    <2>1. stage \in Stages \ {"begun"}
          /\ (active \/ ResolveCurrentTextInputTarget(fields) = "none")
      BY <1>3
    <2>2. CASE active
      <3>1. s.session = FALSE
        BY <1>0, <1>3, <2>2 DEF Sound, Input
      <3>2. Right(synced, n, stage) /\ synced \in Sound /\ synced.session = FALSE
            /\ synced.window = s.window
        <4>1. Right(synced, n, stage)
          BY <2>1, SyncRight
        <4>2. synced \in Sound /\ synced.session = s.session
              /\ (synced = s \/ Renewed(s, synced))
          BY <1>0, SyncIs
        <4> HIDE DEF synced
        <4> QED
          BY <3>1, <4>1, <4>2 DEF Renewed, SameIme
      <3> HIDE DEF synced
      <3>3. /\ begun \in Sound
            /\ begun.generation = synced.generation /\ begun.events = synced.events
            /\ begun.target = synced.target
            /\ begun.edit = synced.edit /\ begun.editGeneration = synced.editGeneration
            /\ SameIme(synced, begun) /\ SameShown(synced, begun)
        BY <3>2, SessionIs
      <3>4. switched = begun
        BY <2>2
      <3> HIDE DEF begun, switched
      <3>5. /\ Renewed(switched, advanced) /\ advanced.target = switched.target
            /\ advanced.composing = switched.composing
            /\ advanced.preview = switched.preview
            /\ advanced.fallback = switched.fallback
        BY <3>3, <3>4, AdvanceIs
      <3> HIDE DEF advanced
      <3>6. Renewed(synced, advanced)
        BY <3>3, <3>4, <3>5 DEF Renewed, SameIme, SameShown
      <3>7. Clear(synced) => Clear(advanced)
        BY <3>3, <3>4, <3>5 DEF Clear, SameShown
      <3>8. advanced.target = synced.target /\ advanced.window = synced.window
            /\ advanced.irregular = synced.irregular
        BY <3>3, <3>4, <3>5 DEF Renewed, SameIme, SameShown
      <3>9. Clear(synced) \/ (synced.window /\ (synced.irregular \/ synced.target = "none"))
        BY <3>2 DEF Right, Based, RegularOK, ClosedOK
      <3>10. Right(advanced, n, stage)
        BY <1>0, <2>1, <3>2, <3>6, <3>7, <3>8, <3>9, RenewedRight DEF Right
      <3>11. Right(SetGameImeEnabled(advanced, active, ok), n, stage)
        BY <2>2, <3>10, SetRight
      <3> QED
        BY <1>1, <1>3, <3>11
    <2>3. CASE ~active
      <3>1. ResolveCurrentTextInputTarget(fields) = "none"
        BY <2>1, <2>3
      <3>2. /\ ended \in Sound
            /\ ended.generation = s.generation /\ ended.events = s.events
            /\ ended.edit = s.edit /\ ended.editGeneration = s.editGeneration
            /\ SameIme(s, ended) /\ SameShown(s, ended)
        BY <1>0, SessionIs
      <3> HIDE DEF ended
      <3>3. /\ resynced \in Sound /\ resynced.target = "none"
            /\ resynced = ended \/ (Renewed(ended, resynced) /\ Clear(resynced))
        BY <3>1, <3>2, SyncIs
      <3>4. switched = resynced
        BY <2>3
      <3> HIDE DEF resynced, switched
      <3>5. /\ Renewed(switched, advanced) /\ advanced.target = switched.target
            /\ advanced.composing = switched.composing
            /\ advanced.preview = switched.preview
            /\ advanced.fallback = switched.fallback
        BY <3>3, <3>4, AdvanceIs
      <3> HIDE DEF advanced
      <3>6. Renewed(s, advanced)
        <4>1. s \in Input /\ switched \in Input /\ advanced \in Input
          BY <1>0, <3>3, <3>4, <3>5 DEF Renewed, Sound
        <4>2. s.generation \in Nat /\ switched.generation \in Nat
              /\ advanced.generation \in Nat
          BY <4>1 DEF Input
        <4>3. switched.generation >= s.generation
          BY <3>2, <3>3, <3>4, <4>2 DEF Renewed
        <4>4. advanced.generation > s.generation
          BY <3>5, <4>2, <4>3 DEF Renewed
        <4>5. switched.events = s.events /\ switched.edit = s.edit
              /\ switched.editGeneration = s.editGeneration
              /\ SameIme(s, switched) /\ switched.irregular = s.irregular
          BY <3>2, <3>3, <3>4 DEF Renewed, SameIme, SameShown
        <4> QED
          BY <3>5, <4>4, <4>5 DEF Renewed, SameIme
      <3>7. Clear(s) => Clear(advanced)
        BY <3>2, <3>3, <3>4, <3>5 DEF Clear, SameShown
      <3>8. advanced.window = s.window
        BY <3>6 DEF Renewed, SameIme
      <3>9. Clear(s) \/ s.window
        BY <1>0 DEF Based, ClosedOK
      <3>10. Right(advanced, n, stage)
        BY <1>0, <2>1, <3>3, <3>4, <3>5, <3>6, <3>7, <3>8, <3>9, RenewedRight
      <3>11. Right(SetGameImeEnabled(advanced, active, ok), n, stage)
        BY <2>1, <3>10, SetRight
      <3> QED
        BY <1>1, <1>3, <3>11
    <2> QED
      BY <2>2, <2>3
  <1> QED
    BY <1>2, <1>3

-----------------------------------------------------------------------------
(* What the main loop does with the target before it works messages off.       *)

LEMMA ShownIsStage == "shown" \in Stages \ {"begun"} /\ "shown" \in Stages
  BY DEF Stages

LEMMA RefreshRight ==
    ASSUME NEW s, NEW n \in Nat, Right(s, n, "shown"), NEW fields \in SUBSET Fields,
           NEW ok \in BOOLEAN
    PROVE  Right(RefreshTextInputSessionForActiveTarget(s, fields, ok), n, "shown")
  <1> DEFINE synced == SynchronizeTextInputTarget(s, fields)
             advanced == AdvanceTextInputSessionGeneration(synced)
             begun == [advanced EXCEPT !.composing = FALSE, !.session = TRUE]
             cleared == ClearImePreviewState(begun, FALSE)
             set == SetGameImeEnabled(cleared, TRUE, ok)
  <1>1. RefreshTextInputSessionForActiveTarget(s, fields, ok) = set
    BY DEF RefreshTextInputSessionForActiveTarget
  <1>2. Right(synced, n, "shown") /\ synced \in Sound
    BY SyncRight, ShownIsStage DEF Right, Based
  <1> HIDE DEF synced
  <1>3. Renewed(synced, advanced) /\ advanced \in Sound
    BY <1>2, AdvanceIs DEF Renewed
  <1> HIDE DEF advanced
  <1>4. begun \in Sound
    <2>1. Same(advanced, begun)
      BY <1>3 DEF Same, Sound, Input
    <2> QED
      BY <1>3, <2>1, SameStays DEF Stays, Keeps
  <1>5. /\ begun.generation = advanced.generation /\ begun.events = advanced.events
        /\ begun.edit = advanced.edit /\ begun.editGeneration = advanced.editGeneration
        /\ SameIme(advanced, begun) /\ begun.irregular = advanced.irregular
        /\ ~begun.composing
    BY <1>3 DEF Sound, Input, SameIme
  <1> HIDE DEF begun
  <1>6. /\ cleared \in Sound /\ SameTokens(begun, cleared) /\ SameIme(begun, cleared)
        /\ cleared.composing = begun.composing /\ cleared.irregular = begun.irregular
        /\ ~cleared.preview /\ ~cleared.fallback /\ cleared.handoff = "none"
    BY <1>4, ClearIs
  <1> HIDE DEF cleared
  <1>7. Renewed(synced, cleared) /\ Clear(cleared)
    BY <1>3, <1>5, <1>6 DEF Renewed, SameTokens, SameIme, Clear
  <1>8. Right(cleared, n, "shown")
    BY <1>2, <1>7, RenewedRight DEF Right
  <1>9. Right(set, n, "shown")
    BY <1>8, SetRight, ShownIsStage
  <1> QED
    BY <1>1, <1>9

LEMMA UpdateRight ==
    ASSUME NEW s, NEW n \in Nat, Right(s, n, "shown"), NEW fields \in SUBSET Fields,
           NEW ok \in BOOLEAN
    PROVE  Right(UpdateGameImeAssociation(s, fields, ok), n, "shown")
  <1> DEFINE synced == SynchronizeTextInputTarget(s, fields)
             hasTarget == synced.target # "none"
             set == SetTextInputSessionActive(synced, hasTarget, fields, ok)
             attached == SetGameImeEnabled(set, TRUE, ok)
             released == SetGameImeEnabled(set, FALSE, ok)
  <1>1. UpdateGameImeAssociation(s, fields, ok) \in {s, set, attached, released}
    BY DEF UpdateGameImeAssociation
  <1>2. Right(synced, n, "shown") /\ synced.target = ResolveCurrentTextInputTarget(fields)
    BY SyncRight, SyncIs, ShownIsStage DEF Right, Based
  <1>3. hasTarget \in BOOLEAN /\ (hasTarget \/ synced.target = "none")
    OBVIOUS
  <1> HIDE DEF synced, hasTarget
  <1>4. Right(set, n, "shown")
    BY <1>2, <1>3, SessionRight, ShownIsStage
  <1> HIDE DEF set
  <1>5. Right(attached, n, "shown") /\ Right(released, n, "shown")
    BY <1>4, SetRight, ShownIsStage
  <1> HIDE DEF attached, released
  <1> QED
    BY <1>1, <1>4, <1>5

LEMMA EndRight ==
    ASSUME NEW s, NEW n \in Nat, Right(s, n, "shown"), NEW fields \in SUBSET Fields,
           NEW ok \in BOOLEAN, ResolveCurrentTextInputTarget(fields) = "none"
    PROVE  Right(EndStewieTextInputSession(s, fields, ok), n, "shown")
  <1> DEFINE idle == [s EXCEPT !.composing = FALSE]
             cleared == ClearImePreviewState(idle, FALSE)
             set == SetTextInputSessionActive(cleared, FALSE, fields, ok)
             updated == UpdateGameImeAssociation(set, fields, ok)
  <1>1. EndStewieTextInputSession(s, fields, ok) = updated
    BY DEF EndStewieTextInputSession
  <1>2. s \in Sound
    BY DEF Right, Based
  <1>3. idle \in Sound /\ SameTokens(s, idle) /\ SameIme(s, idle) /\ ~idle.composing
        /\ idle.irregular = s.irregular
    <2>1. SameTokens(s, idle) /\ SameIme(s, idle) /\ ~idle.composing
          /\ idle.irregular = s.irregular
      BY <1>2 DEF Sound, Input, SameTokens, SameIme
    <2>2. Same(s, idle)
      BY <1>2 DEF Same, Sound, Input
    <2> QED
      BY <1>2, <2>1, <2>2, SameStays DEF Stays, Keeps
  <1> HIDE DEF idle
  <1>4. /\ cleared \in Sound /\ SameTokens(idle, cleared) /\ SameIme(idle, cleared)
        /\ cleared.composing = idle.composing /\ cleared.irregular = idle.irregular
        /\ ~cleared.preview /\ ~cleared.fallback /\ cleared.handoff = "none"
    BY <1>3, ClearIs
  <1> HIDE DEF cleared
  <1>5. Right(cleared, n, "shown")
    <2>1. SameTokens(s, cleared) /\ SameIme(s, cleared) /\ Clear(cleared)
          /\ cleared.irregular = s.irregular
      BY <1>3, <1>4 DEF SameTokens, SameIme, Clear
    <2> QED
      BY <1>4, <2>1, BlankRight, ShownIsStage
  <1>6. Right(set, n, "shown")
    BY <1>5, SessionRight, ShownIsStage
  <1> HIDE DEF set
  <1>7. Right(updated, n, "shown")
    BY <1>6, UpdateRight
  <1> QED
    BY <1>1, <1>7

LEMMA InstallRight ==
    ASSUME NEW s, NEW n \in Nat, Right(s, n, "shown"), NEW ok \in BOOLEAN
    PROVE  Right(TryInstallWindowProc(s, ok), n, "shown")
  <1> DEFINE installed == [s EXCEPT !.window = TRUE, !.enabled = FALSE, !.associated = 0]
             set == SetGameImeEnabled(installed, FALSE, ok)
  <1>1. TryInstallWindowProc(s, ok) = IF s.window THEN s ELSE set
    BY DEF TryInstallWindowProc
  <1>2. ASSUME ~s.window PROVE Right(installed, n, "shown")
    <2>1. s \in Sound /\ s \in Input
      BY DEF Right, Based, Sound
    <2>2. installed \in Sound
      <3>1. Same(s, installed)
        BY <2>1 DEF Same, Input
      <3> QED
        BY <2>1, <3>1, SameStays DEF Stays, Keeps
    <2>3. /\ SameTokens(s, installed) /\ SameShown(s, installed) /\ installed.window
          /\ installed.composition = s.composition /\ installed.started = s.started
          /\ installed.closing = s.closing /\ installed.owed = s.owed
      BY <2>1 DEF Input, SameTokens, SameShown
    <2> HIDE DEF installed
    <2>4. Clear(s) /\ s.events = <<>> /\ s.edit = "none"
      BY <1>2 DEF Right, Based, ClosedOK
    <2>5. Based(installed)
      <3>1. TokensOK(installed)
        BY <2>3 DEF Right, Based, SameTokens, TokensOK, Current
      <3>2. ImeOK(installed)
        BY <2>3 DEF Right, Based, ImeOK, Busy
      <3> QED
        BY <2>2, <2>3, <3>1, <3>2 DEF Based, ClosedOK
    <2>6. Tracked(installed, n, "shown")
      <3>1. 1..Len(installed.events) = {}
        BY <2>3, <2>4 DEF SameTokens
      <3>2. Clear(installed) /\ installed.edit = "none"
        BY <2>3, <2>4 DEF SameTokens, SameShown, Clear
      <3> QED
        BY <3>1, <3>2
        DEF Tracked, TextOK, MessagesOK, ShownOK, FallbackOK, Clear, Reported
    <2>7. RegularOK(installed, n, "shown")
      BY <2>3, <2>4, <2>6 DEF Right, RegularOK, SameTokens, SameShown, Clear
    <2> QED
      BY <2>3, <2>5, <2>7 DEF Right, SameTokens
  <1> HIDE DEF installed
  <1>3. ~s.window => Right(set, n, "shown")
    BY <1>2, SetRight, ShownIsStage
  <1> QED
    BY <1>1, <1>3

LEMMA SearchRight ==
    ASSUME NEW s, NEW n \in Nat, Right(s, n, "shown"), NEW ok \in BOOLEAN,
           open \subseteq Fields
    PROVE  Right(ProcessSearchTargetState(s, ok), n, "shown")
  <1> DEFINE seen == [s EXCEPT !.observed = TRUE]
             unseen == [s EXCEPT !.observed = FALSE]
             refreshed == RefreshTextInputSessionForActiveTarget(seen, open, ok)
             ended == EndStewieTextInputSession(unseen, open, ok)
             t == ProcessSearchTargetState(s, ok)
  <1>1. \/ t \in {seen, unseen, refreshed}
        \/ t = ended /\ "search" \notin open /\ "edit" \notin open
    BY DEF ProcessSearchTargetState
  <1>2. s \in Sound /\ s \in Input
    BY DEF Right, Based, Sound
  <1>3. SameTokens(s, seen) /\ SameIme(s, seen) /\ SameShown(s, seen) /\ Same(s, seen)
    BY <1>2 DEF Input, SameTokens, SameIme, SameShown, Same
  <1>4. SameTokens(s, unseen) /\ SameIme(s, unseen) /\ SameShown(s, unseen) /\ Same(s, unseen)
    BY <1>2 DEF Input, SameTokens, SameIme, SameShown, Same
  <1> HIDE DEF seen, unseen
  <1>5. Right(seen, n, "shown") /\ Right(unseen, n, "shown")
    <2>1. seen \in Sound /\ unseen \in Sound
      BY <1>2, <1>3, <1>4, SameStays DEF Stays, Keeps
    <2> QED
      BY <1>3, <1>4, <2>1, SameRight, ShownIsStage
  <1>6. open \in SUBSET Fields
    OBVIOUS
  <1>7. Right(refreshed, n, "shown")
    BY <1>5, <1>6, RefreshRight
  <1>8. "search" \notin open /\ "edit" \notin open => Right(ended, n, "shown")
    <2>1. "search" \notin open /\ "edit" \notin open
            => ResolveCurrentTextInputTarget(open) = "none"
      BY DEF ResolveCurrentTextInputTarget
    <2> QED
      BY <1>5, <1>6, <2>1, EndRight
  <1> HIDE DEF refreshed, ended, t
  <1>9. Right(t, n, "shown")
    BY <1>1, <1>5, <1>7, <1>8
  <1> QED
    BY <1>9 DEF t

\* The text service stands in, or what it stood in for is over.
LEMMA PumpTsfRight ==
    ASSUME NEW s, Right(s, 0, "shown"), NEW n \in Nat, n <= Len(s.events)
    PROVE  /\ Right(PumpTsfInputUpdates(s), n, "shown")
           /\ PumpTsfInputUpdates(s).events = s.events
  <1> DEFINE shows == s.context /\ s.composition
             taken == [s EXCEPT !.edit = "none", !.editGeneration = 0]
             irregular == taken.irregular \/ s.handoff = "armed"
             next == IF taken.handoff = "armed" THEN "ready" ELSE taken.handoff
             composes == taken.composing /\ shows
             standIn == [taken EXCEPT
                           !.preview = TRUE, !.fallback = TRUE,
                           !.composing = TRUE, !.irregular = irregular,
                           !.handoff = next]
             ended == [taken EXCEPT !.fallback = FALSE, !.preview = shows,
                                    !.composing = composes]
             active == s.session /\ s.editGeneration = s.generation
             t == PumpTsfInputUpdates(s)
  <1>1. \/ t = taken /\ ~(active /\ s.edit = "empty" /\ s.fallback)
        \/ t = standIn /\ active /\ s.edit = "text"
        \/ t = ended /\ active /\ s.edit = "empty" /\ s.fallback
    BY DEF PumpTsfInputUpdates
  <1>2. s \in Sound /\ s \in Input /\ s.generation \in Nat
    BY DEF Right, Based, Sound, Input
  <1>3. t \in Sound
    BY <1>2, PumpTsfStays DEF Stays, Keeps
  <1> DEFINE Takes(u) ==
               /\ u.generation = s.generation /\ u.events = s.events /\ u.target = s.target
               /\ u.session = s.session /\ u.edit = "none" /\ u.editGeneration = 0
               /\ SameIme(s, u)
  <1>4. Takes(taken) /\ SameShown(s, taken)
    BY <1>2 DEF Input, SameIme, SameShown
  <1>5. taken \in Input
    BY <1>2 DEF Input
  <1>6. PICK i, h, c, v : i = irregular /\ h = next /\ c = composes /\ v = shows
    OBVIOUS
  <1>7. /\ standIn = [taken EXCEPT !.preview = TRUE, !.fallback = TRUE,
                        !.composing = TRUE, !.irregular = i, !.handoff = h]
        /\ ended = [taken EXCEPT !.fallback = FALSE, !.preview = v, !.composing = c]
    BY <1>6
  <1>8. /\ i = (s.irregular \/ s.handoff = "armed")
        /\ s.handoff = "none" => h = "none"
        /\ v \/ c => s.composition
    BY <1>4, <1>6 DEF SameShown
  <1> HIDE DEF taken, standIn, ended, irregular, next, composes, shows, t
  <1>9. /\ Takes(standIn) /\ standIn.preview /\ standIn.fallback /\ standIn.composing
        /\ standIn.irregular = i /\ standIn.handoff = h
    BY <1>4, <1>5, <1>7 DEF Input, SameIme
  <1>10. /\ Takes(ended) /\ ~ended.fallback /\ ended.preview = v /\ ended.composing = c
         /\ ended.irregular = s.irregular /\ ended.handoff = s.handoff
    BY <1>4, <1>5, <1>7 DEF Input, SameIme, SameShown
  <1>11. Takes(t) /\ (t.window \/ Clear(t))
    <2>1. Takes(t)
      BY <1>1, <1>4, <1>9, <1>10
    <2>2. ~s.window => Clear(s) /\ s.edit = "none"
      BY DEF Right, Based, ClosedOK
    <2>3. ~s.window => Clear(t)
      BY <1>1, <1>4, <2>2 DEF SameShown, Clear
    <2>4. t.window = s.window
      BY <2>1 DEF SameIme
    <2> QED
      BY <2>1, <2>3, <2>4
  <1>12. Based(t)
    <2>1. TokensOK(t)
      <3>1. t.editGeneration <= t.generation
        BY <1>2, <1>11
      <3> QED
        BY <1>11, <3>1 DEF Right, Based, TokensOK, Current
    <2>2. ImeOK(t)
      BY <1>11 DEF Right, Based, ImeOK, SameIme, Busy
    <2>3. ClosedOK(t)
      BY <1>11 DEF Right, Based, ClosedOK, SameIme
    <2> QED
      BY <1>3, <2>1, <2>2, <2>3 DEF Based
  <1>13. \A k : EndsAfter(t, k) <=> EndsAfter(s, k)
    BY <1>11 DEF EndsAfter, Current
  <1>14. TextOK(t, n) /\ (MessagesOK(s) => MessagesOK(t)) /\ (Busy(t) <=> Busy(s))
    BY <1>11, <1>13 DEF TextOK, MessagesOK, Reported, Busy, SameIme, Current
  <1>15. CASE t = taken /\ ~(active /\ s.edit = "empty" /\ s.fallback)
    <2>1. s.session /\ FallbackOK(s) => FallbackOK(t)
      BY <1>4, <1>13, <1>15 DEF FallbackOK, Reported, SameIme, SameShown
    <2>2. ShownOK(s) => ShownOK(t)
      BY <1>4, <1>13, <1>14, <1>15 DEF ShownOK, SameShown
    <2>3. s.session /\ Tracked(s, 0, "shown") => Tracked(t, n, "shown")
      BY <1>14, <2>1, <2>2 DEF Tracked
    <2>4. RegularOK(t, n, "shown")
      BY <1>4, <1>15, <2>3 DEF Right, RegularOK, SameShown, Clear
    <2> QED
      BY <1>11, <1>12, <2>4 DEF Right, t
  <1>16. CASE t = standIn /\ active /\ s.edit = "text"
    <2>1. ASSUME ~t.irregular
          PROVE  ~s.irregular /\ t.handoff = "none"
      <3>1. ~s.irregular /\ s.handoff # "armed"
        BY <1>8, <1>9, <1>16, <2>1
      <3>2. s.handoff = "none"
        BY <1>2, <3>1 DEF Right, RegularOK, Input
      <3> QED
        BY <1>8, <1>9, <1>16, <3>1, <3>2
    <2>2. Reported(s, "text")
      BY <1>16 DEF Reported
    <2>3. ASSUME Tracked(s, 0, "shown") PROVE Tracked(t, n, "shown")
      <3>1. ~s.composition => s.owed /\ (s.closing => EndsAfter(s, 0))
        BY <2>2, <2>3 DEF Tracked, TextOK
      <3>2. FallbackOK(t)
        BY <1>11, <1>13, <3>1 DEF FallbackOK, Reported, SameIme
      <3>3. ShownOK(t)
        BY <1>9, <1>16 DEF ShownOK
      <3> QED
        BY <1>14, <2>3, <3>2, <3>3 DEF Tracked
    <2>4. RegularOK(t, n, "shown")
      BY <1>11, <1>16, <2>1, <2>3 DEF Right, RegularOK
    <2> QED
      BY <1>11, <1>12, <2>4 DEF Right, t
  <1>17. CASE t = ended /\ active /\ s.edit = "empty" /\ s.fallback
    <2>1. Reported(s, "empty")
      BY <1>17 DEF Reported
    <2>2. ASSUME Tracked(s, 0, "shown") PROVE Tracked(t, n, "shown")
      <3>1. s.composition => Busy(s) \/ EndsAfter(s, 0)
        BY <1>17, <2>1, <2>2 DEF Tracked, FallbackOK
      <3>2. ShownOK(t)
        BY <1>8, <1>10, <1>13, <1>14, <1>17, <3>1 DEF ShownOK
      <3>3. FallbackOK(t)
        BY <1>10, <1>17 DEF FallbackOK
      <3> QED
        BY <1>14, <2>2, <3>2, <3>3 DEF Tracked
    <2>3. RegularOK(t, n, "shown")
      BY <1>10, <1>17, <2>2 DEF Right, RegularOK
    <2> QED
      BY <1>11, <1>12, <2>3 DEF Right, t
  <1>18. PumpTsfInputUpdates(s).events = s.events
    BY <1>11 DEF t
  <1> QED
    BY <1>1, <1>15, <1>16, <1>17, <1>18

-----------------------------------------------------------------------------
(* A captured message leaves the queue; what an irregular course leaves.       *)

\* After an irregular course nothing is promised but the base.
LEMMA IrregularRight ==
    ASSUME NEW s, NEW n, n <= Len(s.events), Based(s), s.irregular
    PROVE  Right(s, n, "shown")
  BY DEF Right, RegularOK

LEMMA TailIs ==
    ASSUME NEW s \in Sound, s.events # <<>>
    PROVE  LET t == [s EXCEPT !.events = Tail(@)]
           IN  /\ t \in Sound
               /\ t.generation = s.generation /\ t.target = s.target
               /\ t.session = s.session /\ t.edit = s.edit
               /\ t.editGeneration = s.editGeneration
               /\ SameIme(s, t) /\ SameShown(s, t)
               /\ Len(t.events) = Len(s.events) - 1 /\ Len(s.events) \in Nat \ {0}
               /\ \A i \in 1..Len(t.events) : /\ i + 1 \in 1..Len(s.events)
                                              /\ t.events[i] = s.events[i + 1]
               /\ \A i \in 1..Len(s.events) : i # 1 => /\ i - 1 \in 1..Len(t.events)
                                                       /\ t.events[i - 1] = s.events[i]
               /\ Head(s.events) = s.events[1] /\ 1 \in 1..Len(s.events)
  <1> DEFINE t == [s EXCEPT !.events = Tail(@)]
  <1>1. PICK q : q = s.events /\ q \in Seq(Event) /\ q # <<>>
    BY DEF Sound, Input
  <1>2. /\ Len(Tail(q)) = Len(q) - 1 /\ Len(q) \in Nat \ {0}
        /\ \A i \in 1..Len(Tail(q)) : i + 1 \in 1..Len(q) /\ Tail(q)[i] = q[i + 1]
        /\ Head(q) = q[1] /\ 1 \in 1..Len(q)
    BY <1>1
  <1>3. \A i \in 1..Len(q) : i # 1 => i - 1 \in 1..Len(Tail(q)) /\ Tail(q)[i - 1] = q[i]
    <2> SUFFICES ASSUME NEW i \in 1..Len(q), i # 1
                 PROVE  i - 1 \in 1..Len(Tail(q)) /\ Tail(q)[i - 1] = q[i]
      OBVIOUS
    <2>1. i - 1 \in 1..Len(Tail(q)) /\ (i - 1) + 1 = i
      BY <1>2
    <2> QED
      BY <1>2, <2>1
  <1>4. t \in Sound
    BY TailIsSound
  <1>5. PICK r : r = Tail(q)
    OBVIOUS
  <1>6. t = [s EXCEPT !.events = r]
    BY <1>1, <1>5
  <1>7. s \in Input
    BY DEF Sound
  <1> HIDE DEF t
  <1>8. /\ t.events = r /\ t.generation = s.generation /\ t.target = s.target
        /\ t.session = s.session /\ t.edit = s.edit
        /\ t.editGeneration = s.editGeneration
        /\ SameIme(s, t) /\ SameShown(s, t)
    BY <1>6, <1>7 DEF Input, SameIme, SameShown
  <1>9. /\ Len(t.events) = Len(s.events) - 1 /\ Len(s.events) \in Nat \ {0}
        /\ \A i \in 1..Len(t.events) : /\ i + 1 \in 1..Len(s.events)
                                       /\ t.events[i] = s.events[i + 1]
        /\ \A i \in 1..Len(s.events) : i # 1 => /\ i - 1 \in 1..Len(t.events)
                                                /\ t.events[i - 1] = s.events[i]
        /\ Head(s.events) = s.events[1] /\ 1 \in 1..Len(s.events)
    BY <1>1, <1>2, <1>3, <1>5, <1>8
  <1> QED
    BY <1>4, <1>8, <1>9 DEF t

\* A message has left the queue and is still to be handled.
LEMMA TailRight ==
    ASSUME NEW s, NEW n \in Nat, n > 0, Right(s, n, "shown")
    PROVE  LET t == [s EXCEPT !.events = Tail(@)]
               ends == Current(s, 1) /\ s.events[1].kind \in Terminal
           IN  /\ t.window
               /\ Right(t, n - 1, "ended")
               /\ ~ends => Right(t, n - 1, "shown")
               /\ Current(s, 1) /\ s.events[1].kind \in Going => Right(t, n - 1, "begun")
  <1> DEFINE t == [s EXCEPT !.events = Tail(@)]
             ends == Current(s, 1) /\ s.events[1].kind \in Terminal
  <1>1. s \in Sound /\ Len(s.events) \in Nat /\ n <= Len(s.events) /\ Based(s)
    BY DEF Right, Based, Sound, Input
  <1>2. s.events # <<>>
    BY <1>1
  <1>3. /\ t \in Sound
        /\ t.generation = s.generation /\ t.target = s.target
        /\ t.session = s.session /\ t.edit = s.edit
        /\ t.editGeneration = s.editGeneration
        /\ SameIme(s, t) /\ SameShown(s, t)
        /\ Len(t.events) = Len(s.events) - 1
        /\ \A i \in 1..Len(t.events) : /\ i + 1 \in 1..Len(s.events)
                                       /\ t.events[i] = s.events[i + 1]
        /\ \A i \in 1..Len(s.events) : i # 1 => /\ i - 1 \in 1..Len(t.events)
                                                /\ t.events[i - 1] = s.events[i]
        /\ 1 \in 1..Len(s.events)
    BY <1>1, <1>2, TailIs
  <1> HIDE DEF t, ends
  <1>4. t.window
    BY <1>1, <1>2, <1>3 DEF Based, ClosedOK, SameIme
  <1>5. Based(t)
    <2>1. TokensOK(t)
      BY <1>1, <1>3 DEF Based, TokensOK, Current
    <2>2. ImeOK(t)
      BY <1>1, <1>3 DEF Based, ImeOK, SameIme, Busy
    <2>3. ClosedOK(t)
      BY <1>4 DEF ClosedOK
    <2> QED
      BY <1>3, <2>1, <2>2, <2>3 DEF Based
  <1>6. n - 1 <= Len(t.events)
    BY <1>1, <1>3
  <1>7. Busy(t) <=> Busy(s)
    BY <1>3 DEF Busy, SameIme
  <1>8. \A k \in Nat : k > 0 /\ EndsAfter(s, k) => EndsAfter(t, k - 1)
    <2> SUFFICES ASSUME NEW k \in Nat, k > 0, EndsAfter(s, k)
                 PROVE  EndsAfter(t, k - 1)
      OBVIOUS
    <2>1. PICK i \in 1..Len(s.events) :
             i > k /\ Current(s, i) /\ s.events[i].kind \in Terminal
      BY DEF EndsAfter
    <2>2. i # 1 /\ i - 1 > k - 1
      BY <2>1
    <2>3. i - 1 \in 1..Len(t.events) /\ t.events[i - 1] = s.events[i]
      BY <1>3, <2>2
    <2> QED
      BY <1>3, <2>1, <2>2, <2>3 DEF EndsAfter, Current
  <1>9. ~ends /\ EndsAfter(s, 0) => EndsAfter(t, 0)
    <2> SUFFICES ASSUME ~ends, EndsAfter(s, 0) PROVE EndsAfter(t, 0)
      OBVIOUS
    <2>1. PICK i \in 1..Len(s.events) :
             i > 0 /\ Current(s, i) /\ s.events[i].kind \in Terminal
      BY DEF EndsAfter
    <2>2. i # 1
      BY <2>1 DEF ends
    <2>3. i - 1 \in 1..Len(t.events) /\ t.events[i - 1] = s.events[i]
      BY <1>3, <2>2
    <2>4. i - 1 > 0
      BY <2>3
    <2> QED
      BY <1>3, <2>1, <2>3, <2>4 DEF EndsAfter, Current
  <1>10. ASSUME TextOK(s, n), MessagesOK(s)
         PROVE  TextOK(t, n - 1) /\ MessagesOK(t)
    <2>1. TextOK(t, n - 1)
      BY <1>3, <1>8, <1>10 DEF TextOK, Reported, SameIme
    <2>2. MessagesOK(t)
      <3> SUFFICES ASSUME NEW i \in 1..Len(t.events), Current(t, i),
                          t.events[i].kind \in Going
                   PROVE  Busy(t) \/ EndsAfter(t, i)
        BY DEF MessagesOK
      <3>1. i + 1 \in 1..Len(s.events) /\ t.events[i] = s.events[i + 1]
            /\ i + 1 \in Nat /\ i + 1 > 0 /\ (i + 1) - 1 = i
        BY <1>3
      <3>2. Busy(s) \/ EndsAfter(s, i + 1)
        BY <1>3, <1>10, <3>1 DEF MessagesOK, Current
      <3>3. EndsAfter(s, i + 1) => EndsAfter(t, (i + 1) - 1)
        BY <1>8, <3>1
      <3> QED
        BY <1>7, <3>1, <3>2, <3>3
    <2> QED
      BY <2>1, <2>2
  <1>11. ASSUME ~ends, ShownOK(s), FallbackOK(s)
         PROVE  ShownOK(t) /\ FallbackOK(t)
    BY <1>3, <1>7, <1>9, <1>11 DEF ShownOK, FallbackOK, SameIme, SameShown, Reported
  <1>12. ASSUME Current(s, 1), s.events[1].kind \in Going, MessagesOK(s)
         PROVE  Busy(t) \/ EndsAfter(t, 0)
    <2>1. Busy(s) \/ EndsAfter(s, 1)
      BY <1>3, <1>12 DEF MessagesOK
    <2>2. EndsAfter(s, 1) => EndsAfter(t, 1 - 1)
      BY <1>8
    <2> QED
      BY <1>7, <2>1, <2>2
  <1>13. RegularOK(t, n - 1, "ended")
    BY <1>3, <1>10 DEF Right, RegularOK, Tracked, SameShown, Clear
  <1>14. ~ends => RegularOK(t, n - 1, "shown")
    BY <1>3, <1>10, <1>11 DEF Right, RegularOK, Tracked, SameShown, Clear
  <1>15. Current(s, 1) /\ s.events[1].kind \in Going => RegularOK(t, n - 1, "begun")
    BY <1>3, <1>10, <1>12 DEF Right, RegularOK, Tracked, SameShown, Clear
  <1>16. /\ t.window
         /\ Right(t, n - 1, "ended")
         /\ ~ends => Right(t, n - 1, "shown")
         /\ Current(s, 1) /\ s.events[1].kind \in Going => Right(t, n - 1, "begun")
    BY <1>4, <1>5, <1>6, <1>13, <1>14, <1>15 DEF Right
  <1> QED
    BY <1>16 DEF t, ends

LEMMA ApplyIs ==
    ASSUME NEW s \in Sound, NEW event \in Event, NEW taken \in BOOLEAN
    PROVE  LET t == ApplyComposition(s, event, taken)
           IN  /\ SameTokens(s, t) /\ SameIme(s, t) /\ t.irregular = s.irregular
               /\ event.bound /\ taken /\ s.handoff # "ready"
                    => /\ t.handoff # "ready" /\ ~t.fallback
                       /\ event.kind # "continue" => ~t.composing /\ ~t.preview
  <1> DEFINE cleared == ClearImePreviewState(s, s.handoff # "none")
             continues == event.kind = "continue"
             shown == continues /\ event.bound
             composes == continues /\ taken
             preview == IF continues THEN shown ELSE cleared.preview
             fallback == cleared.fallback /\ ~shown
             next == IF continues /\ taken THEN "none" ELSE cleared.handoff
             suppressed == cleared.suppressed \/ taken
             t == ApplyComposition(s, event, taken)
  <1>1. t = [cleared EXCEPT !.composing = composes, !.preview = preview,
                            !.fallback = fallback, !.handoff = next,
                            !.suppressed = suppressed]
    BY DEF ApplyComposition
  <1>2. PICK some \in BOOLEAN : some = (s.handoff # "none")
    OBVIOUS
  <1>3. /\ cleared \in Sound /\ SameTokens(s, cleared) /\ SameIme(s, cleared)
        /\ cleared.irregular = s.irregular
        /\ s.handoff # "ready" => ~cleared.preview /\ ~cleared.fallback
        /\ s.handoff # "ready" => cleared.handoff # "ready"
    BY <1>2, ClearIs
  <1> HIDE DEF cleared
  <1>4. PICK c, p, f, h, u : c = composes /\ p = preview /\ f = fallback /\ h = next
                             /\ u = suppressed
    OBVIOUS
  <1>5. t = [cleared EXCEPT !.composing = c, !.preview = p, !.fallback = f,
                            !.handoff = h, !.suppressed = u]
    BY <1>1, <1>4
  <1>6. s.handoff # "ready" => /\ h # "ready" /\ ~f
                               /\ event.kind # "continue" => ~c /\ ~p
    BY <1>3, <1>4
  <1> HIDE DEF t, continues, shown, composes, preview, fallback, next, suppressed
  <1>7. /\ SameTokens(cleared, t) /\ SameIme(cleared, t) /\ t.irregular = cleared.irregular
        /\ t.composing = c /\ t.preview = p /\ t.fallback = f /\ t.handoff = h
    BY <1>3, <1>5 DEF Sound, Input, SameTokens, SameIme
  <1>8. SameTokens(s, t) /\ SameIme(s, t) /\ t.irregular = s.irregular
    BY <1>3, <1>7 DEF SameTokens, SameIme
  <1> QED
    BY <1>6, <1>7, <1>8 DEF t

-----------------------------------------------------------------------------
(* A captured message is handled.                                              *)

LEMMA HandledIs ==
    ASSUME NEW s \in Sound, NEW event \in Event, NEW taken \in BOOLEAN
    PROVE  LET t == Handled(s, event, taken)
           IN  /\ SameTokens(s, t) /\ SameIme(s, t) /\ t.irregular = s.irregular
               /\ event.bound /\ s.handoff # "ready"
                    /\ (event.kind \in {"result", "continue"} => taken)
                  => /\ event.kind \in Going \cup Terminal
                          => t.handoff # "ready" /\ ~t.fallback
                     /\ event.kind \in Terminal => ~t.composing /\ ~t.preview
  <1> DEFINE texted == event.kind = "begin" /\ event.bound
             cleared == ClearImePreviewState(s, s.handoff # "none")
             previewed == cleared.preview \/ texted
             stoodIn == cleared.fallback /\ ~texted
             started == [cleared EXCEPT
                           !.composing = TRUE, !.handoff = "none",
                           !.preview = previewed, !.fallback = stoodIn]
             fallback == s.fallback /\ ~event.bound
             updated == [s EXCEPT !.composing = TRUE, !.preview = event.bound,
                                  !.fallback = fallback]
             idle == [s EXCEPT !.composing = FALSE]
             ended == ClearImePreviewState(idle, s.handoff # "none")
             applied == ApplyComposition(s, event, taken)
             t == Handled(s, event, taken)
  <1>1. /\ event.kind \in {"start", "begin"} => t = started
        /\ event.kind = "update" => t = updated
        /\ event.kind = "end" => t = ended
        /\ event.kind \notin {"start", "begin", "update", "end"} => t = applied
    BY DEF Handled
  <1>2. PICK some \in BOOLEAN : some = (s.handoff # "none")
    OBVIOUS
  <1>3. /\ cleared \in Sound /\ SameTokens(s, cleared) /\ SameIme(s, cleared)
        /\ cleared.irregular = s.irregular
        /\ s.handoff # "ready" => ~cleared.fallback
    BY <1>2, ClearIs
  <1> HIDE DEF cleared
  <1>4. PICK p, f, g : p = previewed /\ f = stoodIn /\ g = fallback
    OBVIOUS
  <1>5. started = [cleared EXCEPT !.composing = TRUE, !.handoff = "none",
                                  !.preview = p, !.fallback = f]
        /\ updated = [s EXCEPT !.composing = TRUE, !.preview = event.bound, !.fallback = g]
    BY <1>4
  <1>6. (s.handoff # "ready" => ~f) /\ (event.bound => ~g)
    BY <1>3, <1>4
  <1> HIDE DEF texted, previewed, stoodIn, fallback, started, updated, t
  <1>7. /\ SameTokens(s, started) /\ SameIme(s, started) /\ started.irregular = s.irregular
        /\ started.handoff = "none" /\ started.fallback = f
    <2>1. /\ SameTokens(cleared, started) /\ SameIme(cleared, started)
          /\ started.irregular = cleared.irregular
          /\ started.handoff = "none" /\ started.fallback = f
      BY <1>3, <1>5 DEF Sound, Input, SameTokens, SameIme
    <2> QED
      BY <1>3, <2>1 DEF SameTokens, SameIme
  <1>8. /\ SameTokens(s, updated) /\ SameIme(s, updated) /\ updated.irregular = s.irregular
        /\ updated.handoff = s.handoff /\ updated.fallback = g
    BY <1>5 DEF Sound, Input, SameTokens, SameIme
  <1>9. /\ SameTokens(s, ended) /\ SameIme(s, ended) /\ ended.irregular = s.irregular
        /\ ~ended.composing
        /\ s.handoff # "ready" => ~ended.preview /\ ~ended.fallback /\ ended.handoff # "ready"
    <2>1. /\ SameTokens(s, idle) /\ SameIme(s, idle) /\ idle.irregular = s.irregular
          /\ ~idle.composing /\ idle.handoff = s.handoff
      BY DEF Sound, Input, SameTokens, SameIme
    <2>2. idle \in Sound
      <3>1. Same(s, idle)
        BY DEF Same, Sound, Input
      <3> QED
        BY <3>1, SameStays DEF Stays, Keeps
    <2> HIDE DEF idle
    <2>3. /\ SameTokens(idle, ended) /\ SameIme(idle, ended)
          /\ ended.composing = idle.composing /\ ended.irregular = idle.irregular
          /\ idle.handoff # "ready" => ~ended.preview /\ ~ended.fallback
          /\ ended.handoff \in {idle.handoff, "none"}
      BY <1>2, <2>2, ClearIs
    <2> HIDE DEF ended
    <2> QED
      BY <2>1, <2>3 DEF SameTokens, SameIme
  <1>10. /\ SameTokens(s, applied) /\ SameIme(s, applied) /\ applied.irregular = s.irregular
         /\ event.bound /\ taken /\ s.handoff # "ready"
              => /\ applied.handoff # "ready" /\ ~applied.fallback
                 /\ event.kind # "continue" => ~applied.composing /\ ~applied.preview
    BY ApplyIs
  <1> HIDE DEF ended, applied
  <1>11. SameTokens(s, t) /\ SameIme(s, t) /\ t.irregular = s.irregular
    BY <1>1, <1>7, <1>8, <1>9, <1>10
  <1>12. ASSUME event.bound, s.handoff # "ready",
                event.kind \in {"result", "continue"} => taken
         PROVE  /\ event.kind \in Going \cup Terminal
                     => t.handoff # "ready" /\ ~t.fallback
                /\ event.kind \in Terminal => ~t.composing /\ ~t.preview
    <2>1. CASE event.kind \in {"start", "begin"}
      BY <1>1, <1>6, <1>7, <1>12, <2>1 DEF Terminal
    <2>2. CASE event.kind = "update"
      BY <1>1, <1>6, <1>8, <1>12, <2>2 DEF Terminal
    <2>3. CASE event.kind = "end"
      BY <1>1, <1>9, <1>12, <2>3
    <2>4. CASE event.kind \in {"result", "continue"}
      BY <1>1, <1>10, <1>12, <2>4 DEF Terminal
    <2> QED
      BY <2>1, <2>2, <2>3, <2>4 DEF Going, Terminal
  <1> QED
    BY <1>11, <1>12 DEF t

\* A message of the target's composition is handled.
LEMMA HandledRight ==
    ASSUME NEW s, NEW n \in Nat, NEW stage \in Stages, Right(s, n, stage),
           NEW event \in Event, event.bound, s.session, s.target # "none", s.window,
           NEW taken \in BOOLEAN, event.kind \in {"result", "continue"} => taken,
           event.kind \in Going \cup Terminal,
           event.kind \in Going => stage = "begun"
    PROVE  Right(Handled(s, event, taken), n, "shown")
  <1> DEFINE t == Handled(s, event, taken)
  <1>1. s \in Sound /\ Based(s) /\ n <= Len(s.events)
    BY DEF Right, Based
  <1>2. t \in Sound
    BY <1>1, HandledStays DEF Stays, Keeps
  <1>3. /\ SameTokens(s, t) /\ SameIme(s, t) /\ t.irregular = s.irregular
        /\ s.handoff # "ready"
              => /\ t.handoff # "ready" /\ ~t.fallback
                 /\ event.kind \in Terminal => ~t.composing /\ ~t.preview
    BY <1>1, HandledIs
  <1> HIDE DEF t
  <1>4. Based(t)
    <2>1. t.window
      BY <1>3 DEF SameIme
    <2> QED
      BY <1>1, <1>2, <1>3, <2>1, SameBased
  <1>5. ASSUME ~t.irregular PROVE t.handoff # "ready" /\ Tracked(t, n, "shown")
    <2>1. ~s.irregular /\ s.handoff # "ready" /\ Tracked(s, n, stage)
      BY <1>3, <1>5 DEF Right, RegularOK
    <2>2. TextOK(t, n) /\ MessagesOK(t)
      BY <1>3, <2>1, SameQueue DEF Tracked
    <2>3. FallbackOK(t)
      BY <1>3, <2>1 DEF FallbackOK
    <2>4. ShownOK(t)
      <3>1. CASE event.kind \in Terminal
        BY <1>3, <2>1, <3>1 DEF ShownOK
      <3>2. CASE event.kind \in Going
        <4>1. Busy(s) \/ EndsAfter(s, 0)
          BY <2>1, <3>2 DEF Tracked
        <4>2. Busy(t) \/ EndsAfter(t, 0)
          BY <1>3, <4>1, EndsSame DEF Busy, SameIme
        <4> QED
          BY <4>2 DEF ShownOK
      <3> QED
        BY <3>1, <3>2
    <2> QED
      BY <1>3, <2>1, <2>2, <2>3, <2>4 DEF Tracked
  <1>6. t.target # "none" /\ t.session
    BY <1>3 DEF SameTokens
  <1>7. Right(t, n, "shown")
    BY <1>1, <1>3, <1>4, <1>5, <1>6 DEF Right, RegularOK, SameTokens
  <1> QED
    BY <1>7 DEF t

\* An association that succeeds or fails leaves the session alone.
LEMMA CaptureSession ==
    ASSUME NEW s \in Sound, NEW kind \in Messages
    PROVE  MultibyteInputWndProc(s, kind).session = s.session
  <1> DEFINE t == MultibyteInputWndProc(s, kind)
             noted == IF s.session THEN NoteComposition(s, kind) ELSE s
             e == Captured(s, kind)
             h == IF e.kind \in {"result", "continue"} THEN "none" ELSE noted.handoff
             dropped == [noted EXCEPT !.irregular = TRUE, !.handoff = h]
             queued == [noted EXCEPT !.events = Append(@, e)]
  <1>1. t \in {s, dropped, queued}
    BY DEF MultibyteInputWndProc, EnqueueCapturedInputEvent
  <1>2. noted.session = s.session /\ noted \in Sound
    <2>1. NoteComposition(s, kind) \in Sound
      BY NoteStays DEF Stays, Keeps
    <2>2. NoteComposition(s, kind).session = s.session
      BY NotedIs DEF SameTokens
    <2> QED
      BY <2>1, <2>2
  <1> HIDE DEF t, noted, e, h
  <1>3. dropped.session = noted.session /\ queued.session = noted.session
    BY <1>2 DEF Sound, Input
  <1> QED
    BY <1>1, <1>2, <1>3 DEF t

LEMMA ReadySession ==
    ASSUME NEW s \in Sound, NEW ok \in BOOLEAN
    PROVE  SetGameImeEnabled(s, TRUE, ok).session = s.session
  <1> DEFINE u == [s EXCEPT !.composition = FALSE, !.started = FALSE,
                            !.closing = FALSE, !.owed = s.window]
             cancelled == CancelGameImeComposition(s)
             attached == [s EXCEPT !.context = TRUE, !.enabled = TRUE,
                                   !.detached = FALSE,
                                   !.associated = s.generation]
             failed == [cancelled EXCEPT !.context = FALSE, !.enabled = FALSE,
                                         !.associated = 0]
  <1>1. SetGameImeEnabled(s, TRUE, ok) \in {s, attached, failed}
    BY DEF SetGameImeEnabled, EnableGameIme
  <1>2. attached.session = s.session
    BY DEF Sound, Input
  <1>3. u \in Sound /\ u.session = s.session
    <2>1. Same(s, u) /\ u.session = s.session
      BY DEF Same, Sound, Input
    <2> QED
      BY <2>1, SameStays DEF Stays, Keeps
  <1>4. cancelled \in {s, u, MultibyteInputWndProc(u, "end")}
    BY DEF CancelGameImeComposition
  <1>5. cancelled \in Sound
    BY CancelStays DEF Stays, Keeps
  <1> HIDE DEF u, cancelled, attached
  <1>6. cancelled.session = s.session
    BY <1>3, <1>4, CaptureSession DEF Messages
  <1>7. failed.session = cancelled.session
    BY <1>5 DEF Sound, Input
  <1> QED
    BY <1>1, <1>2, <1>6, <1>7

\* One captured message.
LEMMA ProcessRight ==
    ASSUME InputInv, CompositionInv, NEW ok \in BOOLEAN, NEW fits \in BOOLEAN,
           NEW wide \in BOOLEAN, NEW repeats \in BOOLEAN,
           ProcessCapturedInputMessage(ok, fits, wide, repeats)
    PROVE  CompositionInv'
  <1> DEFINE event == Head(input.events)
             s == [input EXCEPT !.events = Tail(@)]
             hasTarget == s.target # "none"
             active == SetTextInputSessionActive(s, hasTarget, open, ok)
             ready == SetGameImeEnabled(active, TRUE, ok)
             released == SetGameImeEnabled(active, FALSE, ok)
             swallowed == s.suppressed /\ repeats
             taken == /\ fits
                      /\ IF event.kind = "char"
                         THEN ~swallowed /\ TakesCharacter(ready, wide)
                         ELSE /\ event.kind \in {"result", "continue"}
                              /\ event.bound /\ hasTarget
             refused == event.kind \in {"result", "continue"} /\ ~taken
             current == IF hasTarget THEN ready ELSE active
             typed == [current EXCEPT !.suppressed = swallowed]
             handled == Handled(ready, event, taken)
             irregular == handled.irregular \/ ~event.bound \/ refused
             composed == [handled EXCEPT !.irregular = irregular]
             n == left - 1
  <1>1. open \in SUBSET Fields /\ input \in Sound /\ pc = "pump" /\ left' = n
    BY DEF InputInv, TypeOK, ProcessCapturedInputMessage
  <1>2. left \in Nat /\ left > 0 /\ left <= Len(input.events) /\ Len(input.events) \in Nat
        /\ n \in Nat
    BY DEF InputInv, TypeOK, Input, ProcessCapturedInputMessage
  <1>3. input.events # <<>>
    BY <1>2
  <1>4. /\ s \in Sound /\ s.target = input.target /\ s.generation = input.generation
        /\ s.session = input.session
        /\ event = input.events[1] /\ 1 \in 1..Len(input.events)
    BY <1>1, <1>3, TailIs
  <1>5. event \in Event /\ (event.kind = "char" => event.bound)
    BY <1>1, <1>3, TailIsSound
  <1>6. s.target = ResolveCurrentTextInputTarget(open)
    BY <1>1, <1>4 DEF InputInv, PumpInv
  <1>7. hasTarget \in BOOLEAN /\ swallowed \in BOOLEAN /\ taken \in BOOLEAN
    OBVIOUS
  <1>8. \/ input' = s /\ event.bound /\ ~IsCurrentTextInputTargetToken(s, event)
        \/ /\ event.bound => IsCurrentTextInputTargetToken(s, event)
           /\ event.kind = "char" => input' = typed
           /\ event.kind # "char" /\ hasTarget => input' = composed
           /\ event.kind # "char" /\ ~hasTarget => input' = released
    BY DEF ProcessCapturedInputMessage
  <1>9. /\ hasTarget <=> s.target # "none"
        /\ hasTarget \/ ResolveCurrentTextInputTarget(open) = "none"
    BY <1>6
  <1>10. event.kind \in {"result", "continue"} /\ ~refused => taken
    OBVIOUS
  <1>11. /\ s.window /\ Right(s, n, "ended")
         /\ ~(Current(input, 1) /\ event.kind \in Terminal) => Right(s, n, "shown")
         /\ Current(input, 1) /\ event.kind \in Going => Right(s, n, "begun")
    <2>1. Right(input, left, "shown")
      BY DEF CompositionInv
    <2> HIDE DEF n, s, event
    <2> QED
      BY <1>2, <1>4, <2>1, TailRight DEF n, s
  <1>12. Current(input, 1) => event.field = s.target /\ event.bound = s.session
    <2>1. TokensOK(input)
      BY DEF CompositionInv, Right, Based
    <2> HIDE DEF s, event
    <2> QED
      BY <1>4, <2>1 DEF TokensOK
  <1>13. IsCurrentTextInputTargetToken(s, event) => Current(input, 1)
    <2> HIDE DEF s, event
    <2> QED
      BY <1>4 DEF IsCurrentTextInputTargetToken, Current
  <1>14. ~IsCurrentTextInputTargetToken(s, event) => ~Current(input, 1)
    <2> HIDE DEF s, event
    <2> QED
      BY <1>4, <1>12 DEF IsCurrentTextInputTargetToken, Current
  <1> HIDE DEF s, event, hasTarget, n
  <1>15. ASSUME NEW stage \in Stages, Right(s, n, stage),
                stage = "begun" => s.session = hasTarget
         PROVE  Right(active, n, stage) /\ Right(ready, n, stage)
    <2>1. Right(active, n, stage)
      BY <1>1, <1>2, <1>7, <1>9, <1>15, SessionRight
    <2> HIDE DEF active
    <2> QED
      BY <1>2, <1>7, <2>1, SetRight
  <1>16. ready \in Sound /\ ready.target = s.target /\ ready.window
    <2>1. Stays(s, active) /\ active \in Sound
      <3>1. s.target = ResolveCurrentTextInputTarget(open)
              => Stays(s, SetTextInputSessionActive(s, hasTarget, open, ok))
        BY <1>1, <1>4, <1>7, SessionKeeps
      <3>2. Stays(s, active)
        BY <1>6, <3>1
      <3> QED
        BY <3>2 DEF Stays, Keeps
    <2>2. Right(ready, n, "ended")
      BY <1>11, <1>15 DEF Stages
    <2> HIDE DEF active
    <2>3. Stays(active, ready)
      BY <2>1, SetStays
    <2> HIDE DEF ready
    <2> QED
      BY <2>1, <2>2, <2>3 DEF Stays, Keeps, Right
  <1>17. CASE input' = s /\ event.bound /\ ~IsCurrentTextInputTargetToken(s, event)
    BY <1>1, <1>11, <1>14, <1>17 DEF CompositionInv
  <1>18. CASE event.kind = "char" /\ input' = typed
    <2>1. Right(s, n, "shown")
      BY <1>11, <1>18 DEF Terminal
    <2>2. Right(current, n, "shown")
      BY <1>15, <2>1 DEF Stages
    <2> HIDE DEF current, swallowed
    <2>3. current \in Sound
      BY <2>2 DEF Right, Based
    <2>4. /\ SameTokens(current, typed) /\ SameIme(current, typed)
          /\ SameShown(current, typed) /\ Same(current, typed)
      <3>1. SameTokens(current, typed) /\ SameIme(current, typed)
            /\ SameShown(current, typed)
        BY <2>3 DEF Sound, Input, SameTokens, SameIme, SameShown
      <3>2. Same(current, typed)
        BY <1>7, <2>3 DEF Sound, Input, Same
      <3> QED
        BY <3>1, <3>2
    <2>5. typed \in Sound
      BY <2>3, <2>4, SameStays DEF Stays, Keeps
    <2>6. Right(typed, n, "shown")
      BY <2>2, <2>4, <2>5, SameRight DEF Stages
    <2> QED
      BY <1>1, <1>18, <2>6 DEF CompositionInv
  <1>19. CASE event.kind # "char" /\ ~hasTarget /\ input' = released
    <2>1. Right(active, n, "ended")
      BY <1>11, <1>15 DEF Stages
    <2>2. active.target = "none"
      <3>1. Stays(s, active)
        BY <1>1, <1>4, <1>6, <1>7, SessionKeeps
      <3> HIDE DEF active
      <3> QED
        BY <1>9, <1>19, <3>1 DEF Stays
    <2> HIDE DEF active
    <2>3. Right(released, n, "ended") /\ released.target = "none"
      <3>1. Right(released, n, "ended")
        BY <1>2, <2>1, SetRight DEF Stages
      <3>2. Stays(active, released)
        BY <2>1, SetStays DEF Right, Based
      <3> HIDE DEF released
      <3> QED
        BY <2>2, <3>1, <3>2 DEF Stays
    <2> HIDE DEF released
    <2>4. Right(released, n, "shown")
      BY <2>3 DEF Right, RegularOK
    <2> QED
      BY <1>1, <1>19, <2>4 DEF CompositionInv
  <1>20. CASE /\ event.kind # "char" /\ hasTarget /\ input' = composed
              /\ event.bound => IsCurrentTextInputTargetToken(s, event)
    <2> HIDE DEF active, taken, refused, swallowed
    <2>1. Right(ready, n, "ended")
      BY <1>11, <1>15 DEF Stages
    <2> HIDE DEF ready
    <2>2. /\ SameTokens(ready, handled) /\ SameIme(ready, handled)
          /\ handled.irregular = ready.irregular /\ handled \in Sound
      BY <1>5, <1>7, <1>16, HandledIs, HandledStays DEF Stays, Keeps
    <2>3. irregular \in BOOLEAN
      OBVIOUS
    <2>4. PICK i \in BOOLEAN : i = irregular
      BY <2>3
    <2>5. composed = [handled EXCEPT !.irregular = i]
      BY <2>4
    <2>6. ~i => event.bound /\ ~refused /\ ~handled.irregular
      BY <2>4
    <2> HIDE DEF handled, irregular, composed
    <2>7. /\ composed \in Sound /\ SameTokens(handled, composed) /\ SameIme(handled, composed)
          /\ composed.irregular = i
          /\ composed.composing = handled.composing /\ composed.preview = handled.preview
          /\ composed.fallback = handled.fallback /\ composed.handoff = handled.handoff
      <3>1. Same(handled, composed)
        BY <2>2, <2>5 DEF Sound, Input, Same
      <3>2. composed \in Sound
        BY <2>2, <3>1, SameStays DEF Stays, Keeps
      <3>3. /\ SameTokens(handled, composed) /\ SameIme(handled, composed)
            /\ composed.irregular = i
            /\ composed.composing = handled.composing /\ composed.preview = handled.preview
            /\ composed.fallback = handled.fallback /\ composed.handoff = handled.handoff
        BY <2>2, <2>5 DEF Sound, Input, SameTokens, SameIme
      <3> QED
        BY <3>2, <3>3
    <2>8. CASE i
      <3>1. SameTokens(ready, composed) /\ SameIme(ready, composed)
        BY <2>2, <2>7 DEF SameTokens, SameIme
      <3>2. composed.window
        BY <1>16, <3>1 DEF SameIme
      <3>3. Based(composed)
        BY <2>1, <2>7, <3>1, <3>2, SameBased DEF Right
      <3>4. n <= Len(composed.events)
        BY <2>1, <3>1 DEF Right, SameTokens
      <3>5. Right(composed, n, "shown")
        BY <2>7, <2>8, <3>3, <3>4, IrregularRight
      <3> QED
        BY <1>1, <1>20, <3>5 DEF CompositionInv
    <2>9. CASE ~i
      <3>1. event.bound /\ ~refused /\ Current(input, 1) /\ s.session
        BY <1>12, <1>13, <1>20, <2>6, <2>9
      <3>2. s.session = hasTarget
        BY <1>4, <1>20, <3>1 DEF Sound, Input
      <3>3. event.kind \in Going \cup Terminal
        BY <1>5, <1>20 DEF Event, Messages, Going, Terminal
      <3>4. PICK stage \in Stages : /\ stage = "begun" <=> event.kind \in Going
                                    /\ Right(s, n, stage)
        BY <1>11, <3>1 DEF Stages
      <3>5. Right(ready, n, stage) /\ ready.session
        <4>1. Right(ready, n, stage)
          BY <1>15, <3>2, <3>4 DEF ready
        <4>2. active = s
          BY <3>2 DEF active, SetTextInputSessionActive
        <4> QED
          BY <1>4, <3>1, <4>1, <4>2, ReadySession DEF ready
      <3>6. event.kind \in {"result", "continue"} => taken
        BY <1>10, <3>1
      <3>7. Right(handled, n, "shown")
        BY <1>2, <1>5, <1>7, <1>9, <1>16, <1>20, <3>1, <3>3, <3>4, <3>5, <3>6,
           HandledRight DEF handled
      <3>8. SameShown(handled, composed)
        BY <2>2, <2>6, <2>7, <2>9 DEF SameShown, Sound, Input
      <3>9. Right(composed, n, "shown")
        BY <2>7, <3>7, <3>8, SameRight DEF Stages
      <3> QED
        BY <1>1, <1>20, <3>9 DEF CompositionInv
    <2> QED
      BY <2>8, <2>9
  <1> QED
    BY <1>8, <1>17, <1>18, <1>19, <1>20

-----------------------------------------------------------------------------
(* The steps.                                                                  *)

\* The frame starts: the field is found and the text service's report taken.
LEMMA FrameStartsRight ==
    ASSUME InputInv, CompositionInv, NEW ok \in BOOLEAN, FrameStarts(ok)
    PROVE  CompositionInv'
  <1> DEFINE installed == IF visible THEN TryInstallWindowProc(input, ok) ELSE input
             searched == ProcessSearchTargetState(installed, ok)
             synced == SynchronizeTextInputTarget(searched, open)
             pumped == PumpTsfInputUpdates(synced)
  <1>1. open \subseteq Fields /\ open \in SUBSET Fields /\ left = 0
    BY DEF InputInv, TypeOK, PumpInv, FrameStarts
  <1>2. input' = pumped /\ left' = Len(input'.events)
    BY DEF FrameStarts
  <1>3. Right(input, 0, "shown")
    BY <1>1 DEF CompositionInv
  <1>4. Right(installed, 0, "shown")
    BY <1>3, InstallRight
  <1> HIDE DEF installed
  <1>5. Right(searched, 0, "shown")
    BY <1>1, <1>4, SearchRight
  <1> HIDE DEF searched
  <1>6. Right(synced, 0, "shown")
    BY <1>1, <1>5, SyncRight, ShownIsStage
  <1> HIDE DEF synced
  <1>7. Len(synced.events) \in Nat
    BY <1>6 DEF Right, Based, Sound, Input
  <1>8. Right(pumped, Len(synced.events), "shown") /\ pumped.events = synced.events
    BY <1>6, <1>7, PumpTsfRight
  <1> HIDE DEF pumped
  <1> QED
    BY <1>2, <1>8 DEF CompositionInv

\* The main loop's watchdog.
LEMMA WatchdogRight ==
    ASSUME InputInv, CompositionInv, NEW ok \in BOOLEAN, WatchdogFires(ok)
    PROVE  CompositionInv'
  <1> DEFINE disabled == [input EXCEPT !.enabled = FALSE, !.associated = 0]
             checked == IF input.session /\ input.enabled /\ ~input.context
                        THEN disabled ELSE input
             updated == UpdateGameImeAssociation(checked, open, ok)
  <1>1. open \in SUBSET Fields /\ input \in Sound /\ left \in Nat /\ left' = left
    BY DEF InputInv, TypeOK, WatchdogFires
  <1>2. input' \in {input, updated}
    BY DEF WatchdogFires
  <1>3. Right(input, left, "shown")
    BY DEF CompositionInv
  <1>4. Right(disabled, left, "shown")
    <2>1. /\ Same(input, disabled) /\ SameTokens(input, disabled)
          /\ SameIme(input, disabled) /\ SameShown(input, disabled)
      BY <1>1 DEF Same, Sound, Input, SameTokens, SameIme, SameShown
    <2>2. disabled \in Sound
      BY <1>1, <2>1, SameStays DEF Stays, Keeps
    <2> HIDE DEF disabled
    <2> QED
      BY <1>3, <2>1, <2>2, SameRight DEF Stages
  <1> HIDE DEF disabled
  <1>5. Right(checked, left, "shown")
    BY <1>3, <1>4
  <1> HIDE DEF checked
  <1>6. Right(updated, left, "shown")
    BY <1>1, <1>5, UpdateRight
  <1> HIDE DEF updated
  <1> QED
    BY <1>1, <1>2, <1>3, <1>6 DEF CompositionInv

\* The game opens and closes its fields.
LEMMA FieldRight ==
    ASSUME InputInv, CompositionInv, NEW field \in Fields, NEW ok \in BOOLEAN,
           OpenField(field, ok) \/ CloseField(field)
    PROVE  CompositionInv'
  <1> DEFINE fields == open'
  <1>1. /\ fields \in SUBSET Fields /\ left' = left /\ left \in Nat
        /\ input' \in {input, SetTextInputSessionActive(input, TRUE, fields, ok)}
    <2>1. open \subseteq Fields /\ left \in Nat
      BY DEF InputInv, TypeOK
    <2>2. CASE OpenField(field, ok)
      BY <2>1, <2>2 DEF OpenField
    <2>3. CASE CloseField(field)
      BY <2>1, <2>3 DEF CloseField
    <2> QED
      BY <2>2, <2>3
  <1>2. Right(input, left, "shown")
    BY DEF CompositionInv
  <1> HIDE DEF fields
  <1>3. Right(SetTextInputSessionActive(input, TRUE, fields, ok), left, "shown")
    BY <1>1, <1>2, SessionRight DEF Stages
  <1> QED
    BY <1>1, <1>2, <1>3 DEF CompositionInv

\* The exit to the main menu forgets the messages and the session.
LEMMA ExitRight ==
    ASSUME InputInv, CompositionInv, input' \in Sound, NEW rollback \in BOOLEAN,
           ExitToMainMenu(rollback)
    PROVE  CompositionInv'
  <1> DEFINE t == input'
             advanced == AdvanceTextInputSessionGeneration(input)
             window == advanced.window /\ ~rollback
             owed == advanced.owed /\ ~rollback
             edit == IF rollback THEN "none" ELSE advanced.edit
             reset == [advanced EXCEPT
                         !.events = <<>>, !.session = FALSE, !.target = "none",
                         !.composing = FALSE, !.suppressed = FALSE,
                         !.observed = FALSE, !.window = window, !.edit = edit,
                         !.owed = owed]
             kept == FALSE /\ reset.handoff = "ready" /\ reset.preview
             fallback == kept /\ reset.fallback
  <1>1. /\ input \in Sound /\ input \in Input /\ input.generation \in Nat
        /\ input.editGeneration \in Nat /\ left = 0 /\ left' = 0
    BY DEF InputInv, TypeOK, PumpInv, Sound, Input, ExitToMainMenu
  <1>2. t = [reset EXCEPT !.preview = kept, !.fallback = fallback, !.handoff = "none"]
    BY DEF ExitToMainMenu, ClearImePreviewState
  <1>3. PICK w, o, e, k, f : /\ w = window /\ o = owed /\ e = edit
                             /\ k = kept /\ f = fallback
    OBVIOUS
  <1>4. /\ advanced \in Input /\ advanced.generation = input.generation + 1
        /\ advanced.editGeneration = input.editGeneration
        /\ advanced.window = input.window /\ advanced.owed = input.owed
        /\ advanced.edit = input.edit /\ advanced.irregular = input.irregular
        /\ advanced.composition = input.composition
        /\ advanced.started = input.started /\ advanced.closing = input.closing
    <2>1. advanced \in Input
      BY <1>1, AdvanceStays DEF Stays, Keeps, Sound
    <2>2. PICK g : g = input.generation + 1
      OBVIOUS
    <2>3. advanced = [input EXCEPT !.generation = g, !.handoff = "none"]
      BY <2>2 DEF AdvanceTextInputSessionGeneration
    <2> HIDE DEF advanced
    <2>4. /\ advanced.generation = g
          /\ advanced.editGeneration = input.editGeneration
          /\ advanced.window = input.window /\ advanced.owed = input.owed
          /\ advanced.edit = input.edit /\ advanced.irregular = input.irregular
          /\ advanced.composition = input.composition
          /\ advanced.started = input.started /\ advanced.closing = input.closing
      BY <1>1, <2>3 DEF Input
    <2> QED
      BY <2>1, <2>2, <2>4
  <1>5. reset = [advanced EXCEPT
                   !.events = <<>>, !.session = FALSE, !.target = "none",
                   !.composing = FALSE, !.suppressed = FALSE,
                   !.observed = FALSE, !.window = w, !.edit = e, !.owed = o]
    BY <1>3
  <1>6. /\ (rollback => ~w /\ ~o /\ e = "none")
        /\ (~rollback => w = input.window /\ o = input.owed /\ e = input.edit)
        /\ ~k /\ ~f
    BY <1>1, <1>3, <1>4 DEF Input
  <1>7. t = [reset EXCEPT !.preview = k, !.fallback = f, !.handoff = "none"]
    BY <1>2, <1>3
  <1> HIDE DEF advanced, window, owed, edit, kept, fallback, reset
  <1>8. /\ t.events = <<>> /\ t.target = "none" /\ t.handoff = "none"
        /\ t.generation = input.generation + 1
        /\ t.editGeneration = input.editGeneration
        /\ ~t.composing /\ t.preview = k /\ t.fallback = f
        /\ t.window = w /\ t.owed = o /\ t.edit = e
        /\ t.composition = input.composition
        /\ t.started = input.started /\ t.closing = input.closing
    BY <1>4, <1>5, <1>7 DEF Input
  <1> HIDE DEF t
  <1>9. Based(t)
    <2>1. TokensOK(t)
      <3>1. input.editGeneration <= input.generation
        BY DEF CompositionInv, Right, Based, TokensOK
      <3>2. t.editGeneration <= t.generation /\ 1..Len(t.events) = {}
        BY <1>1, <1>8, <3>1
      <3> QED
        BY <3>2 DEF TokensOK
    <2>2. ImeOK(t)
      BY <1>8 DEF CompositionInv, Right, Based, ImeOK, Busy
    <2>3. ClosedOK(t)
      BY <1>6, <1>8 DEF CompositionInv, Right, Based, ClosedOK, Clear
    <2> QED
      BY <2>1, <2>2, <2>3 DEF Based, t
  <1>10. Right(t, 0, "shown")
    BY <1>8, <1>9 DEF Right, RegularOK
  <1> QED
    BY <1>1, <1>10 DEF CompositionInv, t

-----------------------------------------------------------------------------
(* The IME, the text service and Windows.                                      *)

LEMMA ComposingIs ==
    ASSUME input \in Sound, NEW shows \in BOOLEAN, NEW started \in BOOLEAN,
           NEW closing \in BOOLEAN
    PROVE  LET u == Composing(shows, started, closing)
           IN  /\ u \in Sound /\ SameTokens(input, u) /\ SameShown(input, u)
               /\ u.window = input.window /\ u.owed = input.window
               /\ u.composition = shows /\ u.started = started
               /\ u.closing = closing
  <1> DEFINE u == Composing(shows, started, closing)
  <1>1. u \in Sound
    BY ComposingStays DEF Stays, Keeps
  <1>2. /\ SameTokens(input, u) /\ SameShown(input, u)
        /\ u.window = input.window /\ u.owed = input.window
        /\ u.composition = shows /\ u.started = started
        /\ u.closing = closing
    BY DEF Composing, Sound, Input, SameTokens, SameShown
  <1> QED
    BY <1>1, <1>2

\* A change of the composition, with the message that tells of it.
LEMMA ToldRight ==
    ASSUME InputInv, CompositionInv, NEW shows \in BOOLEAN, NEW started \in BOOLEAN,
           NEW closing \in BOOLEAN, closing => started,
           started /\ ~closing => shows, NEW kind \in Terminal \cup Going,
           kind \in Going => started /\ ~closing,
           Send(kind, Composing(shows, started, closing))
    PROVE  CompositionInv'
  <1> DEFINE u == Composing(shows, started, closing)
  <1>1. /\ input \in Sound /\ left \in Nat /\ left' = left
        /\ input' = MultibyteInputWndProc(u, kind)
    BY DEF InputInv, TypeOK, Send
  <1>2. Right(input, left, "shown")
    BY DEF CompositionInv
  <1>3. /\ u \in Sound /\ SameTokens(input, u) /\ SameShown(input, u)
        /\ u.window = input.window /\ u.owed = input.window
        /\ u.composition = shows /\ u.started = started /\ u.closing = closing
    BY <1>1, ComposingIs
  <1> HIDE DEF u
  <1>4. Based(u)
    <2>1. TokensOK(u)
      BY <1>2, <1>3 DEF Right, Based, SameTokens, TokensOK, Current
    <2>2. ImeOK(u)
      BY <1>3 DEF ImeOK, Busy
    <2>3. ClosedOK(u)
      BY <1>2, <1>3 DEF Right, Based, SameTokens, SameShown, ClosedOK, Clear
    <2> QED
      BY <1>3, <2>1, <2>2, <2>3 DEF Based
  <1>5. left <= Len(u.events)
    BY <1>2, <1>3 DEF Right, SameTokens
  <1>6. ~u.irregular => /\ u.handoff # "ready"
                        /\ u.target # "none" /\ ~u.session => Clear(u)
    BY <1>2, <1>3 DEF Right, RegularOK, SameTokens, SameShown, Clear
  <1>7. kind \in Messages /\ kind # "char"
    BY DEF Messages, Terminal, Going
  <1>8. kind \in Going => Busy(u)
    BY <1>3 DEF Busy
  <1>9. Right(MultibyteInputWndProc(u, kind), left, "shown")
    BY <1>1, <1>3, <1>4, <1>5, <1>6, <1>7, <1>8, CaptureRight DEF Stages
  <1> QED
    BY <1>1, <1>9 DEF CompositionInv

LEMMA ImeRight ==
    ASSUME InputInv, CompositionInv,
           \/ StartComposition \/ UpdateComposition \/ CommitPart \/ CommitWhole
           \/ EndComposition \/ TypeCharacter
    PROVE  CompositionInv'
  <1>1. /\ \A kind \in {"start", "begin", "update", "continue"} :
             kind \in Going /\ kind \in Terminal \cup Going
        /\ \A kind \in {"result", "end"} :
             kind \notin Going /\ kind \in Terminal \cup Going
    BY DEF Terminal, Going
  <1>2. CASE StartComposition
    BY <1>1, <1>2, ToldRight DEF StartComposition
  <1>3. CASE UpdateComposition
    BY <1>1, <1>3, ToldRight DEF UpdateComposition
  <1>4. CASE CommitPart
    BY <1>1, <1>4, ToldRight DEF CommitPart
  <1>5. CASE CommitWhole
    BY <1>1, <1>5, ToldRight DEF CommitWhole
  <1>6. CASE EndComposition
    <2> DEFINE shows == input.closing /\ input.composition
    <2>1. shows \in BOOLEAN
      OBVIOUS
    <2>2. Send("end", Composing(shows, FALSE, FALSE))
      BY <1>6 DEF EndComposition
    <2> HIDE DEF shows
    <2> QED
      BY <1>1, <2>1, <2>2, ToldRight
  <1>7. CASE TypeCharacter
    <2>1. left \in Nat /\ left' = left /\ input' = MultibyteInputWndProc(input, "char")
      BY <1>7 DEF InputInv, TypeOK, TypeCharacter, Send
    <2>2. Right(input, left, "shown")
      BY DEF CompositionInv
    <2>3. ~input.irregular => /\ input.handoff # "ready"
                              /\ input.target # "none" /\ ~input.session => Clear(input)
      BY <2>2 DEF Right, RegularOK
    <2>4. Right(MultibyteInputWndProc(input, "char"), left, "shown")
      BY <2>1, <2>2, <2>3, CaptureRight DEF Right, Stages, Messages, Terminal, Going
    <2> QED
      BY <2>1, <2>4 DEF CompositionInv
  <1> QED
    BY <1>2, <1>3, <1>4, <1>5, <1>6, <1>7

\* The next composition shows while the end of the last one is due.
LEMMA NextShowsRight ==
    ASSUME InputInv, CompositionInv, NextCompositionShows
    PROVE  CompositionInv'
  <1> DEFINE s == input
             u == Composing(TRUE, TRUE, TRUE)
  <1>1. s \in Sound /\ left' = left /\ input' = u /\ s.closing /\ ~s.composition
    BY DEF InputInv, NextCompositionShows
  <1>2. Right(s, left, "shown")
    BY DEF CompositionInv
  <1>3. /\ u \in Sound /\ SameTokens(s, u) /\ SameShown(s, u)
        /\ u.window = s.window /\ u.owed = s.window
        /\ u.composition /\ u.started /\ u.closing
    BY <1>1, ComposingIs
  <1> HIDE DEF u, s
  <1>4. \A k : EndsAfter(u, k) <=> EndsAfter(s, k)
    BY <1>3, EndsSame
  <1>5. Based(u)
    <2>1. TokensOK(u)
      BY <1>2, <1>3 DEF Right, Based, SameTokens, TokensOK, Current
    <2>2. ImeOK(u)
      BY <1>3 DEF ImeOK, Busy
    <2>3. ClosedOK(u)
      BY <1>2, <1>3 DEF Right, Based, SameTokens, SameShown, ClosedOK, Clear
    <2> QED
      BY <1>3, <2>1, <2>2, <2>3 DEF Based
  <1>6. ~Busy(s) /\ ~Busy(u)
    BY <1>1, <1>3 DEF Busy
  <1>7. ASSUME Tracked(s, left, "shown") PROVE Tracked(u, left, "shown")
    <2>1. TextOK(u, left)
      BY <1>3 DEF TextOK
    <2>2. MessagesOK(u)
      BY <1>3, <1>4, <1>6, <1>7 DEF Tracked, MessagesOK, SameTokens, Current
    <2>3. ShownOK(u)
      BY <1>3, <1>4, <1>6, <1>7 DEF Tracked, ShownOK, SameShown
    <2>4. FallbackOK(u)
      BY <1>1, <1>3, <1>4, <1>7 DEF Tracked, FallbackOK, SameShown
    <2> QED
      BY <2>1, <2>2, <2>3, <2>4 DEF Tracked
  <1>8. RegularOK(u, left, "shown")
    BY <1>2, <1>3, <1>7 DEF Right, RegularOK, SameTokens, SameShown, Clear
  <1>9. left <= Len(u.events)
    BY <1>2, <1>3 DEF Right, SameTokens
  <1> QED
    BY <1>1, <1>5, <1>8, <1>9 DEF CompositionInv, Right

\* The text service's report is of the composition there is.
LEMMA EndEditRight ==
    ASSUME InputInv, CompositionInv, input' \in Sound, OnEndEdit
    PROVE  CompositionInv'
  <1> DEFINE s == input
             t == input'
             edit == IF s.composition THEN "text" ELSE "empty"
  <1>1. /\ s \in Sound /\ s \in Input /\ s.generation \in Nat /\ left' = left
        /\ s.owed /\ t \in Sound
    BY DEF InputInv, TypeOK, Input, OnEndEdit
  <1>2. PICK e, g : e = edit /\ g = s.generation
    OBVIOUS
  <1>3. t = [s EXCEPT !.owed = FALSE, !.edit = e, !.editGeneration = g]
    BY <1>2 DEF OnEndEdit
  <1>4. Right(s, left, "shown")
    BY DEF CompositionInv
  <1>5. s.window
    BY <1>1, <1>4 DEF Right, Based, ClosedOK
  <1> HIDE DEF s, t
  <1>6. /\ t.generation = s.generation /\ t.events = s.events /\ t.target = s.target
        /\ t.session = s.session /\ t.edit = e /\ t.editGeneration = g
        /\ t.composition = s.composition /\ t.started = s.started
        /\ t.closing = s.closing /\ t.window = s.window
        /\ SameShown(s, t)
    BY <1>1, <1>3 DEF Input, SameShown
  <1>7. /\ s.composition => e = "text"
        /\ ~s.composition => e = "empty"
    BY <1>2
  <1>8. /\ \A k : EndsAfter(t, k) <=> EndsAfter(s, k)
        /\ Busy(t) <=> Busy(s)
    BY <1>6 DEF EndsAfter, Current, Busy
  <1>9. Based(t)
    <2>1. TokensOK(t)
      <3>1. t.editGeneration <= t.generation
        BY <1>1, <1>2, <1>6
      <3> QED
        BY <1>4, <1>6, <3>1 DEF Right, Based, TokensOK, Current
    <2>2. ImeOK(t)
      BY <1>4, <1>6 DEF Right, Based, ImeOK, Busy
    <2>3. ClosedOK(t)
      BY <1>5, <1>6 DEF ClosedOK
    <2> QED
      BY <1>1, <2>1, <2>2, <2>3 DEF Based
  <1>10. ASSUME Tracked(s, left, "shown") PROVE Tracked(t, left, "shown")
    <2>1. TextOK(t, left)
      BY <1>6, <1>7 DEF TextOK, Reported
    <2>2. MessagesOK(t)
      BY <1>6, <1>8, <1>10 DEF Tracked, MessagesOK, Current
    <2>3. ShownOK(t)
      BY <1>6, <1>8, <1>10 DEF Tracked, ShownOK, SameShown
    <2>4. FallbackOK(t)
      BY <1>2, <1>6, <1>7, <1>8, <1>10 DEF Tracked, FallbackOK, Reported, SameShown
    <2> QED
      BY <2>1, <2>2, <2>3, <2>4 DEF Tracked
  <1>11. RegularOK(t, left, "shown")
    BY <1>4, <1>6, <1>10 DEF Right, RegularOK, SameShown, Clear
  <1>12. left <= Len(t.events)
    BY <1>4, <1>6 DEF Right
  <1> QED
    BY <1>1, <1>9, <1>11, <1>12 DEF CompositionInv, Right, t

\* A handoff that is over: what is shown is another matter.
LEMMA HandoffRight ==
    ASSUME InputInv, CompositionInv, input' \in Sound, HandoffExpires
    PROVE  CompositionInv'
  <1> DEFINE s == input
             t == input'
  <1>1. /\ s \in Sound /\ s \in Input /\ left' = left /\ t \in Sound
        /\ t = [s EXCEPT !.handoff = "none"]
    BY DEF InputInv, TypeOK, HandoffExpires
  <1>2. Right(s, left, "shown")
    BY DEF CompositionInv
  <1> HIDE DEF s, t
  <1>3. /\ SameTokens(s, t) /\ SameIme(s, t) /\ t.handoff = "none"
        /\ t.composing = s.composing /\ t.preview = s.preview
        /\ t.fallback = s.fallback /\ t.irregular = s.irregular
    BY <1>1 DEF Input, SameTokens, SameIme
  <1>4. /\ \A k : EndsAfter(t, k) <=> EndsAfter(s, k)
        /\ Busy(t) <=> Busy(s)
    BY <1>3, EndsSame DEF SameIme, Busy
  <1>5. Based(t)
    <2>1. t.window \/ Clear(t)
      BY <1>2, <1>3 DEF Right, Based, ClosedOK, Clear, SameIme
    <2> QED
      BY <1>1, <1>2, <1>3, <2>1, SameBased DEF Right
  <1>6. ASSUME Tracked(s, left, "shown") PROVE Tracked(t, left, "shown")
    <2>1. TextOK(t, left) /\ MessagesOK(t)
      BY <1>3, <1>6, SameQueue DEF Tracked
    <2>2. ShownOK(t)
      BY <1>3, <1>4, <1>6 DEF Tracked, ShownOK
    <2>3. FallbackOK(t)
      BY <1>3, <1>4, <1>6 DEF Tracked, FallbackOK, SameTokens, SameIme, Reported
    <2> QED
      BY <2>1, <2>2, <2>3 DEF Tracked
  <1>7. RegularOK(t, left, "shown")
    BY <1>2, <1>3, <1>6 DEF Right, RegularOK, SameTokens, Clear
  <1>8. left <= Len(t.events)
    BY <1>2, <1>3 DEF Right, SameTokens
  <1> QED
    BY <1>1, <1>5, <1>7, <1>8 DEF CompositionInv, Right, t

\* The context is given back or taken away; a composition not told of is over.
LEMMA ContextRight ==
    ASSUME InputInv, CompositionInv, input' \in Sound,
           ContextRebound \/ ContextLost \/ CancelUnstarted
    PROVE  CompositionInv'
  <1>1. input \in Sound /\ input \in Input /\ left \in Nat
    BY DEF InputInv, TypeOK
  <1>2. Right(input, left, "shown")
    BY DEF CompositionInv
  <1>3. CASE ContextRebound
    <2> DEFINE t == input'
               detached == input.detached /\ (input.session \/ ~input.window)
    <2>1. PICK d : d = detached
      OBVIOUS
    <2>2. t = [input EXCEPT !.context = TRUE, !.detached = d] /\ left' = left
      BY <1>3, <2>1 DEF ContextRebound
    <2>3. t \in Sound
      OBVIOUS
    <2> HIDE DEF t
    <2>4. SameTokens(input, t) /\ SameIme(input, t) /\ SameShown(input, t)
      BY <1>1, <2>2 DEF Input, SameTokens, SameIme, SameShown
    <2>5. Right(t, left, "shown")
      BY <1>2, <2>3, <2>4, SameRight DEF Stages
    <2> QED
      BY <2>2, <2>5 DEF CompositionInv, t
  <1>4. CASE ContextLost
    <2> DEFINE t == input'
               cancelled == CancelGameImeComposition(input)
    <2>1. t = [cancelled EXCEPT !.context = FALSE] /\ left' = left /\ t \in Sound
      BY <1>4 DEF ContextLost
    <2>2. Right(cancelled, left, "shown") /\ cancelled \in Input
      BY <1>1, <1>2, CancelRight DEF Stages, Right, Based, Sound
    <2> HIDE DEF t, cancelled
    <2>3. SameTokens(cancelled, t) /\ SameIme(cancelled, t) /\ SameShown(cancelled, t)
      BY <2>1, <2>2 DEF Input, SameTokens, SameIme, SameShown
    <2>4. Right(t, left, "shown")
      BY <2>1, <2>2, <2>3, SameRight DEF Stages
    <2> QED
      BY <2>1, <2>4 DEF CompositionInv, t
  <1>5. CASE CancelUnstarted
    <2> DEFINE u == Composing(FALSE, FALSE, FALSE)
    <2>1. input' = u /\ left' = left /\ ~Busy(input)
      BY <1>5 DEF CancelUnstarted, Busy
    <2>2. /\ u \in Sound /\ SameTokens(input, u) /\ SameShown(input, u)
          /\ u.window = input.window /\ u.owed = input.window
          /\ ~u.composition /\ ~u.started /\ ~u.closing
      BY <1>1, ComposingIs
    <2> HIDE DEF u
    <2>3. Right(u, left, "shown")
      BY <1>2, <2>1, <2>2, UntoldRight DEF Stages
    <2> QED
      BY <2>1, <2>3 DEF CompositionInv
  <1> QED
    BY <1>3, <1>4, <1>5

-----------------------------------------------------------------------------

LEMMA InitComposition == Init => CompositionInv
  <1> SUFFICES ASSUME Init PROVE CompositionInv
    OBVIOUS
  <1>1. input \in Sound /\ left = 0
    BY InitInv DEF InputInv, Init
  <1>2. /\ input.events = <<>> /\ input.generation = 1 /\ input.editGeneration = 0
        /\ input.edit = "none" /\ input.target = "none" /\ input.handoff = "none"
        /\ ~input.composing /\ ~input.preview /\ ~input.fallback
        /\ ~input.started /\ ~input.closing /\ ~input.owed
    BY DEF Init
  <1>3. 1..Len(input.events) = {} /\ 0 <= Len(input.events)
    BY <1>2
  <1>4. Based(input)
    <2>1. TokensOK(input)
      BY <1>2, <1>3 DEF TokensOK
    <2> QED
      BY <1>1, <1>2, <2>1 DEF Based, ImeOK, Busy, ClosedOK, Clear
  <1> QED
    BY <1>1, <1>2, <1>3, <1>4 DEF CompositionInv, Right, RegularOK

LEMMA NextComposition == InputInv /\ CompositionInv /\ [Next]_vars => CompositionInv'
  <1> SUFFICES ASSUME InputInv, CompositionInv, [Next]_vars PROVE CompositionInv'
    OBVIOUS
  <1>1. input' \in Sound
    BY NextInv DEF InputInv
  <1>2. CASE Frame
    <2>1. ASSUME NEW ok \in BOOLEAN, FrameStarts(ok)
          PROVE  CompositionInv'
      BY <2>1, FrameStartsRight
    <2>2. ASSUME NEW ok \in BOOLEAN, NEW fits \in BOOLEAN, NEW wide \in BOOLEAN,
                 NEW repeats \in BOOLEAN,
                 ProcessCapturedInputMessage(ok, fits, wide, repeats)
          PROVE  CompositionInv'
      BY <2>2, ProcessRight
    <2>3. CASE PumpEnds \/ WatchdogRests
      BY <2>3 DEF PumpEnds, WatchdogRests, CompositionInv
    <2>4. ASSUME NEW ok \in BOOLEAN, WatchdogFires(ok)
          PROVE  CompositionInv'
      BY <2>4, WatchdogRight
    <2> QED
      BY <1>2, <2>1, <2>2, <2>3, <2>4 DEF Frame
  <1>3. CASE \/ \E field \in Fields, ok \in BOOLEAN : OpenField(field, ok)
             \/ \E field \in Fields : CloseField(field)
    BY <1>3, FieldRight
  <1>4. CASE \E rollback \in BOOLEAN : ExitToMainMenu(rollback)
    BY <1>1, <1>4, ExitRight
  <1>5. CASE \/ StartComposition \/ UpdateComposition \/ CommitPart
             \/ CommitWhole \/ EndComposition \/ TypeCharacter
    BY <1>5, ImeRight
  <1>6. CASE NextCompositionShows
    BY <1>6, NextShowsRight
  <1>7. CASE OnEndEdit
    BY <1>1, <1>7, EndEditRight
  <1>8. CASE HandoffExpires
    BY <1>1, <1>8, HandoffRight
  <1>9. CASE ContextRebound \/ ContextLost \/ CancelUnstarted
    BY <1>1, <1>9, ContextRight
  <1>10. CASE WindowFound \/ UNCHANGED vars
    BY <1>10 DEF WindowFound, vars, CompositionInv
  <1> QED
    BY <1>2, <1>3, <1>4, <1>5, <1>6, <1>7, <1>8, <1>9, <1>10 DEF Next

\* Once all is quiet, a field does not lose ASCII to a composition the IME has
\* not got.
THEOREM NoPhantomCompositionHolds == Spec => []NoPhantomComposition
  <1>1. InputInv /\ CompositionInv => NoPhantomComposition
    <2> DEFINE s == input
    <2> SUFFICES ASSUME InputInv, Right(s, left, "shown"), Quiet, ~s.irregular,
                        s.target # "none", IsImeConsumingAscii(s)
                 PROVE  s.composition
      BY DEF NoPhantomComposition, CompositionInv
    <2>1. s.events = <<>> /\ s.edit = "none" /\ ~s.owed
      BY DEF Quiet
    <2> HIDE DEF s
    <2>2. ~EndsAfter(s, 0)
      <3>1. 1..Len(s.events) = {}
        BY <2>1
      <3> QED
        BY <3>1 DEF EndsAfter
    <2>3. Busy(s) => s.composition
      BY DEF Right, Based, ImeOK
    <2>4. CASE ~s.session
      BY <2>4 DEF Right, RegularOK, Clear, IsImeConsumingAscii
    <2>5. CASE s.session
      <3>1. ShownOK(s) /\ FallbackOK(s)
        BY <2>5 DEF Right, RegularOK, Tracked
      <3> QED
        BY <2>1, <2>2, <2>3, <3>1
        DEF ShownOK, FallbackOK, Reported, IsImeConsumingAscii
    <2> QED
      BY <2>4, <2>5
  <1>2. Init => InputInv /\ CompositionInv
    BY InitInv, InitComposition
  <1>3. InputInv /\ CompositionInv /\ [Next]_vars => InputInv' /\ CompositionInv'
    BY NextInv, NextComposition
  <1> QED
    BY <1>1, <1>2, <1>3, PTL DEF Spec

=============================================================================
