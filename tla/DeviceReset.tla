----------------------------- MODULE DeviceReset -----------------------------
(* Device reset of the DEFAULT-pool atlases and of the native renderer.        *)
(* Publishers create GPU textures inside a DefaultPoolPublicationScope; the    *)
(* renderer's Reset runs on the main thread and calls, in registration order,  *)
(* the callbacks of the atlas pool, of the native renderer and of some foreign *)
(* plugin: once before the device is reset and once after.  Reset may be       *)
(* cancelled by any before callback, the device may fail to reset, a foreign   *)
(* after callback may stop the list: the main loop then recovers what the      *)
(* missing after callbacks left undone.                                        *)
EXTENDS Naturals, FiniteSets

CONSTANTS Publishers,      \* threads that open publication scopes
          MainPublisher,   \* the one that is the main thread itself
          Pages,           \* texture objects (NiTexture and its renderer data)
          MaxResets        \* bound on the resets the engine attempts

ASSUME ResetAssumption ==
    /\ IsFiniteSet(Publishers)
    /\ MainPublisher \in Publishers
    /\ IsFiniteSet(Pages)
    /\ MaxResets \in Nat

Callbacks == {"native", "pool", "foreign"}

VARIABLES
    mainPc,          \* where the main thread is in its frame or in Reset
    todo,            \* callbacks the running list has still to call
    order,           \* registration order of the callbacks
    recovering,      \* the rebuild walk was entered by the main-loop pump
    resets,          \* resets attempted so far
    resetInProgress, shutdown, activePublications, deviceEpoch,
    released,        \* history: from the drained barrier to the reopened one
    pc, epoch, hold, \* per publisher: step, recorded epoch, pages it refers to
    place,           \* where a page's wrapper is registered
    bound,           \* pages whose renderer data points to a D3D texture
    pending,         \* pages marked resetPending
    twins,           \* pages a second retired wrapper shares the property of
    leaked,          \* some D3D texture is alive and nothing points to it
    maintenancePending,
    sealed,          \* pages of a sealed direct profile whose tables are valid
    profilesAvailable,
    nativeInProgress, nativePending,   \* RendererResetRecoveryLatch
    nativeFault,     \* runtimeFault of the published shader generation
    nativeGen,       \* device generation it was built for
    devGen           \* resets the device completed

engineVars == <<mainPc, todo, order, recovering, resets>>
gateVars   == <<resetInProgress, shutdown, activePublications, deviceEpoch, released>>
scopeVars  == <<pc, epoch, hold>>
atlasVars  == <<place, bound, pending, twins, leaked, maintenancePending>>
profileVars == <<sealed, profilesAvailable>>
nativeVars == <<nativeInProgress, nativePending, nativeFault, nativeGen, devGen>>

vars == <<engineVars, gateVars, scopeVars, atlasVars, profileVars, nativeVars>>

-----------------------------------------------------------------------------
Cached     == {p \in Pages : place[p] \in {"demand", "restored"}}
Retired    == {p \in Pages : place[p] = "retired"}
Registered == Cached \cup Retired

\* The steps a publisher takes between the constructor of its outermost scope
\* and its destructor.
InScope == {"open", "built", "checked", "transient", "registered", "dropping", "leaving"}
Open(t) == pc[t] \in InScope

\* Nothing but the list and this wrapper refers to the resource or its property.
Prunable(p) ==
    /\ place[p] = "retired"
    /\ p \notin twins
    /\ p \notin sealed
    /\ \A t \in Publishers : p \notin hold[t]

IsCurrent(t) == ~shutdown /\ epoch[t] = deviceEpoch

HasRetired(places, pend) == \E p \in Pages : places[p] = "retired"

\* HasDefaultPoolMaintenanceLocked over given registrations.
HasMaintenance(places, pend) ==
    \E p \in Pages : \/ places[p] = "retired"
                     \/ places[p] \in {"demand", "restored"} /\ p \in pend

\* RebuildDefaultPoolTexture writes a new texture into the renderer data: for a
\* property two wrappers share it does so twice, and never releases the first.
LeaksIn(S) == leaked \/ S \cap twins # {}

Retire(places, S) == [p \in Pages |-> IF p \in S THEN "retired" ELSE places[p]]
Free(places, S)   == [p \in Pages |-> IF p \in S THEN "free" ELSE places[p]]

-----------------------------------------------------------------------------
Init ==
    /\ mainPc = "loop"
    /\ todo = {}
    /\ order \in {f \in [Callbacks -> 1..3] :
                    \A c, d \in Callbacks : f[c] = f[d] => c = d}
    /\ recovering = FALSE
    /\ resets = 0
    /\ resetInProgress = FALSE
    /\ shutdown = FALSE
    /\ activePublications = 0
    /\ deviceEpoch = 1
    /\ released = FALSE
    /\ pc = [t \in Publishers |-> "idle"]
    /\ epoch = [t \in Publishers |-> 0]
    /\ hold = [t \in Publishers |-> {}]
    /\ place = [p \in Pages |-> "free"]
    /\ bound = {}
    /\ pending = {}
    /\ twins = {}
    /\ leaked = FALSE
    /\ maintenancePending = FALSE
    /\ sealed = {}
    /\ profilesAvailable = TRUE
    /\ nativeInProgress = FALSE
    /\ nativePending = FALSE
    /\ nativeFault = FALSE
    /\ nativeGen = 0
    /\ devGen = 0

-----------------------------------------------------------------------------
(* Publishers.  The one on the main thread moves only between two steps of the *)
(* main loop.                                                                  *)

MainFree == pc[MainPublisher] = "idle"

MayStep(t) == t # MainPublisher \/ mainPc = "loop"

\* The constructor's last part: record the generation, count the scope.
Enter(t) ==
    /\ epoch' = [epoch EXCEPT ![t] = deviceEpoch]
    /\ activePublications' = activePublications + 1
    /\ pc' = [pc EXCEPT ![t] = "open"]
    /\ UNCHANGED <<resetInProgress, shutdown, deviceEpoch, released>>

OpenScope(t) ==
    /\ pc[t] = "idle"
    /\ ~resetInProgress
    /\ Enter(t)
    /\ UNCHANGED <<engineVars, hold, atlasVars, profileVars, nativeVars>>

\* A reset is in progress: wait at most two seconds for its end or the exit.
ScopeWaits(t) ==
    /\ pc[t] = "idle"
    /\ resetInProgress
    /\ ~shutdown
    /\ pc' = [pc EXCEPT ![t] = "waiting"]
    /\ UNCHANGED <<engineVars, gateVars, epoch, hold, atlasVars, profileVars, nativeVars>>

ScopeWakes(t) ==
    /\ pc[t] = "waiting"
    /\ ~resetInProgress
    /\ ~shutdown
    /\ Enter(t)
    /\ UNCHANGED <<engineVars, hold, atlasVars, profileVars, nativeVars>>

\* Timed out, or woken by the exit.
ScopeRefused(t) ==
    /\ pc[t] = "waiting"
    /\ resetInProgress
    /\ pc' = [pc EXCEPT ![t] = "idle"]
    /\ UNCHANGED <<engineVars, gateVars, epoch, hold, atlasVars, profileVars, nativeVars>>

\* A shadow page of a snapshot, built before the profile is swapped in.  An
\* exit refuses new textures (CreateDefaultPoolAtlas).
BuildShadow(t, p) ==
    /\ pc[t] = "open"
    /\ IsCurrent(t)
    /\ place[p] = "free"
    /\ place' = [place EXCEPT ![p] = "private"]
    /\ bound' = bound \cup {p}
    /\ hold' = [hold EXCEPT ![t] = {p}]
    /\ pc' = [pc EXCEPT ![t] = "built"]
    /\ UNCHANGED <<engineVars, gateVars, epoch, pending, twins, leaked,
                   maintenancePending, profileVars, nativeVars>>

\* The generation check before the swap; a changed one destroys the shadow.
CheckShadow(t) ==
    /\ pc[t] = "built"
    /\ pc' = [pc EXCEPT ![t] = IF IsCurrent(t) THEN "checked" ELSE "dropping"]
    /\ UNCHANGED <<engineVars, gateVars, epoch, hold, atlasVars, profileVars, nativeVars>>

\* The swap under atlasMutex: the old pages of the profile are retired.
SwapProfile(t, old) ==
    /\ pc[t] = "checked"
    /\ old \subseteq Cached
    /\ place' = [p \in Pages |-> IF p \in hold[t] THEN "restored"
                                 ELSE IF p \in old THEN "retired" ELSE place[p]]
    /\ maintenancePending' = (maintenancePending \/ old # {})
    /\ hold' = [hold EXCEPT ![t] = {}]
    /\ pc' = [pc EXCEPT ![t] = "leaving"]
    /\ UNCHANGED <<engineVars, gateVars, epoch, bound, pending, twins, leaked,
                   profileVars, nativeVars>>

\* A demand page is created and inserted under one hold of atlasMutex, which
\* also trims the cache; pages of a live sealed profile are not evicted.
DemandPage(t, p, evicted) ==
    /\ pc[t] = "open"
    /\ IsCurrent(t)
    /\ place[p] = "free"
    /\ evicted \subseteq Cached \ sealed
    /\ place' = [Retire(place, evicted) EXCEPT ![p] = "demand"]
    /\ bound' = bound \cup {p}
    /\ maintenancePending' = (maintenancePending \/ evicted # {})
    /\ pc' = [pc EXCEPT ![t] = "leaving"]
    /\ UNCHANGED <<engineVars, gateVars, epoch, hold, pending, twins, leaked,
                   profileVars, nativeVars>>

\* CreateTransientAtlas: create outside the mutex, then register on the list.
BuildTransient(t, p) ==
    /\ pc[t] = "open"
    /\ IsCurrent(t)
    /\ place[p] = "free"
    /\ place' = [place EXCEPT ![p] = "private"]
    /\ bound' = bound \cup {p}
    /\ hold' = [hold EXCEPT ![t] = {p}]
    /\ pc' = [pc EXCEPT ![t] = "transient"]
    /\ UNCHANGED <<engineVars, gateVars, epoch, pending, twins, leaked,
                   maintenancePending, profileVars, nativeVars>>

RegisterTransient(t) ==
    /\ pc[t] = "transient"
    /\ place' = Retire(place, hold[t])
    /\ maintenancePending' = TRUE
    /\ pc' = [pc EXCEPT ![t] = "registered"]
    /\ UNCHANGED <<engineVars, gateVars, epoch, hold, bound, pending, twins, leaked,
                   profileVars, nativeVars>>

\* Outside the scope the shape is made, and its atlas retired a second time: a
\* copy of the wrapper that shares the property.
RetireShapeAtlas(t, made) ==
    /\ pc[t] = "shaping"
    /\ twins' = IF made THEN twins \cup hold[t] ELSE twins
    /\ maintenancePending' = (maintenancePending \/ made)
    /\ hold' = [hold EXCEPT ![t] = {}]
    /\ pc' = [pc EXCEPT ![t] = "idle"]
    /\ UNCHANGED <<engineVars, gateVars, epoch, place, bound, pending, leaked,
                   profileVars, nativeVars>>

\* PruneRetiredAtlasGenerationsSafely: take the releasable generations off the
\* list under atlasMutex, destroy them after it, still inside the scope.
PruneRetired(t, S) ==
    /\ pc[t] = "open"
    /\ IsCurrent(t)
    /\ S \subseteq {p \in Pages : Prunable(p)}
    /\ place' = [p \in Pages |-> IF p \in S THEN "private" ELSE place[p]]
    /\ hold' = [hold EXCEPT ![t] = S]
    /\ pc' = [pc EXCEPT ![t] = "dropping"]
    /\ UNCHANGED <<engineVars, gateVars, epoch, bound, pending, twins, leaked,
                   maintenancePending, profileVars, nativeVars>>

DropHeld(t) ==
    /\ pc[t] = "dropping"
    /\ place' = Free(place, hold[t])
    /\ bound' = bound \ hold[t]
    /\ pending' = pending \ hold[t]
    /\ hold' = [hold EXCEPT ![t] = {}]
    /\ pc' = [pc EXCEPT ![t] = "leaving"]
    /\ UNCHANGED <<engineVars, gateVars, epoch, twins, leaked, maintenancePending,
                   profileVars, nativeVars>>

Departed == activePublications - 1

\* The destructor; a transient atlas goes on to its shape.
LeaveScope(t) ==
    /\ pc[t] \in {"open", "registered", "leaving"}
    /\ activePublications' = Departed
    /\ epoch' = [epoch EXCEPT ![t] = 0]
    /\ pc' = [pc EXCEPT ![t] = IF pc[t] = "registered" THEN "shaping" ELSE "idle"]
    /\ UNCHANGED <<engineVars, resetInProgress, shutdown, deviceEpoch, released, hold,
                   atlasVars, profileVars, nativeVars>>

\* PublishSealedDirectFontProfile: the pages of a restored profile are sealed
\* under atlasMutex, in no scope, whether or not a reset took their textures...
SealProfile(t, p) ==
    /\ pc[t] = "idle"
    /\ place[p] = "restored"
    /\ sealed' = sealed \cup {p}
    /\ pc' = [pc EXCEPT ![t] = "sealing"]
    /\ UNCHANGED <<engineVars, gateVars, epoch, hold, atlasVars, profilesAvailable,
                   nativeVars>>

\* ... and direct profiles are declared available after the mutex is released.
OpenProfiles(t) ==
    /\ pc[t] = "sealing"
    /\ profilesAvailable' = TRUE
    /\ pc' = [pc EXCEPT ![t] = "idle"]
    /\ UNCHANGED <<engineVars, gateVars, epoch, hold, atlasVars, sealed, nativeVars>>

ScopeStep(t) ==
    \/ ScopeWakes(t) \/ ScopeRefused(t)
    \/ CheckShadow(t)
    \/ \E old \in SUBSET Cached : SwapProfile(t, old)
    \/ RegisterTransient(t)
    \/ \E made \in BOOLEAN : RetireShapeAtlas(t, made)
    \/ DropHeld(t)
    \/ LeaveScope(t)
    \/ OpenProfiles(t)

ScopeWork(t) ==
    \/ OpenScope(t) \/ ScopeWaits(t)
    \/ \E p \in Pages :
         \/ BuildShadow(t, p) \/ BuildTransient(t, p) \/ SealProfile(t, p)
         \/ \E evicted \in SUBSET Cached : DemandPage(t, p, evicted)
    \/ \E S \in SUBSET Pages : PruneRetired(t, S)

-----------------------------------------------------------------------------
(* The engine's Reset, on the main thread.                                     *)

NextCallback(c) == c \in todo /\ \A d \in todo : order[c] <= order[d]

\* A callback returned true: the list goes on.
CallbackDone(c) ==
    /\ todo' = todo \ {c}
    /\ UNCHANGED <<order, recovering, resets>>

ResetBegins ==
    /\ mainPc = "loop"
    /\ MainFree
    /\ resets < MaxResets
    /\ resets' = resets + 1
    /\ mainPc' = "before"
    /\ todo' = Callbacks
    /\ UNCHANGED <<order, recovering, gateVars, scopeVars, atlasVars, profileVars, nativeVars>>

\* NativeRendererResetCallback(true): latch, fault the published generation.
BeforeNative ==
    /\ mainPc = "before"
    /\ NextCallback("native")
    /\ nativeInProgress' = TRUE
    /\ nativePending' = FALSE
    /\ nativeFault' = TRUE
    /\ CallbackDone("native")
    /\ UNCHANGED <<mainPc, gateVars, scopeVars, atlasVars, profileVars, nativeGen, devGen>>

\* EnterDefaultPoolResetBarrier(true) closes the gate and waits; after the exit
\* the callback lets the reset pass.
BeforePool ==
    /\ mainPc = "before"
    /\ NextCallback("pool")
    /\ IF shutdown
         THEN /\ CallbackDone("pool")
              /\ UNCHANGED <<mainPc, resetInProgress>>
         ELSE /\ resetInProgress' = TRUE
              /\ mainPc' = "draining"
              /\ UNCHANGED <<todo, order, recovering, resets>>
    /\ UNCHANGED <<shutdown, activePublications, deviceEpoch, released, scopeVars,
                   atlasVars, profileVars, nativeVars>>

DrainSkipped == TRUE
Drained == activePublications = 0

BarrierDrained ==
    /\ mainPc = "draining"
    /\ Drained
    /\ deviceEpoch' = deviceEpoch + 1
    /\ released' = TRUE
    /\ mainPc' = "releasing"
    /\ UNCHANGED <<todo, order, recovering, resets, resetInProgress, shutdown,
                   activePublications, scopeVars, atlasVars, profileVars, nativeVars>>

\* Two seconds passed: reopen the gate, hand an interrupted native reset to the
\* main loop, cancel the reset.
DrainTimesOut ==
    /\ mainPc = "draining"
    /\ activePublications > 0
    /\ resetInProgress' = FALSE
    /\ maintenancePending' = TRUE
    /\ nativeInProgress' = FALSE
    /\ nativePending' = (nativePending \/ nativeInProgress)
    /\ mainPc' = "loop"
    /\ UNCHANGED <<todo, order, recovering, resets, shutdown, activePublications,
                   deviceEpoch, released, scopeVars, place, bound, pending, twins, leaked,
                   profileVars, nativeFault, nativeGen, devGen>>

\* Every page a wrapper of the cache, of the retired list or of a sealed table
\* refers to.
WalkedCache == Cached
Walked == Registered

\* DefaultPoolResetCallback(true) under atlasMutex: profiles close, textures go.
ReleaseWalk ==
    /\ mainPc = "releasing"
    /\ profilesAvailable' = FALSE
    /\ bound' = bound \ Walked
    /\ pending' = pending \cup Walked
    /\ maintenancePending' = HasMaintenance(place, pending')
    /\ mainPc' = "before"
    /\ CallbackDone("pool")
    /\ UNCHANGED <<gateVars, scopeVars, place, twins, leaked, sealed, nativeVars>>

\* A foreign callback that returns false cancels the reset: no after callbacks.
BeforeForeign ==
    /\ mainPc = "before"
    /\ NextCallback("foreign")
    /\ CallbackDone("foreign")
    /\ mainPc' \in {"before", "loop"}
    /\ UNCHANGED <<gateVars, scopeVars, atlasVars, profileVars, nativeVars>>

BeforeDone ==
    /\ mainPc = "before"
    /\ todo = {}
    /\ mainPc' = "device"
    /\ UNCHANGED <<todo, order, recovering, resets, gateVars, scopeVars, atlasVars,
                   profileVars, nativeVars>>

\* Direct3D resets no device that has a DEFAULT-pool texture left.
DeviceResets ==
    /\ mainPc = "device"
    /\ bound = {}
    /\ ~leaked
    /\ devGen' = devGen + 1
    /\ mainPc' = "after"
    /\ todo' = Callbacks
    /\ UNCHANGED <<order, recovering, resets, gateVars, scopeVars, atlasVars, profileVars,
                   nativeInProgress, nativePending, nativeFault, nativeGen>>

DeviceFails ==
    /\ mainPc = "device"
    /\ mainPc' = "loop"
    /\ UNCHANGED <<todo, order, recovering, resets, gateVars, scopeVars, atlasVars,
                   profileVars, nativeVars>>

InitializeAnyway(built) ==
    /\ nativeFault' = FALSE
    /\ nativeGen' = IF built THEN devGen ELSE nativeGen

\* InitializeNativeFontRenderer: build and publish a generation for the device
\* as it is, or keep the old one with its fault.
InitializeNative(built) ==
    /\ nativeFault' = IF built THEN FALSE ELSE nativeFault
    /\ nativeGen' = IF built THEN devGen ELSE nativeGen

AfterNative ==
    /\ mainPc = "after"
    /\ NextCallback("native")
    /\ nativeInProgress' = FALSE
    /\ nativePending' = FALSE
    /\ \E built \in BOOLEAN : InitializeNative(built)
    /\ CallbackDone("native")
    /\ UNCHANGED <<mainPc, gateVars, scopeVars, atlasVars, profileVars, devGen>>

AfterPool ==
    /\ mainPc = "after"
    /\ NextCallback("pool")
    /\ IF shutdown
         THEN CallbackDone("pool") /\ UNCHANGED mainPc
         ELSE mainPc' = "rebuilding" /\ UNCHANGED <<todo, order, recovering, resets>>
    /\ UNCHANGED <<gateVars, scopeVars, atlasVars, profileVars, nativeVars>>

\* DefaultPoolResetCallback(false) under atlasMutex: rebuild what can be,
\* prune and trim, revoke the profiles with a page that failed, open the rest.
RebuildWalk(S, pruned, evicted) ==
    /\ mainPc = "rebuilding"
    /\ S \subseteq Walked
    /\ evicted \subseteq Cached \ sealed
    /\ pruned \subseteq {p \in Pages : Prunable(p)}
    /\ bound' = (bound \cup S) \ pruned
    /\ pending' = (pending \ S) \ pruned
    /\ leaked' = LeaksIn(S)
    /\ place' = Free(Retire(place, evicted), pruned)
    /\ maintenancePending' = HasMaintenance(place', pending')
    /\ sealed' = sealed \ pending'
    /\ profilesAvailable' = TRUE
    /\ mainPc' = "leaving"
    /\ UNCHANGED <<todo, order, recovering, resets, gateVars, scopeVars, twins, nativeVars>>

\* LeaveDefaultPoolResetBarrier(false), then back to the list or to the pump.
LeaveBarrier ==
    /\ mainPc = "leaving"
    /\ deviceEpoch' = deviceEpoch + 1
    /\ resetInProgress' = FALSE
    /\ released' = FALSE
    /\ mainPc' = IF recovering THEN "pump" ELSE "after"
    /\ todo' = IF recovering THEN todo ELSE todo \ {"pool"}
    /\ recovering' = FALSE
    /\ UNCHANGED <<order, resets, shutdown, activePublications, scopeVars, atlasVars,
                   profileVars, nativeVars>>

AfterForeign ==
    /\ mainPc = "after"
    /\ NextCallback("foreign")
    /\ CallbackDone("foreign")
    /\ mainPc' \in {"after", "loop"}
    /\ UNCHANGED <<gateVars, scopeVars, atlasVars, profileVars, nativeVars>>

AfterDone ==
    /\ mainPc = "after"
    /\ todo = {}
    /\ mainPc' = "loop"
    /\ UNCHANGED <<todo, order, recovering, resets, gateVars, scopeVars, atlasVars,
                   profileVars, nativeVars>>

-----------------------------------------------------------------------------
(* The main loop's frame: native maintenance, then the pool's.                 *)

\* HandleNativeFontShaderRendererMainLoop: claim an interrupted reset, rebuild a
\* generation that does not match the device.
PumpNative ==
    /\ mainPc = "loop"
    /\ MainFree
    /\ nativeInProgress' = FALSE
    /\ nativePending' = FALSE
    /\ IF nativeFault
         THEN \E built \in BOOLEAN : InitializeNative(built)
         ELSE UNCHANGED <<nativeFault, nativeGen>>
    /\ mainPc' = "pump"
    /\ UNCHANGED <<todo, order, recovering, resets, gateVars, scopeVars, atlasVars,
                   profileVars, devGen>>

OrphanedWithNative == resetInProgress /\ nativeInProgress
Orphaned == resetInProgress

\* PumpDefaultPoolAtlasLifecycle: a gate still closed in the main loop is an
\* orphan, whose rebuild half is run now.
PumpRecovers ==
    /\ mainPc = "pump"
    /\ ~shutdown
    /\ Orphaned
    /\ recovering' = TRUE
    /\ mainPc' = "rebuilding"
    /\ UNCHANGED <<todo, order, resets, gateVars, scopeVars, atlasVars, profileVars, nativeVars>>

\* Every 120th frame: prune, and rebuild what is pending on the cache and the
\* retired list, in a scope of its own.
PumpMaintains(S, pruned) ==
    /\ mainPc = "pump"
    /\ ~shutdown
    /\ ~resetInProgress
    /\ maintenancePending
    /\ pruned \subseteq {p \in Pages : Prunable(p)}
    /\ S \subseteq (Registered \cap pending) \ pruned
    /\ bound' = (bound \cup S) \ pruned
    /\ pending' = (pending \ S) \ pruned
    /\ leaked' = LeaksIn(S)
    /\ place' = Free(place, pruned)
    /\ maintenancePending' = HasMaintenance(place', pending')
    /\ mainPc' = "loop"
    /\ UNCHANGED <<todo, order, recovering, resets, gateVars, scopeVars, twins,
                   profileVars, nativeVars>>

PumpIdle ==
    /\ mainPc = "pump"
    /\ shutdown \/ ~Orphaned
    /\ mainPc' = "loop"
    /\ UNCHANGED <<todo, order, recovering, resets, gateVars, scopeVars, atlasVars,
                   profileVars, nativeVars>>

\* HandleNativeFontShaderLoaderMessage: the shader loader's refresh builds a new
\* generation at once, unless a reset is in progress.
ShaderRefresh ==
    /\ mainPc = "loop"
    /\ MainFree
    /\ ~nativeInProgress
    /\ \E built \in BOOLEAN : InitializeNative(built)
    /\ UNCHANGED <<engineVars, gateVars, scopeVars, atlasVars, profileVars,
                   nativeInProgress, nativePending, devGen>>

\* ShutdownDefaultPoolAtlasLifecycle on ExitGame: the gate closes for good.
ExitGame ==
    /\ mainPc = "loop"
    /\ MainFree
    /\ ~shutdown
    /\ shutdown' = TRUE
    /\ resetInProgress' = TRUE
    /\ deviceEpoch' = deviceEpoch + 1
    /\ UNCHANGED <<engineVars, activePublications, released, scopeVars, atlasVars,
                   profileVars, nativeVars>>

-----------------------------------------------------------------------------
\* What the main thread does once in a frame or in Reset.
MainStep ==
    \/ BeforeNative \/ BeforePool \/ BarrierDrained \/ DrainTimesOut \/ ReleaseWalk
    \/ BeforeForeign \/ BeforeDone \/ DeviceResets \/ DeviceFails
    \/ AfterNative \/ AfterPool
    \/ \E S, pruned, evicted \in SUBSET Pages : RebuildWalk(S, pruned, evicted)
    \/ LeaveBarrier \/ AfterForeign \/ AfterDone
    \/ PumpNative \/ PumpRecovers
    \/ \E S, pruned \in SUBSET Pages : PumpMaintains(S, pruned)
    \/ PumpIdle

Next ==
    \/ \E t \in Publishers : MayStep(t) /\ (ScopeStep(t) \/ ScopeWork(t))
    \/ MainStep
    \/ ResetBegins
    \/ ShaderRefresh
    \/ ExitGame

Spec == Init /\ [][Next]_vars

\* A frame and a Reset that began go on, and so does a publication: every wait
\* in them is bounded by a timeout.  A frame draws finitely many texts, so the
\* main thread's publications do not keep it from the frame's pumps for ever.
FairSpec ==
    /\ Spec
    /\ WF_vars(MainStep)
    /\ SF_vars(PumpNative)
    /\ \A t \in Publishers : WF_vars(MayStep(t) /\ ScopeStep(t))

-----------------------------------------------------------------------------
MainSteps == {"loop", "pump", "before", "draining", "releasing", "device", "after",
              "rebuilding", "leaving"}

EngineTypes ==
    /\ mainPc \in MainSteps
    /\ todo \in SUBSET Callbacks
    /\ order \in [Callbacks -> 1..3]
    /\ recovering \in BOOLEAN
    /\ resets \in 0..MaxResets

GateTypes ==
    /\ resetInProgress \in BOOLEAN
    /\ shutdown \in BOOLEAN
    /\ activePublications \in 0..Cardinality(Publishers)
    /\ deviceEpoch \in Nat
    /\ released \in BOOLEAN

ScopeTypes ==
    /\ pc \in [Publishers -> InScope \cup {"idle", "waiting", "shaping", "sealing"}]
    /\ epoch \in [Publishers -> Nat]
    /\ hold \in [Publishers -> SUBSET Pages]

AtlasTypes ==
    /\ place \in [Pages -> {"free", "private", "demand", "restored", "retired"}]
    /\ bound \in SUBSET Pages
    /\ pending \in SUBSET Pages
    /\ twins \in SUBSET Pages
    /\ leaked \in BOOLEAN
    /\ maintenancePending \in BOOLEAN

ProfileTypes ==
    /\ sealed \in SUBSET Pages
    /\ profilesAvailable \in BOOLEAN

NativeTypes ==
    /\ nativeInProgress \in BOOLEAN
    /\ nativePending \in BOOLEAN
    /\ nativeFault \in BOOLEAN
    /\ nativeGen \in Nat
    /\ devGen \in Nat

\* Type correctness; the publication count is the number of scopes that can be
\* open, never below zero (DefaultPoolPublicationScope counts up and down once).
TypeOK ==
    /\ EngineTypes
    /\ GateTypes
    /\ ScopeTypes
    /\ AtlasTypes
    /\ ProfileTypes
    /\ NativeTypes

\* When the device is reset no page points to a DEFAULT-pool texture, neither a
\* registered one nor the shadow a publisher still builds or destroys: the
\* barrier waited for every publisher and the walk misses no list.  Only after
\* the exit, which keeps all generations alive, may the device be asked in vain.
ReleasedAtReset == mainPc = "device" /\ ~shutdown => bound = {}

\* A native generation that the readiness query reports as ready was built for
\* the device as the last completed reset left it, whatever callback cancelled
\* or stopped a reset in between.
NativeReady == ~nativeInProgress /\ ~nativeFault => nativeGen = devGen

\* A page of the cache or of the retired list that waits for its texture is
\* known to the main-loop pump, which rebuilds only when the flag is set.
PendingIsMaintained ==
    pending \cap Registered # {} => maintenancePending

\* The gate's promise: publishers and resets exclude each other.
Gate == INSTANCE PublicationGate
            WITH inside <- {t \in Publishers : Open(t)}, resetting <- released

ImplementsGate == Gate!Spec

\* Whatever becomes of a reset, the gate it closed opens again and the native
\* latch it took is given back, so no publication is shut out for the lifetime
\* of the process (but by the exit).
ResetEnds ==
    /\ resetInProgress ~> (~resetInProgress \/ shutdown)
    /\ nativeInProgress ~> ~nativeInProgress

\* "Each wrapper owns a separate rebuilt D3D texture after reset": no rebuilt
\* texture is left alive that no wrapper points to.
WrappersOwnTextures == ~leaked
=============================================================================
