-------------------------- MODULE DeviceResetProofs --------------------------
(* Proofs about DeviceReset for every set of publishers and pages and any      *)
(* number of resets: type correctness, the publication gate, the texture-free  *)
(* device, the native generation and the maintenance flag.                     *)
EXTENDS DeviceReset, FiniteSetTheorems, TLAPS

\* The publishers inside a scope.
OpenSet == {t \in Publishers : Open(t)}

\* The part of a scope in which a publisher owns the pages it refers to.
Holding == {"built", "checked", "transient", "dropping"}

\* The gate: what closes it, who is counted, and that the drained barrier of a
\* live process is remembered until the rebuild half is done.
GateInv ==
    /\ activePublications = Cardinality(OpenSet)
    /\ released => OpenSet = {} /\ resetInProgress
    /\ shutdown => resetInProgress
    /\ mainPc = "draining" => resetInProgress /\ ~shutdown
    /\ mainPc \in {"releasing", "leaving", "rebuilding"} => released /\ ~shutdown
    /\ resetInProgress /\ ~shutdown /\ mainPc # "draining" => released
    /\ mainPc \in {"before", "device"} /\ "pool" \notin todo /\ ~shutdown => released
    /\ mainPc = "after" /\ "pool" \in todo /\ ~shutdown => released
    /\ mainPc = "device" => todo = {}

\* A page outside the lists has an owner inside the gate, one only, and a page
\* with a texture is on a list or has that owner.
HoldInv ==
    /\ \A p \in Pages : place[p] = "private" =>
         \E t \in Publishers : pc[t] \in Holding /\ p \in hold[t]
    /\ \A t \in Publishers : pc[t] \in Holding =>
         \A p \in hold[t] : place[p] = "private"
    /\ \A t, u \in Publishers : pc[t] \in Holding /\ pc[u] \in Holding /\ t # u =>
         hold[t] \cap hold[u] = {}
    /\ \A p \in bound : place[p] # "free"

\* From the release walk to the rebuild walk no page has a texture.
BoundInv == released /\ mainPc \notin {"releasing", "leaving"} => bound = {}

\* Before the device is reset the published generation was faulted.
NativeInv ==
    /\ ~nativeFault => nativeGen = devGen
    /\ mainPc \in {"before", "draining", "releasing", "device"} /\ "native" \notin todo
         => nativeFault

\* Only a page on a list can wait for its texture, or one about to be destroyed.
PendingInv ==
    /\ PendingIsMaintained
    /\ \A p \in pending : place[p] # "free"
    /\ \A t \in Publishers : pc[t] \in {"built", "checked", "transient"} =>
         hold[t] \cap pending = {}

ResetInv == TypeOK /\ GateInv /\ HoldInv /\ BoundInv /\ NativeInv /\ PendingInv

-----------------------------------------------------------------------------
(* Which steps touch which part of the state.                                  *)

EngineChange ==
    \/ BeforeNative \/ BeforePool \/ BarrierDrained \/ DrainTimesOut \/ ReleaseWalk
    \/ BeforeForeign \/ BeforeDone \/ DeviceResets \/ DeviceFails
    \/ AfterNative \/ AfterPool
    \/ \E S, pruned, evicted \in SUBSET Pages : RebuildWalk(S, pruned, evicted)
    \/ LeaveBarrier \/ AfterForeign \/ AfterDone
    \/ PumpNative \/ PumpRecovers
    \/ \E S, pruned \in SUBSET Pages : PumpMaintains(S, pruned)
    \/ PumpIdle \/ ResetBegins

GateChange ==
    \/ \E t \in Publishers : OpenScope(t) \/ ScopeWakes(t) \/ LeaveScope(t)
    \/ BeforePool \/ BarrierDrained \/ DrainTimesOut \/ LeaveBarrier \/ ExitGame

ScopeChange == \E t \in Publishers : ScopeStep(t) \/ ScopeWork(t)

\* What a publisher does to the pages.
PageChange(t) ==
    \/ \E p \in Pages : BuildShadow(t, p) \/ BuildTransient(t, p)
    \/ \E old \in SUBSET Cached : SwapProfile(t, old)
    \/ \E p \in Pages, evicted \in SUBSET Cached : DemandPage(t, p, evicted)
    \/ RegisterTransient(t)
    \/ \E made \in BOOLEAN : RetireShapeAtlas(t, made)
    \/ \E S \in SUBSET Pages : PruneRetired(t, S)
    \/ DropHeld(t)

AtlasChange ==
    \/ \E t \in Publishers : PageChange(t)
    \/ DrainTimesOut \/ ReleaseWalk
    \/ \E S, pruned, evicted \in SUBSET Pages : RebuildWalk(S, pruned, evicted)
    \/ \E S, pruned \in SUBSET Pages : PumpMaintains(S, pruned)

ProfileChange ==
    \/ \E t \in Publishers : \/ \E p \in Pages : SealProfile(t, p)
                             \/ OpenProfiles(t)
    \/ ReleaseWalk
    \/ \E S, pruned, evicted \in SUBSET Pages : RebuildWalk(S, pruned, evicted)

NativeChange ==
    \/ BeforeNative \/ DrainTimesOut \/ DeviceResets \/ AfterNative
    \/ PumpNative \/ ShaderRefresh

\* A publisher's step leaves the engine and the native renderer alone, and the
\* gate, the pages and the profiles unless it is one of those that change them.
LEMMA PublisherFrame ==
    ASSUME NEW t \in Publishers, ScopeStep(t) \/ ScopeWork(t)
    PROVE  /\ UNCHANGED <<engineVars, nativeVars>>
           /\ UNCHANGED gateVars \/ OpenScope(t) \/ ScopeWakes(t) \/ LeaveScope(t)
           /\ UNCHANGED atlasVars \/ PageChange(t)
           /\ \/ UNCHANGED profileVars
              \/ \E p \in Pages : SealProfile(t, p)
              \/ OpenProfiles(t)
<1> USE DEF PageChange
<1>1. CASE ScopeStep(t)
  BY <1>1 DEF ScopeStep, ScopeWakes, ScopeRefused, CheckShadow, SwapProfile,
     RegisterTransient, RetireShapeAtlas, DropHeld, LeaveScope, OpenProfiles
<1>2. CASE ScopeWork(t)
  BY <1>2 DEF ScopeWork, OpenScope, ScopeWaits, BuildShadow, BuildTransient,
     SealProfile, DemandPage, PruneRetired
<1>3. QED
  BY <1>1, <1>2

\* A step of the main thread leaves the publishers alone, and the rest unless it
\* is one of those that change it.
LEMMA MainFrame ==
    ASSUME MainStep \/ ResetBegins \/ ShaderRefresh \/ ExitGame
    PROVE  /\ UNCHANGED scopeVars
           /\ UNCHANGED engineVars \/ EngineChange
           /\ UNCHANGED gateVars \/ GateChange
           /\ UNCHANGED atlasVars \/ AtlasChange
           /\ UNCHANGED profileVars \/ ProfileChange
           /\ UNCHANGED nativeVars \/ NativeChange
<1> USE DEF EngineChange, GateChange, AtlasChange, ProfileChange, NativeChange,
        gateVars, atlasVars, nativeVars
<1>1. CASE BeforeNative \/ BeforePool \/ BarrierDrained \/ DrainTimesOut \/ ReleaseWalk
  BY <1>1 DEF BeforeNative, BeforePool, BarrierDrained, DrainTimesOut, ReleaseWalk
<1>2. CASE BeforeForeign \/ BeforeDone \/ DeviceResets \/ DeviceFails
  BY <1>2 DEF BeforeForeign, BeforeDone, DeviceResets, DeviceFails
<1>3. CASE AfterNative \/ AfterPool \/ LeaveBarrier \/ AfterForeign \/ AfterDone
  BY <1>3 DEF AfterNative, AfterPool, LeaveBarrier, AfterForeign, AfterDone
<1>4. CASE \E S, pruned, evicted \in SUBSET Pages : RebuildWalk(S, pruned, evicted)
  BY <1>4 DEF RebuildWalk
<1>5. CASE \E S, pruned \in SUBSET Pages : PumpMaintains(S, pruned)
  BY <1>5 DEF PumpMaintains
<1>6. CASE PumpNative \/ PumpRecovers \/ PumpIdle
  BY <1>6 DEF PumpNative, PumpRecovers, PumpIdle
<1>7. CASE ResetBegins \/ ShaderRefresh \/ ExitGame
  BY <1>7 DEF ResetBegins, ShaderRefresh, ExitGame
<1>8. QED
  BY <1>1, <1>2, <1>3, <1>4, <1>5, <1>6, <1>7 DEF MainStep

\* The same for any step of the specification.
LEMMA Frames ==
    ASSUME [Next]_vars
    PROVE  /\ UNCHANGED engineVars \/ EngineChange
           /\ UNCHANGED gateVars \/ GateChange
           /\ UNCHANGED scopeVars \/ ScopeChange
           /\ UNCHANGED atlasVars \/ AtlasChange
           /\ UNCHANGED profileVars \/ ProfileChange
           /\ UNCHANGED nativeVars \/ NativeChange
<1>1. CASE \E t \in Publishers : MayStep(t) /\ (ScopeStep(t) \/ ScopeWork(t))
  BY <1>1, PublisherFrame
     DEF GateChange, ScopeChange, AtlasChange, ProfileChange
<1>2. CASE MainStep \/ ResetBegins \/ ShaderRefresh \/ ExitGame
  BY <1>2, MainFrame
<1>3. CASE UNCHANGED vars
  BY <1>3 DEF vars
<1>4. QED
  BY <1>1, <1>2, <1>3 DEF Next

-----------------------------------------------------------------------------
(* Type correctness, group by group.                                           *)

\* The main thread's own state keeps its types; every attempt is counted in range.
LEMMA EngineTyped == EngineTypes /\ [Next]_vars => EngineTypes'
<1> SUFFICES ASSUME EngineTypes, [Next]_vars PROVE EngineTypes'
  OBVIOUS
<1> USE DEF EngineTypes, MainSteps, Callbacks, CallbackDone
<1>1. CASE UNCHANGED engineVars
  BY <1>1 DEF engineVars
<1>2. CASE BeforeNative \/ BeforePool \/ BarrierDrained \/ DrainTimesOut \/ ReleaseWalk
  BY <1>2 DEF BeforeNative, BeforePool, BarrierDrained, DrainTimesOut, ReleaseWalk
<1>3. CASE BeforeForeign \/ BeforeDone \/ DeviceResets \/ DeviceFails
  BY <1>3 DEF BeforeForeign, BeforeDone, DeviceResets, DeviceFails
<1>4. CASE AfterNative \/ AfterPool \/ LeaveBarrier \/ AfterForeign \/ AfterDone
  BY <1>4 DEF AfterNative, AfterPool, LeaveBarrier, AfterForeign, AfterDone
<1>5. CASE \E S, pruned, evicted \in SUBSET Pages : RebuildWalk(S, pruned, evicted)
  BY <1>5 DEF RebuildWalk
<1>6. CASE \E S, pruned \in SUBSET Pages : PumpMaintains(S, pruned)
  BY <1>6 DEF PumpMaintains
<1>7. CASE PumpNative \/ PumpRecovers \/ PumpIdle
  BY <1>7 DEF PumpNative, PumpRecovers, PumpIdle
<1>8. CASE ResetBegins
  BY <1>8, ResetAssumption DEF ResetBegins
<1>9. QED
  BY <1>1, <1>2, <1>3, <1>4, <1>5, <1>6, <1>7, <1>8, Frames DEF EngineChange

\* A publisher's step may open a scope, close one, or keep the set of the open.
LEMMA OpenSetSteps ==
    ASSUME ScopeTypes, NEW t \in Publishers, ScopeStep(t) \/ ScopeWork(t)
    PROVE  \/ OpenSet' = OpenSet \cup {t} /\ t \notin OpenSet
                /\ (OpenScope(t) \/ ScopeWakes(t))
           \/ OpenSet' = OpenSet \ {t} /\ t \in OpenSet /\ LeaveScope(t)
           \/ OpenSet' = OpenSet /\ UNCHANGED gateVars
<1> USE DEF ScopeTypes, OpenSet, Open, InScope
<1>1. CASE OpenScope(t) \/ ScopeWakes(t)
  BY <1>1 DEF OpenScope, ScopeWakes, Enter
<1>2. CASE LeaveScope(t)
  BY <1>2 DEF LeaveScope
<1>3. CASE ScopeWaits(t) \/ ScopeRefused(t) \/ CheckShadow(t)
  BY <1>3 DEF ScopeWaits, ScopeRefused, CheckShadow
<1>4. CASE \E p \in Pages : BuildShadow(t, p) \/ BuildTransient(t, p) \/ SealProfile(t, p)
  BY <1>4 DEF BuildShadow, BuildTransient, SealProfile
<1>5. CASE \E old \in SUBSET Cached : SwapProfile(t, old)
  BY <1>5 DEF SwapProfile
<1>6. CASE \E p \in Pages, evicted \in SUBSET Cached : DemandPage(t, p, evicted)
  BY <1>6 DEF DemandPage
<1>7. CASE RegisterTransient(t) \/ DropHeld(t) \/ OpenProfiles(t)
  BY <1>7 DEF RegisterTransient, DropHeld, OpenProfiles
<1>8. CASE \E made \in BOOLEAN : RetireShapeAtlas(t, made)
  BY <1>8 DEF RetireShapeAtlas
<1>9. CASE \E S \in SUBSET Pages : PruneRetired(t, S)
  BY <1>9 DEF PruneRetired
<1>10. QED
  BY <1>1, <1>2, <1>3, <1>4, <1>5, <1>6, <1>7, <1>8, <1>9 DEF ScopeStep, ScopeWork

\* The count is the cardinality of a set of publishers, so it stays in range.
LEMMA CountStays ==
    ASSUME ScopeTypes, GateInv, ScopeTypes', [Next]_vars
    PROVE  /\ activePublications' = Cardinality(OpenSet')
           /\ activePublications' \in 0..Cardinality(Publishers)
<1>0. /\ IsFiniteSet(OpenSet) /\ IsFiniteSet(OpenSet')
      /\ Cardinality(OpenSet) \in Nat
      /\ Cardinality(Publishers) \in Nat
      /\ Cardinality(OpenSet') \in Nat
      /\ Cardinality(OpenSet') <= Cardinality(Publishers)
      /\ activePublications = Cardinality(OpenSet)
  <2>1. OpenSet \in SUBSET Publishers /\ OpenSet' \in SUBSET Publishers
    BY DEF OpenSet
  <2>2. QED
    BY <2>1, ResetAssumption, FS_Subset, FS_CardinalityType DEF GateInv
<1>1. activePublications' = Cardinality(OpenSet')
  <2>1. CASE \E t \in Publishers : ScopeStep(t) \/ ScopeWork(t)
    <3>1. PICK t \in Publishers : ScopeStep(t) \/ ScopeWork(t)
      BY <2>1
    <3>2. CASE OpenSet' = OpenSet \cup {t} /\ t \notin OpenSet /\ (OpenScope(t) \/ ScopeWakes(t))
      <4>1. activePublications' = activePublications + 1
        BY <3>2 DEF OpenScope, ScopeWakes, Enter
      <4>2. QED
        BY <4>1, <3>2, <1>0, FS_AddElement
    <3>3. CASE OpenSet' = OpenSet \ {t} /\ t \in OpenSet /\ LeaveScope(t)
      <4>1. activePublications' = activePublications - 1
        BY <3>3 DEF LeaveScope, Departed
      <4>2. QED
        BY <4>1, <3>3, <1>0, FS_RemoveElement
    <3>4. CASE OpenSet' = OpenSet /\ UNCHANGED gateVars
      BY <3>4, <1>0 DEF gateVars
    <3>5. QED
      BY <3>1, <3>2, <3>3, <3>4, OpenSetSteps
  <2>2. CASE UNCHANGED scopeVars
    <3>1. OpenSet' = OpenSet
      BY <2>2 DEF scopeVars, OpenSet, Open
    <3>2. activePublications' = activePublications
      BY <2>2, Frames DEF scopeVars, gateVars, GateChange, OpenScope, ScopeWakes, Enter,
         LeaveScope, BeforePool, BarrierDrained, DrainTimesOut, LeaveBarrier, ExitGame,
         ScopeTypes
    <3>3. QED
      BY <3>1, <3>2, <1>0
  <2>3. QED
    BY <2>1, <2>2, Frames DEF ScopeChange
<1>2. QED
  BY <1>0, <1>1

\* The gate keeps its types.
LEMMA GateTyped == ScopeTypes /\ ScopeTypes' /\ GateInv /\ GateTypes /\ [Next]_vars => GateTypes'
<1> SUFFICES ASSUME ScopeTypes, ScopeTypes', GateInv, GateTypes, [Next]_vars PROVE GateTypes'
  OBVIOUS
<1>1. activePublications' \in 0..Cardinality(Publishers)
  BY CountStays
<1>2. /\ resetInProgress' \in BOOLEAN /\ shutdown' \in BOOLEAN
      /\ deviceEpoch' \in Nat /\ released' \in BOOLEAN
  <2> USE DEF GateTypes
  <2>1. CASE UNCHANGED gateVars
    BY <2>1 DEF gateVars
  <2>2. ASSUME NEW t \in Publishers, OpenScope(t) \/ ScopeWakes(t) \/ LeaveScope(t)
        PROVE  /\ resetInProgress' \in BOOLEAN /\ shutdown' \in BOOLEAN
               /\ deviceEpoch' \in Nat /\ released' \in BOOLEAN
    BY <2>2 DEF OpenScope, ScopeWakes, Enter, LeaveScope
  <2>3. CASE BeforePool
    BY <2>3 DEF BeforePool
  <2>4. CASE BarrierDrained \/ LeaveBarrier
    <3>1. deviceEpoch' \in Nat
      BY <2>4 DEF BarrierDrained, LeaveBarrier
    <3>2. QED
      BY <2>4, <3>1, Zenon DEF BarrierDrained, LeaveBarrier
  <2>5. CASE DrainTimesOut
    BY <2>5 DEF DrainTimesOut
  <2>6. CASE ExitGame
    BY <2>6 DEF ExitGame
  <2>7. QED
    BY <2>1, <2>2, <2>3, <2>4, <2>5, <2>6, Frames DEF GateChange
<1>3. QED
  BY <1>1, <1>2 DEF GateTypes

\* What a publisher records keeps its types.
LEMMA ScopeTyped == ScopeTypes /\ GateTypes /\ [Next]_vars => ScopeTypes'
<1> SUFFICES ASSUME ScopeTypes, GateTypes, [Next]_vars PROVE ScopeTypes'
  OBVIOUS
<1> USE DEF ScopeTypes, GateTypes, InScope
<1>1. CASE UNCHANGED scopeVars
  BY <1>1 DEF scopeVars
<1>2. ASSUME NEW t \in Publishers, ScopeStep(t) \/ ScopeWork(t) PROVE ScopeTypes'
  <2>1. CASE OpenScope(t) \/ ScopeWakes(t) \/ LeaveScope(t)
    BY <2>1 DEF OpenScope, ScopeWakes, Enter, LeaveScope
  <2>2. CASE ScopeWaits(t) \/ ScopeRefused(t) \/ CheckShadow(t)
    BY <2>2 DEF ScopeWaits, ScopeRefused, CheckShadow
  <2>3. CASE \E p \in Pages : BuildShadow(t, p) \/ BuildTransient(t, p) \/ SealProfile(t, p)
    BY <2>3 DEF BuildShadow, BuildTransient, SealProfile
  <2>4. CASE \E old \in SUBSET Cached : SwapProfile(t, old)
    BY <2>4 DEF SwapProfile
  <2>5. CASE \E p \in Pages, evicted \in SUBSET Cached : DemandPage(t, p, evicted)
    BY <2>5 DEF DemandPage
  <2>6. CASE RegisterTransient(t) \/ DropHeld(t) \/ OpenProfiles(t)
    BY <2>6 DEF RegisterTransient, DropHeld, OpenProfiles
  <2>7. CASE \E made \in BOOLEAN : RetireShapeAtlas(t, made)
    BY <2>7 DEF RetireShapeAtlas
  <2>8. CASE \E S \in SUBSET Pages : PruneRetired(t, S)
    BY <2>8 DEF PruneRetired
  <2>9. QED
    BY <1>2, <2>1, <2>2, <2>3, <2>4, <2>5, <2>6, <2>7, <2>8 DEF ScopeStep, ScopeWork
<1>3. QED
  BY <1>1, <1>2, Frames DEF ScopeChange

\* Wrappers are registered somewhere, and only pages have textures.
LEMMA AtlasTyped == AtlasTypes /\ ScopeTypes /\ [Next]_vars => AtlasTypes'
<1> SUFFICES ASSUME AtlasTypes, ScopeTypes, [Next]_vars PROVE AtlasTypes'
  OBVIOUS
<1> USE DEF AtlasTypes, ScopeTypes, Retire, Free, Cached, Registered, Retired
<1>1. CASE UNCHANGED atlasVars
  BY <1>1 DEF atlasVars
<1>2. ASSUME NEW t \in Publishers, PageChange(t) PROVE AtlasTypes'
  <2>1. CASE \E p \in Pages : BuildShadow(t, p) \/ BuildTransient(t, p)
    BY <2>1 DEF BuildShadow, BuildTransient
  <2>2. CASE \E old \in SUBSET Cached : SwapProfile(t, old)
    BY <2>2 DEF SwapProfile
  <2>3. CASE \E p \in Pages, evicted \in SUBSET Cached : DemandPage(t, p, evicted)
    BY <2>3 DEF DemandPage
  <2>4. CASE RegisterTransient(t)
    BY <2>4 DEF RegisterTransient
  <2>5. CASE DropHeld(t)
    BY <2>5 DEF DropHeld
  <2>6. CASE \E made \in BOOLEAN : RetireShapeAtlas(t, made)
    BY <2>6 DEF RetireShapeAtlas
  <2>7. CASE \E S \in SUBSET Pages : PruneRetired(t, S)
    BY <2>7 DEF PruneRetired
  <2>8. QED
    BY <1>2, <2>1, <2>2, <2>3, <2>4, <2>5, <2>6, <2>7 DEF PageChange
<1>3. CASE DrainTimesOut
  BY <1>3 DEF DrainTimesOut
<1>4. CASE ReleaseWalk
  BY <1>4 DEF ReleaseWalk, Walked, HasMaintenance
<1>5. ASSUME NEW S \in SUBSET Pages, NEW pruned \in SUBSET Pages,
             NEW evicted \in SUBSET Pages, RebuildWalk(S, pruned, evicted)
      PROVE  AtlasTypes'
  BY <1>5 DEF RebuildWalk, HasMaintenance, LeaksIn
<1>6. ASSUME NEW S \in SUBSET Pages, NEW pruned \in SUBSET Pages, PumpMaintains(S, pruned)
      PROVE  AtlasTypes'
  BY <1>6 DEF PumpMaintains, HasMaintenance, LeaksIn
<1>7. QED
  BY <1>1, <1>2, <1>3, <1>4, <1>5, <1>6, Frames DEF AtlasChange

\* Only pages are sealed: the rebuild revokes some of them.
LEMMA ProfileTyped == ProfileTypes /\ AtlasTypes' /\ [Next]_vars => ProfileTypes'
  BY Frames DEF ProfileTypes, AtlasTypes, profileVars, ProfileChange, SealProfile,
     OpenProfiles, ReleaseWalk, RebuildWalk

\* The latch, the fault flag and the two generations keep their types.
LEMMA NativeTyped == NativeTypes /\ [Next]_vars => NativeTypes'
<1> SUFFICES ASSUME NativeTypes, [Next]_vars PROVE NativeTypes'
  OBVIOUS
<1> USE DEF NativeTypes, InitializeNative
<1>1. CASE UNCHANGED nativeVars
  BY <1>1 DEF nativeVars
<1>2. CASE BeforeNative \/ DeviceResets
  <2>1. CASE BeforeNative
    BY <2>1 DEF BeforeNative
  <2>2. CASE DeviceResets
    BY <2>2 DEF DeviceResets
  <2>3. QED
    BY <1>2, <2>1, <2>2
<1>3. CASE DrainTimesOut
  <2>1. nativePending' \in BOOLEAN
    BY <1>3, Zenon DEF DrainTimesOut
  <2>2. QED
    BY <1>3, <2>1 DEF DrainTimesOut
<1>4. CASE AfterNative
  BY <1>4 DEF AfterNative
<1>5. CASE PumpNative
  BY <1>5 DEF PumpNative
<1>6. CASE ShaderRefresh
  BY <1>6 DEF ShaderRefresh
<1>7. QED
  BY <1>1, <1>2, <1>3, <1>4, <1>5, <1>6, Frames DEF NativeChange

\* Every step keeps TypeOK; the count needs GateInv.
LEMMA TypeStep == TypeOK /\ GateInv /\ [Next]_vars => TypeOK'
  BY EngineTyped, GateTyped, ScopeTyped, AtlasTyped, ProfileTyped, NativeTyped DEF TypeOK

-----------------------------------------------------------------------------
(* The gate.                                                                   *)

\* The gate's facts are kept by every step of publishers, Reset, pump and exit.
LEMMA GateStep == TypeOK /\ GateInv /\ TypeOK' /\ [Next]_vars => GateInv'
<1> SUFFICES ASSUME TypeOK, GateInv, TypeOK', [Next]_vars PROVE GateInv'
  OBVIOUS
<1>0. /\ activePublications' = Cardinality(OpenSet')
      /\ IsFiniteSet(OpenSet)
      /\ mainPc \in MainSteps /\ todo \in SUBSET Callbacks
      /\ resetInProgress \in BOOLEAN /\ shutdown \in BOOLEAN /\ released \in BOOLEAN
  BY CountStays, ResetAssumption, FS_Subset
     DEF TypeOK, OpenSet, EngineTypes, GateTypes
<1> HIDE DEF OpenSet
<1> USE <1>0 DEF GateInv, MainSteps, Callbacks
<1>1. CASE \E t \in Publishers : MayStep(t) /\ (ScopeStep(t) \/ ScopeWork(t))
  <2>1. PICK t \in Publishers : ScopeStep(t) \/ ScopeWork(t)
    BY <1>1
  <2>2. UNCHANGED engineVars
    BY <2>1, PublisherFrame
  <2>3. CASE OpenScope(t) \/ ScopeWakes(t)
    BY <2>2, <2>3 DEF OpenScope, ScopeWakes, Enter, engineVars
  <2>4. CASE OpenSet' = OpenSet \ {t} /\ LeaveScope(t)
    BY <2>2, <2>4 DEF LeaveScope, engineVars
  <2>5. CASE OpenSet' = OpenSet /\ UNCHANGED gateVars
    BY <2>2, <2>5 DEF engineVars, gateVars
  <2>6. QED
    BY <2>1, <2>3, <2>4, <2>5, OpenSetSteps DEF TypeOK
<1>2. CASE MainStep \/ ResetBegins \/ ShaderRefresh \/ ExitGame
  <2>0. OpenSet' = OpenSet
    BY <1>2, MainFrame DEF scopeVars, OpenSet, Open
  <2> USE <2>0 DEF CallbackDone, gateVars, engineVars, NextCallback
  <2>1. CASE BeforeNative \/ BeforePool
    BY <2>1 DEF BeforeNative, BeforePool
  <2>2. CASE BarrierDrained
    <3>1. OpenSet = {}
      BY <2>2, FS_EmptySet DEF BarrierDrained, Drained
    <3>2. QED
      BY <3>1, <2>2 DEF BarrierDrained
  <2>3. CASE DrainTimesOut
    <3>1. OpenSet # {}
      BY <2>3, FS_EmptySet DEF DrainTimesOut
    <3>2. QED
      BY <3>1, <2>3 DEF DrainTimesOut
  <2>4. CASE ReleaseWalk
    BY <2>4 DEF ReleaseWalk
  <2>5. CASE BeforeForeign \/ BeforeDone
    <3>1. CASE BeforeForeign
      BY <3>1 DEF BeforeForeign
    <3>2. CASE BeforeDone
      BY <3>2 DEF BeforeDone
    <3>3. QED
      BY <2>5, <3>1, <3>2
  <2>6. CASE DeviceResets \/ DeviceFails
    BY <2>6 DEF DeviceResets, DeviceFails
  <2>7. CASE AfterNative \/ AfterPool
    BY <2>7 DEF AfterNative, AfterPool
  <2>8. CASE \E S, pruned, evicted \in SUBSET Pages : RebuildWalk(S, pruned, evicted)
    BY <2>8 DEF RebuildWalk
  <2>9. CASE LeaveBarrier
    BY <2>9 DEF LeaveBarrier
  <2>10. CASE AfterForeign \/ AfterDone
    BY <2>10 DEF AfterForeign, AfterDone
  <2>11. CASE PumpNative \/ PumpRecovers \/ PumpIdle
    BY <2>11 DEF PumpNative, PumpRecovers, PumpIdle, Orphaned
  <2>12. CASE \E S, pruned \in SUBSET Pages : PumpMaintains(S, pruned)
    BY <2>12 DEF PumpMaintains
  <2>13. CASE ResetBegins \/ ShaderRefresh \/ ExitGame
    BY <2>13 DEF ResetBegins, ShaderRefresh, ExitGame
  <2>14. QED
    BY <1>2, <2>1, <2>2, <2>3, <2>4, <2>5, <2>6, <2>7, <2>8, <2>9, <2>10, <2>11, <2>12,
       <2>13 DEF MainStep
<1>3. CASE UNCHANGED vars
  <2>1. OpenSet' = OpenSet
    BY <1>3 DEF vars, scopeVars, OpenSet, Open
  <2>2. QED
    BY <1>3, <2>1 DEF vars, gateVars, engineVars
<1>4. QED
  BY <1>1, <1>2, <1>3 DEF Next

-----------------------------------------------------------------------------
(* Pages and their owners.                                                     *)

\* Ownership of pages is handed over, never lost or doubled.
LEMMA HoldStep ==
    TypeOK /\ TypeOK' /\ GateInv /\ HoldInv /\ [Next]_vars => HoldInv'
<1> SUFFICES ASSUME TypeOK, TypeOK', GateInv, HoldInv, [Next]_vars PROVE HoldInv'
  OBVIOUS
<1>0. ScopeTypes /\ AtlasTypes /\ ScopeTypes' /\ AtlasTypes'
  BY DEF TypeOK
<1> USE <1>0 DEF ScopeTypes, AtlasTypes, HoldInv, Holding, InScope, Retire, Free
<1>1. ASSUME NEW t \in Publishers, ScopeStep(t) \/ ScopeWork(t) PROVE HoldInv'
  <2>1. CASE OpenScope(t) \/ ScopeWakes(t)
    BY <2>1 DEF OpenScope, ScopeWakes, Enter, atlasVars
  <2>2. CASE LeaveScope(t)
    BY <2>2 DEF LeaveScope, atlasVars
  <2>3. CASE ScopeWaits(t) \/ ScopeRefused(t) \/ CheckShadow(t)
    BY <2>3 DEF ScopeWaits, ScopeRefused, CheckShadow, atlasVars
  <2>4. CASE OpenProfiles(t) \/ \E p \in Pages : SealProfile(t, p)
    BY <2>4 DEF SealProfile, OpenProfiles, atlasVars
  <2>5. ASSUME NEW p \in Pages, BuildShadow(t, p) PROVE HoldInv'
    BY <2>5 DEF BuildShadow
  <2>6. ASSUME NEW p \in Pages, BuildTransient(t, p) PROVE HoldInv'
    BY <2>6 DEF BuildTransient
  <2>7. ASSUME NEW old \in SUBSET Cached, SwapProfile(t, old) PROVE HoldInv'
    BY <2>7 DEF SwapProfile, Cached
  <2>8. ASSUME NEW p \in Pages, NEW evicted \in SUBSET Cached, DemandPage(t, p, evicted)
        PROVE  HoldInv'
    BY <2>8 DEF DemandPage, Cached
  <2>9. CASE RegisterTransient(t)
    BY <2>9 DEF RegisterTransient
  <2>10. CASE DropHeld(t)
    BY <2>10 DEF DropHeld
  <2>11. ASSUME NEW made \in BOOLEAN, RetireShapeAtlas(t, made) PROVE HoldInv'
    BY <2>11 DEF RetireShapeAtlas
  <2>12. ASSUME NEW S \in SUBSET Pages, PruneRetired(t, S) PROVE HoldInv'
    BY <2>12 DEF PruneRetired, Prunable
  <2>13. QED
    BY <1>1, <2>1, <2>2, <2>3, <2>4, <2>5, <2>6, <2>7, <2>8, <2>9, <2>10, <2>11, <2>12
       DEF ScopeStep, ScopeWork
<1>2. CASE UNCHANGED scopeVars
  <2> USE <1>2 DEF scopeVars
  <2>1. CASE UNCHANGED atlasVars
    BY <2>1 DEF atlasVars
  <2>2. CASE DrainTimesOut \/ ReleaseWalk
    BY <2>2 DEF DrainTimesOut, ReleaseWalk
  <2>3. ASSUME NEW S \in SUBSET Pages, NEW pruned \in SUBSET Pages,
               NEW evicted \in SUBSET Pages, RebuildWalk(S, pruned, evicted)
        PROVE  HoldInv'
    BY <2>3 DEF RebuildWalk, Prunable, Walked, Registered, Retired, Cached
  <2>4. ASSUME NEW S \in SUBSET Pages, NEW pruned \in SUBSET Pages, PumpMaintains(S, pruned)
        PROVE  HoldInv'
    BY <2>4 DEF PumpMaintains, Prunable, Registered, Retired, Cached
  <2>5. ASSUME NEW t \in Publishers, PageChange(t) PROVE HoldInv'
    <3>1. pc'[t] # pc[t]
      BY <2>5 DEF PageChange, BuildShadow, BuildTransient, SwapProfile, DemandPage,
         RegisterTransient, DropHeld, RetireShapeAtlas, PruneRetired
    <3>2. QED
      BY <3>1
  <2>6. QED
    BY <2>1, <2>2, <2>3, <2>4, <2>5, Frames DEF AtlasChange
<1>3. QED
  BY <1>1, <1>2, Frames DEF ScopeChange

-----------------------------------------------------------------------------
(* The device without textures.                                                *)

\* Behind a drained barrier nobody is in a scope, so every texture is on a list.
LEMMA AllRegistered ==
    ASSUME TypeOK, GateInv, HoldInv, released
    PROVE  /\ \A t \in Publishers : ~Open(t)
           /\ bound \subseteq Registered
<1>1. \A t \in Publishers : ~Open(t)
  BY DEF GateInv, OpenSet
<1>2. \A p \in Pages : place[p] # "private"
  BY <1>1 DEF HoldInv, Holding, Open, InScope
<1>3. QED
  BY <1>1, <1>2 DEF TypeOK, AtlasTypes, HoldInv, Registered, Cached, Retired

\* From the release walk to the rebuild walk no step binds a texture.
LEMMA BoundStep ==
    TypeOK /\ GateInv /\ HoldInv /\ BoundInv /\ [Next]_vars => BoundInv'
<1> SUFFICES ASSUME TypeOK, GateInv, HoldInv, BoundInv, [Next]_vars PROVE BoundInv'
  OBVIOUS
<1> USE DEF BoundInv
<1>1. ASSUME NEW t \in Publishers, ScopeStep(t) \/ ScopeWork(t) PROVE BoundInv'
  <2>1. UNCHANGED <<mainPc, released>>
    BY <1>1, PublisherFrame
       DEF engineVars, gateVars, OpenScope, ScopeWakes, LeaveScope, Enter
  <2>2. CASE released
    <3>1. pc[t] \notin InScope
      BY <2>2, AllRegistered DEF Open
    <3>2. ~PageChange(t) \/ \E made \in BOOLEAN : RetireShapeAtlas(t, made)
      BY <3>1 DEF PageChange, InScope, BuildShadow, BuildTransient, SwapProfile,
         DemandPage, RegisterTransient, PruneRetired, DropHeld
    <3>3. UNCHANGED bound
      BY <1>1, <3>2, PublisherFrame DEF atlasVars, RetireShapeAtlas
    <3>4. QED
      BY <2>1, <3>3
  <2>3. QED
    BY <2>1, <2>2
<1>2. CASE MainStep \/ ResetBegins \/ ShaderRefresh \/ ExitGame
  <2> USE DEF CallbackDone, atlasVars, gateVars, engineVars, GateInv
  <2>1. CASE BeforeNative \/ BeforePool \/ BarrierDrained \/ DrainTimesOut
    BY <2>1 DEF BeforeNative, BeforePool, BarrierDrained, DrainTimesOut
  <2>2. CASE ReleaseWalk
    <3>1. bound \subseteq Registered
      BY <2>2, AllRegistered DEF ReleaseWalk
    <3>2. QED
      BY <3>1, <2>2 DEF ReleaseWalk, Walked
  <2>3. CASE BeforeForeign \/ BeforeDone \/ DeviceResets \/ DeviceFails
    BY <2>3 DEF BeforeForeign, BeforeDone, DeviceResets, DeviceFails
  <2>4. CASE AfterNative \/ AfterPool \/ LeaveBarrier \/ AfterForeign \/ AfterDone
    BY <2>4 DEF AfterNative, AfterPool, LeaveBarrier, AfterForeign, AfterDone
  <2>5. CASE \E S, pruned, evicted \in SUBSET Pages : RebuildWalk(S, pruned, evicted)
    BY <2>5 DEF RebuildWalk
  <2>6. CASE \E S, pruned \in SUBSET Pages : PumpMaintains(S, pruned)
    BY <2>6 DEF PumpMaintains
  <2>7. CASE PumpNative \/ PumpRecovers \/ PumpIdle
    BY <2>7 DEF PumpNative, PumpRecovers, PumpIdle
  <2>8. CASE ResetBegins \/ ShaderRefresh \/ ExitGame
    BY <2>8 DEF ResetBegins, ShaderRefresh, ExitGame
  <2>9. QED
    BY <1>2, <2>1, <2>2, <2>3, <2>4, <2>5, <2>6, <2>7, <2>8 DEF MainStep
<1>3. CASE UNCHANGED vars
  BY <1>3 DEF vars, atlasVars, gateVars, engineVars
<1>4. QED
  BY <1>1, <1>2, <1>3 DEF Next

-----------------------------------------------------------------------------
(* The native generation and the maintenance flag.                             *)

\* Every generation that is published is built for the device as it is, and the
\* before callback faulted it before the device can change.
LEMMA NativeStep == TypeOK /\ GateInv /\ NativeInv /\ [Next]_vars => NativeInv'
<1> SUFFICES ASSUME TypeOK, GateInv, NativeInv, [Next]_vars PROVE NativeInv'
  OBVIOUS
<1> USE DEF NativeInv, InitializeNative, CallbackDone, engineVars, nativeVars
<1>1. CASE \E t \in Publishers : MayStep(t) /\ (ScopeStep(t) \/ ScopeWork(t))
  BY <1>1, PublisherFrame
<1>2. CASE MainStep \/ ResetBegins \/ ShaderRefresh \/ ExitGame
  <2>1. CASE BeforeNative
    BY <2>1 DEF BeforeNative
  <2>2. CASE BeforePool
    BY <2>2 DEF BeforePool
  <2>3. CASE BarrierDrained \/ DrainTimesOut \/ ReleaseWalk
    BY <2>3 DEF BarrierDrained, DrainTimesOut, ReleaseWalk
  <2>4. CASE BeforeForeign \/ BeforeDone \/ DeviceFails
    BY <2>4 DEF BeforeForeign, BeforeDone, DeviceFails
  <2>5. CASE DeviceResets
    <3>1. nativeFault
      BY <2>5 DEF DeviceResets, GateInv
    <3>2. QED
      BY <3>1, <2>5 DEF DeviceResets
  <2>6. CASE AfterNative
    BY <2>6 DEF AfterNative
  <2>7. CASE AfterPool \/ LeaveBarrier \/ AfterForeign \/ AfterDone
    BY <2>7 DEF AfterPool, LeaveBarrier, AfterForeign, AfterDone
  <2>8. CASE \E S, pruned, evicted \in SUBSET Pages : RebuildWalk(S, pruned, evicted)
    BY <2>8 DEF RebuildWalk
  <2>9. CASE \E S, pruned \in SUBSET Pages : PumpMaintains(S, pruned)
    BY <2>9 DEF PumpMaintains
  <2>10. CASE PumpNative
    BY <2>10 DEF PumpNative
  <2>11. CASE PumpRecovers \/ PumpIdle
    BY <2>11 DEF PumpRecovers, PumpIdle
  <2>12. CASE ResetBegins
    BY <2>12 DEF ResetBegins, Callbacks
  <2>13. CASE ShaderRefresh \/ ExitGame
    BY <2>13 DEF ShaderRefresh, ExitGame
  <2>14. QED
    BY <1>2, <2>1, <2>2, <2>3, <2>4, <2>5, <2>6, <2>7, <2>8, <2>9, <2>10, <2>11, <2>12,
       <2>13 DEF MainStep
<1>3. CASE UNCHANGED vars
  BY <1>3 DEF vars
<1>4. QED
  BY <1>1, <1>2, <1>3 DEF Next

\* A page that waits for its texture stays known to the pump: no step takes it
\* to a list without raising the flag, and none that recomputes the flag misses it.
LEMMA PendingStep ==
    TypeOK /\ HoldInv /\ PendingInv /\ [Next]_vars => PendingInv'
<1> SUFFICES ASSUME TypeOK, HoldInv, PendingInv, [Next]_vars PROVE PendingInv'
  OBVIOUS
<1>0. ScopeTypes /\ AtlasTypes
  BY DEF TypeOK
<1> USE <1>0 DEF ScopeTypes, AtlasTypes, HoldInv, Holding, PendingInv,
        PendingIsMaintained, Retire, Free, Registered, Retired, Cached
<1>1. ASSUME NEW t \in Publishers, ScopeStep(t) \/ ScopeWork(t) PROVE PendingInv'
  <2>1. CASE OpenScope(t) \/ ScopeWakes(t)
    BY <2>1 DEF OpenScope, ScopeWakes, Enter, atlasVars
  <2>2. CASE LeaveScope(t)
    BY <2>2 DEF LeaveScope, atlasVars
  <2>3. CASE ScopeWaits(t) \/ ScopeRefused(t) \/ CheckShadow(t)
    BY <2>3 DEF ScopeWaits, ScopeRefused, CheckShadow, atlasVars
  <2>4. CASE OpenProfiles(t) \/ \E p \in Pages : SealProfile(t, p)
    BY <2>4 DEF SealProfile, OpenProfiles, atlasVars
  <2>5. ASSUME NEW p \in Pages, BuildShadow(t, p) PROVE PendingInv'
    BY <2>5 DEF BuildShadow
  <2>6. ASSUME NEW p \in Pages, BuildTransient(t, p) PROVE PendingInv'
    BY <2>6 DEF BuildTransient
  <2>7. ASSUME NEW old \in SUBSET Cached, SwapProfile(t, old) PROVE PendingInv'
    BY <2>7 DEF SwapProfile
  <2>8. ASSUME NEW p \in Pages, NEW evicted \in SUBSET Cached, DemandPage(t, p, evicted)
        PROVE  PendingInv'
    <3>1. UNCHANGED pending /\ pending \cap Registered' \subseteq Registered
      BY <2>8 DEF DemandPage
    <3>2. maintenancePending => maintenancePending'
      BY <2>8, Zenon DEF DemandPage
    <3>3. PendingIsMaintained'
      BY <3>1, <3>2
    <3>4. \A q \in pending : place'[q] # "free"
      BY <2>8 DEF DemandPage
    <3>5. \A u \in Publishers : pc'[u] \in {"built", "checked", "transient"} =>
             hold'[u] \cap pending' = {}
      BY <2>8 DEF DemandPage
    <3>6. QED
      BY <3>1, <3>3, <3>4, <3>5
  <2>9. CASE RegisterTransient(t)
    BY <2>9 DEF RegisterTransient
  <2>10. CASE DropHeld(t)
    BY <2>10 DEF DropHeld
  <2>11. ASSUME NEW made \in BOOLEAN, RetireShapeAtlas(t, made) PROVE PendingInv'
    BY <2>11 DEF RetireShapeAtlas
  <2>12. ASSUME NEW S \in SUBSET Pages, PruneRetired(t, S) PROVE PendingInv'
    BY <2>12 DEF PruneRetired, Prunable
  <2>13. QED
    BY <1>1, <2>1, <2>2, <2>3, <2>4, <2>5, <2>6, <2>7, <2>8, <2>9, <2>10, <2>11, <2>12
       DEF ScopeStep, ScopeWork
<1>2. CASE UNCHANGED scopeVars
  <2> USE <1>2 DEF scopeVars
  <2>1. CASE UNCHANGED atlasVars
    BY <2>1 DEF atlasVars
  <2>2. CASE DrainTimesOut
    BY <2>2 DEF DrainTimesOut
  <2>3. CASE ReleaseWalk
    BY <2>3 DEF ReleaseWalk, Walked, HasMaintenance
  <2>4. ASSUME NEW S \in SUBSET Pages, NEW pruned \in SUBSET Pages,
               NEW evicted \in SUBSET Pages, RebuildWalk(S, pruned, evicted)
        PROVE  PendingInv'
    BY <2>4 DEF RebuildWalk, Prunable, Walked, HasMaintenance
  <2>5. ASSUME NEW S \in SUBSET Pages, NEW pruned \in SUBSET Pages, PumpMaintains(S, pruned)
        PROVE  PendingInv'
    BY <2>5 DEF PumpMaintains, Prunable, HasMaintenance
  <2>6. ASSUME NEW t \in Publishers, PageChange(t) PROVE PendingInv'
    <3>1. pc'[t] # pc[t]
      BY <2>6 DEF PageChange, BuildShadow, BuildTransient, SwapProfile, DemandPage,
         RegisterTransient, DropHeld, RetireShapeAtlas, PruneRetired
    <3>2. QED
      BY <3>1
  <2>7. QED
    BY <2>1, <2>2, <2>3, <2>4, <2>5, <2>6, Frames DEF AtlasChange
<1>3. QED
  BY <1>1, <1>2, Frames DEF ScopeChange

-----------------------------------------------------------------------------
(* The inductive invariant and what it gives.                                  *)

\* Nobody is in a scope, no page exists and no reset began.
LEMMA InitInv == Init => ResetInv
<1> SUFFICES ASSUME Init PROVE ResetInv
  OBVIOUS
<1>1. OpenSet = {} /\ Cardinality(OpenSet) = 0
  BY FS_EmptySet DEF Init, OpenSet, Open, InScope
<1>2. Cardinality(Publishers) \in Nat
  BY ResetAssumption, FS_CardinalityType
<1>3. TypeOK
  <2>1. EngineTypes
    <3>1. 0 \in 0..MaxResets
      BY ResetAssumption
    <3>2. order \in [Callbacks -> 1..3]
      BY DEF Init
    <3>3. QED
      BY <3>1, <3>2 DEF Init, EngineTypes, MainSteps
  <2>2. GateTypes
    <3>1. 0 \in 0..Cardinality(Publishers) /\ 1 \in Nat
      BY <1>2
    <3>2. QED
      BY <3>1 DEF Init, GateTypes
  <2>3. ScopeTypes /\ AtlasTypes
    BY DEF Init, ScopeTypes, AtlasTypes
  <2>4. ProfileTypes /\ NativeTypes
    BY DEF Init, ProfileTypes, NativeTypes
  <2>5. QED
    BY <2>1, <2>2, <2>3, <2>4 DEF TypeOK
<1>4. GateInv
  BY <1>1 DEF Init, GateInv
<1>5. HoldInv /\ BoundInv
  BY DEF Init, HoldInv, Holding, BoundInv
<1>6. NativeInv /\ PendingInv
  BY DEF Init, NativeInv, PendingInv, PendingIsMaintained
<1>7. QED
  BY <1>3, <1>4, <1>5, <1>6 DEF ResetInv

\* ResetInv is inductive.
LEMMA NextInv == ResetInv /\ [Next]_vars => ResetInv'
  BY TypeStep, GateStep, HoldStep, BoundStep, NativeStep, PendingStep DEF ResetInv

\* ResetInv holds in every reachable state.
LEMMA InvariantHolds == Spec => []ResetInv
  BY InitInv, NextInv, PTL DEF Spec

\* Type correctness, with the number of counted publications never above the
\* number of publishers (DefaultPoolPublicationScope).
THEOREM TypeCorrect == Spec => []TypeOK
  BY InvariantHolds, PTL DEF ResetInv

\* The device is never reset while a DEFAULT-pool texture is bound
\* (EnterDefaultPoolResetBarrier and the release half of the callback).
THEOREM DeviceIsTextureFree == Spec => []ReleasedAtReset
<1>1. ResetInv => ReleasedAtReset
  BY DEF ResetInv, GateInv, BoundInv, ReleasedAtReset
<1>2. QED
  BY <1>1, InvariantHolds, PTL

\* A native generation that reports ready fits the device, however the callback
\* list was cut short (RendererResetRecoveryLatch, NativeRendererResetCallback).
THEOREM NativeFitsDevice == Spec => []NativeReady
<1>1. ResetInv => NativeReady
  BY DEF ResetInv, NativeInv, NativeReady
<1>2. QED
  BY <1>1, InvariantHolds, PTL

\* No page waits for its texture unknown to PumpDefaultPoolAtlasLifecycle.
THEOREM PendingIsKnown == Spec => []PendingIsMaintained
<1>1. ResetInv => PendingIsMaintained
  BY DEF ResetInv, PendingInv
<1>2. QED
  BY <1>1, InvariantHolds, PTL

-----------------------------------------------------------------------------
(* The gate of the code implements the abstract one.                           *)

\* A publisher's step is an entry, an exit, or a stutter of the gate.
LEMMA PublisherRefines ==
    ASSUME ResetInv, NEW t \in Publishers, ScopeStep(t) \/ ScopeWork(t)
    PROVE  [Gate!Next]_(Gate!vars)
<1> USE DEF Gate!vars, Gate!Next
<1>0. OpenSet = {u \in Publishers : Open(u)} /\ OpenSet' = {u \in Publishers : Open(u)'}
  BY DEF OpenSet, Open
<1>1. CASE OpenSet' = OpenSet \cup {t} /\ t \notin OpenSet /\ (OpenScope(t) \/ ScopeWakes(t))
  <2>1. ~released /\ released' = released
    BY <1>1 DEF ResetInv, GateInv, OpenScope, ScopeWakes, Enter
  <2>2. Gate!Enter(t)
    BY <1>0, <1>1, <2>1 DEF Gate!Enter
  <2>3. QED
    BY <2>2
<1>2. CASE OpenSet' = OpenSet \ {t} /\ t \in OpenSet /\ LeaveScope(t)
  <2>1. Gate!Leave(t)
    BY <1>0, <1>2 DEF Gate!Leave, LeaveScope
  <2>2. QED
    BY <2>1
<1>3. CASE OpenSet' = OpenSet /\ UNCHANGED gateVars
  BY <1>0, <1>3 DEF gateVars
<1>4. QED
  BY <1>1, <1>2, <1>3, OpenSetSteps DEF ResetInv, TypeOK

\* A step of the main thread begins a reset, ends one, or is a stutter.
LEMMA MainRefines ==
    ASSUME ResetInv, MainStep \/ ResetBegins \/ ShaderRefresh \/ ExitGame
    PROVE  [Gate!Next]_(Gate!vars)
<1> USE DEF Gate!vars, Gate!Next
<1>0. {t \in Publishers : Open(t)}' = {t \in Publishers : Open(t)}
  BY MainFrame DEF scopeVars, Open
<1>1. CASE BarrierDrained
  <2>1. {t \in Publishers : Open(t)} = {}
    <3>1. IsFiniteSet(OpenSet)
      BY ResetAssumption, FS_Subset DEF OpenSet
    <3>2. OpenSet = {}
      BY <1>1, <3>1, FS_EmptySet DEF BarrierDrained, Drained, ResetInv, GateInv
    <3>3. QED
      BY <3>2 DEF OpenSet
  <2>2. Gate!BeginReset
    BY <1>0, <1>1, <2>1 DEF Gate!BeginReset, BarrierDrained
  <2>3. QED
    BY <2>2
<1>2. CASE LeaveBarrier
  <2>1. Gate!EndReset
    BY <1>0, <1>2 DEF Gate!EndReset, LeaveBarrier, ResetInv, GateInv
  <2>2. QED
    BY <2>1
<1>3. CASE UNCHANGED released
  BY <1>0, <1>3
<1>4. QED
  BY <1>1, <1>2, <1>3, MainFrame
     DEF GateChange, gateVars, OpenScope, ScopeWakes, LeaveScope, Enter, BeforePool,
         DrainTimesOut, ExitGame

\* DefaultPoolPublicationScope and the reset barrier implement PublicationGate.
THEOREM GateImplemented == Spec => ImplementsGate
<1>1. Init => Gate!Init
  BY DEF Init, Gate!Init, Open, InScope
<1>2. ResetInv /\ [Next]_vars => [Gate!Next]_(Gate!vars)
  <2> SUFFICES ASSUME ResetInv, [Next]_vars PROVE [Gate!Next]_(Gate!vars)
    OBVIOUS
  <2>1. CASE UNCHANGED vars
    BY <2>1 DEF vars, scopeVars, gateVars, Gate!vars, Open
  <2>2. QED
    BY <2>1, PublisherRefines, MainRefines DEF Next
<1>3. QED
  BY <1>1, <1>2, InvariantHolds, PTL DEF Spec, ImplementsGate, Gate!Spec
=============================================================================
