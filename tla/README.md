# tNVSE: specifications, model checks and proofs

tNVSE is an NVSE plugin for *Fallout: New Vegas*: a Win32 library in C++ that
the game loads and that replaces the game's bitmap fonts by FreeType fonts with
multi-byte text, an IME, and translated dialogue. Its own code is
`src/tnvse/Src` (about 107,000 lines); `src/tnvse/include`,
`src/tnvse/third_party` and `src/commonlib_nv` are vendored, `src/docs` holds
configuration files. The repository has no unit tests.

This directory holds TLA+ specifications of the part of the plugin that is
concurrent and stateful and therefore hardest to test, TLC configurations that
check them on small instances, and TLAPS proofs for every value of the
constants. `PROJECT.json` maps each definition to the lines it stands for.

## 1. The system

### 1.1 Components

| component | state | operations | hard part |
|---|---|---|---|
| **prewarm coordinator** (`font/font_prewarm_thread.cpp`, `font_prewarm_run_control.h`) | worker handle, flags, pending fonts, settled, the atlas request slot, run tokens | queue a font, start/stop/reap the worker, hand an atlas operation to the main thread, loading barrier, shutdown | two threads, two mutexes, atomics outside them, timeouts, quarantine of a hung worker |
| **prewarm progress overlay** (`game/prewarm_overlay_mailbox.h`, `game/native_tile_overlay_prewarm.cpp`, reporting in `font/font_prewarm_policy.cpp`) | latest-state mailbox, reporting flags, the component in the LoadingMenu tree | report, suspend, close, disable; consume | three threads; the tree belongs to the game and may be reclaimed |
| **prewarm session** (`font/font_prewarm.cpp`, `font_prewarm_session.cpp`, `font_prewarm_steps.cpp`) | job queues, active font, counters, retry budgets | one pump step per phase; retry, abort, roll back | nested retries, memory exhaustion and exceptions at any point, partial progress |
| prewarm raster worker pool (`font/vector/font_vector_glyph_raster.cpp`) | batch, helpers, poisoned flag | run a batch, stop with a grace period | helpers that do not stop |
| FreeType runtime and glyph generation (`font/vector/*`) | runtime fonts, faces, glyph maps | activate, rasterise, shared raster groups | sharing of an owner's double-byte glyphs |
| MSDF generators | none | pure numeric code | numeric |
| persistent glyph caches | mapped files | load, save, discard | torn files after a crash |
| **atlas snapshots** (`font/atlas/font_atlas_snapshot*.cpp`) | page files, rollback copies, resident pages, complete profiles | save, repack, share a page, roll back, load | a crash or a failure between two file operations; pages reloaded from files meanwhile replaced |
| **atlas resources and default pool**, atlas cache and artifacts | textures, wrappers, publication scopes, LRU, budget | publish, evict, retire, release, rebuild | device loss while another thread publishes |
| atlas shapes and pixels | none to speak of | build quads and pixel rows | numeric |
| native renderer, native text shapes (`font/native*`) | command buffer, ring, retained packets | record, submit, replay | stale retained data |
| **device reset recovery** (`font/native/font_reset_recovery_latch.h`, `font_native_shader.cpp`) | latch, shader generation, runtime fault | callbacks before and after a reset, main-loop recovery | a reset cancelled between two callbacks |
| text layout and encoding (`font/encoding*`, `font_text_*`) | code page tables | decode, measure, wrap | partial double-byte characters |
| **CPU memory budget** (`font/font_cpu_budget.cpp`) | counters, leases, enforcing flag | account, evict, trim, enforce | three separate atomics per change, eviction of what is still held |
| font performance reporting | counters | log | none |
| dictionary translation (`dictionary/*`) | dictionaries | load, match, translate | parsing |
| **input broker and IME** (`input/multibyte_input_{broker,ime,wndproc,tsf}.cpp`) | target and generation, session, captured messages, composition preview, context association | capture, process, associate, detach, watchdog | messages processed frames after they arrived; two sources for one composition; other plugins |
| menu search ownership (`input/menu_search_owner_state.h`) | owner of the search field | acquire, release, infer | stale owner |
| menu and mod compatibility, game hooks and overlays, save display names | hook sites | detect, patch, restore | order of other plugins |
| plugin entry and configuration (`tnvse.cpp`, `load_config.cpp`) | configuration | NVSE messages | order of messages |

### 1.2 How they interact

NVSE's `DeferredInit` message (`tnvse.cpp` 237-345) settles the cache route,
initialises the default-pool atlas, activates the configured fonts, and enters
`RunFreeTypeFontPrewarmLoadingBarrier`. The barrier starts one worker thread,
then loops: window messages, one atlas request of the worker, the end
conditions, the watchdog. The worker waits for pending fonts, moves them into
the session's queue and pumps the session, one step of a phase at a time. A
step that needs Direct3D puts a request into the coordinator's only slot and
waits. The session reports progress to the mailbox; LoadingMenu's update hook
reads it and draws. `ExitGame` stops and reaps the worker again.

    main thread                 worker                    LoadingMenu hook
    RunFontPrewarmLoading- <->  FontPrewarmWorkerMain
    Barrier         request       PumpFontPrewarm
                    slot            PrewarmSession  --->  PrewarmOverlayMailbox
                                    |
                                    v
                                PrewarmRasterWorkerPool -> its helpers

A step that needs new glyph bitmaps hands them to the raster pool as one batch
and waits for its helpers; `PrewarmRasterPool` models that call. What the
session sees of it, and of the atlas request, is a free outcome in
`PrewarmSession`; what the coordinator sees of the session is one in
`PrewarmCoordinator`.

What the worker and the main thread publish to the GPU goes through a
`DefaultPoolPublicationScope` (`PublicationGate`, `DeviceReset`): a device
reset closes the gate, waits for the publishers inside, releases every texture
and rebuilds it afterwards, from compact snapshots which the pool keeps or from
the page files which the snapshot code writes (`AtlasSnapshot`). All that the
font code allocates is accounted by leases of the CPU budget (`CpuBudget`).

Text input is a system of its own on the main thread: the window procedure
captures, the main loop works off (`TextInputSession`). It shares nothing with
the font code but the overlay that shows the candidates.

`PROJECT.json` lists the hazards at their lines; the properties below are named
there.

### 1.3 What makes each component correct

* *Coordinator*: a Direct3D operation runs at most once and its caller gets one
  answer, its own; the slot never has two users; "settled" means finished; the
  runtime state is never rolled back under a live worker; the game never goes
  on with a half-open transaction; and neither side can hang the other.
* *Overlay*: the screen follows the last command; the claim that hides the IME
  window ends with the run; nothing stays on the screen; a reclaimed tree is
  not written to.
* *Session*: no font is lost or done twice on its way through the queues; an
  alias waits for its owner; a memory failure loses no part of the code page;
  success means all configured profiles; all retries end; every way out
  releases what the transaction held.
* *Raster pool*: what is copied from a batch is complete; each item is written
  by one helper; no helper is in a batch that is over; a pool that gave up on a
  helper takes no more work.
* *Device reset*: no texture is bound when the device is reset; publishers and
  resets exclude each other; whatever interrupts a reset, the gate opens again,
  the native renderer comes back, and no page that waits for its texture is
  forgotten.
* *CPU budget*: each byte is released exactly once, by whoever drops it last;
  one thread at a time enforces.
* *Atlas snapshots*: what the code would load is one whole generation; a
  profile called complete is on disk; an undisturbed session repairs what a
  crash left.
* *Text input*: text stays in the field it was meant for; no key is swallowed
  by a composition that is not there; the IME follows the fields.

## 2. Modules

| module | kind | role |
|---|---|---|
| `AtlasRequestService` | abstract | what the worker is promised of an atlas request |
| `PrewarmCoordinator` | system | both threads, the slot, the stop, the barrier |
| `PrewarmCoordinatorProofs` | proofs | its theorems |
| `PrewarmOverlay` | system | mailbox, reporting, consumer, the game's tree |
| `PrewarmOverlayProofs` | proofs | its theorems |
| `PrewarmSession`, `MCPrewarmSession` | system, instance | the transaction the worker pumps |
| `PrewarmSessionProofs` | proofs | its theorems |
| `PrewarmRasterPool` | system | the raster helpers, their batches, the pool's stop |
| `PrewarmRasterPoolProofs` | proofs | its theorems |
| `PublicationGate` | abstract | what publishers and resets are promised of each other |
| `DeviceReset` | system | the pool's, the native renderer's and a foreign plugin's callbacks, publishers, main-loop recovery |
| `DeviceResetProofs` | proofs | its theorems |
| `CpuBudget`, `MCCpuBudget` | system, instance | leases, counters, bitmap cache, enforcement |
| `CpuBudgetProofs` | proofs | its theorems |
| `AtlasSnapshot` | system | page files of one physical group of fonts |
| `AtlasSnapshotProofs` | proofs | its theorems |
| `TextInputSession` | system | captured messages, session, IME context |
| `TextInputSessionProofs` | proofs | its theorems |

### 2.1 PrewarmCoordinator

Variables carry the names of `PrewarmCoordinatorState`, `PrewarmRunControl` and
`MainThreadAtlasRequest`. An action is one critical section, one atomic access
that another thread can observe, or one unlocked call; `mpc` and `wpc` are the
places of the two threads between them, and `stopPc` is the place of a thread
inside `RequestFontPrewarmStop`, whose four writes are four steps which both
threads may take at the same time.

| place | code |
|---|---|
| `enter` .. `watch` | the loop of `RunFontPrewarmLoadingBarrier`; `service`, `peek`, `claim`, `exec` are `ServiceFontPrewarmMainThread` before the peek, between peek and claim, and while the operation runs |
| `close`, `shut`, `reap`, `rollback`, `ended` | the end of the barrier, `ReapFontPrewarmWorker`, the rollback |
| `exitFlag` .. `exited` | `ShutdownFontPrewarm` |
| `wait` .. `tail` | the loop of `FontPrewarmWorkerMain`; `reqEnter`, `reqQueue`, `reqWait` are `ExecutePrewarmAtlasRequestOnMainThread` |
| `leave`, `closing`, `gone` | the worker's last critical section, its scope exit, its end |

What `PumpFontPrewarm` does between two accesses to shared state is left open:
it may make up to `MaxCalls` requests and return any status, with `session`
recording whether a transaction is open. This is weaker than `PrewarmSession`,
so what holds here holds with it. `begun`, `published`, `delivered` and
`refused` are history variables, used only by the properties.

`AtlasRequestService` says what the caller is promised: one request at a time,
begun at most once, a result published only while the caller still waits, one
answer per request, no refusal of a request whose result is published.
`Service` is the refinement mapping (`issued <- nextToken - 1`, the other
variables are the history variables).

### 2.2 PrewarmOverlay

`command .. requested` are `PrewarmOverlayMailbox`, whose operations run under
its lock and are operators here. `tracked .. progress` are the
`rebuildProgress*` flags of `PrewarmRuntimeState`; the worker's actions are the
calls of the session that report, in the order the session makes them. Which
phase follows which is kept, why it does is not. `todo` is a publication that a
reporting call still owes, since another thread may act between the two. The
consumer's steps are `ReadLatest`, one of the applying steps, `DisableRun` after
a failure, and `MarkConsumed`, so that a command published in between is
covered. `root`, `gone` and `shown` are the game's tree: LoadingMenu may replace
its root between two updates.

### 2.3 PrewarmSession

One `PumpFontPrewarm` call is one action, because `PrewarmRuntime` belongs to
the worker alone; the guards are the phases. `restoreJobs`, `generationJobs`,
`activeFont` and the counters are `PrewarmSession`; `left[f]` is what
`scan.nextCode` still has before it; `memory`, `restarts`, `deferrals` are the
job's counters. Outcomes of the calls into Direct3D, the caches and the raster
pool are free choices: restored or not, memory pressure, a failed batch, a
request that is not answered. `PumpThrows` is the exception handler of
`PumpFontPrewarm`: any step may throw, what it did to the queues is superseded
by the retry, and the retry may throw in turn (`ForcePrewarmTransactionRetryState`).
`DrainPendingFontPrewarm` queues another font between any two steps. An abort is
reported by the step that makes it, except before the first job: there the pump
returns "active" and the next call reports the failure (`RetryWithoutJobs`,
`PumpFails`).

### 2.4 PrewarmRasterPool

`workers .. poisoned` are `PrewarmRasterWorkerPool`. A batch is named by its
generation, and `size .. bitmaps` are its fields as functions of that name, so
that a helper that hung in an old batch still has one to come back to.
`failed` is either of the two failure flags. `hpc` is the place of a helper,
`index` and `end` its locals in a chunk; `cpc` is the place of the caller.

| place of a helper | code |
|---|---|
| `wait` | the condition variable in `WorkerMain` |
| `start`, `check`, `claim`, `items`, `build`, `cancel` | `PrewarmRasterBatch::Run`: the context, the outer loop, `fetch_add`, the inner loop, one item, `Cancel` after an exception |
| `report` | the critical section after `Run` |
| `leave`, `ending`, `gone` | the decrement of `liveWorkers`, the thread's end, its handle signalled |

One action is one critical section, one atomic access, or the rasterising of
one item. Both timeouts (`ExecuteTimesOut`, `StopTimesOut`) may fire whenever
what they wait for has not happened, and a helper need not move, so a hung
helper that comes back in a later batch is covered. The caller may go on after a
stop of the run, which the code does only to clean up: the model allows more.

### 2.5 DeviceReset

`mainPc` is the main thread's place in its frame or in `NiDX9Renderer::Reset`:

| place | code |
|---|---|
| `loop`, `pump` | the main loop; `HandleNativeFontShaderRendererMainLoop`, then `PumpDefaultPoolAtlasLifecycle` |
| `before`, `draining`, `releasing` | the list of before callbacks; the pool's waits for the publishers, then walks its pages |
| `device` | the device is reset, or fails to be |
| `after`, `rebuilding`, `leaving` | the after callbacks; the pool rebuilds and leaves the barrier. The main-loop recovery takes the same two steps (`recovering`) |

`order` is any registration order of the three callbacks. Each before callback
may cancel the reset, the device may fail, the foreign after callback may stop
the list. A publisher (`pc`, `epoch`, `hold`) opens a scope, builds a page,
checks that its epoch is still current, registers or drops it; one of the
publishers is the main thread itself, which publishes only between its other
steps. `place` says where a page's wrapper is, `bound` which pages have a
texture, `twins` which have a second retired wrapper that shares the property.
`released` is history: from the drained barrier to its reopening.

`PublicationGate` is the abstract specification: publishers enter and leave, a
reset begins only when none is inside, nobody enters while one runs. `Gate` is
the mapping (`inside <- {t : Open(t)}`, `resetting <- released`); a publisher
whose scope still waits for the gate is not inside.

Abstractions: a sealed direct profile stands for one page; nested scopes are
their outermost one; both wrappers of a twin page are rebuilt or neither; LRU
order, aliasing of textures, the refusal of a device that is not available, and
runtime faults outside resets are left out; the callbacks are registered from
the start; native resources are initialised by the main thread only, as the
code has it. The foreign plugin whose *before* callback is skipped is not
modelled.

### 2.6 CpuBudget

A lease change is a list of additions and removals (`update`, `stage`), each
three atomic steps: category, total, generation. `bytes .. generation` are the
counters of `CpuBudgetState`, `lastGeneration`, `lastTotal` its stamps, and
`enforcer` says who holds the `atomic_flag`. `lru`, `reduced`, `lock` are the
glyph bitmap cache and `FreeTypeState::mutex`; `held` are the bitmaps a thread
refers to beyond the cache: those of its shapes, and those being built. A glyph on
demand is built and inserted under the mutex (`BuildGlyphBitmap`). The glyphs of a
prewarm batch are built by the raster helpers, which lease their bitmaps without it
(`RasterizeForBatch`); the caller then takes the mutex and inserts each bitmap,
or finds the glyph in the cache and drops its own (`InsertBatch`), or loses the
batch (`LoseBatch`). Helpers act for the thread that waits for them, so they
are not threads of their own here; a batch is one glyph. `EnforceCpuMemoryBudget` is one action
per load, exchange, and lock region: `NothingToDo`, `ReadTotal`,
`ReadGeneration`, `CompareGeneration`, `CompareTotal`, `ClaimEnforcement`, the
two trims, `StampGeneration`, `StampTotal`, `ReleaseEnforcement`.

Each bitmap and each cache entry costs one byte; the budget never changes after loading
(`load_config.cpp:170`), so `lastEnforcedBudget` is left out; the saturation of
an addition at the top of the range is out of reach.

### 2.7 AtlasSnapshot

The unit is a physical group: font 1 owns the pages, the others may alias them.
Its roles are one single-byte role per font and *one* double-byte role, `Double`,
which all fonts share (`RolesOf(f) == <<f, Double>>`): `BuildPhysicalAtlasGroup`
admits only members whose double-byte profile key is the anchor's, the key ignores
the font, and the files are named by the key. So one font discards, publishes and
saves the files from which another was restored and by which it is called complete.
`disk` and `backup` are the page files and the rollback copies; each write of
content has a fresh name, so "the header matches the file" is equality of
names. `resident` and `complete` are `AtlasProfileIndex` and
`completeAtlasProfiles`, with the source header that a page keeps to be reloaded
from its file after a device reset. `todo` are the file operations a step still
has to make: between any two of them a file operation may fail, the process may
end, a device reset may rebuild the pages (unless `scope` shuts it out), and a
new session or process begins with what is on disk.

`pc` follows the worker: restoring a font (`RestoreOnePrewarmSnapshot`) or
discarding it, streaming it anew, discarding it once more when a batch fails
(`BatchFails`), publishing the stream, repacking it (`save`), restoring the
result, then, for the group, building the shared page, replacing the owner's
page, the aliases, the validation, and the rollback of all that. `fits` is
whether one page can hold the group, unknown until tried. `failures` and `events`
are bounded together by `MaxTroubles`.

Three history variables say what has failed: `leftovers` counts the deletions
that failed, ever; `intact` is true while no deletion and no rollback has failed
since the process began; `clean` while nothing has failed since the session began
(in a process that is not intact, no session is clean). Only the properties and
the proofs use them.

A crash is the end of the process: the operating system keeps what was written
(no torn writes). Rollback copies that a crash leaves are never read again nor
cleaned up, as in the code. The rollback walks a hash map; the model allows
any order. Not modelled: pools, packing, the ARGB path, the glyph manifest,
LRU reservations, sessions aborted because the restarts of a font are exhausted,
a staging of the published metadata that loads one role and fails at the other,
and the aliases of MTSDF double-byte profiles (`IsPrewarmAtlasAlias`, for which the
discard and the save of an alias font leave the double-byte files alone).

### 2.8 TextInputSession

`input` is `ImeState`, the captured queue, and what Windows keeps of the window
(`context`, `composition`, `started`, `closing`, `owed`). The functions of the
code that change it call one another, so they are operators from one record to
the next, with the code's names; the actions apply them. The code runs on the
window's thread alone: what interleaves are messages and reports, which Windows
delivers between any two steps of the main loop, and those which the calls
themselves provoke (`CancelGameImeComposition` makes the IME send its end at
once).

`pc` is `idle` outside `kMessage_MainGameLoop`, `pump` while `left` captured
messages of this frame are worked off, `watchdog` before
`PumpImeStatusWatchdog`. `open` and `visible` belong to the game. The
parameters `ok`, `fits`, `wide`, `repeats` are whether IMM does what an
association asks, whether a text can be inserted, and what kind of character
was typed.

A text edit menu (whose `Open` is hooked) and a search field (which the main
loop discovers) stand for the six kinds of target. Left out: candidate lists
and their overlay, the keyboard layouts (the layout is a configured IME), the
commit-key filter, the native ASCII guard, key messages, `WM_NCDESTROY`.

## 3. Runs

Bounds are named CONSTANTS. `CHECK_DEADLOCK FALSE` is used where the system
really stops: the coordinator after `exited`, overlay and session when the
threads have gone, the raster pool after its stop, the snapshots when no more
troubles are left. `DeviceReset`, `CpuBudget` and `TextInputSession` run for
ever, and deadlock is checked.

| run | what it asks | bounds | states |
|---|---|---|---|
| `coordinator_safety` | type invariant, `SlotOwnership`, `SettledMeansDrained`, `RollbackAfterWorker`, `BarrierVerdict`, `DeadWorkerReleasesBarrier`, and the refinement `ImplementsService` | 2 fonts, 3 request tokens, 2 requests a step | 1.5 million |
| `coordinator_liveness` | `BarrierEnds`, whatever the worker does; `WorkerReleased`, whatever the main thread does | 1 font, 2 tokens, 1 request a step | 378,852 |
| `overlay_safety` | `ClaimReleased`, `ScreenFollowsMailbox`, `ReclaimedTreeUntouched`, `OverlayLeaves` | progress 0..2, 3 commands, 2 roots | 1.0 million |
| `session_safety` | type invariant, `JobConservation`, `OwnersFirst`, `CompletionIsComplete`, `ResourcesReleased`, `PumpTerminates` | 3 fonts in one group (an owner, an alias of the owner's profile, an alias with its own), 2 scan units, budgets 2/1/2 | 86,584 |
| `raster_safety` | type invariant, `CompleteBatch`, `OneBuilder`, `NoStraggler`, `StopLeavesPoolSound`, `CallsComplete` | 2 helpers, 2 batches of up to 3 items, chunks of 2 | 1.7 million |
| `device_reset` | `ReleasedAtReset`, `NativeReady`, `PendingIsMaintained`, and the refinement `ImplementsGate` | 2 publishers, one of them the main thread, 2 pages, 2 resets | 3.6 million |
| `device_reset_ends` | `ResetEnds` | same with 1 page | 276,068 |
| `device_reset_leak` | `WrappersOwnTextures`: **violated** | same with 1 page | 17,000 until found |
| `cpu_budget` | type invariant, `AccountingBalances` | 2 threads, 2 bitmaps, budget 4, cache limit 3 and 1, 1 byte of metadata and of ring, 5 generations; threads and bitmaps symmetric | 2.0 million |
| `atlas_snapshot` | type invariant, `LoadableIsWhole`, `CompleteIsOnDisk`, `SessionHeals` | 2 fonts sharing the double-byte role, 2 pages, 10 contents, 3 troubles | 915,371 |
| `atlas_snapshot_fallback` | `ResetReusesSnapshot`: **violated** | same with 1 trouble | 5,000 until found |
| `text_input` | type invariant, `TextStaysInField`, `NoPhantomComposition`, `ImeFollowsFields` | queue of 2, 3 messages, 2 openings, 1 trouble | 2.3 million |

The type invariants of `PrewarmOverlay` and `DeviceReset` are proved (section 4)
and not run again.

Why the bounds are enough to be interesting:

* A second request token is needed for a late operation of the first to meet
  the next request, a third for the slot to be reused after that. Two fonts let
  one arrive while another is drained. `MaxToken` and `MaxCalls` only bound the
  length of a run; the proofs are for all values.
* Three commands cover an opening, a suspension and a close, with one unread;
  two roots are one replacement. `Full = 2` lets progress rise twice.
* Two scan units let a batch end in the middle of the code page and at its end.
  `MaxMemory = 2` lets a font fail once and retry, then fail for good; the
  code's limits (`kMaximumFontMemoryFailures` and the others) are larger, and
  the budgets enter the model only in comparisons. `MaxTransactions = 2` lets a
  restart be restarted. `MaxDeferrals = 2` is the code's own value.
* Three items in chunks of two make a full chunk and a short one, so that both
  helpers draw and one of them finds nothing left; a second batch is what a
  helper of the first can be late for.
* Two resets let one begin while the recovery of another is due; two pages let
  one be listed while another is in a publisher's hand. Resets are bounded only
  to keep the state space finite: the proofs are for any number.
* A bitmap in the cache is two bytes, its own and its entry's. Two of them reach
  the budget of 4 and exceed the cache limit of 3, so that metadata or ring decide
  whether the budget is exceeded; one exceeds the reduced limit of 1. So both
  trims evict, by the category and by the total. `MaxGeneration` stops new
  allocations, not releases.
* Two pages of a role let a crash separate them; two fonts are an owner and an
  alias, and the two that share the double-byte files. Ten contents never run out.
  `MaxTroubles = 3` is a failed deletion, a crash in a later save, and a failure of
  the session after it; or a failed save, its failed rollback, and a later session.
  The same properties were checked once with 2 pages and 4 troubles (5.0 million
  states), with 1 page and 7 troubles (2.0 million), and with 3 fonts, 1 page and 4
  troubles (377,662), and hold.
* Three messages are a composition with its result or its cancellation; two
  openings let the field change, or open again, under it; one trouble is a
  context taken away or given back, or an exit to the main menu. The queue of
  two overflows. The safety properties were also checked once with four
  messages, with two troubles, and with three openings (4 to 6 million states).

Every property of a run has a mutant in `PROJECT.json`: a definition of the
module changed as a plausible error in the code would change it (a dropped
test, a lost reset, a retry queued at the wrong end), for which TLC finds the
property violated. The operators marked `\* mutant` are those changed forms;
nothing else uses them.

### Fairness

* `MainFairness`: the main thread runs and the wall clock passes the
  deadlines. Nothing is assumed of the worker. Justified: the barrier waits
  with timeouts only (`WaitForSingleObject` with a slice, `GetTickCount64`).
* `WorkerFairness`: the worker runs and its waits time out. Nothing is assumed
  of the main thread: both waits in `ExecutePrewarmAtlasRequestOnMainThread`
  have deadlines, except that a request which was *abandoned* while executing
  is left to the main thread, and the worker does not wait for it.
  `BarrierEnds` and `WorkerReleased` have these two as premises instead of a
  specification each, because each property assumes only one side.
* `ConsumerFairSpec`: LoadingMenu keeps updating. That is the game's loop; when
  it ends, the tree is gone too.
* `PumpFairSpec`: the worker keeps pumping while the session lives.
* `HelperFairSpec`: helpers run, and the caller notices that all of them have
  reported (`Execute`) or exited (`Stop`). No fairness on the two timeouts: the
  property says that they are not needed. That no helper hangs is an
  assumption, not a fact of the code; the timeouts are there for when it fails,
  and the safety properties cover that case.
* `FairSpec` of `DeviceReset`: frames, a running reset and a running
  publication go on (weak fairness: every wait has a timeout). `PumpNative` is
  strongly fair: the main thread publishes between its other steps, and only
  finitely often in one frame, since a frame draws finitely many texts.
* `FairSpec` of `TextInputSession`: frames go on, and the game's window is found
  in the end (weak). `WatchdogFires(TRUE)` is strongly fair: the watchdog's
  250 ms are over again and again, and an association that is retried for ever
  succeeds some time. `ImeFollowsFields` speaks of the time after the last
  opening, closing, and interference; the bounds make that time come.

### What the runs show

The passing runs' properties all hold. Two runs are expected to fail, and
their counterexamples are findings in `PROJECT.json`:

* `device_reset_leak`. "Each wrapper owns a separate rebuilt D3D texture after
  reset" (`font_atlas_default_pool.cpp:157`). A transient atlas is retired
  twice, by its wrapper and by the copy of `CreateGlyphAtlasShape`, and both
  share the property: the rebuild walk creates a texture for each in the same
  renderer data, and the first one is lost unreleased.
* `atlas_snapshot_fallback`. "later resets reuse the validated snapshot"
  (`font_atlas_snapshot_load.cpp:228`). `MarkPhysicalAtlasGroupFallback`
  rewrites the headers of the owner's files in place while the resident pages
  keep the old ones, and `OpenCompactSnapshotPixels` refuses a file whose header
  differs.

Observations made on the way, which a reader of the
code may want to know:

* A font queued after the worker failed (`QueuePendingFontPrewarm` after the
  failed status was published) clears `settled`, and no worker is left to set
  it: the barrier then waits for its watchdog. `DeadWorkerReleasesBarrier`
  names exactly this exception; `BarrierEnds` shows that the watchdog covers it.
* `workerExited` is set before the worker's last writes to `PrewarmRuntime`.
  The rollback is safe only because the reap waits for the thread handle; the
  mutant that trusts the flag violates `RollbackAfterWorker`.
* A close that reaches the mailbox before the run is opened is dropped. The
  worker's own close, when it leaves, is what makes `ClaimReleased` hold.
* While the main thread executes an operation no other thread is in a position
  to stop the run except the worker whose request timed out, and its timeout has
  already abandoned the slot. The `Executing` case of `RequestFontPrewarmStop`
  and the last `return` of `ServiceFontPrewarmMainThread` are therefore never
  taken in this configuration of two threads; both are in the model.
* The deferral of an alias in `BeginNextPrewarmFont` is reached only if the
  owner itself has no job and another font stands in for its profile;
  otherwise the order of the jobs already puts the owner first (`OwnersFirst`).
* `PublishSealedDirectFontProfile` declares a profile available after it has
  released `atlasMutex` and inside no scope (`font_atlas_direct_build.cpp:908`),
  so this can happen during a reset; the model has the step, no property
  forbids it.
* The enforcement stamps total and generation after the trims
  (`font_cpu_budget.cpp:209`): what another thread allocates in between counts
  as enforced, until the next lease change.
* The double-byte files of a group are replaced by the save of each of its fonts.
  All fonts that need it are discarded before the first is generated, so what the
  first save put there is deleted only once, after the publication of the second
  font (`font_atlas_stream.cpp:589`), and nobody looks at the result. One such
  deletion that fails, and the end of the process inside the save of the second
  font, leave repacked pages of both saves that agree on count and flags: the
  loader takes them for one role. `BuildDirectGlyphAtlasTables` then rejects the
  result and the next session discards it (`SessionHeals` holds there). The
  single-byte pages are deleted twice, at the discard and at the publication, so
  for them it takes two failed deletions. `LoadableIsWhole` says exactly this
  (`Tolerated`).
* While the second font is published, the first font's double-byte profile stays
  called complete over files that are being replaced; it is invalidated only after
  the last (`font_atlas_stream.cpp:744`). If the publication fails in between, the
  profile is stale until the second font is tried again, which discards it. No
  state with the worker at rest shows it (`CompleteIsOnDisk`).
* `DiscardGlyphAtlasSnapshot` (`font_atlas_snapshot.cpp:496`) invalidates the
  profiles of its own font only. After a crash in the work on the group, a font can
  be restored from the owner's page although the owner was not: if the deletions of
  that page and of the double-byte page failed. The owner is then generated again
  and the font's profile stays called complete although what it was restored from
  is gone. It takes a crash, a failed load and two failed deletions at least (TLC
  finds it with 1 page and 5 troubles when `CompleteIsOnDisk` excepts failed
  rollbacks only); `intact` excepts failed deletions for this reason.
* After a rollback that itself failed, the owner's double-byte profile may stay
  called complete although its page was replaced (`font_atlas_snapshot_save.cpp:1098`
  says otherwise), and later sessions of the process need not repair it. So
  `CompleteIsOnDisk` speaks of processes in which no deletion and no rollback
  failed (`intact`), and in any other process no later session is `clean`. The files
  themselves are repaired by the next process, and no mixture is loaded from them.
* `NoPhantomComposition` excludes four courses (`irregular`), in each of which
  TLC finds a preview or composing flag that stays although the IME composes
  nothing, and `IsImeConsumingAscii` swallows keys, against the comment at
  `multibyte_input_ime.cpp:197`: a queue overflow drops
  `WM_IME_ENDCOMPOSITION`; a message captured before the session began is
  processed into a target that opened meanwhile, and its end is discarded as
  stale; a result that cannot be inserted leaves the handoff "ready", so the end
  preserves the preview; a report of the text service marks an armed handoff
  ready, with text of the old composition reported late, or of a next one
  cancelled before its start. All last until the next composition or target.
* The generation of a target token never decides in `text_input`: within a
  frame the target changes at most once before the captured messages are
  worked off. It is a second line of defence. A field closed and opened again
  between two frames, at the same address, is the same target for the code.
* A text edit menu that opens before the window procedure is installed gets no
  session from `TextEditMenuEx::Open`, nor from the watchdog until a message is
  processed; the model assumes it opens later.

## 4. Proofs

`PrewarmCoordinatorProofs` proves, for every set of fonts, every `MaxToken` and
every `MaxCalls` in `Nat` (`BoundsAssumption`, the only assumption):

| theorem | states |
|---|---|
| `TypeCorrect` | `Spec => []TypeOK` |
| `SlotOwnershipHolds` | `Spec => []SlotOwnership` |
| `SettledMeansDrainedHolds` | `Spec => []SettledMeansDrained` |
| `RollbackAfterWorkerHolds` | `Spec => []RollbackAfterWorker` |
| `BarrierVerdictHolds` | `Spec => []BarrierVerdict` |
| `DeadWorkerReleasesBarrierHolds` | `Spec => []DeadWorkerReleasesBarrier` |
| `ServiceImplemented` | `Spec => ImplementsService` |

None of these invariants is inductive alone. `SlotOwnership`, for instance,
says nothing of which token the worker waits for, and `RollbackAfterWorker`
rests on who owns the thread handle. The inductive invariant `IInv` has one part
per protocol:

* `StopInv`: whoever is inside a stop has set the flag; the run is never
  stopped without it while a worker exists.
* `OwnerInv`: the barrier closes before the worker is asked to leave; `worker`
  is true exactly from the creation of the thread to its join.
* `SlotInv`: `SlotOwnership`, and the worker waits for the newest token, the
  one in the slot.
* `TokenInv`: every token but the one waited for is answered; what is published
  is answered or lies in the slot. This is what the refinement needs.
* `SettledInv`: `settled` is false from the worker's wake to its next
  publication; when it is true with a good status, nothing is open.
* `EndInv`: how the worker left and what the barrier has seen at its end.

Each part is preserved by each action (`StopInvStep` .. `TokenInvStep`, one
step per action that changes something the part mentions, one case for the
rest); `IInvInit` and `IInvStep` combine them; the theorems follow with PTL.
`ServiceStep` maps each step to an action of `AtlasRequestService` or a
stutter: `RequestQueue` to `Issue`, `ServiceClaim` to `Begin`, `ServiceFinish`
to `Publish` or a stutter, `RequestResolves` to `Deliver` or `Refuse`,
`RequestTimesOut` to `Refuse`.

`PrewarmRasterPoolProofs` proves, for every number of helpers, items and
batches and every chunk in `Nat \ {0}` (`PoolAssumption`, the only assumption),
`Spec => []P` for `TypeOK` (`TypeCorrect`), `CompleteBatch`, `OneBuilder`,
`NoStraggler` and `StopLeavesPoolSound` (`CompleteBatchHolds` and so on). Its
`IInv` adds to them:

* `CallInv`, `HelperInv`: the caller's place tells what the pool's flags are;
  a helper runs only in the newest batch, and unless the pool is stopping only
  while that batch is active.
* `CountInv`: `completedWorkers` is the number of active helpers that have seen
  the newest generation and are out of it, and `liveWorkers` the number of
  threads. When the count reaches `activeWorkers`, a set as large as the set it
  is contained in is that set (`AllReportedLeft`): every helper has left, and so
  `NoStraggler` holds. The ranges in `TypeOK` follow from the same counts.
* `FreshInv`: a batch to come is as it was initialised.
* `ItemInv`: chunks are disjoint, below `nextWork`, and hold nothing built.
* `WorkInv`: only a failure or the timeout cancels the newest batch
  (`BlameInv`); while it is undisturbed, what is drawn is built or in a chunk
  (`CoverInv`), and a helper that is through has found nothing left to draw
  (`ThroughInv`).
* `DoneInv`: at "returned" helper 1 has been through the batch. With `WorkInv`
  this gives `AllBuilt`, from which `CompleteBatch` follows.

`PrewarmOverlayProofs` proves, for every progress range, every bound on
sequences and every set of roots, `Spec => []TypeOK`, `[]ClaimReleased`,
`[]ScreenFollowsMailbox` and `Spec => ReclaimedTreeUntouched`. `OverlayInv` adds
to the type invariant:

* `ClaimInv`: the claim on the screen is made only for an open run and only while
  the worker reports into it.
* `PhaseInv`: in which phases of the session it may report, and how it leaves.
* `TreeInv`, `ReadInv`: a tree given up is not LoadingMenu's and the component's
  tree is one it had; what was read is the mailbox's command or an older one.
* `ScreenInv`: what was read is on the screen unless it is still to be applied.

`DeviceResetProofs` proves, for every finite set of publishers and of pages and
every number of resets (`ResetAssumption`), `TypeCorrect`, `DeviceIsTextureFree`
(`[]ReleasedAtReset`), `NativeFitsDevice` (`[]NativeReady`), `PendingIsKnown`
(`[]PendingIsMaintained`) and `GateImplemented` (`Spec => ImplementsGate`).
`ResetInv` adds to the type invariant:

* `GateInv`: `activePublications` is the number of open scopes, and while
  `released` there is none. The count needs the cardinality of the set of open
  scopes (`OpenSetSteps`, `CountStays`).
* `HoldInv`: a page outside the lists has one owner, inside the gate. With `GateInv` every page is on a list when the barrier has drained
  (`AllRegistered`), so the release walk reaches it.
* `BoundInv`: from the release walk to the rebuild walk no page has a texture.
* `NativeInv`: a generation without fault was built for the current device, and
  before the device is reset it is faulted.
* `PendingInv`: only a listed page, or one about to be destroyed, waits for its
  texture; the maintenance flag covers the listed ones.

`PrewarmSessionProofs` proves, for every finite set of fonts, every assignment of
profiles and owners in which an owner owns itself, and all limits
(`SessionAssumption`), `Spec => []P` for `TypeOK`, `ResourcesReleased`,
`JobConservation`, `OwnersFirst` and `CompletionIsComplete`. `HoldInv` says in
which phases the transaction no longer holds the policy and the reserve. The
others follow from one inductive invariant, `IInv`:

* `PhaseOK`: which queues may hold jobs in which phase.
* `OnceOK`: no two jobs of a session are for one profile, within a queue
  (`Once`) or across them (`Four`). `JobConservation` says so of one long
  sequence; here each move touches two of four sets.
* `CountOK`: the lengths of the queues and the counters add up.
* `OrderOK`: from the sort on, aliases stay behind owners (`AliasesLast`), and
  while an alias is active only aliases wait. A restart of generation puts its
  font in front, which keeps this, since the font came from there.
* `DeferredOK`: the owner of a font that was deferred has no job anywhere.
* `VerdictOK`: a positive verdict is of all profiles (a set of profiles contained
  in a finite one and as large is that set), and outlasts the cleanup.
* `CoveredOK`, `ReportedOK`: a font drained beside a session, or after one that
  completed, gets no second job. Without it `status = "completed" => jobs = {}`
  is not inductive.

Most actions only move one job; `SessionStep` says what such a step must show,
and `FirstIs`, `EndsIs`, `StartsIs` and `FourRules` what it does to the queues.
The sort and the fold over configured fonts are covered by `InOrderIs` (an order
that is total has one enumeration of a finite set, by rank) and `FoldIn`.

`CpuBudgetProofs` proves, for every finite set of threads and of bitmaps (of one
byte each), every budget and every limit (`BudgetAssumption`), `TypeCorrect`,
`AccountingBalancesHolds` (`Spec => []AccountingBalances`) and
`NothingSaturates` (`Spec => []RemovalsFit`). What makes the balance hold is that
no release is ever cut short: `RemoveCpuMemoryUsage` clamps at zero, and a clamped
release would lose bytes for good. The balance says: counter plus additions still
to apply equals leases plus releases still to apply. Each addition to apply is
for something already leased (`Covered`), so the additions are at most the
leases, and every waiting release is still in the counter when its turn comes.
`IInv` adds to the types:

* `ControlOK`: where each lock and the enforcing flag is held, and by whom; a
  thread that trims inside an enforcement goes back to it (`Role`).
* `WorkOK`: a thread has at most one release and one addition to apply, in this
  order, none of zero bytes.
* `Apart`: a bitmap built and not yet inserted has one owner, also where it was
  built outside the mutex, so a glyph is not inserted twice and its entry leased
  once.
* `Inserting`, `Covered`: an addition still to be applied is for something that
  exists by then, and has its size.

`StepOK` and `ResumeOK` carry the control part of every action; what each does to
the sums (`SumChange`, `SumTerm`) is shown action by action in the second half.

The library's induction theorems cannot be instantiated here. `SubsetInduction`
(in each module that needs it) replaces them: the conclusion is membership in a set, and it
follows from the well-foundedness of strict inclusion on a finite set, a
first-order fact of the library. With it a fold's defining function is shown to
exist and to have the property wanted on every subset (`FoldsExist`, `SumsExist`):
sums over threads and folds over queues are reasoned about this way.

`TextInputSessionProofs` proves `TypeCorrect` and `Spec => []TextStaysInField`
for every capacity of the queue and every number of messages, openings and
troubles (`InputAssumption`). An insertion is safe if the token is current *and*
the target is a field that is open, so `InputInv` adds to the type invariant:

* `PumpInv`: while captured messages are worked off, the target is the one
  `ResolveCurrentTextInputTarget` finds for the open fields; outside of the pump
  nothing is inserted.
* `Sound` (of the state in `input`): the queue is within its capacity, and a
  captured character carries a token (`CharsBound`); only unbound composition
  messages reach their handler without the check.

The code's functions call each other five deep and each may lose or move the
target, so each has a lemma of its own: it leads from a sound state to a sound
state and drops no message (`Keeps`), or moreover leaves the target alone
(`Stays`). The functions that synchronise the target `Keep`, and `Stay` if the
target is the game's already (`SessionKeeps`), which `PumpInv` provides.

`NoPhantomCompositionHolds` (`Spec => []NoPhantomComposition`) is about the end of
a course and needs to know, all along it, what will put the code right. What the
code shows lags behind the IME by the captured messages and the text service's
report, so `CompositionInv` says, of the messages of the current generation:

* `TokensOK`: no token is of a later generation, and a current one is of the
  present target and session. A new generation thus frees everything below from
  what was captured before it (`FreshRight`).
* `MessagesOK`: a message of a composition is followed by the message that ends
  it, unless the composition goes on (`Busy`).
* `ShownOK`: a composition shown because of IMM's messages goes on, or its end or
  result is in the queue (`EndsAfter`).
* `FallbackOK`, `TextOK`: one shown because of the text service's report is ended
  by the next report, which is owed or has come, or by a message where the report
  of the next composition replaces it. `TextOK` must speak of the messages after
  those of this frame: a report is taken before them and believed until the next.
* `ClosedOK`, `RegularOK`: without the window procedure, or without a session,
  nothing is shown.

While one message is handled its effect is missing from the queue and not yet in
what is shown. `Right` has a stage for that: between the two, what is shown need
not be right (`ended`), and a message that shows something has its end in the
queue (`begun`). The order in which the code associates the context before it
handles the message is what makes `Right` hold at each call (`ProcessRight`).

`AtlasSnapshotProofs` proves, for any numbers of fonts, pages, contents and
troubles (`SnapshotAssumption`), `TypeCorrect` and `LoadableIsWholeHolds`
(`Spec => []LoadableIsWhole`). A page file is loaded as part of a role only if it
is repacked and its header counts the same pages as the others, so it is enough
that two repacked pages of one role and one count have one content (`WholeOK`),
on the disk and among the rollback copies. For a role `r` with at most
`Tolerated(r)` failed deletions, whatever else failed, this is kept for three
reasons, each a part of `IInv`:

* `GenerationOK`, `PublishOK`, `StreamedOK`: a save replaces files which the
  publication before left unrepacked. A single-byte page survives the publication
  repacked only if its deletion failed twice, once when the font was discarded and
  again at the publication. Double-byte pages may have been repacked by another
  font in between: the publication has them `ToDo` once, and one failure is enough.
* `WrittenOK`: what a save has put and still puts is of one content, in one role.
* `GroupOK`: while the group is worked on, each file is like its rollback copy,
  or is the only page of its role (`Undoable`), also half way through marking,
  saving and rolling back. A restoration that fails leaves a file of one of these
  two kinds, so a rollback may fail anywhere.

`ControlOK` and `QueuesOK` say for which font each step works, on which role, and
that no font waits twice; `CountedOK` that a header counts its page. The queue of file
operations is a sequence that is concatenated, flattened and shortened; lemmas on
sequences (`JoinIs`, `Removed`, `FlattenIn` and so on) lead from it to the set
`Pending` of operations left, of which alone the invariant speaks.

`CompleteIsOnDiskHolds` (`Spec => []CompleteIsOnDisk`) and `SessionHealsHolds`
(`Spec => []SessionHeals`) need a second invariant beside `IInv`: `HInv`
(`Consistent`: `Spec => []HInv`). Whatever fails, a page file is known for what it
is (`KnownOK`: the payload of a single-byte page is in its own file or the owner's
page) and nothing is marked before a group was found not to fit (`UnmarkedOK`).
While no deletion and no rollback has failed in the process (`intact`), whatever
earlier processes left, `Healing` relates the profiles in memory to the files:

* `FontsOK`: a role that is complete matches its files, page by page, and is of one
  generation, and the roles of fonts that no longer wait are complete. When the
  queues are empty all roles are complete, which is what `SessionHeals` asks. Two
  exceptions are needed while fonts are restored and generated. `Stale(r)`: the
  double-byte role does not match while another font publishes over it, nor until
  a font whose publication failed is tried again, and that attempt cannot succeed
  (its own streamed page is not repacked), so it discards; and a role whose payload
  was in the owner's page does not match after that was discarded. `Mixed(r)`: a
  role of the font to be restored next may have been loaded from a mixture of an
  earlier process and still waits for its tables to be rejected.
* `AuthorOK`, `BlankOK`: a font's work writes and deletes the files of its own
  single-byte role and of the shared double-byte role only, and a font that is
  generated has no page that could be loaded meanwhile.
* `OrderOK`, `OwnerOK`: the owner is the first in the queue. A crash in the middle
  of the group's work may have led some fonts' aliases to the owner's page and not
  others' (`Sharing`). If the owner must be generated, the double-byte role is gone
  from disk and memory (`NoDouble`), so each font that shares the page fails to be
  restored and is discarded as well, before the owner's new page can be taken
  for the old one.

While the group is worked on no font is. Then `OwnFirstOK` and `AliasesOK` say that
the owner's page is replaced before all others, so that a crash at any point leaves
the owner loadable, or nobody shared; `UnmarkedOK`
and `PayloadOK` that marks are the only difference between a page and its header in
memory; `BackupOK` and `UndoneOK` that a rollback that works restores files which
could be loaded, each of one generation, and is followed by their reload.

Each action has a lemma (`RestoreSnapshotHeals` to `SessionsHeal`) that leads from
`IInv /\ HInv` to `HInv`; those of one font share `FontDoneHeals` and `FontGoesOn`, those
of the group `GroupDoneIs`, `GroupEnds` and `RollbackStarts`.

Each property is stated with the exception under which it holds: a count of
failed deletions per role for `LoadableIsWhole`, `intact` for `CompleteIsOnDisk`,
`clean` for `SessionHeals` (section 3 describes what happens beyond them).

Every invariant, action property and refinement that a passing run checks is
thereby stated by a theorem. Only model-checked: the liveness properties (fairness
and ENABLED are outside the prover's reach).

## 5. Assumptions

* `DeferredInit` enters the barrier once, before `ExitGame`; `StartFontPrewarm-
  Worker` has no other caller. A process has one run, so run tokens are left
  out and tests against an older run never differ.
* `WM_QUIT` comes at most once; a message dispatched by the barrier may activate
  a font, which `QueuePendingFontPrewarm` at any time covers.
* The configurations are fixed and not empty, and runtime fonts are not
  removed, so a queued job stays valid (the "cancelled" branches cannot be
  reached).
* `FinalizeFreeTypeNativeRendererDetection` has settled the cache route before
  the barrier, and it is one that builds atlases (not `ArgbFallback`).
* A root of LoadingMenu has an address no earlier root had, and changes only
  between two updates of the hook. The 32-bit sequence does not wrap.
* The per-batch limit on allocation retries never trips before the font's own
  limit, so the model has one limit. The queue `jobs` is a set, since
  `PrepareIncrementalSession` sorts it before it is used.
* The session assumes that a trim throws at most once: the enforcing flag then
  stays set and disables it. `CpuBudget` has no trim that throws.
* One thread at a time calls the raster pool: the worker, and the main thread
  only after it has joined the worker. The dispatch mutex is then never
  contended, and its timeout (`dispatchLock`) never taken.
* Windows delivers `WM_IME_*` messages on the window's thread, which is the main
  thread (`TryInstallWindowProc` refuses another one), and the text service
  reports there.
* File operations of one process are seen by the next in their order.

## 6. Not modelled, and why

* Heartbeats, milestones, logging, the watchdog's arithmetic (a deadline that
  may pass at any time stands for it).
* Batch sizing and memory estimates: numbers that decide only how large a step
  is; `GenerateOnePrewarmBatch` leaves the size open.
* The cleanup of physical groups, pools, masks and files: it decides nothing
  about the transaction (`CleanupStep`).
* In the modelled parts, what sections 2.5 to 2.8 name as left out.
* The adapters to other mods' menus (JIP, Stewie, MCM Extender, Modern Help,
  dialogue history): each discovers a search field in that mod's objects; one
  generic search field stands for them.
* The native renderer's command buffer, ring and retained packets, and the
  native text shapes: one thread, over objects of the engine which the
  repository does not define.
* The persistent bitmap cache and the glyph manifest.
* Rendering, rasterisation, MSDF generation, text shaping, dictionary loading:
  numeric or data-bound code without the interleavings and failures a model
  checker is for.
* Vendored code.

## 7. Plan

Done, in the order of importance: the coordinator with its abstract service,
overlay, session and raster pool; device resets with their abstract gate; the
CPU budget; the atlas snapshots; text input; proofs for the coordinator, the pool,
the overlay, the session, device resets, the CPU budget, text input, and the
integrity and recovery of the page files.

Left:

1. The adapters of the search fields and `menu_search_owner_state.h`, a pure
   decision function to be checked against a reference; the candidate overlay.
2. The atlas budget's choice (`font_atlas_budget_lru_policy.h`) and the shared
   raster groups of `ConfigureMtsdfSharedRasterGroups`.
3. The persistent bitmap cache: append, torn tail, truncation at the next open.
4. The arithmetic of `PrewarmProgressWatchdog`.
