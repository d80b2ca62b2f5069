------------------------------ MODULE CpuBudget ------------------------------
(* The CPU memory budget: leases account every allocation in one counter per   *)
(* category and in a total, each a separate relaxed atomic, and                *)
(* EnforceCpuMemoryBudget trims the two caches that can be rebuilt once the     *)
(* total is over the configured budget.  Threads allocate glyph bitmaps and    *)
(* metadata, drop them, and enforce the budget, in every order of the single   *)
(* loads, exchanges and lock regions.                                          *)
EXTENDS Naturals, Sequences, FiniteSets, FiniteSetsExt

CONSTANTS Threads,        \* the main thread, the prewarm worker
          Bitmaps,        \* GlyphBitmap objects, each of one byte
          Budget,         \* GetCpuMemoryBudget
          BitmapLimit,    \* GetBitmapCacheLimit during prewarm
          ReducedLimit,   \* and after it
          MaxMetadata,    \* bound on the metadata bytes of one thread
          MaxRing,        \* bound on the ring's reclaimable bytes
          MaxGeneration,  \* bound: no new allocation from this generation on
          NoThread

ASSUME BudgetAssumption ==
    /\ IsFiniteSet(Threads) /\ IsFiniteSet(Bitmaps)
    /\ {Budget, BitmapLimit, ReducedLimit, MaxMetadata, MaxRing, MaxGeneration}
           \subseteq Nat
    /\ NoThread \notin Threads

Categories == {"GlyphBitmap", "RuntimeMetadata"}

VARIABLES
    bytes, total, generation,      \* the counters
    lastGeneration, lastTotal,     \* what the last enforcement left
    enforcer,                      \* who holds EnforceCpuMemoryBudget's flag
    lru, reduced, lock,            \* the bitmap cache and FreeTypeState::mutex
    held,                          \* bitmaps a thread's shapes refer to
    metadata,                      \* per thread: bytes of its metadata lease
    ring, ringLock,                \* reclaimable ring maps and their mutex
    pc, after,                     \* per thread: step, and where a trim returns
    seen,                          \* per thread: what it loaded
    update, stage                  \* per thread: lease changes not yet applied

counters == <<bytes, total, generation>>
stamps   == <<lastGeneration, lastTotal, enforcer>>
cache    == <<lru, reduced, lock, held>>
other    == <<metadata, ring, ringLock>>
control  == <<pc, after, seen>>
work     == <<update, stage>>
vars     == <<counters, stamps, cache, other, control, work>>

-----------------------------------------------------------------------------
(* Leases.  A changed lease is a list of additions and removals; each is done  *)
(* in three atomic steps, by the thread that changed the lease and before it   *)
(* does anything else.                                                         *)
Add(c, n)    == [category |-> c, adds |-> TRUE,  amount |-> n]
Remove(c, n) == [category |-> c, adds |-> FALSE, amount |-> n]

ResetLease(c, old, new) ==
    IF old = new THEN <<>>
    ELSE (IF old = 0 THEN <<>> ELSE <<Remove(c, old)>>)
             \o (IF new = 0 THEN <<>> ELSE <<Add(c, new)>>)

Saturating(m, n) == IF n <= m THEN m - n ELSE 0
Smaller(m, n)    == IF m <= n THEN m ELSE n
Applied(u, value) == IF u.adds THEN value + u.amount
                     ELSE Saturating(value, u.amount)

\* What the total is changed by: a removal that hit zero removes less.
Effect(u) == IF u.adds THEN u
             ELSE [u EXCEPT !.amount = Smaller(@, bytes[u.category])]

AccountCategory(t) ==
    LET u == Head(update[t]) IN
    /\ update[t] # <<>> /\ stage[t] = "category"
    /\ bytes' = [bytes EXCEPT ![u.category] = Applied(u, @)]
    /\ IF Effect(u).amount = 0
         THEN /\ update' = [update EXCEPT ![t] = Tail(@)]
              /\ UNCHANGED stage
         ELSE /\ update' = [update EXCEPT ![t][1] = Effect(u)]
              /\ stage' = [stage EXCEPT ![t] = "total"]
    /\ UNCHANGED <<total, generation, stamps, cache, other, control>>

AccountTotal(t) ==
    /\ update[t] # <<>> /\ stage[t] = "total"
    /\ total' = Applied(Head(update[t]), total)
    /\ stage' = [stage EXCEPT ![t] = "generation"]
    /\ UNCHANGED <<bytes, generation, update, stamps, cache, other, control>>

AccountGeneration(t) ==
    /\ update[t] # <<>> /\ stage[t] = "generation"
    /\ generation' = generation + 1
    /\ stage' = [stage EXCEPT ![t] = "category"]
    /\ update' = [update EXCEPT ![t] = Tail(@)]
    /\ UNCHANGED <<bytes, total, stamps, cache, other, control>>

Account(t) == AccountCategory(t) \/ AccountTotal(t) \/ AccountGeneration(t)

-----------------------------------------------------------------------------
At(t, step)   == pc[t] = step /\ update[t] = <<>>
Goto(t, step) == pc' = [pc EXCEPT ![t] = step]
Nothing       == [total |-> 0, generation |-> 0, limit |-> 0, bitmap |-> {}]
\* Locals end with the call.
Return(t)     == Goto(t, "idle") /\ seen' = [seen EXCEPT ![t] = Nothing]
\* A trim goes on in its caller, or returns.
Resume(t)     == /\ IF after[t] = "idle" THEN Return(t)
                    ELSE Goto(t, after[t]) /\ UNCHANGED seen
                 /\ after' = [after EXCEPT ![t] = "idle"]
Does(t, changes) == update' = [update EXCEPT ![t] = changes] /\ UNCHANGED stage
MayAllocate(t) == At(t, "idle") /\ generation < MaxGeneration
InCache(b) == \E i \in DOMAIN lru : lru[i] = b
Alive(b)   == InCache(b) \/ \E t \in Threads : b \in held[t]

\* The i-th entry becomes the most recently used.
Touched(i) == <<lru[i]>> \o SubSeq(lru, 1, i - 1) \o SubSeq(lru, i + 1, Len(lru))

\* A glyph on demand is rasterised under the FreeType mutex; its bitmap is leased
\* when it is built, its cache entry when it is inserted, and a trim follows.
BuildGlyphBitmap(t, b) ==
    /\ MayAllocate(t) /\ lock = NoThread /\ ~Alive(b)
    /\ lock' = t
    /\ held' = [held EXCEPT ![t] = @ \cup {b}]
    /\ Does(t, <<Add("GlyphBitmap", 1)>>)
    /\ seen' = [seen EXCEPT ![t].bitmap = {b}]
    /\ Goto(t, "insert")
    /\ UNCHANGED <<counters, stamps, lru, reduced, other, after>>

\* A glyph of a prewarm batch is rasterised by a helper, outside the mutex, for
\* the thread that runs the batch.
RasterizeForBatch(t, b) ==
    /\ MayAllocate(t) /\ ~Alive(b)
    /\ held' = [held EXCEPT ![t] = @ \cup {b}]
    /\ Does(t, <<Add("GlyphBitmap", 1)>>)
    /\ seen' = [seen EXCEPT ![t].bitmap = {b}]
    /\ Goto(t, "built")
    /\ UNCHANGED <<counters, stamps, lru, reduced, lock, other, after>>

\* The mutex is taken again; another thread may have inserted the glyph meanwhile,
\* and then its bitmap is used.
InsertBatch(t) ==
    /\ At(t, "built") /\ lock = NoThread
    /\ lock' = t
    /\ \/ Goto(t, "insert") /\ UNCHANGED <<lru, held, seen>>
       \/ /\ \E i \in DOMAIN lru :
                 /\ lru' = Touched(i)
                 /\ held' = [held EXCEPT ![t] = @ \cup {lru[i]}]
          /\ seen' = [seen EXCEPT ![t].bitmap = {}]
          /\ Goto(t, "headroom")
    /\ UNCHANGED <<counters, stamps, reduced, other, after, work>>

\* The batch is stopped, times out or fails.
LoseBatch(t) ==
    /\ At(t, "built")
    /\ Return(t)
    /\ UNCHANGED <<counters, stamps, cache, other, after, work>>

InsertGlyphBitmap(t) ==
    /\ At(t, "insert")
    /\ \E b \in seen[t].bitmap : lru' = <<b>> \o lru
    /\ Does(t, <<Add("GlyphBitmap", 1)>>)
    /\ seen' = [seen EXCEPT ![t].bitmap = {}]
    /\ Goto(t, "headroom") /\ after' = [after EXCEPT ![t] = "idle"]
    /\ UNCHANGED <<counters, stamps, reduced, lock, held, other>>

FindCachedGlyphBitmap(t, b) ==
    /\ At(t, "idle") /\ lock = NoThread
    /\ \E i \in DOMAIN lru : lru[i] = b /\ lru' = Touched(i)
    /\ held' = [held EXCEPT ![t] = @ \cup {b}]
    /\ UNCHANGED <<counters, stamps, reduced, lock, other, control, work>>

\* A shape is destroyed: the last reference frees the bitmap, outside the mutex.
DropBitmap(t, b) ==
    /\ At(t, "idle") /\ b \in held[t]
    /\ held' = [held EXCEPT ![t] = @ \ {b}]
    /\ Does(t, IF InCache(b) \/ \E s \in Threads \ {t} : b \in held[s]
               THEN <<>> ELSE <<Remove("GlyphBitmap", 1)>>)
    /\ UNCHANGED <<counters, stamps, lru, reduced, lock, other, control>>

\* Pages, tables, mappings and payloads: leases no trim can take back.
ResizeMetadata(t, n) ==
    /\ At(t, "idle") /\ (n > metadata[t] => MayAllocate(t))
    /\ n # metadata[t]
    /\ metadata' = [metadata EXCEPT ![t] = n]
    /\ Does(t, ResetLease("RuntimeMetadata", metadata[t], n))
    /\ UNCHANGED <<counters, stamps, cache, ring, ringLock, control>>

\* The maps of the vertex ring and RefreshRingCpuMemoryLocked, under its mutex.
RefreshRing(t, n, step) ==
    /\ ringLock = NoThread
    /\ ring' = n
    /\ ringLock' = t
    /\ Does(t, ResetLease("RuntimeMetadata", ring, n))
    /\ Goto(t, "unlockRing") /\ after' = [after EXCEPT ![t] = step]
    /\ UNCHANGED <<counters, stamps, cache, metadata, seen>>

UseRing(t) == MayAllocate(t) /\ \E n \in 0..MaxRing : RefreshRing(t, n, "idle")

UnlockRing(t) ==
    /\ At(t, "unlockRing")
    /\ ringLock' = NoThread
    /\ Resume(t)
    /\ UNCHANGED <<counters, stamps, cache, metadata, ring, work>>

-----------------------------------------------------------------------------
(* TrimBitmapCache, with the mutex held: the limit is computed once, the       *)
(* counters are read again before every eviction.                              *)
ResolveHeadroom(totalBytes, categoryBytes, preferred) ==
    LET others == IF categoryBytes <= totalBytes THEN totalBytes - categoryBytes
                  ELSE totalBytes
    IN IF others >= Budget THEN 0 ELSE Smaller(preferred, Budget - others)

Limit == IF reduced THEN ReducedLimit ELSE BitmapLimit

ReadHeadroomTotal(t) ==
    /\ At(t, "headroom")
    /\ seen' = [seen EXCEPT ![t].total = total]
    /\ Goto(t, "limit")
    /\ UNCHANGED <<counters, stamps, cache, other, after, work>>

ReadHeadroomCategory(t) ==
    /\ At(t, "limit")
    /\ seen' = [seen EXCEPT ![t].limit =
                    ResolveHeadroom(seen[t].total, bytes["GlyphBitmap"], Limit)]
    /\ Goto(t, "trim")
    /\ UNCHANGED <<counters, stamps, cache, other, after, work>>

\* mutant: releases the bitmap although a shape still holds it
EvictReleases(t) ==
    /\ lru' = SubSeq(lru, 1, Len(lru) - 1)
    /\ Does(t, <<Remove("GlyphBitmap", 1), Remove("GlyphBitmap", 1)>>)
    /\ Goto(t, "trim")
    /\ UNCHANGED <<reduced, lock, held, after, seen>>

Evict(t) ==
    LET b == lru[Len(lru)] IN
    /\ lru' = SubSeq(lru, 1, Len(lru) - 1)
    /\ Does(t, <<Remove("GlyphBitmap", 1)>>
                   \o (IF \E s \in Threads : b \in held[s] THEN <<>>
                       ELSE <<Remove("GlyphBitmap", 1)>>))
    /\ Goto(t, "trim")
    /\ UNCHANGED <<reduced, lock, held, after, seen>>

TrimDone(t) ==
    /\ lock' = NoThread
    /\ Resume(t)
    /\ UNCHANGED <<lru, reduced, held, work>>

TrimByCategory(t) ==
    /\ At(t, "trim")
    /\ \/ /\ bytes["GlyphBitmap"] > seen[t].limit /\ lru # <<>>
          /\ Evict(t)
       \/ /\ bytes["GlyphBitmap"] > seen[t].limit /\ lru = <<>>
          /\ TrimDone(t)
       \/ /\ bytes["GlyphBitmap"] <= seen[t].limit
          /\ Goto(t, "trimTotal")
          /\ UNCHANGED <<cache, after, seen, work>>
    /\ UNCHANGED <<counters, stamps, other>>

TrimByTotal(t) ==
    /\ At(t, "trimTotal")
    /\ IF total > Budget /\ lru # <<>> THEN Evict(t) ELSE TrimDone(t)
    /\ UNCHANGED <<counters, stamps, other>>

StartTrim(t, step) ==
    /\ lock = NoThread
    /\ lock' = t
    /\ Goto(t, "headroom") /\ after' = [after EXCEPT ![t] = step]

SetBitmapCacheReducedAfterPrewarm(t) ==
    /\ At(t, "idle")
    /\ StartTrim(t, "idle")
    /\ reduced' = ~reduced
    /\ UNCHANGED <<counters, stamps, lru, held, other, seen, work>>

-----------------------------------------------------------------------------
(* EnforceCpuMemoryBudget: the check is made once before the flag is taken and  *)
(* once by the thread that holds it.                                           *)
\* A check that finds nothing to do gives the flag back if the thread holds it.
NothingToDo(t) ==
    /\ enforcer' = IF enforcer = t THEN NoThread ELSE enforcer
    /\ Return(t)

NextCheck(t, step) == Goto(t, step) /\ UNCHANGED <<enforcer, seen>>

ReadTotal(t) ==
    /\ At(t, "idle") \/ At(t, "claimed")
    /\ IF total <= Budget THEN NothingToDo(t)
       ELSE /\ seen' = [seen EXCEPT ![t].total = total]
            /\ Goto(t, "generation")
            /\ UNCHANGED enforcer
    /\ UNCHANGED <<counters, lastGeneration, lastTotal, cache, other, after, work>>

ReadGeneration(t) ==
    /\ At(t, "generation")
    /\ seen' = [seen EXCEPT ![t].generation = generation]
    /\ Goto(t, "compare")
    /\ UNCHANGED <<counters, stamps, cache, other, after, work>>

Proceed(t) == NextCheck(t, IF enforcer = t THEN "trimRing" ELSE "claim")

CompareGeneration(t) ==
    /\ At(t, "compare")
    /\ IF lastGeneration = seen[t].generation THEN NextCheck(t, "compareTotal")
       ELSE Proceed(t)
    /\ UNCHANGED <<counters, lastGeneration, lastTotal, cache, other, after, work>>

CompareTotal(t) ==
    /\ At(t, "compareTotal")
    /\ IF lastTotal = seen[t].total THEN NothingToDo(t) ELSE Proceed(t)
    /\ UNCHANGED <<counters, lastGeneration, lastTotal, cache, other, after, work>>

Check(t) ==
    \/ ReadTotal(t) \/ ReadGeneration(t)
    \/ CompareGeneration(t) \/ CompareTotal(t)

\* mutant: no test_and_set, the flag is taken from whoever holds it
ClaimAnyway(t) ==
    /\ At(t, "claim")
    /\ enforcer' = t /\ Goto(t, "claimed")
    /\ seen' = [seen EXCEPT ![t] = Nothing]
    /\ UNCHANGED <<counters, lastGeneration, lastTotal, cache, other, after, work>>

ClaimEnforcement(t) ==
    /\ At(t, "claim")
    /\ IF enforcer = NoThread
         THEN enforcer' = t /\ Goto(t, "claimed")
         ELSE UNCHANGED enforcer /\ Goto(t, "idle")
    /\ seen' = [seen EXCEPT ![t] = Nothing]
    /\ UNCHANGED <<counters, lastGeneration, lastTotal, cache, other, after, work>>

\* Clears the maps; entries of live payloads stay.
TrimNativeFontCpuCaches(t) ==
    /\ At(t, "trimRing")
    /\ \E n \in 0..ring : RefreshRing(t, n, "trimFreeType")

TrimFreeTypeCpuCaches(t) ==
    /\ At(t, "trimFreeType")
    /\ StartTrim(t, "stampGeneration")
    /\ UNCHANGED <<counters, stamps, lru, reduced, held, other, seen, work>>

StampGeneration(t) ==
    /\ At(t, "stampGeneration")
    /\ lastGeneration' = generation
    /\ Goto(t, "stampTotal")
    /\ UNCHANGED <<counters, lastTotal, enforcer, cache, other, after, seen, work>>

StampTotal(t) ==
    /\ At(t, "stampTotal")
    /\ lastTotal' = total
    /\ Goto(t, "release")
    /\ UNCHANGED <<counters, lastGeneration, enforcer, cache, other, after, seen,
                   work>>

ReleaseEnforcement(t) ==
    /\ At(t, "release")
    /\ enforcer' = NoThread
    /\ Return(t)
    /\ UNCHANGED <<counters, lastGeneration, lastTotal, cache, other, after, work>>

Enforce(t) ==
    \/ Check(t)
    \/ ClaimEnforcement(t) \/ TrimNativeFontCpuCaches(t)
    \/ TrimFreeTypeCpuCaches(t)
    \/ StampGeneration(t) \/ StampTotal(t) \/ ReleaseEnforcement(t)

Trim(t) ==
    \/ ReadHeadroomTotal(t) \/ ReadHeadroomCategory(t)
    \/ TrimByCategory(t) \/ TrimByTotal(t) \/ UnlockRing(t)

Use(t) ==
    \/ \E b \in Bitmaps :
           \/ BuildGlyphBitmap(t, b) \/ RasterizeForBatch(t, b)
           \/ FindCachedGlyphBitmap(t, b) \/ DropBitmap(t, b)
    \/ InsertBatch(t) \/ LoseBatch(t) \/ InsertGlyphBitmap(t)
    \/ \E n \in 0..MaxMetadata : ResizeMetadata(t, n)
    \/ UseRing(t)
    \/ SetBitmapCacheReducedAfterPrewarm(t)

-----------------------------------------------------------------------------
Init ==
    /\ bytes = [c \in Categories |-> 0] /\ total = 0 /\ generation = 1
    /\ lastGeneration = 0 /\ lastTotal = 0 /\ enforcer = NoThread
    /\ lru = <<>> /\ reduced = FALSE /\ lock = NoThread
    /\ held = [t \in Threads |-> {}]
    /\ metadata = [t \in Threads |-> 0] /\ ring = 0 /\ ringLock = NoThread
    /\ pc = [t \in Threads |-> "idle"] /\ after = [t \in Threads |-> "idle"]
    /\ seen = [t \in Threads |-> Nothing]
    /\ update = [t \in Threads |-> <<>>]
    /\ stage = [t \in Threads |-> "category"]

Next == \E t \in Threads : Account(t) \/ Use(t) \/ Trim(t) \/ Enforce(t)

Spec == Init /\ [][Next]_vars

-----------------------------------------------------------------------------
Steps == {"idle", "built", "insert", "headroom", "limit", "trim", "trimTotal",
          "unlockRing", "generation", "compare", "compareTotal", "claim",
          "claimed", "trimRing", "trimFreeType", "stampGeneration", "stampTotal",
          "release"}
Trimming  == {"insert", "headroom", "limit", "trim", "trimTotal"}
Enforcing == {"claimed", "trimRing", "trimFreeType", "stampGeneration",
              "stampTotal", "release"}

Changes == [category : Categories, adds : BOOLEAN, amount : Nat]

\* A thread inside a locked region holds the lock, the thread between its claim
\* and its release holds the flag, and only that thread stamps.  A bitmap has one
\* cache entry.  A changed lease is at most two updates, and a thread that has
\* none left is at the first step of the next.
TypeOK ==
    /\ bytes \in [Categories -> Nat] /\ total \in Nat /\ generation \in Nat
    /\ lastGeneration \in Nat /\ lastTotal \in Nat
    /\ lru \in Seq(Bitmaps)
    /\ \A i, j \in DOMAIN lru : lru[i] = lru[j] => i = j
    /\ reduced \in BOOLEAN
    /\ held \in [Threads -> SUBSET Bitmaps]
    /\ metadata \in [Threads -> 0..MaxMetadata] /\ ring \in 0..MaxRing
    /\ pc \in [Threads -> Steps]
    /\ after \in [Threads -> {"idle", "trimFreeType", "stampGeneration"}]
    /\ seen \in [Threads -> [total : Nat, generation : Nat, limit : Nat,
                             bitmap : SUBSET Bitmaps]]
    /\ update \in [Threads -> Seq(Changes)]
    /\ \A t \in Threads : Len(update[t]) <= 2
    /\ stage \in [Threads -> {"category", "total", "generation"}]
    /\ \A t \in Threads : update[t] = <<>> => stage[t] = "category"
    /\ lock \in Threads \cup {NoThread} /\ ringLock \in Threads \cup {NoThread}
    /\ enforcer \in Threads \cup {NoThread}
    /\ \A t \in Threads : lock = t <=> pc[t] \in Trimming
    /\ \A t \in Threads : ringLock = t <=> pc[t] = "unlockRing"
    /\ \A t \in Threads :
           enforcer = t => pc[t] # "idle"
    /\ \A t \in Threads :
           pc[t] \in Enforcing \/ after[t] # "idle" => enforcer = t

Sum(f, S) == MapThenSumSet(LAMBDA x : f[x], S)

Live == {b \in Bitmaps : Alive(b)}
\* What the leases stand for: every live bitmap, every cache entry, all metadata.
Leased(c) ==
    IF c = "GlyphBitmap" THEN Cardinality(Live) + Len(lru)
    ELSE ring + Sum(metadata, Threads)

\* Bytes the i-th of a list of changes adds to, or removes from, category c.
Part(changes, i, c, adds) ==
    IF /\ i \in DOMAIN changes
       /\ changes[i].category = c /\ changes[i].adds = adds
    THEN changes[i].amount ELSE 0

\* Bytes of the updates a thread, and all threads, still have to apply, additions
\* or removals of category c; a first update whose stage is "done" is not counted.
Due(t, c, adds, done) ==
    (IF stage[t] \in done THEN 0 ELSE Part(update[t], 1, c, adds))
        + Part(update[t], 2, c, adds)

Outstanding(c, adds, done) ==
    Sum([t \in Threads |-> Due(t, c, adds, done)], Threads)

\* Whatever thread is at whatever step of however many lease changes, a counter
\* and the changes still to be applied to it make up what is really allocated:
\* no addition is lost, nothing is released twice, and no removal ever meets a
\* counter smaller than itself, where saturation would forget bytes for good.
AccountingBalances ==
    /\ \A c \in Categories :
           bytes[c] + Outstanding(c, TRUE, {"total", "generation"})
             = Leased(c) + Outstanding(c, FALSE, {"total", "generation"})
    /\ total + Outstanding("GlyphBitmap", TRUE, {"generation"})
             + Outstanding("RuntimeMetadata", TRUE, {"generation"})
         = Leased("GlyphBitmap") + Outstanding("GlyphBitmap", FALSE, {"generation"})
             + Leased("RuntimeMetadata")
             + Outstanding("RuntimeMetadata", FALSE, {"generation"})
=============================================================================
