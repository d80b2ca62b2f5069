---------------------------- MODULE AtlasSnapshot ----------------------------
(* The atlas snapshots of one physical group of fonts.  The prewarm worker     *)
(* restores each font from its page files, or discards them, streams new ones, *)
(* repacks those and restores the result; at the end it moves all fonts of the *)
(* group to one shared page.  Pages are replaced one file at a time, so        *)
(* between any two replacements the process may be gone, a replacement may     *)
(* fail, and the main thread may rebuild the textures from the files.          *)
EXTENDS Integers, Sequences, SequencesExt

CONSTANTS NumFonts,       \* members of the group; font 1 is its owner
          MaxPages,       \* kMaximumAtlasSnapshotPages
          MaxGeneration,  \* bound: names for page contents in use at one time
          MaxTroubles     \* bound: failed I/O, allocations, refused scopes, ends
                          \* of the process, device resets and later prewarm
                          \* sessions of a process, all together

ASSUME SnapshotAssumption ==
    /\ {NumFonts, MaxPages} \subseteq Nat \ {0}
    /\ {MaxGeneration, MaxTroubles} \subseteq Nat

Fonts    == 1..NumFonts
Pages    == 1..MaxPages
NoFont   == 0

\* The roles of the group: the single-byte role of each font, under the font's
\* number, and the one double-byte role.  A profile has no font in its key and
\* its files are named by it, so the fonts share the double-byte files.
Double     == NumFonts + 1
Roles      == Fonts \cup {Double}
Keys       == Roles \X Pages
RolesOf(f) == <<f, Double>>
OwnerRole  == 1
Own(f)     == ToSet(RolesOf(f))
GroupRoles == <<OwnerRole, Double>> \o [i \in 1..(NumFonts - 1) |-> i + 1]

\* A page file: the content it holds (0: there is no file), the header's page
\* count and flags, and the role whose page of the same index has the payload.
File == [content : 0..MaxGeneration, count : 0..MaxPages, repacked : BOOLEAN,
         marked : BOOLEAN, payload : Roles]
Missing == [content |-> 0, count |-> 0, repacked |-> FALSE, marked |-> FALSE,
            payload |-> OwnerRole]
NoFiles == [k \in Keys |-> Missing]

VARIABLES
    disk, backup,          \* the page files, the rollback copies
    resident, complete,    \* AtlasProfileIndex, completeAtlasProfiles
    pc, queue, generation, \* the worker: its step, restoreJobs, generationJobs
    font,                  \* the active font, NoFont for the group
    role, targets,         \* the role being saved and the roles to alias to it
    todo,                  \* file operations of the step not yet made
    restored, next,        \* the rollback: did all of it work, and what follows
    fits,                  \* can one page hold the group? "open" until tried
    scope,                 \* a publication scope shuts device resets out
    intact,                \* history: since the process began no deletion and no
                           \* rollback failed
    clean,                 \* history: nor did anything since the session began
    leftovers,             \* history: the deletions that failed
    failures, events

files   == <<disk, backup>>
memory  == <<resident, complete>>
jobs    == <<queue, generation, font>>
saving  == <<role, targets>>
undoing == <<restored, next, scope, fits>>
faults  == <<intact, clean, leftovers, failures>>
vars    == <<files, memory, pc, jobs, saving, todo, undoing, faults, events>>

-----------------------------------------------------------------------------
(* Reading.  An alias file repeats the header of the page that has its payload. *)
IsFile(k)     == disk[k].content # 0
Source(r, p)  == <<disk[<<r, p>>].payload, p>>
Header(r, p)  == disk[Source(r, p)]
HasPayload(r, p) ==
    /\ IsFile(<<r, p>>)
    /\ Header(r, p).content = disk[<<r, p>>].content
    /\ Header(r, p).payload = Source(r, p)[1]
Count(r)      == disk[<<r, 1>>].count

\* A role is staged from any pages that agree on their number, and loaded only
\* from repacked ones (the layout flags are set by the repacker alone).
Stageable(r) ==
    /\ Count(r) # 0
    /\ \A p \in 1..Count(r) :
           HasPayload(r, p) /\ disk[<<r, p>>].count = Count(r)

\* mutant: streamed pages, replaced but not yet repacked, are loaded as well
LoadableUnpacked(r) == Stageable(r)

Loadable(r) ==
    Stageable(r) /\ \A p \in 1..Count(r) : disk[<<r, p>>].repacked

\* mutant: an alias page is to be read from the alias file
PagesFromAlias(r, texture) ==
    [p \in 1..Count(r) |-> [source |-> <<r, p>>, header |-> Header(r, p),
                            texture |-> texture]]

\* A resident page keeps the path and the header it was read from; its pixels
\* are read again, from that path and only if the header is still the same.
PagesFrom(r, texture) ==
    [p \in 1..Count(r) |-> [source |-> Source(r, p), header |-> Header(r, p),
                            texture |-> texture]]
Readable(page) == disk[page.source] = page.header
SourcesReadable(r) == \A p \in DOMAIN resident[r] : Readable(resident[r][p])

\* All pages of one content: what the tables of a whole code page need.
TablesReady(r, pages) ==
    \A p, q \in DOMAIN pages[r] :
        pages[r][p].header.content = pages[r][q].header.content

InUse == {disk[k].content : k \in Keys} \cup {backup[k].content : k \in Keys}
         \cup UNION {{resident[r][p].header.content : p \in DOMAIN resident[r]} :
                     r \in Roles}
Unused == (1..MaxGeneration) \ InUse
Fresh  == CHOOSE g \in Unused : \A h \in Unused : g <= h
Fresh2 == CHOOSE g \in Unused \ {Fresh} : \A h \in Unused \ {Fresh} : g <= h

-----------------------------------------------------------------------------
Trouble == failures + events < MaxTroubles
Failure == Trouble /\ failures' = failures + 1 /\ clean' = FALSE
Works == UNCHANGED faults
Fails == Failure /\ UNCHANGED <<intact, leftovers>>
\* n files stay that the worker takes for gone, or as they are not.
Leaves(n) == Failure /\ intact' = FALSE /\ leftovers' = leftovers + n

(* File operations, in the order of the list.  Replacements are atomic; what a *)
(* failed one means depends on the step, a failed deletion only leaves a file. *)
(* An operation that changes nothing (the deletion of a file that is not there,*)
(* a mark on a page that has it) does not fail.                                *)
Put(k, file) == [key |-> k, file |-> file]
Deletes(r, first, last) ==
    [i \in 1..(last + 1 - first) |-> Put(<<r, first + i - 1>>, Missing)]
NewFile(g, n, packed, r) == [content |-> g, count |-> n, repacked |-> packed,
                             marked |-> FALSE, payload |-> r]
Puts(r, n, file) == [p \in 1..n |-> Put(<<r, p>>, file)]

Succeeds ==
    /\ disk' = [disk EXCEPT ![Head(todo).key] = Head(todo).file]
    /\ todo' = Tail(todo)
    /\ Works
    /\ UNCHANGED <<backup, memory, pc, jobs, saving, undoing, events>>

DeleteFails ==
    /\ Head(todo).file = Missing /\ IsFile(Head(todo).key)
    /\ Leaves(1)
    /\ todo' = Tail(todo)
    /\ UNCHANGED <<files, memory, pc, jobs, saving, undoing, events>>

\* A page cannot be replaced.
PutFails ==
    /\ Head(todo).file # Missing /\ Head(todo).file # disk[Head(todo).key]
    /\ Fails
    /\ UNCHANGED <<files, memory>>

WriteFiles ==
    /\ pc \in {"discard", "publish", "saveOwn", "saveAlias", "mark", "unmark"}
    /\ todo # <<>>
    /\ Succeeds \/ DeleteFails

Done(step) == pc = step /\ todo = <<>>
Goto(step) == pc' = step /\ UNCHANGED todo
Begin(step, operations) == pc' = step /\ todo' = operations

-----------------------------------------------------------------------------
(* The session.                                                                *)
StartSession ==
    /\ pc' = "restore"
    /\ queue' = [f \in Fonts |-> f] /\ generation' = <<>> /\ font' = NoFont
    /\ todo' = <<>>

Drop(rs) == [r \in Roles |-> IF r \in rs THEN <<>> ELSE resident[r]]
Load(rs, pages) ==
    [r \in Roles |-> IF r \in rs THEN PagesFrom(r, "live") ELSE pages[r]]

\* TryLoadGlyphAtlasSnapshot loads what is not complete yet.  A role that cannot
\* be loaded may keep the other from being loaded too (the storage of both is
\* inspected first); if both can, only a failure stops it.
TryLoads(f, have, loaded) ==
    LET missing == Own(f) \ have IN
    /\ loaded \subseteq {r \in missing : Loadable(r)}
    /\ IF (\A r \in missing : Loadable(r)) /\ loaded # missing THEN Fails
       ELSE Works

\* mutant: a font counts as restored with its single-byte role alone
RestoredSingle(f, have, pages) ==
    RolesOf(f)[1] \in have /\ TablesReady(RolesOf(f)[1], pages)

Restored(f, have, pages) ==
    Own(f) \subseteq have /\ \A r \in Own(f) : TablesReady(r, pages)

\* DiscardGlyphAtlasSnapshot: the double-byte role is dropped and deleted for all
\* fonts, also for those that were restored with it.
Discard(f) ==
    /\ resident' = Drop(Own(f))
    /\ complete' = complete \ Own(f)
    /\ Begin("discard", Deletes(f, 1, MaxPages) \o Deletes(Double, 1, MaxPages))

RestoreSnapshot ==
    /\ pc = "restore" /\ queue # <<>>
    /\ \E loaded \in SUBSET Roles :
           LET f == Head(queue)
               pages == Load(loaded, resident)
               have == complete \cup loaded
           IN /\ TryLoads(f, complete, loaded)
              /\ IF Restored(f, have, pages)
                   THEN /\ resident' = pages /\ complete' = have
                        /\ queue' = Tail(queue)
                        /\ UNCHANGED <<pc, todo, generation>>
                   ELSE \/ /\ Discard(f)
                           /\ queue' = Tail(queue)
                           /\ generation' = Append(generation, f)
                        \/ \* memory pressure: once more, nothing is discarded
                           /\ failures' # failures
                           /\ resident' = pages /\ complete' = have
                           /\ UNCHANGED <<queue, generation, pc, todo>>
    /\ UNCHANGED <<files, font, saving, undoing, events>>

Discarded ==
    /\ Done("discard") /\ Goto("restore")
    /\ UNCHANGED <<files, memory, jobs, saving, undoing, faults, events>>

\* A batch of the font's glyphs failed: it is discarded, and generated next.
BatchFails ==
    /\ pc = "restore" /\ queue = <<>> /\ generation # <<>>
    /\ Fails
    /\ Discard(Head(generation))
    /\ UNCHANGED <<files, jobs, saving, undoing, events>>

\* The streamed pages of both roles are published, page by page.
PublishStream ==
    /\ pc = "restore" /\ queue = <<>> /\ generation # <<>>
    /\ Unused # {} /\ Unused \ {Fresh} # {}
    /\ font' = Head(generation) /\ generation' = Tail(generation)
    /\ \E n \in [1..2 -> Pages] :
           LET stream(i, g) ==
                   LET r == RolesOf(font')[i]
                   IN Puts(r, n[i], NewFile(g, n[i], FALSE, r))
                          \o Deletes(r, n[i] + 1, MaxPages)
           IN Begin("publish", stream(1, Fresh) \o stream(2, Fresh2))
    /\ UNCHANGED <<files, memory, queue, saving, undoing, faults, events>>

\* A font whose generation failed starts again at the restore.
Again == /\ Begin("restore", <<>>)
         /\ queue' = <<font>> \o queue /\ font' = NoFont
         /\ UNCHANGED generation

PublishFails ==
    /\ pc = "publish" /\ todo # <<>> /\ PutFails
    /\ Again
    /\ UNCHANGED <<saving, undoing, events>>

StageMetadata ==
    /\ Done("publish")
    /\ LET staged == [r \in Roles |-> IF r \in Own(font)
                                      THEN PagesFrom(r, "none")
                                      ELSE resident[r]]
       IN \/ /\ \A r \in Own(font) : Stageable(r)
             /\ Works
             /\ resident' = staged
             /\ pc' = "save" /\ UNCHANGED <<todo, jobs>>
          \/ /\ Fails
             /\ Again
             /\ UNCHANGED resident
    /\ complete' = complete \ Own(font)
    /\ UNCHANGED <<files, saving, undoing, events>>

-----------------------------------------------------------------------------
(* SaveGlyphAtlasSnapshotRole.  The pages are prepared in temporary files; the *)
(* profile is invalidated before the first page is replaced, the profiles of   *)
(* the aliases after the last.                                                 *)
StartSave(r, aliases, n) ==
    /\ role' = r /\ targets' = aliases
    /\ complete' = complete \ {r}
    /\ Unused # {}
    /\ Begin("saveOwn",
             Puts(r, n, NewFile(Fresh, n, TRUE, r))
                 \o Deletes(r, n + 1, Len(resident[r])))
    /\ UNCHANGED <<resident>>

\* Both roles of a font are packed together, or each by itself.
Save ==
    /\ pc = "save"
    /\ \/ /\ Works
          /\ \E n \in Pages :
                 LET r == RolesOf(font)[1] IN
                 \/ /\ \A q \in Own(font) : SourcesReadable(q)
                    /\ StartSave(r, <<RolesOf(font)[2]>>, n)
                 \/ /\ SourcesReadable(r)
                    /\ StartSave(r, <<>>, n)
          /\ UNCHANGED <<queue, generation, font>>
       \/ /\ Fails \/ (Works /\ \E q \in Own(font) : ~SourcesReadable(q))
          /\ Again
          /\ UNCHANGED <<memory, saving>>
    /\ UNCHANGED <<files, undoing, events>>

\* The other role, where the roles are saved separately.
SaveDoubleByte ==
    /\ Done("saveOwn") /\ targets = <<>> /\ role # Double
    /\ LET r == RolesOf(font)[2] IN
       \/ /\ Works /\ SourcesReadable(r)
          /\ \E n \in Pages : StartSave(r, <<>>, n)
          /\ UNCHANGED jobs
       \/ /\ Fails \/ (Works /\ ~SourcesReadable(r))
          /\ Again
          /\ UNCHANGED <<memory, saving>>
    /\ UNCHANGED <<files, undoing, events>>

SaveAliases ==
    /\ Done("saveOwn") /\ targets # <<>>
    /\ LET n == Count(role)
           alias == [disk[<<role, 1>>] EXCEPT !.payload = role]
           put(t) == IF t = role THEN <<>> ELSE Puts(t, n, alias)
           stale(t) == Deletes(t, n + 1, Len(resident[t]))
       IN /\ complete' = complete \ (ToSet(targets) \ {role})
          /\ Begin("saveAlias",
                   FlattenSeq([i \in DOMAIN targets |-> put(targets[i])])
                       \o FlattenSeq([i \in DOMAIN targets |-> stale(targets[i])]))
    /\ Works
    /\ UNCHANGED <<files, resident, jobs, saving, undoing, events>>

\* A page of the role or of an alias cannot be replaced, or no alias prepared.
SaveFailed ==
    \/ pc \in {"saveOwn", "saveAlias"} /\ todo # <<>> /\ PutFails
    \/ Done("saveOwn") /\ targets # <<>> /\ Fails /\ UNCHANGED <<files, memory>>

SaveFails ==
    /\ font # NoFont
    /\ SaveFailed
    /\ Again
    /\ UNCHANGED <<saving, undoing, events>>

\* RebuildGlyphAtlasFromSnapshot: the pages are retired, then loaded again.

\* mutant: the profiles stay reusable although their pages are gone
RebuildKeeping(f, loaded) ==
    /\ TryLoads(f, complete \ Own(f), loaded)
    /\ resident' = Load(loaded, Drop(Own(f)))
    /\ complete' = complete \cup loaded

Rebuild(f, loaded) ==
    /\ TryLoads(f, complete \ Own(f), loaded)
    /\ resident' = Load(loaded, Drop(Own(f)))
    /\ complete' = (complete \ Own(f)) \cup loaded

RebuildPublished ==
    /\ font # NoFont
    /\ \/ Done("saveAlias")
       \/ Done("saveOwn") /\ targets = <<>> /\ role = Double
    /\ \E loaded \in SUBSET Roles :
           /\ Rebuild(font, loaded)
           /\ IF Restored(font, complete', resident')
                THEN /\ Goto("restore") /\ font' = NoFont
                     /\ UNCHANGED <<queue, generation>>
                ELSE Again
    /\ UNCHANGED <<files, saving, undoing, events>>

-----------------------------------------------------------------------------
(* ConsolidatePhysicalFontAtlasGroups.                                         *)
GroupResident ==
    /\ complete = Roles
    /\ \A r \in Roles : /\ Len(resident[r]) = 1
                        /\ resident[r][1].source = <<OwnerRole, 1>>
                        /\ resident[r][1].header = resident[OwnerRole][1].header
                        /\ resident[r][1].texture = "live"
FallbackMarked ==
    /\ OwnerRole \in complete
    /\ \A p \in DOMAIN resident[OwnerRole] :
           resident[OwnerRole][p].header.marked

Finish == Begin("idle", <<>>) /\ scope' = FALSE /\ backup' = NoFiles

\* The backups are links or copies of all page files the members may have.
Consolidate ==
    /\ pc = "restore" /\ queue = <<>> /\ generation = <<>>
    /\ IF \/ GroupResident \/ FallbackMarked
          \/ ~ \A f \in Fonts : Restored(f, complete, resident)
         THEN Works /\ Goto("idle") /\ UNCHANGED backup
         ELSE \/ Works /\ Goto("group") /\ backup' = disk
              \/ Fails /\ Goto("idle") /\ UNCHANGED backup
    /\ UNCHANGED <<disk, memory, jobs, saving, undoing, events>>

\* No page can hold the group: the owner's pages are marked, in place, with a
\* flag that tells later sessions not to try again.
MarkFallback ==
    /\ pc = "group" /\ fits # "yes" /\ fits' = "no"
    /\ LET n == Len(resident[OwnerRole])
           mark(k) == Put(k, [disk[k] EXCEPT !.marked = TRUE])
       IN Begin("mark", IF \A p \in 1..n : disk[<<OwnerRole, p>>].count = n
                        THEN [p \in 1..n |-> mark(<<OwnerRole, p>>)]
                        ELSE <<>>)
    /\ UNCHANGED <<files, memory, jobs, saving, restored, next, scope, faults,
                   events>>

\* The headers written so far, this one included, are written back.
MarkFails ==
    /\ pc = "mark" /\ todo # <<>> /\ PutFails
    /\ Begin("unmark", [p \in 1..Head(todo).key[2] |->
                           Put(<<OwnerRole, p>>, backup[<<OwnerRole, p>>])])
    /\ UNCHANGED <<jobs, saving, undoing, events>>

UnmarkFails ==
    /\ pc = "unmark" /\ todo # <<>> /\ PutFails
    /\ todo' = Tail(todo)
    /\ UNCHANGED <<pc, jobs, saving, undoing, events>>

MarkDone ==
    /\ Done("mark") \/ Done("unmark")
    /\ Finish
    /\ UNCHANGED <<disk, memory, jobs, saving, restored, next, fits, faults, events>>

SaveGroup ==
    /\ pc = "group" /\ fits # "no" /\ fits' = "yes"
    /\ \A r \in Roles : SourcesReadable(r)
    /\ StartSave(OwnerRole, GroupRoles, 1)
    /\ Works
    /\ UNCHANGED <<files, jobs, restored, next, scope, events>>

\* PhysicalGroupDiskTransaction::Rollback goes through a hash set of paths.
StartRollback(then) ==
    /\ Begin("rollback", FlattenSeq([i \in DOMAIN GroupRoles |->
                 [p \in Pages |-> LET k == <<GroupRoles[i], p>>
                                  IN Put(k, backup[k])]]))
    /\ restored' = TRUE /\ next' = then

GroupSaveFails ==
    /\ font = NoFont
    /\ \/ SaveFailed
       \/ /\ pc = "group" /\ fits # "no" /\ UNCHANGED <<files, memory>>
          /\ Fails \/ (Works /\ \E r \in Roles : ~SourcesReadable(r))
    /\ StartRollback("rebuild")
    /\ UNCHANGED <<jobs, saving, scope, fits, events>>

\* The scope is refused: the files are rolled back, the current generation stays.
ScopeRefused ==
    /\ font = NoFont /\ Done("saveAlias")
    /\ Fails
    /\ StartRollback("idle")
    /\ UNCHANGED <<files, memory, jobs, saving, scope, fits, events>>

\* All members are rebuilt from the shared page and validated, in one scope;
\* the first member that is not stops it.
RebuildGroup ==
    /\ font = NoFont /\ Done("saveAlias")
    /\ \E last \in Fonts, loaded \in SUBSET Roles :
           LET before == UNION {Own(f) : f \in 1..(last - 1)}
               now == (before \ Own(last)) \cup loaded
           IN /\ TryLoads(last, complete \ Own(last), loaded)
              /\ \A r \in before : Loadable(r)
              /\ resident' = Load(now, Drop(Own(last)))
              /\ complete' = (complete \ Own(last)) \cup now
              /\ IF last = NumFonts /\ loaded = Own(last) /\ GroupResident'
                   THEN Finish /\ UNCHANGED <<restored, next>>
                   ELSE /\ last = NumFonts \/ loaded # Own(last)
                        /\ StartRollback("rebuild")
                        /\ scope' = TRUE /\ UNCHANGED backup
    /\ UNCHANGED <<disk, jobs, saving, fits, events>>

Touched(operation) == IsFile(operation.key) \/ operation.file # Missing

RollBack ==
    /\ pc = "rollback"
    /\ \E i \in DOMAIN todo :
           /\ Touched(todo[i])
           /\ todo' = RemoveAt(todo, i)
           /\ \/ /\ Works
                 /\ disk' = [disk EXCEPT ![todo[i].key] = todo[i].file]
                 /\ UNCHANGED restored
              \/ Leaves(0) /\ restored' = FALSE /\ UNCHANGED disk
    /\ UNCHANGED <<backup, memory, pc, jobs, saving, next, scope, fits, events>>

RolledBack ==
    /\ pc = "rollback" /\ \A i \in DOMAIN todo : ~Touched(todo[i])
    /\ IF restored /\ next = "rebuild"
         THEN /\ Begin("rebuild", <<>>) /\ queue' = [f \in Fonts |-> f]
              /\ UNCHANGED <<backup, scope>>
         ELSE Finish /\ UNCHANGED queue
    /\ UNCHANGED <<disk, memory, generation, font, saving, restored, next, fits, faults,
                   events>>

RebuildMember ==
    /\ pc = "rebuild" /\ queue # <<>>
    /\ \E loaded \in SUBSET Roles : Rebuild(Head(queue), loaded)
    /\ queue' = Tail(queue)
    /\ UNCHANGED <<files, pc, generation, font, saving, todo, undoing, events>>

MembersRebuilt ==
    /\ pc = "rebuild" /\ queue = <<>>
    /\ Finish
    /\ UNCHANGED <<disk, memory, jobs, saving, restored, next, fits, faults, events>>

-----------------------------------------------------------------------------
(* The environment: the device, the pump, the process.                         *)
Happens == Trouble /\ events' = events + 1

Refresh(pages) ==
    [p \in DOMAIN pages |->
        IF pages[p].texture = "none" THEN pages[p]
        ELSE [pages[p] EXCEPT !.texture =
                  IF Readable(pages[p]) THEN "live" ELSE "pending"]]

\* All textures are lost and rebuilt from the files, but not inside a scope.
DeviceReset ==
    /\ ~scope /\ pc # "gone" /\ Happens
    /\ resident' = [r \in Roles |-> Refresh(resident[r])]
    /\ UNCHANGED <<files, complete, pc, jobs, saving, todo, undoing, faults>>

\* The pump tries pending pages again.
PumpPending ==
    /\ ~scope
    /\ \E r \in Roles : \E p \in DOMAIN resident[r] :
           /\ resident[r][p].texture = "pending" /\ Readable(resident[r][p])
           /\ resident' = [resident EXCEPT ![r] = Refresh(resident[r])]
    /\ UNCHANGED <<files, complete, pc, jobs, saving, todo, undoing, faults,
                   events>>

\* The memory is gone, the page files stay; nobody looks for backups later.
Crash ==
    /\ pc # "gone" /\ Happens
    /\ resident' = [r \in Roles |-> <<>>] /\ complete' = {}
    /\ backup' = NoFiles /\ scope' = FALSE
    /\ queue' = <<>> /\ generation' = <<>> /\ font' = NoFont
    /\ role' = OwnerRole /\ targets' = <<>>
    /\ restored' = TRUE /\ next' = "idle"
    /\ Begin("gone", <<>>)
    /\ UNCHANGED <<disk, fits, faults>>

Restart ==
    /\ pc = "gone" /\ StartSession /\ intact' = TRUE /\ clean' = TRUE
    /\ UNCHANGED <<files, memory, saving, undoing, leftovers, failures, events>>

\* Another session in the same process, for a font configured later.  What a
\* failed rollback left in memory stays.
NewSession ==
    /\ pc = "idle" /\ Happens
    /\ StartSession /\ clean' = intact
    /\ UNCHANGED <<files, memory, saving, undoing, intact, leftovers, failures>>

-----------------------------------------------------------------------------
Init ==
    /\ disk = NoFiles /\ backup = NoFiles
    /\ resident = [r \in Roles |-> <<>>] /\ complete = {}
    /\ pc = "restore" /\ queue = [f \in Fonts |-> f] /\ generation = <<>>
    /\ font = NoFont /\ role = OwnerRole /\ targets = <<>> /\ todo = <<>>
    /\ restored = TRUE /\ next = "idle" /\ scope = FALSE
    /\ fits = "open"
    /\ intact = TRUE /\ clean = TRUE
    /\ leftovers = 0 /\ failures = 0 /\ events = 0

FontStep == 
    \/ RestoreSnapshot \/ Discarded \/ BatchFails \/ PublishStream \/ PublishFails
    \/ StageMetadata \/ Save \/ SaveDoubleByte \/ SaveAliases \/ SaveFails
    \/ RebuildPublished
GroupStep ==
    \/ Consolidate \/ MarkFallback \/ MarkFails \/ UnmarkFails \/ MarkDone
    \/ SaveGroup \/ GroupSaveFails \/ ScopeRefused \/ RebuildGroup
    \/ RollBack \/ RolledBack \/ RebuildMember \/ MembersRebuilt
Environment ==
    DeviceReset \/ PumpPending \/ Crash \/ Restart \/ NewSession

Next == FontStep \/ GroupStep \/ WriteFiles \/ Environment
Spec == Init /\ [][Next]_vars

-----------------------------------------------------------------------------
Steps == {"restore", "discard", "publish", "save", "saveOwn", "saveAlias",
          "group", "mark", "unmark", "rollback", "rebuild", "idle", "gone"}
Page == [source : Keys, header : File, texture : {"none", "live", "pending"}]

\* File operations are outstanding only in a step that writes, and copies of the
\* files exist only while the group is being saved.
TypeOK ==
    /\ disk \in [Keys -> File] /\ backup \in [Keys -> File]
    /\ resident \in [Roles -> Seq(Page)]
    /\ \A r \in Roles : Len(resident[r]) <= MaxPages
    /\ complete \subseteq {r \in Roles : resident[r] # <<>>}
    /\ pc \in Steps /\ queue \in Seq(Fonts) /\ generation \in Seq(Fonts)
    /\ font \in Fonts \cup {NoFont} /\ role \in Roles /\ targets \in Seq(Roles)
    /\ todo \in Seq([key : Keys, file : File])
    /\ todo # <<>> => pc \in {"discard", "publish", "saveOwn", "saveAlias", "mark",
                              "unmark", "rollback"}
    /\ {restored, scope, intact, clean} \subseteq BOOLEAN
    /\ fits \in {"open", "yes", "no"}
    /\ next \in {"idle", "rebuild"}
    /\ backup # NoFiles => font = NoFont
    /\ failures \in Nat /\ events \in Nat /\ failures + events <= MaxTroubles
    /\ leftovers \in 0..failures

\* The failed deletions a role survives: a font's pages are deleted twice before
\* they are replaced, when it is discarded and when its stream is published; the
\* double-byte pages another font saved in between are deleted once.
Tolerated(r) == IF r = Double THEN 0 ELSE 1

\* Page files are replaced one by one and the process may end between any two of
\* them, replacements may fail and a rollback may fail half way, and all fonts
\* write the double-byte files: unless deletions failed, no mixture of
\* generations can be loaded as a role.
LoadableIsWhole ==
    \A r \in Roles : leftovers <= Tolerated(r) /\ Loadable(r) =>
        \A p \in 1..Count(r) : disk[<<r, p>>].content = disk[<<r, 1>>].content

\* A profile that may be reused describes the files: when the worker is at rest,
\* what is complete in memory can be loaded from the disk again, as the same
\* contents, and is of one generation even where the files of an earlier process
\* were not.
CompleteIsOnDisk ==
    pc = "idle" /\ intact => \A r \in complete :
        /\ TablesReady(r, resident)
        /\ Loadable(r) /\ Count(r) = Len(resident[r])
        /\ \A p \in DOMAIN resident[r] :
               /\ resident[r][p].source = Source(r, p)
               /\ [resident[r][p].header EXCEPT !.marked = Header(r, p).marked]
                    = Header(r, p)

\* Whatever failures, failed rollbacks and ends of earlier processes left on the
\* disk, one session without a failure of its own leaves all profiles complete.
SessionHeals == pc = "idle" /\ clean => complete = Roles

\* "Later resets reuse the validated snapshot": with the worker at rest, no reset
\* leaves a page of a complete profile without its texture.
ResetReusesSnapshot ==
    pc = "idle" => \A r \in complete : \A p \in DOMAIN resident[r] :
                       resident[r][p].texture # "pending"
=============================================================================
