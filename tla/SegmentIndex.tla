---------------------------- MODULE SegmentIndex ----------------------------
(***************************************************************************)
(* The segment index of one account folder (prefixdb.go): index.meta, flat *)
(* or a top level over level-2 pages, the writers that hold the folder     *)
(* lock, the three caches of segmentIndexCache (layout, all chunk metas,   *)
(* one page) and the lookup of the chunk a key belongs to.                 *)
(*                                                                         *)
(* A chunk meta is a name and the first key of its range.  Sizes are       *)
(* counted in metas.  Which metas a writer installs is left to a choice:   *)
(* a chunk split in two, a chunk under a new name, a chunk before the      *)
(* first one, one chunk for all of them (module SegmentStore).             *)
(***************************************************************************)
EXTENDS Integers, Sequences, FiniteSets, SequencesExt, FiniteSetsExt

CONSTANTS
    MaxStart,       \* keys are 0..MaxStart
    FlatMax,        \* segmentIndexMultiLevelThreshold
    PageSize,       \* segmentIndexLevel2Size
    CacheMin,       \* segmentIndexCacheThresholdBytes
    InitMetas,      \* indexes the folder may start with
    MaxChanges,     \* bound: index writes of a behaviour
    MaxGen,         \* bound: generation of a folder lock entry
    MaxCrashes      \* bound: crashes of a behaviour

Keys == 0..MaxStart
Ids == 1..(MaxStart + 1)

ASSUME SegmentIndexAssumption ==
    /\ {MaxStart, FlatMax, PageSize, CacheMin, MaxChanges, MaxGen, MaxCrashes} \subseteq Nat
    /\ FlatMax > 0 /\ PageSize > 0
    /\ \A m \in InitMetas : Len(m) > 0 /\ \A i \in 1..Len(m) : m[i].start \in Keys

VARIABLES
    top,        \* index.meta
    page,       \* the level-2 files, by id
    layoutC,    \* cached layout of the folder
    metasC,     \* cached metas of the folder
    pageC,      \* cached pages, by id and generation
    gen,        \* generation of the folder lock entry; 0 when the entry is dropped
    w,          \* the writer that holds the folder lock
    g,          \* what the collection does after its index write
    truth,      \* metas the last finished write installed
    torn,       \* a crash met a write that moved metas between pages
    old,        \* the collection cached metas it had read before a later write
    changes,    \* number of index writes so far
    crashes

vars == <<top, page, layoutC, metasC, pageC, gen, w, g, truth, torn, old, changes, crashes>>

Meta(name, start) == [name |-> name, start |-> start]
L1(id, group) == [id |-> id, start |-> group[1].start, count |-> Len(group)]
Flat(metas) == [mode |-> "flat", entries |-> <<>>, next |-> 1, flat |-> metas]
Multi(entries, next) == [mode |-> "multi", entries |-> entries, next |-> next, flat |-> <<>>]
NoLayout == [mode |-> "none", entries |-> <<>>, next |-> 1, flat |-> <<>>]
Absent == <<Meta(-1, -1)>>        \* no page file, nothing cached, no chunk
NoWrite == [pc |-> "idle", todo |-> <<>>, top |-> NoLayout, metas |-> <<>>, gc |-> FALSE, full |-> TRUE]
NoRefresh == [pc |-> "idle", metas |-> <<>>]

FolderLockFree == w.pc = "idle"

------------------------------------------------------------------------------
(* Pure operators.                                                         *)

Metas(lo, pg) ==
    IF lo.mode = "multi" THEN FlattenSeq([i \in 1..Len(lo.entries) |-> pg[lo.entries[i].id]])
    ELSE lo.flat

\* splitSegmentMetas
splitSegmentMetas(metas) ==
    [i \in 1..((Len(metas) + PageSize - 1) \div PageSize) |->
        SubSeq(metas, (i - 1) * PageSize + 1, Min({i * PageSize, Len(metas)}))]

Counts(entries) == FoldLeft(LAMBDA acc, e : acc + e.count, 0, entries)

\* buildLayoutGroupsFromMetas: the metas page by page, by the counts of the top level.
Groups(entries, metas) ==
    [i \in 1..Len(entries) |->
        SubSeq(metas, Counts(SubSeq(entries, 1, i - 1)) + 1, Counts(SubSeq(entries, 1, i)))]

Reusable(lo, metas) ==
    lo.mode = "multi" /\ lo.entries # <<>> /\ Counts(lo.entries) = Len(metas)

\* The last entry whose first key is not after the key; 0 if there is none.
upperBound(seq, k) ==
    LET S == {i \in 1..Len(seq) : seq[i].start <= k} IN IF S = {} THEN 0 ELSE Max(S)

\* Mutant: an entry that starts at the key is not taken.
selectSegmentL1Entry_Strict(entries, k) ==
    LET S == {i \in 1..Len(entries) : entries[i].start < k} IN IF S = {} THEN 0 ELSE Max(S)

selectSegmentL1Entry(entries, k) == upperBound(entries, k)

\* The chunk of a key, Absent if its range is before the first chunk.
selectSegmentChunkMeta(metas, k) ==
    IF upperBound(metas, k) = 0 THEN Absent ELSE <<metas[upperBound(metas, k)]>>

------------------------------------------------------------------------------
(* A full write: writeSegmentIndexLocked.                                  *)

pageIds(lo, n) ==
    [i \in 1..n |-> IF i <= Len(lo.entries) THEN lo.entries[i].id ELSE lo.next + i - Len(lo.entries) - 1]

\* The pages to write, one after the other, and the top level after them.
FullWrite(lo, metas, gc) ==
    LET prev == IF lo.mode = "multi" THEN lo ELSE Multi(<<>>, 1)
        groups == IF Reusable(prev, metas) THEN Groups(prev.entries, metas) ELSE splitSegmentMetas(metas)
        ids == pageIds(prev, Len(groups))
    IN  IF Len(metas) <= FlatMax
        THEN [pc |-> "files", todo |-> <<>>, top |-> Flat(metas), metas |-> metas, gc |-> gc, full |-> TRUE]
        ELSE [pc |-> "files", todo |-> [i \in 1..Len(groups) |-> [id |-> ids[i], metas |-> groups[i]]],
              top |-> Multi([i \in 1..Len(groups) |-> L1(ids[i], groups[i])],
                            prev.next + Max({0, Len(groups) - Len(prev.entries)})),
              metas |-> metas, gc |-> gc, full |-> TRUE]

\* Mutant: the collection distributes all metas over the pages anew.
IncrementalWrite_Rebalance(lo, current, name, repl) ==
    LET i == CHOOSE i \in 1..Len(current) : current[i].name = name
    IN  [FullWrite(lo, SubSeq(current, 1, i - 1) \o repl \o SubSeq(current, i + 1, Len(current)), TRUE)
         EXCEPT !.full = FALSE]

\* writeSegmentIndexIncrementalGCLocked: only the page of the replaced chunk.
IncrementalWrite(lo, current, name, repl) ==
    LET groups == Groups(lo.entries, current)
        hit == CHOOSE i \in 1..Len(groups) : \E j \in 1..Len(groups[i]) : groups[i][j].name = name
        Swap(group) ==
            LET j == CHOOSE j \in 1..Len(group) : group[j].name = name
            IN  SubSeq(group, 1, j - 1) \o repl \o SubSeq(group, j + 1, Len(group))
        new == [groups EXCEPT ![hit] = Swap(@)]
    IN  [pc |-> "files", todo |-> <<[id |-> lo.entries[hit].id, metas |-> new[hit]]>>,
         top |-> Multi([i \in 1..Len(new) |-> L1(lo.entries[i].id, new[i])], lo.next),
         metas |-> FlattenSeq(new), gc |-> TRUE, full |-> FALSE]

------------------------------------------------------------------------------
Init ==
    \E m \in InitMetas :
        LET wr == FullWrite(NoLayout, m, FALSE) IN
        /\ top = wr.top
        /\ page = [i \in Ids |-> IF i <= Len(wr.todo) THEN wr.todo[i].metas ELSE Absent]
        /\ layoutC = NoLayout /\ metasC = Absent /\ pageC = {}
        /\ gen = 0 /\ w = NoWrite /\ g = NoRefresh
        /\ truth = m /\ torn = FALSE /\ old = FALSE /\ changes = 0 /\ crashes = 0

\* loadSegmentIndexLayout: the cached layout, else the file, which is then cached.
Layout == IF layoutC # NoLayout THEN layoutC ELSE top
Current == Metas(Layout, page)

\* Names that no file of the folder has yet: two per write.
Fresh(i) == 10 + 2 * changes + i

Replace(metas, i, repl) == SubSeq(metas, 1, i - 1) \o repl \o SubSeq(metas, i + 1, Len(metas))
Splits(metas, i) ==
    {<<Meta(Fresh(0), metas[i].start), Meta(Fresh(1), t)>> :
        t \in {t \in Keys : t > metas[i].start /\ (i < Len(metas) => t < metas[i + 1].start)}}

\* What an update or a sweep makes of the metas.
Updated(metas) ==
    UNION {{Replace(metas, i, r) : r \in Splits(metas, i)} : i \in 1..Len(metas)}
    \union {<<Meta(Fresh(0), t)>> \o metas : t \in 0..(metas[1].start - 1)}
    \union {<<Meta(Fresh(0), metas[1].start)>>}

\* What the collection puts in the place of chunk i.
Collected(metas, i) == {<<Meta(Fresh(0), metas[i].start)>>} \union Splits(metas, i)

\* An update reads the index and starts to write its own: the cached layout is
\* dropped and the file's is loaded.
BeginUpdate ==
    /\ FolderLockFree /\ changes < MaxChanges
    /\ \E m \in Updated(Current) : w' = FullWrite(top, m, FALSE)
    /\ layoutC' = top /\ changes' = changes + 1
    /\ UNCHANGED <<top, page, metasC, pageC, gen, g, truth, torn, old, crashes>>

\* The collection's write uses the cached layout when the pages fit its counts.
BeginCollection ==
    /\ FolderLockFree /\ changes < MaxChanges /\ g.pc = "idle"
    /\ \E i \in 1..Len(Current) : \E r \in Collected(Current, i) :
         w' = IF Reusable(Layout, Current)
              THEN IncrementalWrite(Layout, Current, Current[i].name, r)
              ELSE FullWrite(top, Replace(Current, i, r), TRUE)
    /\ layoutC' = Layout /\ changes' = changes + 1
    /\ UNCHANGED <<top, page, metasC, pageC, gen, g, truth, torn, old, crashes>>

\* writeSegmentIndexFileIfChanged: a temporary file renamed over the page.
WritePage ==
    /\ w.pc = "files" /\ w.todo # <<>>
    /\ page' = [page EXCEPT ![w.todo[1].id] = w.todo[1].metas]
    /\ w' = [w EXCEPT !.todo = Tail(@)]
    /\ UNCHANGED <<top, layoutC, metasC, pageC, gen, g, truth, torn, old, changes, crashes>>

\* Mutant: the top level is written before its pages.
WriteTop_First ==
    /\ w.pc = "files"
    /\ top' = w.top
    /\ w' = IF w.todo = <<>> THEN [w EXCEPT !.pc = "finish"] ELSE w
    /\ UNCHANGED <<page, layoutC, metasC, pageC, gen, g, truth, torn, old, changes, crashes>>

WriteTop ==
    /\ w.pc = "files" /\ w.todo = <<>>
    /\ top' = w.top
    /\ w' = [w EXCEPT !.pc = "finish"]
    /\ UNCHANGED <<page, layoutC, metasC, pageC, gen, g, truth, torn, old, changes, crashes>>

\* removeStaleLevel2IndexFiles: pages the new top level does not use.
Stale(lo) == Ids \ {lo.entries[i].id : i \in 1..Len(lo.entries)}

\* AddLayoutByPath; an update invalidates the layout once more after its write.
cachedLayout == IF w.gc THEN w.top ELSE NoLayout

\* refreshSegmentIndexCacheByPathLocked: not part of the incremental write.
refreshedMetas == IF w.full THEN w.metas ELSE metasC

\* The write ends: caches, generation, stale pages, unlock.  The lock entry and
\* its generation survive only while another caller holds a reference to it.
Finish ==
    /\ w.pc = "finish"
    /\ layoutC' = cachedLayout
    /\ metasC' = refreshedMetas
    /\ gen' \in {0} \union ({gen + 1} \intersect 0..MaxGen)
    /\ page' = [i \in Ids |-> IF i \in Stale(w.top) THEN Absent ELSE page[i]]
    /\ truth' = w.metas
    /\ g' = IF w.gc THEN [pc |-> "read", metas |-> <<>>] ELSE g
    /\ torn' = (torn /\ ~w.full) /\ old' = (old /\ ~w.full)
    /\ w' = NoWrite
    /\ UNCHANGED <<top, pageC, changes, crashes>>

\* The last reference to the folder's lock entry goes, its generation with it.
DropLockEntry ==
    /\ FolderLockFree /\ gen > 0
    /\ gen' = 0
    /\ UNCHANGED <<top, page, layoutC, metasC, pageC, w, g, truth, torn, old, changes, crashes>>

\* After its write the collection reads the index under the read lock ...
CollectionRead ==
    /\ g.pc = "read" /\ FolderLockFree
    /\ g' = [pc |-> "refresh", metas |-> Current]
    /\ layoutC' = Layout
    /\ UNCHANGED <<top, page, metasC, pageC, gen, w, truth, torn, old, changes, crashes>>

\* ... and puts what it read into the cache under the write lock.
CollectionRefresh ==
    /\ g.pc = "refresh" /\ FolderLockFree
    /\ metasC' = g.metas /\ g' = NoRefresh
    /\ old' = (g.metas # truth)
    /\ UNCHANGED <<top, page, layoutC, pageC, gen, w, truth, torn, changes, crashes>>

------------------------------------------------------------------------------
(* The lookup: readSegmentIndexForKeyByPathLocked.                         *)

CachedPage(id) ==
    LET S == {c \in pageC : c.id = id /\ c.gen = gen}
    IN  IF S = {} THEN Absent ELSE (CHOOSE c \in S : TRUE).metas

\* readSegmentIndexLockedInternalByPath with the cache: all metas of the folder.
AllMetas == IF metasC # Absent THEN metasC ELSE Current
CacheableMetas == IF Len(AllMetas) >= CacheMin THEN AllMetas ELSE metasC

\* A lookup reads a page, or all metas when the page does not have the key.
PageOf(k) == Layout.entries[selectSegmentL1Entry(Layout.entries, k)].id
PageMetas(k) == IF CachedPage(PageOf(k)) # Absent THEN CachedPage(PageOf(k)) ELSE page[PageOf(k)]

\* The chunk a lookup of key k returns, Absent for "no chunk".
Found(k) ==
    IF Layout.mode = "multi"
    THEN IF selectSegmentL1Entry(Layout.entries, k) = 0 THEN Absent
         ELSE IF selectSegmentChunkMeta(PageMetas(k), k) # Absent
              THEN selectSegmentChunkMeta(PageMetas(k), k)
              ELSE selectSegmentChunkMeta(AllMetas, k)
    ELSE selectSegmentChunkMeta(AllMetas, k)

\* The caches a lookup leaves behind.
Lookup(k) ==
    /\ FolderLockFree
    /\ layoutC' = Layout
    /\ LET paged == Layout.mode = "multi" /\ selectSegmentL1Entry(Layout.entries, k) > 0
           whole == IF Layout.mode = "multi"
                    THEN paged /\ selectSegmentChunkMeta(PageMetas(k), k) = Absent
                    ELSE selectSegmentChunkMeta(AllMetas, k) = Absent
       IN  /\ pageC' = IF paged /\ CachedPage(PageOf(k)) = Absent
                       THEN pageC \union {[id |-> PageOf(k), gen |-> gen, metas |-> page[PageOf(k)]]}
                       ELSE pageC
           /\ metasC' = IF whole THEN CacheableMetas ELSE metasC
    /\ UNCHANGED <<top, page, gen, w, g, truth, torn, old, changes, crashes>>

\* The shared cache drops an entry.  A multi-level layout is in a map of its own
\* and stays.
Evict ==
    /\ \/ pageC' \in {pageC \ {c} : c \in pageC} /\ UNCHANGED <<metasC, layoutC>>
       \/ metasC # Absent /\ metasC' = Absent /\ UNCHANGED <<pageC, layoutC>>
       \/ layoutC.mode = "flat" /\ FolderLockFree /\ layoutC' = NoLayout /\ UNCHANGED <<pageC, metasC>>
    /\ UNCHANGED <<top, page, gen, w, g, truth, torn, old, changes, crashes>>

\* A full write of a multi-level index whose pages are not yet all of one kind.
Regrouping == w.full /\ w.pc = "files" /\ top.mode = "multi" /\ w.top.mode = "multi"

\* The process stops and is started again: the files stay as they are.
Crash ==
    /\ crashes < MaxCrashes
    /\ layoutC' = NoLayout /\ metasC' = Absent /\ pageC' = {}
    /\ gen' = 0 /\ w' = NoWrite /\ g' = NoRefresh
    /\ truth' = Metas(top, page)
    /\ torn' = (torn \/ Regrouping) /\ old' = FALSE
    /\ crashes' = crashes + 1
    /\ UNCHANGED <<top, page, changes>>

Next ==
    \/ BeginUpdate
    \/ BeginCollection
    \/ WritePage
    \/ WriteTop
    \/ Finish
    \/ DropLockEntry
    \/ CollectionRead
    \/ CollectionRefresh
    \/ \E k \in Keys : Lookup(k)
    \/ Evict
    \/ Crash

Spec == Init /\ [][Next]_vars

------------------------------------------------------------------------------
(* Properties.                                                             *)

IsMetas(m) == \A i \in 1..Len(m) : m[i].start \in Keys /\ m[i].name \in Nat
IsLayout(lo) ==
    /\ lo.mode \in {"none", "flat", "multi"} /\ lo.next \in Nat /\ IsMetas(lo.flat)
    /\ \A i \in 1..Len(lo.entries) : lo.entries[i].id \in Ids /\ lo.entries[i].count \in Nat \ {0}

\* The files, caches and the writer's plan are of their types and every page the
\* writer will write has a file of its own (MetaIDs of writeSegmentIndexLocked).
TypeOK ==
    /\ IsLayout(top) /\ IsLayout(layoutC) /\ IsLayout(w.top)
    /\ DOMAIN page = Ids /\ \A i \in Ids : page[i] = Absent \/ IsMetas(page[i])
    /\ metasC = Absent \/ IsMetas(metasC)
    /\ \A c \in pageC : c.id \in Ids /\ c.gen \in 0..MaxGen /\ IsMetas(c.metas)
    /\ gen \in 0..MaxGen /\ IsMetas(truth) /\ IsMetas(w.metas) /\ IsMetas(g.metas)
    /\ w.pc \in {"idle", "files", "finish"} /\ g.pc \in {"idle", "read", "refresh"}
    /\ IsInjective([i \in 1..Len(w.top.entries) |-> w.top.entries[i].id])

\* At every instant, a crash in the middle of a write included, the pages
\* index.meta names exist, and they hold the metas of the last write, sorted,
\* once the folder lock is free: page by page writes, the top level after them
\* and the removal of stale pages never lose the index.
IndexComplete ==
    /\ top.mode = "multi" => \A i \in 1..Len(top.entries) : page[top.entries[i].id] # Absent
    /\ FolderLockFree /\ ~torn =>
         /\ Metas(top, page) = truth
         /\ \A i, j \in 1..Len(truth) : i < j => truth[i].start < truth[j].start

\* With the folder lock free, a cached layout is the one of index.meta: the cache
\* of layouts has no generation, each writer must replace its entry.
LayoutFresh == FolderLockFree /\ layoutC # NoLayout => layoutC = top

\* The metas in the cache are those of the last write, save between a collection's
\* incremental write and its refresh, and after a refresh that came too late.
MetasFresh == FolderLockFree /\ metasC # Absent /\ g.pc = "idle" /\ ~old => metasC = truth

FreshPage(k) ==
    \/ Layout.mode # "multi"
    \/ selectSegmentL1Entry(Layout.entries, k) = 0
    \/ CachedPage(PageOf(k)) \in {Absent, page[PageOf(k)]}

\* A lookup finds the chunk whose range has the key in the metas of the last
\* write, through whatever mix of caches, pages and fallbacks it goes, when it
\* meets no page cached before that write.
LookupExact ==
    FolderLockFree /\ ~torn /\ ~old /\ g.pc = "idle" =>
        \A k \in Keys : FreshPage(k) => Found(k) = selectSegmentChunkMeta(truth, k)

\* The same without the exception for pages: writeSegmentIndexLocked bumps the
\* generation because "L2 files may have been rewritten", so that a lookup never
\* uses a page cached before the write.
LookupCurrent ==
    FolderLockFree /\ ~torn /\ ~old /\ g.pc = "idle" =>
        \A k \in Keys : Found(k) = selectSegmentChunkMeta(truth, k)

\* A crash during an index write that moves no meta to another page leaves every
\* key with its chunk of before or its chunk of after.
CrashCovers ==
    [][crashes' # crashes /\ ~torn' =>
        \A k \in Keys : selectSegmentChunkMeta(truth', k) \in
            {selectSegmentChunkMeta(truth, k), selectSegmentChunkMeta(w.metas, k)}]_vars
=============================================================================
