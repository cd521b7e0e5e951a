---------------------------- MODULE SegmentStore ----------------------------
(***************************************************************************)
(* The segmented storage of one account (prefixdb.go): chunk files named   *)
(* by ordinals, the segment index that assigns key ranges to them, updates *)
(* that append to a chunk or rewrite it, the background collection of      *)
(* oversized chunks, the full sweep, and the two caches of file contents:  *)
(* open read handles and chunk buffers.                                    *)
(*                                                                         *)
(* Keys are numbers, a value is the number of the update that wrote it, an *)
(* entry has size 1.  The index is one value here; module SegmentIndex     *)
(* models its files.  An update holds the folder lock from its first file  *)
(* to its index, so a lookup is one step.                                  *)
(***************************************************************************)
EXTENDS Integers, Sequences, FiniteSets, SequencesExt, FiniteSetsExt

CONSTANTS
    Keys,           \* storage keys, numbers
    Updates,        \* sets of keys an update may write
    Contents,       \* what the first chunk may hold when the database is opened;
                    \* <<>> for an account without a folder
    Target,         \* segmentedChunkTargetSize
    Trigger,        \* segmentedChunkTriggerSize
    Buffered,       \* storageGetCacheCount = 0: reads keep whole chunks
    MaxName,        \* bound: largest chunk ordinal
    MaxWrites,      \* bound: number of the newest update
    MaxRare         \* bound: full sweeps and crashes of a behaviour

Names == 0..MaxName

ASSUME SegmentStoreAssumption ==
    /\ Keys \subseteq Nat /\ IsFiniteSet(Keys) /\ Buffered \in BOOLEAN
    /\ {Target, Trigger, MaxName, MaxWrites, MaxRare} \subseteq Nat
    /\ 0 < Target /\ Target <= Trigger /\ Updates \subseteq SUBSET Keys \ {{}}
    /\ \A c \in Contents : \A i \in 1..Len(c) : c[i].k \in Keys

VARIABLES
    file,       \* the chunk files, by ordinal
    index,      \* the segment index: <<name, first key>> in key order
    handle,     \* fileHandleCache: what an open read handle of a name refers to
    buf,        \* currentSegmentChunkBuffer
    w,          \* the update that holds writeMutex and the folder lock
    g,          \* the collection of a chunk
    latest,     \* value of the newest update of every key
    older,      \* keys a rewrite has given an older value
    clash,      \* two files have met under one name, or a sweep was cut short
    n,          \* number of the newest update
    rare        \* number of sweeps and crashes so far

vars == <<file, index, handle, buf, w, g, latest, older, clash, n, rare>>

Nil == -1               \* no value
Entry(k, v) == [k |-> k, v |-> v]
Meta(name, start) == [name |-> name, start |-> start]
NoFile == <<Entry(Nil, Nil)>>
KeysOf(c) == {c[i].k : i \in 1..Len(c)} \ {Nil}
Exists(m) == file[m] # NoFile

NoHandle == [on |-> "none", ents |-> <<>>]
Live == [on |-> "live", ents |-> <<>>]
NoBuffer == [src |-> "none", ents |-> <<>>]
NoUpdate == [pc |-> "idle", todo |-> <<>>, index |-> <<>>, swap |-> <<>>, kvs |-> {}]
NoJob == [pc |-> "idle", name |-> 0, snap |-> <<>>, todo |-> <<>>, next |-> 0,
          metas |-> <<>>, read |-> FALSE]

\* An update, or a sweep, holds the write lock of the folder.
FolderLockFree == w.pc = "idle"

\* A chunk is scanned from its tail: the first match is the newest entry.
readSegmentedChunkBufferToCache(c, k) ==
    IF k \in KeysOf(c) THEN c[Max({i \in 1..Len(c) : c[i].k = k})].v ELSE Nil

Init ==
    \E c \in Contents :
        /\ file = [m \in Names |-> IF m = 0 /\ c # <<>> THEN c ELSE NoFile]
        /\ index = IF c = <<>> THEN <<>> ELSE <<Meta(0, Min(KeysOf(c)))>>
        /\ handle = [m \in Names |-> NoHandle] /\ buf = [m \in Names |-> NoBuffer]
        /\ w = NoUpdate /\ g = NoJob
        /\ latest = [k \in Keys |-> readSegmentedChunkBufferToCache(c, k)]
        /\ older = {} /\ clash = FALSE /\ n = 1 /\ rare = 0

------------------------------------------------------------------------------
(* Pure operators on entries and on the index.                             *)

Ascending(S) ==
    [i \in 1..Cardinality(S) |-> CHOOSE k \in S : Cardinality({j \in S : j < k}) = i - 1]

\* An entry for every key of S, in key order.
Sorted(S, value(_)) ==
    LET ks == Ascending(S) IN [i \in 1..Len(ks) |-> Entry(ks[i], value(ks[i]))]

\* Mutant: the last key of a run of duplicates is lost.
normalizeTailScannedStorageEntries_Drop(c) ==
    Sorted(KeysOf(c) \ {Max(KeysOf(c))}, LAMBDA k : c[Min({i \in 1..Len(c) : c[i].k = k})].v)

\* Of the duplicates of a key the first one is kept.
normalizeTailScannedStorageEntries(c) ==
    Sorted(KeysOf(c), LAMBDA k : c[Min({i \in 1..Len(c) : c[i].k = k})].v)

\* Keys whose first entry is not the newest version.
Duplicated(c) ==
    {k \in KeysOf(c) : c[Min({i \in 1..Len(c) : c[i].k = k})].v # readSegmentedChunkBufferToCache(c, k)}

mergeAndDedupPairs(old, adds) ==
    Sorted(KeysOf(old) \union KeysOf(adds),
           LAMBDA k : readSegmentedChunkBufferToCache(IF k \in KeysOf(adds) THEN adds ELSE old, k))

splitEntriesBySize(c) ==
    [i \in 1..((Len(c) + Target - 1) \div Target) |->
        SubSeq(c, (i - 1) * Target + 1, Min({i * Target, Len(c)}))]

\* The chunk a key belongs to; 0 for a key before the first chunk.
findChunkIndexForKey(idx, k) ==
    LET S == {i \in 1..Len(idx) : idx[i].start <= k} IN IF S = {} THEN 0 ELSE Max(S)

selectSegmentChunkMeta(k) == findChunkIndexForKey(index, k)

normalizeSegmentChunkMetasOrder(idx) ==
    SortSeq(idx, LAMBDA a, b : a.start < b.start \/ (a.start = b.start /\ a.name < b.name))

NamesOf(idx) == {idx[i].name : i \in 1..Len(idx)}

\* Mutant: the allocator starts at the largest ordinal of the index.
newChunkFileAllocator_Reuse(idx) == Max(NamesOf(idx) \union {0})

newChunkFileAllocator(idx) == Max(NamesOf(idx) \union {-1}) + 1

\* Chunks under new names from the given ordinal on.
FileWrites(chunks, next, how) ==
    [i \in 1..Len(chunks) |-> [name |-> next + i - 1, how |-> how, ents |-> chunks[i]]]
MetasOf(writes) == [i \in 1..Len(writes) |-> Meta(writes[i].name, writes[i].ents[1].k)]

------------------------------------------------------------------------------
(* Handles and buffers.                                                    *)

\* A handle that was open when the file was replaced still refers to the old one.
HandleContent(m) == IF handle[m].on = "old" THEN handle[m].ents ELSE file[m]

openCachedReadOnlyFile(m) ==
    handle' = [handle EXCEPT ![m] = IF @.on = "none" THEN Live ELSE @]

Readable(m) == Exists(m) \/ handle[m].on # "none" \/ buf[m].src # "none"

readSegmentChunkFilePreferCache(m) ==
    IF Buffered /\ buf[m].src # "none" THEN buf[m].ents ELSE HandleContent(m)

\* writeChunkFileWithUsageAndPayload renames a new file over the name; nothing
\* drops the handle.
Renamed(m) ==
    handle' = [handle EXCEPT ![m] = IF @.on = "live" THEN [on |-> "old", ents |-> file[m]] ELSE @]

Buffer(src, c) == IF Buffered THEN [src |-> src, ents |-> c] ELSE NoBuffer

UpdateExisting(m, c) == IF buf[m].src = "none" THEN NoBuffer ELSE [buf[m] EXCEPT !.ents = c]

------------------------------------------------------------------------------
(* updateAccountNamedSegmentedStorageWithBlockID                           *)

\* mutateSegmentChunk: what an update does to one chunk; "next" is the allocator.
mutateSegmentChunk(meta, adds, next) ==
    LET old == IF Exists(meta.name) THEN readSegmentChunkFilePreferCache(meta.name) ELSE <<>>
        fits == Exists(meta.name) /\ Len(file[meta.name]) + Len(adds) <= Trigger
        chunks == splitEntriesBySize(
                    mergeAndDedupPairs(normalizeTailScannedStorageEntries(old), adds))
        one == <<[name |-> meta.name, how |-> "replace", ents |-> chunks[1]]>>
    IN  CASE fits ->
                [todo |-> <<[name |-> meta.name, how |-> "append", ents |-> adds]>>,
                 metas |-> <<meta>>]
          [] ~fits /\ Len(chunks) = 1 ->
                [todo |-> one, metas |-> MetasOf(one)]
          [] OTHER ->
                LET new == FileWrites(chunks, next, "replace") IN
                [todo |-> new, metas |-> MetasOf(new)]

Fresh(todo) == {i \in 1..Len(todo) : todo[i].name \notin NamesOf(index)}

\* The chunks of the index one after the other, then new chunks for the keys
\* before the first one; without an index these are all the keys
\* (rewriteAccountNamedSegmentedStorage).
PlanUpdate(S, v) ==
    LET Adds(i) == Sorted({k \in S : findChunkIndexForKey(index, k) = i}, LAMBDA k : v)
        alloc == newChunkFileAllocator(index)
        Step(acc, i) ==
            IF Adds(i) = <<>> THEN [acc EXCEPT !.index = Append(@, index[i])]
            ELSE LET r == mutateSegmentChunk(index[i], Adds(i), alloc + Cardinality(Fresh(acc.todo)))
                 IN  [todo |-> acc.todo \o r.todo, index |-> acc.index \o r.metas,
                      swap |-> IF NamesOf(r.metas) = {index[i].name} THEN acc.swap
                               ELSE Append(acc.swap, [old |-> index[i].name, new |-> NamesOf(r.metas)])]
        matched == FoldLeft(Step, [todo |-> <<>>, index |-> <<>>, swap |-> <<>>],
                            [i \in 1..Len(index) |-> i])
        new == FileWrites(splitEntriesBySize(Adds(0)), alloc + Cardinality(Fresh(matched.todo)), "create")
    IN  [pc |-> "files", todo |-> matched.todo \o new, index |-> matched.index \o MetasOf(new),
         swap |-> matched.swap, kvs |-> S]

\* Chunks the plan rewrites, and the keys a rewrite may give an older value: the
\* first duplicate is kept, and a clash name is read through another file.
RewrittenFor(S) ==
    {index[i].name : i \in {i \in 1..Len(index) :
        /\ \E k \in S : findChunkIndexForKey(index, k) = i
        /\ Len(file[index[i].name])
             + Cardinality({k \in S : findChunkIndexForKey(index, k) = i}) > Trigger}}
AtRisk(S) ==
    UNION {Duplicated(readSegmentChunkFilePreferCache(m)) : m \in RewrittenFor(S)} \ S

BeginUpdate(S) ==
    /\ w.pc = "idle" /\ n < MaxWrites /\ ~clash
    /\ LET p == PlanUpdate(S, n + 1) IN
        /\ \A i \in 1..Len(p.todo) : p.todo[i].name \in Names
        /\ w' = p
    /\ n' = n + 1
    /\ older' = older \union AtRisk(S)
    /\ handle' = [m \in Names |-> IF m \in RewrittenFor(S) /\ handle[m].on = "none"
                                    /\ ~(Buffered /\ buf[m].src # "none") THEN Live ELSE handle[m]]
    /\ UNCHANGED <<file, index, buf, g, latest, clash, rare>>

\* Names the collection has reserved and not yet put into the index.
Reserved == NamesOf(g.metas) \union (IF g.pc = "write" THEN {g.next} ELSE {})

\* appendChunkFile extends a buffer of the same size, and drops any other one.
appendChunkFile(t) ==
    /\ file' = [file EXCEPT ![t.name] = @ \o t.ents]
    /\ buf' = [buf EXCEPT ![t.name] =
                  IF @.src # "none" /\ Len(@.ents) = Len(file[t.name])
                  THEN [@ EXCEPT !.ents = @ \o t.ents] ELSE NoBuffer]
    /\ UNCHANGED <<handle, clash>>

\* The collection has reserved the name, or works on an older content of it.
Collected(m) == m \in Reserved \/ (g.pc # "idle" /\ m = g.name)

\* writeChunkFileWithUsageAndPayload: a temporary file renamed over the name.
replaceChunkFile(t, cached) ==
    /\ file' = [file EXCEPT ![t.name] = t.ents]
    /\ Renamed(t.name)
    /\ buf' = [buf EXCEPT ![t.name] = cached]
    /\ clash' = (clash \/ handle[t.name].on # "none" \/ Collected(t.name))

\* writeFileWithStats: an existing file is truncated, its buffer is not touched.
createChunkFile(t) ==
    /\ file' = [file EXCEPT ![t.name] = t.ents]
    /\ clash' = (clash \/ handle[t.name].on = "old" \/ buf[t.name].src # "none" \/ Collected(t.name))
    /\ UNCHANGED <<handle, buf>>

removeChunkFile(t) ==
    /\ file' = [file EXCEPT ![t.name] = NoFile]
    /\ Renamed(t.name)
    /\ UNCHANGED <<buf, clash>>

WriteChunkFile ==
    /\ w.pc = "files" /\ w.todo # <<>>
    /\ LET t == w.todo[1] IN
        \/ t.how = "append" /\ appendChunkFile(t)
        \/ t.how = "replace" /\ replaceChunkFile(t, UpdateExisting(t.name, t.ents))
        \/ t.how = "create" /\ createChunkFile(t)
        \/ t.how = "sweep" /\ replaceChunkFile(t, Buffer("gc", t.ents))
        \/ t.how = "remove" /\ removeChunkFile(t)
    /\ w' = [w EXCEPT !.todo = Tail(@)]
    /\ UNCHANGED <<index, g, latest, older, n, rare>>

\* syncCommittedChunkBufferReplacements: the new chunks of a chunk that was
\* buffered are buffered in its place.
SyncBuffers ==
    buf' = [m \in Names |->
              LET out == {i \in 1..Len(w.swap) : w.swap[i].old = m}
                  in == {i \in 1..Len(w.swap) : m \in w.swap[i].new /\ buf[w.swap[i].old].src = "read"}
              IN  IF in # {} THEN Buffer("read", file[m]) ELSE IF out # {} THEN NoBuffer ELSE buf[m]]

\* removeStaleSegmentChunkFiles, after the first index of a folder was written.
removeStaleSegmentChunkFiles ==
    file' = [m \in Names |-> IF index = <<>> /\ m \notin NamesOf(w.index) THEN NoFile ELSE file[m]]

\* writeSegmentIndexLocked when the index changed; the lock is released.
CommitUpdate ==
    /\ w.pc = "files" /\ w.todo = <<>>
    /\ removeStaleSegmentChunkFiles
    /\ index' = normalizeSegmentChunkMetasOrder(w.index)
    /\ SyncBuffers
    /\ latest' = [k \in Keys |-> IF k \in w.kvs THEN n ELSE latest[k]]
    /\ w' = NoUpdate
    /\ UNCHANGED <<handle, g, older, clash, n, rare>>

------------------------------------------------------------------------------
(* GCAllStorageChunkFiles: one folder of the full sweep.                   *)

AllEntries == FlattenSeq([i \in 1..Len(index) |-> HandleContent(index[i].name)])

\* The sort is stable and the last duplicate is kept.
SweptChunks ==
    splitEntriesBySize(Sorted(KeysOf(AllEntries),
                              LAMBDA k : readSegmentedChunkBufferToCache(AllEntries, k)))

GCAllStorageChunkFiles ==
    /\ w.pc = "idle" /\ g.pc = "idle" /\ index # <<>> /\ rare < MaxRare /\ ~clash
    /\ \A m \in NamesOf(index) : Exists(m) \/ handle[m].on # "none"
    /\ rare' = rare + 1
    /\ LET new == FileWrites(SweptChunks, 0, "sweep")
           old == Ascending(NamesOf(index) \ NamesOf(MetasOf(new)))
           rm == [i \in 1..Len(old) |-> [name |-> old[i], how |-> "remove", ents |-> <<>>]]
       IN  w' = [NoUpdate EXCEPT !.pc = "files", !.todo = new \o rm, !.index = MetasOf(new)]
    /\ handle' = [m \in Names |-> IF m \in NamesOf(index) /\ handle[m].on = "none" THEN Live ELSE handle[m]]
    /\ UNCHANGED <<file, index, buf, g, latest, older, clash, n>>

------------------------------------------------------------------------------
(* A read, which schedules the collection of the chunk, and the collection. *)

ReadContent(k) ==
    LET m == index[selectSegmentChunkMeta(k)].name
    IN  IF Readable(m) THEN readSegmentChunkFilePreferCache(m) ELSE <<>>

\* What readSegmentedChunkToCacheByPathWithTracker returns for a key.
ReadValue(k) ==
    IF selectSegmentChunkMeta(k) = 0 THEN Nil
    ELSE readSegmentedChunkBufferToCache(ReadContent(k), k)

\* maybeScheduleStorageGC takes the bytes that were read as the job's input.
maybeScheduleStorageGC(m, c) ==
    g' = IF Len(c) > Trigger /\ g.pc = "idle"
         THEN [NoJob EXCEPT !.pc = "queued", !.name = m, !.snap = c] ELSE g

Read(k) ==
    /\ FolderLockFree /\ selectSegmentChunkMeta(k) # 0
    /\ LET m == index[selectSegmentChunkMeta(k)].name IN
        /\ Readable(m)
        /\ maybeScheduleStorageGC(m, ReadContent(k))
        /\ IF Buffered /\ buf[m].src # "none" THEN UNCHANGED <<handle, buf>>
           ELSE /\ openCachedReadOnlyFile(m)
                /\ buf' = [buf EXCEPT ![m] = Buffer("read", ReadContent(k))]
    /\ UNCHANGED <<file, index, w, latest, older, clash, n, rare>>

\* runStorageGCBatch, phase 1: the index is read once.
GCReadIndex ==
    /\ g.pc = "queued" /\ FolderLockFree
    /\ IF g.name \notin NamesOf(index) THEN g' = NoJob /\ UNCHANGED older
       ELSE /\ g' = [g EXCEPT !.pc = "reserve", !.next = newChunkFileAllocator(index),
                              !.todo = splitEntriesBySize(normalizeTailScannedStorageEntries(g.snap)),
                              !.read = (buf[g.name].src = "read")]
            /\ older' = older \union Duplicated(g.snap)
    /\ UNCHANGED <<file, index, handle, buf, w, latest, clash, n, rare>>

\* reserveChunkFileName creates the first name from "next" on that does not exist.
FreeName(next) == Min({m \in Names : m >= next /\ ~Exists(m)} \union {MaxName + 1})

reserveChunkFileName ==
    /\ g.pc = "reserve" /\ g.todo # <<>> /\ FreeName(g.next) \in Names
    /\ file' = [file EXCEPT ![FreeName(g.next)] = <<>>]
    /\ g' = [g EXCEPT !.pc = "write", !.next = FreeName(g.next)]
    /\ UNCHANGED <<index, handle, buf, w, latest, older, clash, n, rare>>

\* rewriteChunkWithDedupToNewFiles writes the chunk under the reserved name.
GCWriteChunk ==
    /\ g.pc = "write"
    /\ file' = [file EXCEPT ![g.next] = g.todo[1]]
    /\ Renamed(g.next)
    /\ buf' = [buf EXCEPT ![g.next] = Buffer("gc", g.todo[1])]
    /\ g' = [g EXCEPT !.pc = "reserve", !.next = @ + 1, !.todo = Tail(@),
                      !.metas = Append(@, Meta(g.next, g.todo[1][1].k))]
    /\ clash' = (clash \/ handle[g.next].on # "none" \/ buf[g.next].src # "none")
    /\ UNCHANGED <<index, w, latest, older, n, rare>>

Replaced(idx, m, metas) ==
    LET i == CHOOSE i \in 1..Len(idx) : idx[i].name = m
    IN  SubSeq(idx, 1, i - 1) \o metas \o SubSeq(idx, i + 1, Len(idx))

removeGCChunkBuffers(S) == [m \in Names |-> IF m \in S /\ buf[m].src = "gc" THEN NoBuffer ELSE buf[m]]

\* Mutant: a collection whose chunk has left the index waits for it.
GCCommit_Wait ==
    /\ g.pc = "reserve" /\ g.todo = <<>> /\ FolderLockFree
    /\ g.name \in NamesOf(index)
    /\ index' = normalizeSegmentChunkMetasOrder(Replaced(index, g.name, g.metas))
    /\ g' = [g EXCEPT !.pc = "finish"]
    /\ UNCHANGED <<file, handle, buf, w, latest, older, clash, n, rare>>

\* Phase 2: writeSegmentIndexIncrementalGC, unless the chunk has left the index.
GCCommit ==
    /\ g.pc = "reserve" /\ g.todo = <<>> /\ FolderLockFree
    /\ IF g.name \in NamesOf(index)
       THEN /\ index' = normalizeSegmentChunkMetasOrder(Replaced(index, g.name, g.metas))
            /\ g' = [g EXCEPT !.pc = "finish"]
            /\ UNCHANGED buf
       ELSE buf' = removeGCChunkBuffers(NamesOf(g.metas)) /\ g' = NoJob /\ UNCHANGED index
    /\ UNCHANGED <<file, handle, w, latest, older, clash, n, rare>>

\* The buffers of the new chunks are promoted or dropped, the old one is dropped.
GCFinish ==
    /\ g.pc = "finish"
    /\ LET kept == [m \in Names |-> IF m \in NamesOf(g.metas) /\ buf[m].src = "gc"
                                    THEN [buf[m] EXCEPT !.src = "read"] ELSE buf[m]]
       IN  buf' = [IF g.read THEN kept ELSE removeGCChunkBuffers(NamesOf(g.metas))
                     EXCEPT ![g.name] = NoBuffer]
    /\ g' = NoJob
    /\ UNCHANGED <<file, index, handle, w, latest, older, clash, n, rare>>

------------------------------------------------------------------------------
(* Evictions and crashes.                                                  *)

EvictHandle(m) ==
    /\ handle[m].on # "none"
    /\ handle' = [handle EXCEPT ![m] = NoHandle]
    /\ UNCHANGED <<file, index, buf, w, g, latest, older, clash, n, rare>>

\* evictOneReadLocked, when a read buffers a chunk of another folder.
EvictBuffer(m) ==
    /\ buf[m].src = "read"
    /\ buf' = [buf EXCEPT ![m] = NoBuffer]
    /\ UNCHANGED <<file, index, handle, w, g, latest, older, clash, n, rare>>

Sweeping == w.pc = "files" /\ w.kvs = {}

\* The process dies between two file operations and the database is opened again.
\* An update that was cut short may have reached some of its keys; a sweep that was
\* cut short has replaced chunks the index still assigns other keys to.
Crash ==
    /\ rare < MaxRare /\ ~clash
    /\ rare' = rare + 1
    /\ handle' = [m \in Names |-> NoHandle] /\ buf' = [m \in Names |-> NoBuffer]
    /\ w' = NoUpdate /\ g' = NoJob
    /\ latest' = [k \in Keys |->
         IF k \in w.kvs /\ selectSegmentChunkMeta(k) # 0
         THEN readSegmentedChunkBufferToCache(file[index[selectSegmentChunkMeta(k)].name], k)
         ELSE latest[k]]
    /\ clash' = (clash \/ Sweeping)
    /\ UNCHANGED <<file, index, older, n>>

------------------------------------------------------------------------------
Update == WriteChunkFile \/ CommitUpdate
Collection == GCReadIndex \/ reserveChunkFileName \/ GCWriteChunk \/ GCCommit \/ GCFinish

Next ==
    \/ \E S \in Updates : BeginUpdate(S)
    \/ Update \/ GCAllStorageChunkFiles \/ Collection
    \/ \E k \in Keys : Read(k)
    \/ \E m \in Names : EvictHandle(m) \/ EvictBuffer(m)
    \/ Crash

\* The update holds locks only while it writes; the collection waits for the lock
\* of the folder, which is granted in turn.
Fairness == WF_vars(Update) /\ SF_vars(Collection)
Spec == Init /\ [][Next]_vars /\ Fairness

------------------------------------------------------------------------------
(* Properties.                                                             *)

IsChunk(c) == Range(c) \subseteq [k : Keys, v : 0..MaxWrites]

\* Files, handles, buffers and the two processes have their types.
TypeOK ==
    /\ \A m \in Names : file[m] = NoFile \/ IsChunk(file[m])
    /\ \A m \in Names : handle[m].on \in {"none", "live", "old"} /\ (handle[m].ents = NoFile \/ IsChunk(handle[m].ents))
    /\ \A m \in Names : buf[m].src \in {"none", "read", "gc"} /\ IsChunk(buf[m].ents)
    /\ \A i \in 1..Len(index) : index[i].name \in Names /\ index[i].start \in Keys
    /\ w.pc \in {"idle", "files"} /\ g.pc \in {"idle", "queued", "reserve", "write", "finish"}
    /\ latest \in [Keys -> Nil..MaxWrites] /\ older \subseteq Keys /\ clash \in BOOLEAN
    /\ n \in 0..MaxWrites /\ rare \in 0..MaxRare

\* A lookup (readSegmentedChunkToCacheByPathWithTracker) returns the value of the
\* newest finished update, whatever was appended, rewritten, split, collected,
\* swept, evicted or lost in a crash before it.  Excepted are the keys of which a
\* rewrite kept an older version, and folders in which two files met under one
\* name: both are defects the README records.
ReadLatest ==
    FolderLockFree /\ ~clash => \A k \in Keys \ older : ReadValue(k) = latest[k]

\* The same for every key: "the first duplicate is the newest version", as
\* normalizeTailScannedStorageEntries says of the entries it is given.
ReadNewest ==
    FolderLockFree /\ ~clash => \A k \in Keys : ReadValue(k) = latest[k]

\* Every chunk the index names exists and holds only keys that the index assigns
\* to it, so a key is never in two chunks (partitionEntriesByChunks, splits,
\* the collection's replacement of one chunk by several).
RangesDisjoint ==
    FolderLockFree /\ ~clash =>
        \A i \in 1..Len(index) :
            Exists(index[i].name) /\ \A k \in KeysOf(file[index[i].name]) : findChunkIndexForKey(index, k) = i

\* The buffer a lookup is answered from is the content of the chunk file.
BufferIsFile ==
    FolderLockFree /\ ~clash =>
        \A m \in NamesOf(index) : buf[m].src = "none" \/ buf[m].ents = file[m]

\* A queued collection finishes or is dropped, so the chunk leaves
\* storageGCInFlight and a commit that waits for waitForStorageGCIdle returns.
CollectionEnds == (g.pc # "idle") ~> (g.pc = "idle")
=============================================================================
