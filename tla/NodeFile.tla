------------------------------- MODULE NodeFile -------------------------------
(***************************************************************************)
(* One bucket file of the prefix tree (src/THEO/prefixdb/prefixTree.go):   *)
(* a sorted part and an unsorted tail of appended entries.  Writers append *)
(* under the exclusive tree lock, readers search under its shared side,    *)
(* compactions run in the background from a snapshot a reader copied, and  *)
(* a sweep compacts under the exclusive lock.  A read goes to the snapshot *)
(* in flight, else to the file cache, else to the disk.                    *)
(***************************************************************************)
EXTENDS NodeEntries

CONSTANTS
    Readers,        \* concurrent Get calls
    Buffers,        \* pooled read buffers
    MaxWrites,      \* bound: writes of a behaviour
    MaxUnsorted,    \* bound: entries in the unsorted tail
    Callers         \* what the callers of this instance do

ASSUME CallersAssumption ==
    Callers \subseteq {"account", "plan", "pointer", "delete", "recreate",
                       "sweep", "storageGC", "evict", "recycle"}

ASSUME BoundsAssumption == MaxWrites \in Nat /\ MaxUnsorted \in Nat

ASSUME ReadersAssumption == IsFiniteSet(Readers)

NoBuf == 0

\* The pool never runs dry: it has more buffers than there are readers.
ASSUME BuffersAssumption ==
    /\ NoBuf \notin Buffers
    /\ \A held \in [Readers -> Buffers \union {NoBuf}] :
         \E b \in Buffers : \A r \in Readers : held[r] # b

VARIABLES
    file,       \* the file on disk: [sorted, unsorted]
    treeLock,   \* pt.lock: "free", "writer" or "sweep" (exclusive), readers in rd
    wpc,        \* where the writer is
    spc,        \* where the sweep is
    gc,         \* gcInFlight of the file: [st, snap]
    slot,       \* who holds the shared GC worker slot
    fileLock,   \* the stripe lock's exclusive side: "free" or "gc"
    cache,      \* the buffer of the cached entry, NoBuf: not cached
    image,      \* what that entry holds
    refs,       \* reference counts of the buffers' entries
    rd,         \* the readers: [pc, key, buf, hit, snap]
    got,        \* the answers
    writes      \* number of writes so far, also the next account offset

vars == <<file, treeLock, wpc, spc, gc, slot, fileLock, cache, image, refs, rd, got, writes>>

(***************************************************************************)
(* Bounded types.                                                          *)
(***************************************************************************)
Infos == [off : 0..MaxWrites, stor : 0..MaxWrites]
Entries == [key : Keys, info : Infos] \union {Tag}
Unanswered == [off |-> -1, stor |-> -1]

Sorted(f) == Cardinality({k \in Keys : f.sorted[k] # NoInfo})

\* The default threshold 1.0: as many unsorted entries as sorted ones.
shouldScheduleGC(f) == Len(f.unsorted) > 0 /\ Len(f.unsorted) >= Sorted(f)

Content == buildEntriesFromSlices(file)

------------------------------------------------------------------------------
(* The cache of file nodes and its reference counted buffers.              *)

\* Release: the buffer returns to the pool with the last reference.
Release(b, bs) == IF b = NoBuf THEN bs ELSE [bs EXCEPT ![b] = @ - 1]

\* Retain, by a reader that found the entry in the cache.
Retain(b, bs) == [bs EXCEPT ![b] = @ + 1]

\* onSharedCacheEvict: the cache gives up its own reference.
invalidateFileNodeCache(bs) == Release(cache, bs)

\* borrowBuf: a buffer nobody holds a reference to.
borrowBuf(bs) == {b \in Buffers : bs[b] = 0}

\* A loaded or compacted image takes a buffer and replaces the cached entry.
setFileNodeCache(b, data, bs) ==
    /\ refs' = [invalidateFileNodeCache(bs) EXCEPT ![b] = 1]
    /\ cache' = b /\ image' = data

\* The buffer a miss reads into: a fresh one, or with "recycle" any pooled one.
BorrowForLoad ==
    IF "recycle" \in Callers THEN borrowBuf(refs)
    ELSE {CHOOSE b \in borrowBuf(refs) : \A r \in Readers : rd[r].buf # b}

\* A compaction caches a copy of its own.
FreshBuffer(bs) == CHOOSE b \in borrowBuf(bs) : \A r \in Readers : rd[r].buf # b

\* The shared cache evicts the entry to make room for another namespace.
EvictFileNode ==
    /\ "evict" \in Callers /\ cache # NoBuf
    /\ refs' = invalidateFileNodeCache(refs)
    /\ cache' = NoBuf /\ image' = NoFile
    /\ UNCHANGED <<file, treeLock, wpc, spc, gc, slot, fileLock, rd, got, writes>>

------------------------------------------------------------------------------
(* Writers: PutNodeInfosWithBlockID under the exclusive tree lock.         *)

\* The entries a block commit passes for key k: a new account record that keeps
\* the storage pointer, one with a new pointer, a pointer written after the
\* tagged batch (untagged), or a deletion.
CommitEntries(k) ==
    LET now == Content[k]
        n == writes + 1
        e(i) == [key |-> k, info |-> i] IN
    {<<e([off |-> n, stor |-> now.stor]), Tag>> : x \in Callers \intersect {"account"}} \union
    {<<e([off |-> n, stor |-> n]), Tag>> : x \in Callers \intersect {"plan"}} \union
    {<<e([off |-> now.off, stor |-> n])>> : x \in Callers \intersect {"pointer"}} \union
    {<<e(NoInfo), Tag>> : x \in Callers \intersect {"delete"}}

\* Without "recreate" a deleted key is not written again before a compaction.
MayWrite(k) ==
    "recreate" \in Callers \/ \A i \in Hits(file, k) : ~isNodeInfoTombstone(file.unsorted[i].info)

\* The batches that may be appended now.
Writable ==
    {es \in UNION {CommitEntries(k) : k \in {x \in Keys : MayWrite(x)}} :
        Len(file.unsorted) + Len(es) <= MaxUnsorted}

\* A caller asks for the exclusive lock: new readers wait behind it.
WantWrite ==
    /\ wpc = "idle" /\ writes < MaxWrites
    /\ Writable # {}
    /\ wpc' = "lock"
    /\ UNCHANGED <<file, treeLock, spc, gc, slot, fileLock, cache, image, refs, rd, got, writes>>

PutNodeInfosWithBlockID ==
    /\ wpc = "lock"
    /\ treeLock = "free" /\ \A r \in Readers : rd[r].pc = "idle"
    /\ treeLock' = "writer" /\ wpc' = "mutate"
    /\ UNCHANGED <<file, spc, gc, slot, fileLock, cache, image, refs, rd, got, writes>>

\* Mutant: the write does not wait for the compaction in flight.
beginFileMutation_NoWait ==
    /\ wpc = "mutate"
    /\ wpc' = "append"
    /\ UNCHANGED <<file, treeLock, spc, gc, slot, fileLock, cache, image, refs, rd, got, writes>>

\* The write waits for the compaction in flight, then blocks new ones.
beginFileMutation ==
    /\ wpc = "mutate" /\ gc.st = "none"
    /\ wpc' = "append"
    /\ UNCHANGED <<file, treeLock, spc, gc, slot, fileLock, cache, image, refs, rd, got, writes>>

appendFileNodeEntriesWithBlockID ==
    /\ wpc = "append" /\ fileLock = "free"
    /\ refs' = invalidateFileNodeCache(refs) /\ cache' = NoBuf /\ image' = NoFile
    /\ \E es \in Writable : file' = [file EXCEPT !.unsorted = @ \o es]
    /\ writes' = writes + 1
    /\ treeLock' = "free" /\ wpc' = "idle"
    /\ UNCHANGED <<spc, gc, slot, fileLock, rd, got>>

------------------------------------------------------------------------------
(* Readers: Get holds the shared tree lock to its end, the stripe lock for *)
(* the search.                                                             *)

NoRead == [pc |-> "idle", key |-> TagKey, buf |-> NoBuf, hit |-> FALSE, snap |-> NoFile]

\* Get: a waiting writer or sweep holds new readers back.
Get(r) ==
    /\ rd[r].pc = "idle" /\ treeLock = "free" /\ wpc # "lock" /\ spc # "lock"
    /\ rd' = [rd EXCEPT ![r] = [NoRead EXCEPT !.pc = "enter"]]
    /\ UNCHANGED <<file, treeLock, wpc, spc, gc, slot, fileLock, cache, image, refs, got, writes>>

\* Mutant: the cached entry is read without a reference.
Locate_NoRetain(r) ==
    /\ rd[r].pc = "enter" /\ fileLock = "free"
    /\ IF gc.st # "none"
       THEN /\ rd' = [rd EXCEPT ![r].pc = "search", ![r].snap = gc.snap]
            /\ UNCHANGED refs
       ELSE IF cache # NoBuf
       THEN /\ rd' = [rd EXCEPT ![r].pc = "search", ![r].buf = cache, ![r].hit = TRUE,
                               ![r].snap = image]
            /\ UNCHANGED refs
       ELSE /\ rd' = [rd EXCEPT ![r].pc = "load"]
            /\ UNCHANGED refs
    /\ UNCHANGED <<file, treeLock, wpc, spc, gc, slot, fileLock, cache, image, got, writes>>

\* Where the image comes from: the compaction in flight, the cache or the disk.
Locate(r) ==
    /\ rd[r].pc = "enter" /\ fileLock = "free"
    /\ IF gc.st # "none"
       THEN /\ rd' = [rd EXCEPT ![r].pc = "search", ![r].snap = gc.snap]
            /\ UNCHANGED refs
       ELSE IF cache # NoBuf
       THEN /\ rd' = [rd EXCEPT ![r].pc = "search", ![r].buf = cache, ![r].hit = TRUE,
                               ![r].snap = image]
            /\ refs' = Retain(cache, refs)
       ELSE /\ rd' = [rd EXCEPT ![r].pc = "load"]
            /\ UNCHANGED refs
    /\ UNCHANGED <<file, treeLock, wpc, spc, gc, slot, fileLock, cache, image, got, writes>>

\* The miss reads the file and caches the image without keeping a reference.
readDecodedFileNode(r) ==
    /\ rd[r].pc = "load"
    /\ \E b \in BorrowForLoad :
         /\ setFileNodeCache(b, file, refs)
         /\ rd' = [rd EXCEPT ![r].pc = "search", ![r].buf = b, ![r].snap = file]
    /\ UNCHANGED <<file, treeLock, wpc, spc, gc, slot, fileLock, got, writes>>

Search(r) ==
    /\ rd[r].pc = "search"
    /\ \E k \in Keys :
         /\ got' = [got EXCEPT ![r] = getFromFileNodeWithBreakdown(rd[r].snap, k)]
         /\ rd' = [rd EXCEPT ![r].pc = "schedule", ![r].key = k]
    /\ UNCHANGED <<file, treeLock, wpc, spc, gc, slot, fileLock, cache, image, refs, writes>>

\* Not while a mutation of the file is under way or a compaction in flight.
maybeScheduleGC(r) == shouldScheduleGC(rd[r].snap) /\ rd[r].buf # NoBuf /\ gc.st = "none"

\* The end of Get, after the stripe lock is released: schedule a compaction of
\* the image that was searched, drop the reference, release the tree lock.
FinishGet(r) ==
    /\ rd[r].pc = "schedule"
    /\ gc' = IF maybeScheduleGC(r) THEN [st |-> "queued", snap |-> rd[r].snap] ELSE gc
    /\ refs' = IF rd[r].hit THEN Release(rd[r].buf, refs) ELSE refs
    /\ rd' = [rd EXCEPT ![r] = NoRead]
    /\ got' = [got EXCEPT ![r] = Unanswered]
    /\ UNCHANGED <<file, treeLock, wpc, spc, slot, fileLock, cache, image, writes>>

------------------------------------------------------------------------------
(* Compactions, background or of the sweep, and the slot they share with   *)
(* the storage GC.                                                         *)

NoGC == [st |-> "none", snap |-> NoFile]

acquireSharedGCWorker ==
    /\ gc.st = "queued" /\ slot = "free"
    /\ gc' = [gc EXCEPT !.st = "start"] /\ slot' = "tree"
    /\ UNCHANGED <<file, treeLock, wpc, spc, fileLock, cache, image, refs, rd, got, writes>>

\* A storage GC job takes the slot and gives it back; it never takes pt.lock.
StorageGCTakes ==
    /\ "storageGC" \in Callers /\ slot = "free" /\ slot' = "storage"
    /\ UNCHANGED <<file, treeLock, wpc, spc, gc, fileLock, cache, image, refs, rd, got, writes>>

StorageGCReturns ==
    /\ slot = "storage" /\ slot' = "free"
    /\ UNCHANGED <<file, treeLock, wpc, spc, gc, fileLock, cache, image, refs, rd, got, writes>>

\* compactFileFromState takes the stripe lock and drops the cached image.
BeginCompact ==
    /\ gc.st = "start" /\ fileLock = "free"
    /\ \A r \in Readers : rd[r].pc \notin {"load", "search"}
    /\ fileLock' = "gc"
    /\ refs' = invalidateFileNodeCache(refs) /\ cache' = NoBuf /\ image' = NoFile
    /\ gc' = [gc EXCEPT !.st = "write"]
    /\ UNCHANGED <<file, treeLock, wpc, spc, slot, rd, got, writes>>

\* The temporary file is renamed over the node file and its image cached.
compactFileFromState ==
    /\ gc.st = "write"
    /\ LET new == [sorted |-> buildEntriesFromSlices(gc.snap), unsorted |-> <<>>] IN
         /\ file' = new
         /\ setFileNodeCache(FreshBuffer(refs), new, refs)
    /\ fileLock' = "free"
    /\ gc' = [gc EXCEPT !.st = "finish"]
    /\ UNCHANGED <<treeLock, wpc, spc, slot, rd, got, writes>>

\* Mutant: the error returns before finishGC.
CompactFails_NoFinish ==
    /\ gc.st = "write"
    /\ fileLock' = "free" /\ slot' = "free"
    /\ gc' = [gc EXCEPT !.st = "failed"]
    /\ UNCHANGED <<file, treeLock, wpc, spc, cache, image, refs, rd, got, writes>>

\* An error before the rename leaves the file as it was; the job is not retried.
CompactFails ==
    /\ gc.st = "write"
    /\ fileLock' = "free"
    /\ gc' = [gc EXCEPT !.st = "finish"]
    /\ UNCHANGED <<file, treeLock, wpc, spc, slot, cache, image, refs, rd, got, writes>>

\* finishGC wakes the writers that wait, then the slot is returned.
finishGC ==
    /\ gc.st = "finish"
    /\ gc' = NoGC /\ slot' = "free"
    /\ UNCHANGED <<file, treeLock, wpc, spc, fileLock, cache, image, refs, rd, got, writes>>

------------------------------------------------------------------------------
(* CompactAllNodeFiles, under the exclusive tree lock.                     *)

WantSweep ==
    /\ "sweep" \in Callers /\ spc = "idle" /\ spc' = "lock"
    /\ UNCHANGED <<file, treeLock, wpc, gc, slot, fileLock, cache, image, refs, rd, got, writes>>

CompactAllNodeFiles ==
    /\ spc = "lock"
    /\ treeLock = "free" /\ \A r \in Readers : rd[r].pc = "idle"
    /\ treeLock' = "sweep" /\ spc' = "pending"
    /\ UNCHANGED <<file, wpc, gc, slot, fileLock, cache, image, refs, rd, got, writes>>

\* It waits for the compaction in flight, then compacts from the file itself.
buildGCStateFromFile ==
    /\ spc = "pending" /\ gc.st = "none"
    /\ IF file.unsorted = <<>>
       THEN gc' = gc /\ spc' = "idle" /\ treeLock' = "free"
       ELSE gc' = [st |-> "queued", snap |-> file] /\ spc' = "run" /\ UNCHANGED treeLock
    /\ UNCHANGED <<file, wpc, slot, fileLock, cache, image, refs, rd, got, writes>>

runGCJobsInParallel ==
    /\ spc = "run" /\ gc.st = "none"
    /\ spc' = "idle" /\ treeLock' = "free"
    /\ UNCHANGED <<file, wpc, gc, slot, fileLock, cache, image, refs, rd, got, writes>>

------------------------------------------------------------------------------
Init ==
    /\ file = [sorted |-> [k \in Keys |-> NoInfo], unsorted |-> <<>>]
    /\ treeLock = "free" /\ fileLock = "free" /\ slot = "free"
    /\ wpc = "idle" /\ spc = "idle"
    /\ gc = NoGC
    /\ cache = NoBuf /\ image = NoFile /\ refs = [b \in Buffers |-> 0]
    /\ rd = [r \in Readers |-> NoRead]
    /\ got = [r \in Readers |-> Unanswered]
    /\ writes = 0

Write ==
    \/ PutNodeInfosWithBlockID
    \/ beginFileMutation
    \/ appendFileNodeEntriesWithBlockID

Read(r) ==
    \/ Locate(r)
    \/ readDecodedFileNode(r)
    \/ Search(r)
    \/ FinishGet(r)

Compact ==
    \/ BeginCompact
    \/ compactFileFromState
    \/ CompactFails
    \/ finishGC

Sweep ==
    \/ CompactAllNodeFiles
    \/ buildGCStateFromFile
    \/ runGCJobsInParallel

Next ==
    \/ WantWrite
    \/ Write
    \/ \E r \in Readers : Get(r)
    \/ \E r \in Readers : Read(r)
    \/ EvictFileNode
    \/ acquireSharedGCWorker
    \/ StorageGCTakes
    \/ StorageGCReturns
    \/ Compact
    \/ WantSweep
    \/ Sweep

\* Every goroutine that can run does; a channel send that keeps finding room is
\* served; the waiting side of the Go RWMutex is served too.
Fairness ==
    /\ WF_vars(Write) /\ WF_vars(Sweep) /\ WF_vars(Compact)
    /\ SF_vars(PutNodeInfosWithBlockID) /\ SF_vars(CompactAllNodeFiles)
    /\ \A r \in Readers : WF_vars(Read(r))
    /\ SF_vars(acquireSharedGCWorker) /\ WF_vars(StorageGCReturns)

Spec == Init /\ [][Next]_vars /\ Fairness

------------------------------------------------------------------------------
(* Properties                                                              *)

\* The file, the caches, the locks and the processes keep their types.
TypeOK ==
    /\ file \in [sorted : [Keys -> Infos], unsorted : Seq(Entries)]
    /\ treeLock \in {"free", "writer", "sweep"} /\ fileLock \in {"free", "gc"}
    /\ wpc \in {"idle", "lock", "mutate", "append"}
    /\ spc \in {"idle", "lock", "pending", "run"}
    /\ gc.st \in {"none", "queued", "start", "write", "finish"}
    /\ slot \in {"free", "tree", "storage"}
    /\ cache \in Buffers \union {NoBuf}
    /\ writes \in 0..MaxWrites

\* Get answers the newest write of its key, from whichever image it searched:
\* a snapshot being compacted, a cached image or the file.
GetLatest ==
    \A r \in Readers : rd[r].pc = "schedule" => got[r] = Content[rd[r].key]

\* A compaction in flight, even one scheduled from an image read long before,
\* writes back every entry the file holds.
CompactLosesNothing ==
    gc.st \in {"start", "write"} => buildEntriesFromSlices(gc.snap) = Content

\* The cached image is the file: no append or compaction leaves an older one.
CacheIsFile == cache # NoBuf => image = file

\* A reader that found its image in the cache keeps the buffer out of the pool
\* until it is done, whatever is evicted meanwhile.
HitBufferHeld ==
    \A r \in Readers : rd[r].hit => refs[rd[r].buf] > 0

\* Writers wait for compactions while they hold the tree lock, compactions wait
\* for readers and for the storage GC's slot: every write still gets through.
WriteCompletes == wpc = "lock" ~> wpc = "idle"

Map == INSTANCE NodeMap WITH map <- Content

\* The tree is an atomic map: a write takes effect when it is appended, lookups
\* answer the map, and caching, eviction, compaction and sweeps are invisible.
ImplementsMap == Map!Spec
==============================================================================
