------------------------------ MODULE BufferLog ------------------------------
(***************************************************************************)
(* The buffer log of one folder-managed account (prefixdb.go): appends by  *)
(* a block commit, the four structures that answer a lookup (bloom filter, *)
(* account filter, cached index, physical index file), the value cache in  *)
(* front of the log, the chunks behind it, the migration of the values     *)
(* that were read, restarts, crashes and the recovery trim.                *)
(*                                                                         *)
(* One client reads and commits, as the replay driver does; migrations run *)
(* beside it.  A value is the number of the append that wrote it, Nil for  *)
(* a delete; the chunks (module SegmentStore) are a map that starts with   *)
(* the value 0 for every key.  A record has size 1.                        *)
(***************************************************************************)
EXTENDS Integers, Sequences, FiniteSets, SequencesExt

CONSTANTS
    Keys,           \* storage keys of the account
    Logged,         \* keys the log may hold at the start
    Deleted,        \* keys a commit may delete
    Prefetch,       \* storageGetCacheCount > 0: a chunk read caches other keys too
    PromoteMin,     \* bufferLogIndexPromoteMinLogBytes
    ChainMax,       \* records the physical index takes before it is rebuilt
    MaxAppends,     \* bound: number of the newest append
    MaxRestarts     \* bound: restarts and crashes of a behaviour

ASSUME BufferLogAssumption ==
    /\ IsFiniteSet(Keys) /\ Logged \union Deleted \subseteq Keys /\ Prefetch \in BOOLEAN
    /\ {PromoteMin, ChainMax, MaxAppends, MaxRestarts} \subseteq Nat

VARIABLES
    log,        \* the buffer log file
    phys,       \* the physical index file
    bloom,      \* keys of this account in bufferLogBloom
    loaded,     \* the account is in bufferLogBloomLoadedAccounts
    idx,        \* the cached index of the account
    filter,     \* the account key filter
    accessed,   \* bufferLogAccessed: keys read from the log, with the value read
    cache,      \* storageCache
    chunk,      \* the values in the chunk files
    cl,         \* the client
    mig,        \* the migration of the account
    n,          \* number of the newest append
    suspect,    \* keys one of the three recorded defects may serve stale
    restarts    \* restarts and crashes so far

memory == <<bloom, loaded, idx, filter, accessed, cache>>
vars == <<log, phys, memory, chunk, cl, mig, n, suspect, restarts>>

Nil == -1               \* a deleted value
Absent == -2            \* no entry
Values == 0..MaxAppends \union {Nil}
Nothing == [k \in Keys |-> Absent]
Present(f) == {k \in Keys : f[k] # Absent}
Overlay(f, g) == [k \in Keys |-> IF g[k] = Absent THEN f[k] ELSE g[k]]

Rec(k, v) == [k |-> k, v |-> v]
IsTag(r) == r.k = "tag"
IsTorn(r) == r.k = "torn"
Parseable(l) == \A i \in 1..Len(l) : ~IsTorn(l[i])
Whole(l) == SelectSeq(l, LAMBDA r : r.k \in Keys)

\* The position of the newest record of k, 0 when there is none.
Newest(l, k) ==
    LET at == {i \in 1..Len(l) : l[i].k = k} IN
    IF at = {} THEN 0 ELSE CHOOSE i \in at : \A j \in at : j <= i

KeysOf(l) == {l[i].k : i \in 1..Len(l)} \cap Keys

\* What a read of k has to return.
Expected(k) == IF Newest(log, k) = 0 THEN 0 ELSE log[Newest(log, k)].v

NoIndexFile == [on |-> FALSE, covered |-> 0, count |-> 0, recs |-> <<>>]
NoIndex == [on |-> FALSE, size |-> 0, at |-> [k \in Keys |-> 0]]
NoFilter == [on |-> FALSE, size |-> 0, keys |-> {}]
Idle == [pc |-> "idle", key |-> "none", kvs |-> Nothing, off |-> 0, val |-> Absent]
NoMigration == [pc |-> "idle", snap |-> Nothing]

Appending == cl.pc \in {"log", "index", "header", "memory", "sync"}
WriteMutexFree == ~Appending /\ mig.pc \notin {"clear", "sync"}

\* The database was closed with an empty log, or one with the append of block 1.
Init ==
    /\ \/ log = <<>> /\ phys = NoIndexFile
       \/ \E k \in Logged :
            /\ log = <<Rec(k, 1), Rec("tag", 1)>>
            /\ phys = [on |-> TRUE, covered |-> 2, count |-> 1, recs |-> <<Rec(k, 1)>>]
    /\ bloom = {} /\ loaded = FALSE /\ idx = NoIndex /\ filter = NoFilter
    /\ accessed = Nothing /\ cache = Nothing
    /\ chunk = [k \in Keys |-> 0]
    /\ cl = Idle /\ mig = NoMigration
    /\ n = 1 /\ suspect = {} /\ restarts = 0

------------------------------------------------------------------------------
(* The physical index file: records <<key, position in the log>>, and a    *)
(* header with the log size it covers.                                     *)

\* readBufferLogDiskIndexHeader refuses a header whose count is not the file's.
IndexFileValid(p) == p.on /\ p.count = Len(p.recs)
IndexFileCurrent == IndexFileValid(phys) /\ phys.covered = Len(log)
IndexFileKeys == {phys.recs[i].k : i \in 1..Len(phys.recs)}

\* The chain of a bucket is walked from its head: the newest record of k first.
lookupBufferLogPhysicalIndexRef(k) ==
    IF Newest(phys.recs, k) = 0 THEN 0 ELSE phys.recs[Newest(phys.recs, k)].v

IndexRecords(l, from) ==
    LET at == SelectSeq([i \in 1..(Len(l) - from) |-> from + i], LAMBDA i : l[i].k \in Keys) IN
    [i \in 1..Len(at) |-> Rec(l[at[i]].k, at[i])]

\* rebuildBufferLogPhysicalIndexFromBuffer: a temporary file, then a rename.
RebuiltIndexFile ==
    [on |-> TRUE, covered |-> Len(log), count |-> Len(Whole(log)), recs |-> IndexRecords(log, 0)]

buildBufferLogIndexForAccount ==
    [on |-> TRUE, size |-> Len(log), at |-> [k \in Keys |-> Newest(log, k)]]

buildBufferLogIndexFromPhysicalIndex ==
    [on |-> TRUE, size |-> Len(log), at |-> [k \in Keys |-> lookupBufferLogPhysicalIndexRef(k)]]

------------------------------------------------------------------------------
(* A commit appends to the log: appendStorageBatchToBufferLogs.            *)

Go(pc) == cl' = [cl EXCEPT !.pc = pc]

\* Mutant: the keys of the append are not added to the bloom filter.
AddToBloom_None(S) == bloom' = bloom

AddToBloom(S) == bloom' = bloom \union S

\* appendBufferLogEntries adds the keys to the bloom filter and marks the account
\* as loaded, also when the keys already in the log have not been loaded.
BeginCommit(S, D) ==
    /\ cl.pc = "idle" /\ WriteMutexFree /\ n < MaxAppends
    /\ n' = n + 1
    /\ AddToBloom(S) /\ loaded' = TRUE
    /\ suspect' = suspect \union (IF loaded THEN {} ELSE KeysOf(log) \ (bloom \union S))
    /\ cl' = [Idle EXCEPT !.pc = "log", !.off = Len(log),
                          !.kvs = [k \in Keys |-> IF k \notin S THEN Absent
                                                  ELSE IF k \in D THEN Nil ELSE n + 1]]
    /\ UNCHANGED <<log, phys, idx, filter, accessed, cache, chunk, mig, restarts>>

\* The records of an append in key order, and its commit tag.
Payload ==
    LET recs == {Rec(k, cl.kvs[k]) : k \in Present(cl.kvs)} IN
    SetToSeq(recs) \o <<Rec("tag", n)>>

WriteLog ==
    /\ cl.pc = "log"
    /\ log' = log \o Payload
    /\ Go("index")
    /\ UNCHANGED <<phys, memory, chunk, mig, n, suspect, restarts>>

\* The index file ends where the append starts.
Extends == IndexFileValid(phys) /\ phys.covered = cl.off

\* appendBufferLogPhysicalIndexEntries up to the header: a new file for a new log;
\* an index that does not end where the append starts is removed; one with long
\* chains is rebuilt; otherwise the records are added.
AppendIndexRecords ==
    /\ cl.pc = "index"
    /\ LET new == IndexRecords(log, cl.off) IN
       \/ /\ cl.off = 0
          /\ phys' = [on |-> TRUE, covered |-> 0, count |-> 0, recs |-> new]
          /\ filter' = NoFilter /\ Go("header")
       \/ /\ cl.off # 0 /\ ~Extends
          /\ phys' = NoIndexFile /\ filter' = NoFilter /\ Go("memory")
       \/ /\ cl.off # 0 /\ Extends /\ Len(phys.recs) + Len(new) > ChainMax
          /\ phys' = RebuiltIndexFile /\ Go("memory") /\ UNCHANGED filter
       \/ /\ cl.off # 0 /\ Extends /\ Len(phys.recs) + Len(new) <= ChainMax
          /\ phys' = [phys EXCEPT !.recs = @ \o new]
          /\ Go("header") /\ UNCHANGED filter
    /\ UNCHANGED <<log, bloom, loaded, idx, accessed, cache, chunk, mig, n, suspect, restarts>>

WriteIndexHeader ==
    /\ cl.pc = "header"
    /\ phys' = [phys EXCEPT !.covered = Len(log), !.count = Len(phys.recs)]
    /\ Go("memory")
    /\ UNCHANGED <<log, memory, chunk, mig, n, suspect, restarts>>

\* addBufferLogAccountFilterEntries: only a filter that is there is extended.
addBufferLogAccountFilterEntries(S) ==
    filter' = IF filter.on THEN [filter EXCEPT !.size = Len(log), !.keys = @ \union S] ELSE filter

unmarkBufferLogAccessedEntries(S) ==
    accessed' = [k \in Keys |-> IF k \in S THEN Absent ELSE accessed[k]]

\* Mutant: the cached index keeps the reference of an overwritten key.
updateBufferLogIndexForAppend_Keep ==
    idx' = IF idx.on THEN [idx EXCEPT !.size = Len(log),
                                      !.at = [k \in Keys |-> IF @[k] # 0 THEN @[k] ELSE Newest(log, k)]]
           ELSE IF cl.off = 0 THEN buildBufferLogIndexForAccount ELSE idx

\* A cached index is extended; one is created only for a new log.
updateBufferLogIndexForAppend ==
    idx' = IF idx.on
           THEN [idx EXCEPT !.size = Len(log),
                            !.at = [k \in Keys |-> IF cl.kvs[k] # Absent THEN Newest(log, k) ELSE @[k]]]
           ELSE IF cl.off = 0 THEN buildBufferLogIndexForAccount ELSE idx

UpdateMemory ==
    /\ cl.pc = "memory"
    /\ addBufferLogAccountFilterEntries(Present(cl.kvs))
    /\ unmarkBufferLogAccessedEntries(Present(cl.kvs))
    /\ updateBufferLogIndexForAppend
    /\ Go("sync")
    /\ UNCHANGED <<log, phys, bloom, loaded, cache, chunk, mig, n, suspect, restarts>>

\* syncStorageCacheEntries, still under the write mutex, which is then released.
SyncCache ==
    /\ cl.pc = "sync"
    /\ cache' = Overlay(cache, cl.kvs)
    /\ Go("ended")
    /\ UNCHANGED <<log, phys, bloom, loaded, idx, filter, accessed, chunk, mig, n, suspect, restarts>>

\* scheduleAccessedBufferLogMigrations: at most one migration of an account is pending.
EndCommit ==
    /\ cl.pc = "ended"
    /\ mig' = IF mig.pc = "idle" /\ Present(accessed) # {} THEN [mig EXCEPT !.pc = "queued"] ELSE mig
    /\ cl' = Idle
    /\ UNCHANGED <<log, phys, memory, chunk, n, suspect, restarts>>

------------------------------------------------------------------------------
(* getStorage: the value cache, the log, the chunks.                       *)

Return(v) == cl' = [cl EXCEPT !.pc = "done", !.val = v]

ReadCache(k) ==
    /\ cl.pc = "idle"
    /\ cl' = [Idle EXCEPT !.key = k, !.val = cache[k],
                          !.pc = IF cache[k] # Absent THEN "done" ELSE "bloom"]
    /\ UNCHANGED <<log, phys, memory, chunk, mig, n, suspect, restarts>>

\* The bloom filter of an account is loaded from an index file that is current.
ensureBufferLogBloomForAccount == loaded \/ log = <<>> \/ IndexFileCurrent

loadBufferLogBloomFromPhysicalIndex ==
    IF ~loaded /\ log # <<>> /\ IndexFileCurrent THEN bloom \union IndexFileKeys ELSE bloom

\* readBufferLogValue, the bloom filter: a key it does not have is not in the log,
\* once the account is loaded.  fp: the filter is shared between accounts, and may
\* report a key it does not have.
CheckBloom(fp) ==
    /\ cl.pc = "bloom"
    /\ LET miss == cl.key \notin bloom /\ ~fp
       IN /\ bloom' = IF miss THEN loadBufferLogBloomFromPhysicalIndex ELSE bloom
          /\ loaded' = IF miss THEN ensureBufferLogBloomForAccount ELSE loaded
          /\ Go(IF miss /\ loaded' /\ cl.key \notin bloom' THEN "chunk" ELSE "filter")
    /\ UNCHANGED <<log, phys, idx, filter, accessed, cache, chunk, mig, n, suspect, restarts>>

loadBufferLogAccountKeyFilterFromPhysicalIndex ==
    IF IndexFileCurrent THEN [on |-> TRUE, size |-> Len(log), keys |-> IndexFileKeys] ELSE NoFilter

ensureBufferLogAccountKeyFilter ==
    IF filter.on THEN filter
    ELSE IF log = <<>> THEN [on |-> TRUE, size |-> 0, keys |-> {}]
    ELSE loadBufferLogAccountKeyFilterFromPhysicalIndex

\* bufferLogAccountFilterRejectsKey: a filter of another log size is dropped and
\* loaded again.
CheckFilter ==
    /\ cl.pc = "filter"
    /\ LET f == ensureBufferLogAccountKeyFilter
           decides == f.on /\ cl.key \notin f.keys
       IN IF decides /\ f.size # Len(log)
          THEN filter' = NoFilter /\ UNCHANGED cl
          ELSE filter' = f /\ Go(IF decides THEN "chunk" ELSE "lookup")
    /\ UNCHANGED <<log, phys, bloom, loaded, idx, accessed, cache, chunk, mig, n, suspect, restarts>>

\* The first value read from the log since the last append of the key is kept.
markBufferLogAccessed(k, v) ==
    accessed' = IF accessed[k] = Absent THEN [accessed EXCEPT ![k] = v] ELSE accessed

\* A record found at position p is the answer, p = 0 sends the read to the chunks.
Found(p) ==
    IF p = 0 THEN Go("chunk") /\ UNCHANGED accessed
    ELSE Return(log[p].v) /\ markBufferLogAccessed(cl.key, log[p].v)

readBufferLogValueByCachedIndex ==
    /\ cl.pc = "lookup" /\ idx.on /\ idx.size = Len(log)
    /\ Found(idx.at[cl.key])
    /\ UNCHANGED <<log, phys, bloom, loaded, idx, filter, cache, chunk, mig, n, suspect, restarts>>

\* A large log has its index cached on the way.
maybePromoteBufferLogPhysicalIndex ==
    idx' = IF Len(log) >= PromoteMin THEN buildBufferLogIndexFromPhysicalIndex ELSE idx

readBufferLogValueByDiskIndex ==
    /\ cl.pc = "lookup" /\ ~idx.on /\ IndexFileCurrent
    /\ Found(lookupBufferLogPhysicalIndexRef(cl.key))
    /\ maybePromoteBufferLogPhysicalIndex
    /\ UNCHANGED <<log, phys, bloom, loaded, filter, cache, chunk, mig, n, suspect, restarts>>

resetBufferLogState ==
    loaded' = FALSE /\ idx' = NoIndex /\ filter' = NoFilter /\ accessed' = Nothing

\* getBufferLogIndex: the log is scanned, the index cached and its file rebuilt.  A
\* log with a torn record cannot be scanned: the state of the account is reset and
\* the read goes on to the chunks.
ScanLog ==
    /\ cl.pc = "lookup" /\ ~idx.on /\ ~IndexFileCurrent
    /\ \/ /\ Parseable(log)
          /\ idx' = buildBufferLogIndexForAccount
          /\ phys' = IF log # <<>> THEN RebuiltIndexFile ELSE phys
          /\ filter' = IF log # <<>> THEN NoFilter ELSE filter
          /\ Found(Newest(log, cl.key))
          /\ UNCHANGED <<bloom, loaded>>
       \/ /\ ~Parseable(log)
          /\ resetBufferLogState /\ Go("chunk")
          /\ UNCHANGED <<phys, bloom>>
    /\ UNCHANGED <<log, cache, chunk, mig, n, suspect, restarts>>

\* readSegmentedChunkToCacheStreamingByPathWithTracker reads the value, and with
\* prefetching the values of other keys of the chunk ...
ReadChunk(P) ==
    /\ cl.pc = "chunk" /\ cl.key \notin P /\ (P = {} \/ Prefetch)
    /\ cl' = [cl EXCEPT !.pc = "fill", !.val = chunk[cl.key],
                        !.kvs = [k \in Keys |-> IF k \in P \union {cl.key} THEN chunk[k] ELSE Absent]]
    /\ UNCHANGED <<log, phys, memory, chunk, mig, n, suspect, restarts>>

\* ... and adds them to the value cache.
FillCache ==
    /\ cl.pc = "fill"
    /\ cache' = Overlay(cache, cl.kvs)
    /\ Go("done")
    /\ UNCHANGED <<log, phys, bloom, loaded, idx, filter, accessed, chunk, mig, n, suspect, restarts>>

EndRead ==
    /\ cl.pc = "done"
    /\ cl' = Idle
    /\ UNCHANGED <<log, phys, memory, chunk, mig, n, suspect, restarts>>

\* The shared cache evicts a value.
Evict(k) ==
    /\ cache[k] # Absent /\ cl.pc = "idle"
    /\ cache' = [cache EXCEPT ![k] = Absent]
    /\ UNCHANGED <<log, phys, bloom, loaded, idx, filter, accessed, chunk, cl, mig, n, suspect, restarts>>

\* The budget of the cached indexes evicts this one.
enforceBufferLogIndexBudgetLocked ==
    /\ cl.pc = "idle" /\ idx.on /\ idx' = NoIndex
    /\ UNCHANGED <<log, phys, bloom, loaded, filter, accessed, cache, chunk, cl, mig, n, suspect, restarts>>

\* The budget of the account filters evicts this one.
evictBufferLogAccountFiltersLocked ==
    /\ cl.pc = "idle" /\ filter.on /\ filter' = NoFilter
    /\ UNCHANGED <<log, phys, bloom, loaded, idx, accessed, cache, chunk, cl, mig, n, suspect, restarts>>

------------------------------------------------------------------------------
(* migrateBufferLogForAccount: the values read from the log go to chunks.  *)

TakeSnapshot ==
    /\ mig.pc = "queued"
    /\ mig' = IF Present(accessed) = {} THEN NoMigration ELSE [pc |-> "lock", snap |-> accessed]
    /\ UNCHANGED <<log, phys, memory, chunk, cl, n, suspect, restarts>>

\* Keys whose mark has gone since the snapshot are dropped; the values are still
\* those of the snapshot.
StillAccessed == [k \in Keys |-> IF accessed[k] # Absent THEN mig.snap[k] ELSE Absent]

WriteChunks ==
    /\ mig.pc = "lock" /\ WriteMutexFree
    /\ chunk' = Overlay(chunk, StillAccessed)
    /\ mig' = IF Present(StillAccessed) = {} THEN NoMigration
              ELSE [pc |-> "clear", snap |-> StillAccessed]
    /\ suspect' = suspect \union {k \in Present(accessed) : mig.snap[k] \notin {Absent, Expected(k)}}
    /\ UNCHANGED <<log, phys, memory, cl, n, restarts>>

clearBufferLogAccessed ==
    /\ mig.pc = "clear"
    /\ accessed' = [k \in Keys |-> IF mig.snap[k] # Absent THEN Absent ELSE accessed[k]]
    /\ mig' = [mig EXCEPT !.pc = "sync"]
    /\ UNCHANGED <<log, phys, bloom, loaded, idx, filter, cache, chunk, cl, n, suspect, restarts>>

SyncMigrated ==
    /\ mig.pc = "sync"
    /\ cache' = Overlay(cache, mig.snap)
    /\ mig' = NoMigration
    /\ UNCHANGED <<log, phys, bloom, loaded, idx, filter, accessed, chunk, cl, n, suspect, restarts>>

------------------------------------------------------------------------------
(* Restarts.                                                               *)

MemoryLost ==
    /\ bloom' = {} /\ loaded' = FALSE /\ idx' = NoIndex /\ filter' = NoFilter
    /\ accessed' = Nothing /\ cache' = Nothing
    /\ cl' = Idle /\ mig' = NoMigration
    /\ restarts < MaxRestarts /\ restarts' = restarts + 1
    /\ suspect' = IF Parseable(log') THEN {} ELSE Keys

\* Close waits for the migrations.
Reopen ==
    /\ cl.pc = "idle" /\ mig.pc = "idle"
    /\ UNCHANGED <<log, phys, chunk, n>>
    /\ MemoryLost

\* What a crash leaves of the log: a write may stop after, or inside, any record.
LogsAfterCrash ==
    IF cl.pc # "log" THEN {log}
    ELSE {log \o SubSeq(Payload, 1, i) : i \in 0..Len(Payload)}
         \union {log \o SubSeq(Payload, 1, i) \o <<Rec("torn", 0)>> : i \in 0..(Len(Payload) - 1)}

\* Mutant: the log is cut in front of its last tag.
trimFileAfterLastCommitTag_Before(l) ==
    LET tags == {i \in 1..Len(l) : IsTag(l[i])} IN
    IF tags = {} THEN l ELSE SubSeq(l, 1, (CHOOSE i \in tags : \A j \in tags : j <= i) - 1)

\* A log is cut after the last tag in front of a torn record; one without is kept.
trimFileAfterLastCommitTag(l) ==
    LET tags == {i \in 1..Len(l) : IsTag(l[i]) /\ Parseable(SubSeq(l, 1, i))} IN
    IF tags = {} THEN l ELSE SubSeq(l, 1, CHOOSE i \in tags : \A j \in tags : j <= i)

\* A crash, the next start, and TrimLogsAfterCommitTag: chunk files are cut too, and
\* the migrated values, which carry no tag, may go.
CrashAndRecover ==
    /\ \E l \in LogsAfterCrash : log' = trimFileAfterLastCommitTag(l)
    /\ phys' = NoIndexFile
    /\ \E L \in SUBSET Keys : chunk' = [k \in Keys |-> IF k \in L THEN 0 ELSE chunk[k]]
    /\ MemoryLost
    /\ UNCHANGED n

------------------------------------------------------------------------------

Client ==
    \/ WriteLog \/ AppendIndexRecords \/ WriteIndexHeader \/ UpdateMemory
    \/ SyncCache \/ EndCommit
    \/ \E fp \in BOOLEAN : CheckBloom(fp)
    \/ CheckFilter \/ readBufferLogValueByCachedIndex \/ readBufferLogValueByDiskIndex
    \/ ScanLog \/ \E P \in SUBSET Keys : ReadChunk(P)
    \/ FillCache \/ EndRead

Migration == TakeSnapshot \/ WriteChunks \/ clearBufferLogAccessed \/ SyncMigrated

Next ==
    \/ \E S \in SUBSET Keys \ {{}} : \E D \in SUBSET (S \cap Deleted) : BeginCommit(S, D)
    \/ \E k \in Keys : ReadCache(k) \/ Evict(k)
    \/ Client \/ Migration \/ Reopen \/ CrashAndRecover
    \/ enforceBufferLogIndexBudgetLocked \/ evictBufferLogAccountFiltersLocked

\* An operation of the client that has begun goes on, and a goroutine that can run
\* and waits for a lock that keeps being released gets it in the end.
Fairness == WF_vars(Client) /\ SF_vars(Migration)

Spec == Init /\ [][Next]_vars /\ Fairness

------------------------------------------------------------------------------

\* The log, the index file and the structures in memory keep their types, and
\* no index claims more than the log holds.
TypeOK ==
    /\ \A i \in 1..Len(log) : log[i].k \in Keys \union {"tag", "torn"} /\ log[i].v \in Values
    /\ phys.count <= Len(phys.recs) /\ phys.covered <= Len(log)
    /\ bloom \subseteq Keys /\ loaded \in BOOLEAN
    /\ idx.size <= Len(log) /\ \A k \in Keys : idx.at[k] \in 0..Len(log)
    /\ filter.keys \subseteq Keys
    /\ {accessed, cache, cl.kvs, mig.snap} \subseteq [Keys -> Values \union {Absent}]
    /\ chunk \in [Keys -> Values]
    /\ n <= MaxAppends /\ suspect \subseteq Keys

\* A read returns the value of the newest append of its key, whichever of the value
\* cache, the log's structures and the chunks answers it, across migrations,
\* restarts and crashes (getStorage).  Keys that a recorded defect touched are
\* excepted: see suspect.
ReadLatest == cl.pc = "done" /\ cl.key \notin suspect => cl.val = Expected(cl.key)

\* A read returns the value of the newest append of its key, with no exception.
ReadNewest == cl.pc = "done" => cl.val = Expected(cl.key)

\* Between two appends the index file, the cached index and the account filter, when
\* they claim to cover the whole log, are exact: each key's newest record is found
\* and no key of the log is rejected.
IndexesExact ==
    ~Appending =>
        /\ IndexFileCurrent /\ Parseable(log) =>
               \A k \in Keys : lookupBufferLogPhysicalIndexRef(k) = Newest(log, k)
        /\ idx.on => idx = buildBufferLogIndexForAccount
        /\ filter.on /\ filter.size = Len(log) => KeysOf(log) \subseteq filter.keys

\* A value waiting for its migration is the newest of its key: an append takes the
\* mark away (unmarkBufferLogAccessedEntries).
AccessedFresh ==
    ~Appending => \A k \in Present(accessed) : accessed[k] = Expected(k)

\* The value cache, which is asked before the log, never holds an older value than
\* the log, except for the keys that a recorded defect touched.
CacheCoherent ==
    ~Appending => \A k \in Present(cache) \ suspect : cache[k] = Expected(k)

\* An append whose commit returned is in the log for good: the recovery trim keeps it.
CommittedKept ==
    [][\A i \in 1..Len(log) : IsTag(log[i]) /\ Parseable(SubSeq(log, 1, i))
          => Len(log') >= i /\ SubSeq(log', 1, i) = SubSeq(log, 1, i)]_vars

\* A migration that was scheduled ends: it gets the write mutex between two commits.
MigrationEnds == mig.pc # "idle" ~> mig.pc = "idle"

==============================================================================
