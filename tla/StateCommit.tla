----------------------------- MODULE StateCommit -----------------------------
(***************************************************************************)
(* A block commit of the world state and the recovery after a crash: the   *)
(* replay driver's CommitBlock and runRecovery (replayWorkload.go), the    *)
(* batches and BatchCommitWithBlockID (prefixdb.go, storage_batch.go,      *)
(* batch.go), the node cache (cache.go), the global node file with its     *)
(* in-memory index (prefixTree.go) and the trimming of every log after its *)
(* last commit tag.  Node files are those of NodeEntries.                  *)
(*                                                                         *)
(* A record's value is the number of the block that wrote it; an offset is *)
(* a position in its log.  A write call is one step; a crash may cut it    *)
(* after any record.                                                       *)
(***************************************************************************)
EXTENDS NodeEntries, SequencesExt

CONSTANTS
    Global,         \* accounts with short keys: in the global node file
    MaxBlock,       \* bound: blocks of a behaviour
    MaxCrashes,     \* bound: crashes of a behaviour
    MaxEvicts,      \* bound: node cache evictions and reads of a behaviour
    Kinds           \* what a block may do to an account

ASSUME KindsAssumption ==
    /\ Global \subseteq Keys /\ IsFiniteSet(Keys) /\ "global" \notin Keys
    /\ Kinds \subseteq {"none", "put", "stor", "both", "del"}
    /\ MaxBlock \in Nat /\ MaxCrashes \in Nat /\ MaxEvicts \in Nat

VARIABLES
    acctLog,    \* the account file
    storLog,    \* the inline storage log
    nodes,      \* the node files: one per bucket account, and "global"
    gindex,     \* the in-memory index of the global file
    gbatch,     \* the global entries of the commit in progress
    nodeCache,  \* cached node of a bucket account: [on, val, off, stor]
    blocks,     \* what each block does, fixed when it is first executed
    blk,        \* the block being committed, or last committed
    pc,         \* the next step of CommitBlock
    todo,       \* bucket accounts whose node file is still to be appended
    newOff,     \* account offsets the commit assigned
    newStor,    \* storage pointers the commit assigned
    aol,        \* the newest block of the block log
    pebble,     \* the newest block written to Pebble
    crashes,    \* number of crashes so far
    evicts      \* number of reads and evictions so far

diskVars == <<acctLog, storLog, nodes>>
memVars == <<gindex, gbatch, nodeCache>>
commitVars == <<todo, newOff, newStor>>
vars == <<diskVars, memVars, commitVars, blocks, blk, pc, aol, pebble, crashes, evicts>>

Bucket == Keys \ Global
Files == Bucket \union {"global"}
None == -1              \* no value
Rec(k, v) == [k |-> k, v |-> v]
CommitTag(b) == Rec(TagKey, b)
NoNode == [on |-> FALSE, val |-> None, off |-> 0, stor |-> 0]
Undefined == [k \in Keys |-> "undefined"]

------------------------------------------------------------------------------
(* Reading a node and an account.                                          *)

\* prefixTree.Get: the global index, or a search in the bucket file.
TreeGet(k) ==
    IF k \in Global THEN gindex[k] ELSE getFromFileNodeWithBreakdown(nodes[k], k)

\* getNodeWithSource: a cached node is used only when it has a storage pointer.
getNode(k) ==
    IF k \in Bucket /\ nodeCache[k].on /\ nodeCache[k].stor # 0
    THEN [off |-> nodeCache[k].off, stor |-> nodeCache[k].stor]
    ELSE TreeGet(k)

\* getAccountNode: any cached node that says something is used.
getAccountNode(k) ==
    IF k \in Bucket /\ nodeCache[k].on
        /\ (nodeCache[k].off # 0 \/ nodeCache[k].stor # 0 \/ nodeCache[k].val # None)
    THEN [off |-> nodeCache[k].off, stor |-> nodeCache[k].stor]
    ELSE TreeGet(k)

readFromFile(off) == IF off \in 1..Len(acctLog) THEN acctLog[off].v ELSE None

getAccount(k) ==
    IF k \in Bucket /\ nodeCache[k].on /\ nodeCache[k].val # None THEN nodeCache[k].val
    ELSE readFromFile(getAccountNode(k).off)

readStorageSegment(i) == IF i.stor \in 1..Len(storLog) THEN storLog[i.stor].v ELSE None

------------------------------------------------------------------------------
(* The node cache (bucket accounts only: short keys bypass it).            *)

\* Mutant: a node that is already cached is not updated.
StoreMetadata_Stale(k, i, c) ==
    IF c[k].on THEN c ELSE [c EXCEPT ![k] = [on |-> TRUE, val |-> None, off |-> i.off, stor |-> i.stor]]

\* StoreMetadata keeps the cached payload.
StoreMetadata(k, i, c) ==
    [c EXCEPT ![k] = [on |-> TRUE, val |-> IF c[k].on THEN c[k].val ELSE None,
                      off |-> i.off, stor |-> i.stor]]

UpdateValue(k, v, c) == IF c[k].on THEN [c EXCEPT ![k].val = v] ELSE c

NodeCacheDelete(k, c) == [c EXCEPT ![k] = NoNode]

\* A node read from the tree is cached unless it is a tombstone.
CacheNode(k, c) ==
    IF k \in Bucket /\ getNode(k) # NoInfo THEN StoreMetadata(k, getNode(k), c) ELSE c

\* getAccount of a bucket account between two commits.
Read(k) ==
    /\ pc = "idle" /\ evicts < MaxEvicts /\ k \in Bucket /\ ~nodeCache[k].on
    /\ TreeGet(k) # NoInfo
    /\ nodeCache' = [nodeCache EXCEPT ![k] = [on |-> TRUE, val |-> getAccount(k),
                                              off |-> TreeGet(k).off, stor |-> TreeGet(k).stor]]
    /\ evicts' = evicts + 1
    /\ UNCHANGED <<diskVars, gindex, gbatch, commitVars, blocks, blk, pc, aol, pebble, crashes>>

\* The shared cache evicts a node.
EvictNode(k) ==
    /\ pc = "idle" /\ evicts < MaxEvicts /\ nodeCache[k].on
    /\ nodeCache' = NodeCacheDelete(k, nodeCache)
    /\ evicts' = evicts + 1
    /\ UNCHANGED <<diskVars, gindex, gbatch, commitVars, blocks, blk, pc, aol, pebble, crashes>>

\* A background compaction of a bucket file: its tags go.
CompactBucket(k) ==
    /\ pc = "idle" /\ nodes[k].unsorted # <<>>
    /\ nodes' = [nodes EXCEPT ![k] = [sorted |-> buildEntriesFromSlices(nodes[k]), unsorted |-> <<>>]]
    /\ UNCHANGED <<acctLog, storLog, memVars, commitVars, blocks, blk, pc, aol, pebble, crashes, evicts>>

------------------------------------------------------------------------------
(* What the blocks do.                                                     *)

Op(k) == blocks[blk][k]
PutsAccount(op) == op \in {"put", "both"}
PutsStorage(op) == op \in {"stor", "both"}

\* The newest of a set of blocks, 0 if there is none.
Newest(bs) == IF bs = {} THEN 0 ELSE CHOOSE j \in bs : \A i \in bs : i <= j

\* The account, and its storage, after block b: the newest block that wrote it.
ValueAt(k, b) ==
    LET j == Newest({i \in 1..b : PutsAccount(blocks[i][k]) \/ blocks[i][k] = "del"}) IN
    IF j = 0 THEN 0 ELSE IF blocks[j][k] = "del" THEN None ELSE j

StorageAt(k, b) ==
    LET j == Newest({i \in 1..b : PutsStorage(blocks[i][k]) \/ blocks[i][k] = "del"}) IN
    IF j = 0 THEN 0 ELSE IF blocks[j][k] = "del" THEN None ELSE j

\* A block touches at least one account; storage belongs to a live account, and
\* a deleted bucket account is not created again.
Contents(b) ==
    {c \in [Keys -> Kinds] :
        /\ \E k \in Keys : c[k] # "none"
        /\ \A k \in Keys : c[k] \in {"stor", "del"} => ValueAt(k, b - 1) # None
        /\ \A k \in Bucket : PutsAccount(c[k]) => ValueAt(k, b - 1) # None}

------------------------------------------------------------------------------
(* CommitBlock of the replay driver.                                       *)

\* StagePut and StageDelete put the operations into the batches; a cached
\* payload of the account is replaced at once.
Stage ==
    /\ pc = "idle" /\ aol < MaxBlock
    /\ \E c \in IF blocks[aol + 1] = Undefined THEN Contents(aol + 1) ELSE {blocks[aol + 1]} :
         /\ blocks' = [blocks EXCEPT ![aol + 1] = c]
         /\ nodeCache' = [k \in Bucket |->
                IF PutsAccount(c[k]) THEN UpdateValue(k, aol + 1, nodeCache)[k]
                ELSE IF c[k] = "del" THEN UpdateValue(k, None, nodeCache)[k]
                ELSE nodeCache[k]]
    /\ blk' = aol + 1
    /\ pc' = "stor"
    /\ UNCHANGED <<diskVars, gindex, gbatch, commitVars, aol, pebble, crashes, evicts>>

\* The accounts of a set in the order of their writes.
InOrder(S) == SetToSeq(S)

\* Each planned account's merged entries and a tag, in one write.
Segments ==
    LET ks == InOrder({k \in Keys : PutsStorage(Op(k))}) IN
    [i \in 1..2 * Len(ks) |-> IF i % 2 = 1 THEN Rec(ks[(i + 1) \div 2], blk) ELSE CommitTag(blk)]

\* Mutant: the pointer of an account record without a plan is left empty.
OpStorage_NotPreserved(k, plans) == plans[k]

\* preserveAccountStoragePointersExcept: an account record without a plan of its
\* own keeps the pointer of the current node.
OpStorage(k, plans) == IF PutsStorage(Op(k)) THEN plans[k] ELSE getNode(k).stor

appendPreparedInlineStorageSegments ==
    /\ pc = "stor"
    /\ LET plans == [k \in Keys |->
                IF ~PutsStorage(Op(k)) THEN 0
                ELSE CHOOSE i \in Len(storLog) + 1..Len(storLog) + Len(Segments) :
                        Segments[i - Len(storLog)].k = k]
           read == {k \in Bucket : Op(k) \in {"put", "stor", "both"}} IN
         /\ newStor' = [k \in Keys |-> OpStorage(k, plans)]
         /\ nodeCache' = [k \in Bucket |-> IF k \in read THEN CacheNode(k, nodeCache)[k] ELSE nodeCache[k]]
    /\ storLog' = storLog \o Segments
    /\ pc' = "acct"
    /\ UNCHANGED <<acctLog, nodes, gindex, gbatch, todo, newOff, blocks, blk, aol, pebble, crashes, evicts>>

\* Mutant: the block's records are appended without a tag.
AccountRecords_NoTag ==
    LET ks == InOrder({k \in Keys : PutsAccount(Op(k))}) IN
    [i \in 1..Len(ks) |-> Rec(ks[i], blk)]

\* prepareAccountCommit: the records of the block, then its tag.
AccountRecords ==
    LET ks == InOrder({k \in Keys : PutsAccount(Op(k))}) IN
    IF ks = <<>> THEN <<>> ELSE Append([i \in 1..Len(ks) |-> Rec(ks[i], blk)], CommitTag(blk))

AppendAccounts ==
    /\ pc = "acct"
    /\ newOff' = [k \in Keys |->
            IF ~PutsAccount(Op(k)) THEN 0
            ELSE CHOOSE i \in Len(acctLog) + 1..Len(acctLog) + Len(AccountRecords) :
                    AccountRecords[i - Len(acctLog)].k = k]
    /\ acctLog' = acctLog \o AccountRecords
    /\ todo' = {k \in Bucket : PutsAccount(Op(k)) \/ Op(k) = "del"}
    /\ pc' = "node"
    /\ UNCHANGED <<storLog, nodes, memVars, newStor, blocks, blk, aol, pebble, crashes, evicts>>

\* The node entry of an account operation.
AccountEntry(k) ==
    [key |-> k, info |-> IF Op(k) = "del" THEN NoInfo ELSE [off |-> newOff[k], stor |-> newStor[k]]]

\* Mutant: the entries are batched for the file and not indexed.
putGlobalNodeInfos_Forget(es) ==
    /\ gindex' = gindex
    /\ gbatch' = [k \in Global |-> IF k \in DOMAIN es THEN <<es[k]>> ELSE gbatch[k]]

\* putGlobalNodeInfos during a commit: the index now, the file at its end.
putGlobalNodeInfos(es) ==
    LET merged == [k \in DOMAIN es |-> mergeNodeInfoForAppend(gindex[k], es[k])] IN
    /\ gindex' = [k \in Global |-> IF k \in DOMAIN es THEN merged[k] ELSE gindex[k]]
    /\ gbatch' = [k \in Global |-> IF k \in DOMAIN es THEN <<merged[k]>> ELSE gbatch[k]]

\* applyNodeBatch of the account operations, first the global entries ...
ApplyGlobal ==
    /\ pc = "node"
    /\ putGlobalNodeInfos([k \in {x \in Global : PutsAccount(Op(x)) \/ Op(x) = "del"} |-> AccountEntry(k).info])
    /\ pc' = "files"
    /\ UNCHANGED <<diskVars, nodeCache, commitVars, blocks, blk, aol, pebble, crashes, evicts>>

\* ... then one tagged append per bucket file ...
AppendNode(k) ==
    /\ pc = "files" /\ k \in todo
    /\ nodes' = [nodes EXCEPT ![k].unsorted = @ \o <<AccountEntry(k), Tag>>]
    /\ todo' = todo \ {k}
    /\ UNCHANGED <<acctLog, storLog, memVars, newOff, newStor, blocks, blk, pc, aol, pebble, crashes, evicts>>

\* ... then the node cache.
ApplyCache ==
    /\ pc = "files" /\ todo = {}
    /\ nodeCache' = [k \in Bucket |->
            IF Op(k) = "del" THEN NodeCacheDelete(k, nodeCache)[k]
            ELSE IF PutsAccount(Op(k)) THEN StoreMetadata(k, AccountEntry(k).info, nodeCache)[k]
            ELSE nodeCache[k]]
    /\ pc' = "plans"
    /\ UNCHANGED <<diskVars, gindex, gbatch, commitVars, blocks, blk, aol, pebble, crashes, evicts>>

\* The node entry of a storage plan without an account operation.
PlanEntry(k) == [key |-> k, info |-> [off |-> getNode(k).off, stor |-> newStor[k]]]

\* applyStorageCommitPlans, in the same order; these appends carry no tag.
ApplyPlans ==
    /\ pc = "plans"
    /\ putGlobalNodeInfos([k \in {x \in Global : Op(x) = "stor"} |-> PlanEntry(k).info])
    /\ todo' = {k \in Bucket : Op(k) = "stor"}
    /\ pc' = "ptr"
    /\ UNCHANGED <<diskVars, nodeCache, newOff, newStor, blocks, blk, aol, pebble, crashes, evicts>>

AppendPointer(k) ==
    /\ pc = "ptr" /\ k \in todo
    /\ nodes' = [nodes EXCEPT ![k].unsorted = @ \o <<PlanEntry(k)>>]
    /\ todo' = todo \ {k}
    /\ UNCHANGED <<acctLog, storLog, memVars, newOff, newStor, blocks, blk, pc, aol, pebble, crashes, evicts>>

CachePointers ==
    /\ pc = "ptr" /\ todo = {}
    /\ nodeCache' = [k \in Bucket |->
            IF Op(k) = "stor" THEN StoreMetadata(k, PlanEntry(k).info, nodeCache)[k] ELSE nodeCache[k]]
    /\ pc' = "global"
    /\ UNCHANGED <<diskVars, gindex, gbatch, commitVars, blocks, blk, aol, pebble, crashes, evicts>>

\* The batched global entries and a tag.
GlobalRecords ==
    LET ks == InOrder({k \in Global : gbatch[k] # <<>>}) IN
    IF ks = <<>> THEN <<>>
    ELSE Append([i \in 1..Len(ks) |-> [key |-> ks[i], info |-> gbatch[ks[i]][1]]], Tag)

NoBatch == [k \in Global |-> <<>>]

endGlobalCommit ==
    /\ pc = "global"
    /\ nodes' = [nodes EXCEPT !["global"].unsorted = @ \o GlobalRecords]
    /\ gbatch' = NoBatch
    /\ pc' = "aol"
    /\ UNCHANGED <<acctLog, storLog, gindex, nodeCache, commitVars, blocks, blk, aol, pebble, crashes, evicts>>

\* CommitAOLBatch, or MarkBlockCommitted when the block has no block data.
MarkBlockCommitted ==
    /\ pc = "aol"
    /\ aol' = blk /\ pc' = "pebble"
    /\ UNCHANGED <<diskVars, memVars, commitVars, blocks, blk, pebble, crashes, evicts>>

\* The Pebble batch is written last.
WritePebble ==
    /\ pc = "pebble"
    /\ pebble' = blk /\ pc' = "idle"
    /\ UNCHANGED <<diskVars, memVars, commitVars, blocks, blk, aol, crashes, evicts>>

\* A step of the commit returns an error: the deferred endGlobalCommit still
\* appends what was batched, and the driver stops and closes the store.
CommitFails ==
    /\ pc \in {"stor", "acct", "node", "files", "plans", "ptr"} /\ crashes < MaxCrashes
    /\ nodes' = [nodes EXCEPT !["global"].unsorted = @ \o GlobalRecords]
    /\ gbatch' = NoBatch
    /\ crashes' = crashes + 1 /\ pc' = "closing"
    /\ UNCHANGED <<acctLog, storLog, gindex, nodeCache, commitVars, blocks, blk, aol, pebble, evicts>>

------------------------------------------------------------------------------
(* Shutdown, crash and recovery.                                           *)

Loaded(f) == [k \in Global |-> buildEntriesFromSlices(f)[k]]
Fresh == [k \in Bucket |-> NoNode]
Rewritten(f) == [sorted |-> buildEntriesFromSlices(f), unsorted |-> <<>>]

\* A clean shutdown rewrites the global file without its tags; the next start
\* loads the index from it.
Close ==
    /\ pc \in {"idle", "closing"}
    /\ pc = "idle" => evicts < MaxEvicts
    /\ evicts' = IF pc = "idle" THEN evicts + 1 ELSE evicts
    /\ nodes' = [nodes EXCEPT !["global"] = Rewritten(@)]
    /\ gindex' = Loaded(nodes["global"])
    /\ nodeCache' = Fresh
    /\ pc' = "idle"
    /\ UNCHANGED <<acctLog, storLog, gbatch, commitVars, blocks, blk, aol, pebble, crashes>>

\* What a crash leaves of the write that is due.
Cut ==
    \/ /\ pc = "stor" /\ \E p \in Prefixes(Segments) : storLog' = storLog \o p
       /\ UNCHANGED <<acctLog, nodes>>
    \/ /\ pc = "acct" /\ \E p \in Prefixes(AccountRecords) : acctLog' = acctLog \o p
       /\ UNCHANGED <<storLog, nodes>>
    \/ /\ pc = "files"
       /\ \E k \in todo : \E p \in Prefixes(<<AccountEntry(k), Tag>>) :
            nodes' = [nodes EXCEPT ![k].unsorted = @ \o p]
       /\ UNCHANGED <<acctLog, storLog>>
    \/ /\ pc = "global"
       /\ \E p \in Prefixes(GlobalRecords) : nodes' = [nodes EXCEPT !["global"].unsorted = @ \o p]
       /\ UNCHANGED <<acctLog, storLog>>
    \/ /\ pc \in {"node", "plans", "ptr", "aol", "pebble", "idle"}
       /\ UNCHANGED diskVars

Crash ==
    /\ pc # "down" /\ crashes < MaxCrashes
    /\ Cut
    /\ crashes' = crashes + 1 /\ pc' = "down"
    /\ gindex' = [k \in Global |-> NoInfo] /\ gbatch' = NoBatch /\ nodeCache' = Fresh
    /\ UNCHANGED <<commitVars, blocks, blk, aol, pebble, evicts>>

\* What is kept of n records: those up to the last tag, or all if there is none.
Kept(tags, n) == IF tags = {} THEN n ELSE CHOOSE i \in tags : \A j \in tags : j <= i

TagsOf(log) == {i \in 1..Len(log) : log[i].k = TagKey}

\* Mutant: a log is cut before its last tag.
trimFileAfterLastCommitTag_Before(log) ==
    LET n == Kept(TagsOf(log), Len(log)) IN
    IF n \in TagsOf(log) THEN SubSeq(log, 1, n - 2) ELSE log

\* A log is cut after its own last tag, whatever block that is; a log without
\* tags is left alone.
trimFileAfterLastCommitTag(log) == SubSeq(log, 1, Kept(TagsOf(log), Len(log)))

TrimNodeFilesAfterCommitTag(f) ==
    [f EXCEPT !.unsorted = SubSeq(@, 1, Kept(Hits(f, TagKey), Len(@)))]

\* runRecovery: open, take the newest block of the block log, trim if there is
\* one, load the global index from what is left.
TrimLogsAfterCommitTag ==
    /\ pc = "down"
    /\ IF aol = 0 THEN UNCHANGED diskVars
       ELSE /\ acctLog' = trimFileAfterLastCommitTag(acctLog)
            /\ storLog' = trimFileAfterLastCommitTag(storLog)
            /\ nodes' = [f \in Files |-> TrimNodeFilesAfterCommitTag(nodes[f])]
    /\ gindex' = Loaded(nodes'["global"])
    /\ pc' = "idle"
    /\ UNCHANGED <<gbatch, nodeCache, commitVars, blocks, blk, aol, pebble, crashes, evicts>>

------------------------------------------------------------------------------
\* A loaded database: every account has a record and a storage segment, without
\* tags, and a sorted node.
Init ==
    /\ acctLog = [i \in 1..Cardinality(Keys) |-> Rec(InOrder(Keys)[i], 0)]
    /\ storLog = acctLog
    /\ LET at(k) == CHOOSE i \in 1..Cardinality(Keys) : InOrder(Keys)[i] = k
           node(k) == [off |-> at(k), stor |-> at(k)] IN
         /\ nodes = [f \in Files |-> [sorted |-> [k \in Keys |->
                IF f = k \/ (f = "global" /\ k \in Global) THEN node(k) ELSE NoInfo], unsorted |-> <<>>]]
         /\ gindex = [k \in Global |-> node(k)]
    /\ gbatch = NoBatch /\ nodeCache = Fresh
    /\ blocks = [b \in 1..MaxBlock |-> Undefined]
    /\ blk = 0 /\ pc = "idle" /\ todo = {}
    /\ newOff = [k \in Keys |-> 0] /\ newStor = [k \in Keys |-> 0]
    /\ aol = 0 /\ pebble = 0 /\ crashes = 0 /\ evicts = 0

CommitStep ==
    \/ appendPreparedInlineStorageSegments
    \/ AppendAccounts
    \/ ApplyGlobal
    \/ \E k \in Bucket : AppendNode(k)
    \/ ApplyCache
    \/ ApplyPlans
    \/ \E k \in Bucket : AppendPointer(k)
    \/ CachePointers
    \/ endGlobalCommit
    \/ MarkBlockCommitted
    \/ WritePebble

Next ==
    \/ Stage
    \/ CommitStep
    \/ CommitFails
    \/ \E k \in Bucket : Read(k)
    \/ \E k \in Bucket : EvictNode(k)
    \/ \E k \in Bucket : CompactBucket(k)
    \/ Close
    \/ Crash
    \/ TrimLogsAfterCommitTag

Spec == Init /\ [][Next]_vars

------------------------------------------------------------------------------
Idle == pc = "idle"
Entries(f) == {f.sorted[k] : k \in Keys} \union {f.unsorted[i].info : i \in 1..Len(f.unsorted)}

\* The logs, the node files, the caches and the two block numbers have their types.
TypeOK ==
    /\ \A i \in 1..Len(acctLog) : acctLog[i].k \in Keys \union {TagKey} /\ acctLog[i].v \in 0..MaxBlock
    /\ \A i \in 1..Len(storLog) : storLog[i].k \in Keys \union {TagKey} /\ storLog[i].v \in 0..MaxBlock
    /\ \A f \in Files : \A e \in Entries(nodes[f]) : e.off \in Nat /\ e.stor \in Nat
    /\ DOMAIN gindex = Global /\ DOMAIN gbatch = Global /\ DOMAIN nodeCache = Bucket
    /\ pc \in {"idle", "stor", "acct", "node", "files", "plans", "ptr", "global", "aol", "pebble",
               "closing", "down"}
    /\ todo \subseteq Bucket /\ blk \in 0..MaxBlock
    /\ pebble \in 0..MaxBlock /\ aol \in 0..blk

PointsAtOwn(k, i) ==
    /\ i.off # 0 => i.off \in 1..Len(acctLog) /\ acctLog[i.off].k = k
    /\ i.stor # 0 => i.stor \in 1..Len(storLog) /\ storLog[i.stor].k = k

\* No node read from disk or from the index points past the end of a log, or at
\* another account's record, whatever step a crash, a failed commit or a
\* recovery stopped at: BatchCommitWithBlockID writes records before pointers,
\* and recovery trims the logs by tags that are older than the pointers it keeps.
NoDangling ==
    /\ \A k \in Bucket : PointsAtOwn(k, getFromFileNodeWithBreakdown(nodes[k], k))
    /\ \A k \in Global : PointsAtOwn(k, gindex[k])
    /\ Idle => \A k \in Bucket : nodeCache[k].on => PointsAtOwn(k, nodeCache[k])

\* A read of an account gives the value of the newest committed block, or that
\* of the block whose commit was interrupted: never an older one, never a mix
\* with a third block.
AccountsConsistent ==
    Idle => \A k \in Keys : getAccount(k) \in {ValueAt(k, aol), ValueAt(k, blk)}

\* The same of an account's storage while nothing has crashed, and of the
\* accounts in the global file after a crash as well.
StorageConsistent ==
    Idle => \A k \in Keys : (crashes = 0 \/ k \in Global) =>
                readStorageSegment(getNode(k)) \in {StorageAt(k, aol), StorageAt(k, blk)}

\* A cached node of a bucket account says what the node file says, a cached
\* payload is the account's record, and the in-memory index of the global file is
\* what loading the file would give.
CacheCoherent ==
    Idle => /\ \A k \in Bucket : nodeCache[k].on =>
                /\ [off |-> nodeCache[k].off, stor |-> nodeCache[k].stor] = TreeGet(k)
                /\ nodeCache[k].val \in {None, readFromFile(TreeGet(k).off)}
            /\ gindex = Loaded(nodes["global"])

\* A block in Pebble is in the block log, and a block in the block log has left
\* its tag in the account file, across crashes and recoveries.
StoresInOrder ==
    /\ pebble <= aol
    /\ \A b \in 1..aol : (\E k \in Keys : PutsAccount(blocks[b][k])) =>
            \E i \in 1..Len(acctLog) : acctLog[i] = CommitTag(b)

\* A block that is in the block log survives a crash: after recovery every
\* account, and its storage, is that of the newest block of the block log.
CommittedBlockSurvives ==
    Idle /\ blk = aol => \A k \in Keys :
        /\ getAccount(k) = ValueAt(k, aol)
        /\ readStorageSegment(getNode(k)) = StorageAt(k, aol)
==============================================================================
