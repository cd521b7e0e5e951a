------------------------------- MODULE TheoAol -------------------------------
(***************************************************************************)
(* The block-data path of THEO's Database (src/THEO/theo.go): headers,     *)
(* bodies and receipts are collected per block in the map baolkvs and      *)
(* handed to the BlockAppendOnlyLog when the next block starts             *)
(* (PutWithDataType), at a commit (CommitAOLBatch) or at a sync            *)
(* (SyncKeyValue).  Composes the Database's map with the log of BlockLog.  *)
(***************************************************************************)
EXTENDS BlockLog

CONSTANTS
    Callers     \* what the callers of this instance do

ASSUME CallersAssumption ==
    Callers \subseteq {"put", "late", "batch", "sync", "mark", "delete", "prune", "restart"}

VARIABLES
    baolkvs,            \* the pending key-values of one block
    baolLatestBlock,    \* that block, 0: none
    newest              \* history: what the calls that returned nil wrote

vars == <<logVars, baolkvs, baolLatestBlock, newest>>

Absent == "absent"
NoKvs == [k \in {} |-> Absent]
With(kvs, k, v) == [x \in DOMAIN kvs \union {k} |-> IF x = k THEN v ELSE kvs[x]]
Written(k, v) == newest' = [newest EXCEPT ![k] = v]

\* The append returns nil: the records are written, or silently ignored.
Appends(b, kvs) == AppendBlock(b, kvs)

\* Put of block data.  A key of a newer block first appends the pending block;
\* when that append fails the put fails and changes nothing.
PutWithDataType(k, v) ==
    LET b == KeyBlock[k] IN
    IF b > baolLatestBlock
    THEN /\ IF baolLatestBlock # 0 THEN Appends(baolLatestBlock, baolkvs)
                                   ELSE UNCHANGED logVars
         /\ baolLatestBlock' = b
         /\ baolkvs' = With(NoKvs, k, v)
    ELSE /\ baolkvs' = With(baolkvs, k, v)
         /\ UNCHANGED <<logVars, baolLatestBlock>>

\* The block data of the chain arrives in block order.
InOrder(k) == KeyBlock[k] >= latestBlockID /\ KeyBlock[k] >= baolLatestBlock

Put(k, v) ==
    /\ "put" \in Callers /\ newest[k] = Absent
    /\ "late" \notin Callers => InOrder(k)
    /\ PutWithDataType(k, v)
    /\ Written(k, v)

\* BatchPutToAOL: a batch that spans two blocks is refused.
BatchPutToAOL(k, v) ==
    /\ "batch" \in Callers /\ newest[k] = Absent /\ InOrder(k)
    /\ baolLatestBlock \in {0, KeyBlock[k]}
    /\ baolLatestBlock' = KeyBlock[k]
    /\ baolkvs' = With(baolkvs, k, v)
    /\ Written(k, v)
    /\ UNCHANGED logVars

\* Mutant: the batch is forgotten before it is appended.
CommitAOLBatch_Drop ==
    /\ "batch" \in Callers
    /\ baolLatestBlock # 0 /\ DOMAIN baolkvs # {}
    /\ baolkvs' = NoKvs /\ baolLatestBlock' = 0
    /\ UNCHANGED <<logVars, newest>>

\* CommitAOLBatch: append, flush, forget.
CommitAOLBatch ==
    /\ "batch" \in Callers
    /\ baolLatestBlock # 0 /\ DOMAIN baolkvs # {}
    /\ Appends(baolLatestBlock, baolkvs)
    /\ baolkvs' = NoKvs /\ baolLatestBlock' = 0
    /\ UNCHANGED newest

\* SyncKeyValue: append and forget the key-values but not the block.
SyncKeyValue ==
    /\ "sync" \in Callers
    /\ baolLatestBlock # 0 /\ DOMAIN baolkvs # {}
    /\ Appends(baolLatestBlock, baolkvs)
    /\ baolkvs' = NoKvs
    /\ UNCHANGED <<baolLatestBlock, newest>>

\* MarkBlockCommitted for a block without block data, after the replay's commit.
Mark(b) ==
    /\ "mark" \in Callers
    /\ DOMAIN baolkvs = {}
    /\ MarkBlockCommitted(b)
    /\ UNCHANGED <<baolkvs, baolLatestBlock, newest>>

\* DeleteWithDataType: a tombstone in the log; the pending map is not touched.
\* A pruning caller deletes between blocks, with nothing pending.
DeleteWithDataType(k) ==
    /\ {"delete", "prune"} \intersect Callers # {}
    /\ "prune" \in Callers => DOMAIN baolkvs = {}
    /\ DeleteKey(k)
    /\ Written(k, Tombstone)
    /\ UNCHANGED <<baolkvs, baolLatestBlock>>

\* Close does not append the pending block; what it held is forgotten.
CloseAndOpen ==
    /\ "restart" \in Callers
    /\ Restart
    /\ baolkvs' = NoKvs /\ baolLatestBlock' = 0
    /\ newest' = [k \in Keys |-> IF k \in DOMAIN baolkvs THEN Absent ELSE newest[k]]

-----------------------------------------------------------------------------
\* Readers

Missing == "missing"    \* ErrNotFound

\* GetFromAOL: the pending map, then the log.  Only aolDeleteTombstone, which
\* the log never returns, counts as a deletion marker.
GetFromAOL(k) ==
    IF k \in DOMAIN baolkvs THEN baolkvs[k]
    ELSE IF Get(k) \in {NotFound, Future} THEN Missing ELSE Get(k)

\* HasWithDataType
Has(k) == GetFromAOL(k) # Missing

-----------------------------------------------------------------------------
Init ==
    /\ LogInit
    /\ baolkvs = NoKvs /\ baolLatestBlock = 0
    /\ newest = [k \in Keys |-> Absent]

Next ==
    \/ \E k \in Keys, v \in Vals : Put(k, v) \/ BatchPutToAOL(k, v)
    \/ CommitAOLBatch \/ SyncKeyValue \/ CloseAndOpen
    \/ \E b \in Blocks : Mark(b)
    \/ \E k \in Keys : DeleteWithDataType(k)

Spec == Init /\ [][Next]_vars

-----------------------------------------------------------------------------
\* Properties

\* The pending map and the history keep their types.
TypeOK ==
    /\ DOMAIN baolkvs \subseteq Keys /\ \A k \in DOMAIN baolkvs : baolkvs[k] \in Vals
    /\ baolLatestBlock \in 0 .. MaxBlock /\ latestBlockID \in 0 .. MaxBlock
    /\ newest \in [Keys -> Vals \union {Tombstone, Absent}]

TooOld(k) == latestBlockID > KeyBlock[k] + IgnoredThreshold

\* Block data that a Put or a batch put accepted is read back, from the pending
\* map or from the log, after commits, syncs, commit markers and restarts.
ReadYourWrites ==
    \A k \in Keys : newest[k] \in Vals =>
        GetFromAOL(k) = newest[k] \/ (TooOld(k) /\ GetFromAOL(k) = Empty)

\* A batch commit never meets a block the log would silently ignore or refuse:
\* the pending block is the log's latest block or a newer one.
PendingIsNewest == DOMAIN baolkvs # {} => AppendResult(baolLatestBlock) = "ok"

\* A deletion between blocks hides the key as long as the tombstone's block is in
\* the window of recent blocks, whatever is appended, marked or reopened after it.
TombstoneHides ==
    \A k \in Keys :
        /\ newest[k] = Tombstone
        /\ \E i \in 1 .. Len(log) : log[i].key = k /\ log[i].val = Tombstone
                                     /\ log[i].blk \in indexedBlocks
        => GetFromAOL(k) \notin Vals

\* A deleted key does not exist: "If it's a deletion marker, consider the key
\* non-existent" (theo.go:493).
DeletedIsAbsent == \A k \in Keys : newest[k] = Tombstone => ~Has(k)
=============================================================================
