------------------------------ MODULE BlockLog ------------------------------
(***************************************************************************)
(* What THEO's BlockAppendOnlyLog (src/THEO/datablockStore.go) keeps in    *)
(* memory and what its readers see: the skiplist of the recentN newest     *)
(* blocks, its eviction, its rebuild on open, tombstones, and Get.         *)
(*                                                                         *)
(* baol.mu serialises the handlers, so each is one action; how their       *)
(* writes reach the files is modelled in BlockIndex, and here a restart is *)
(* a clean one.  Offsets are positions in the sequence of records, 0 is    *)
(* "no pointer".  Every key of the types the log stores embeds its block   *)
(* number (ParseBlockNumberFromKey): KeyBlock.                             *)
(***************************************************************************)
EXTENDS Naturals, Sequences, FiniteSets, SequencesExt

CONSTANTS
    Keys, KeyBlock, Vals, Tombstone,
    RecentN, IgnoredThreshold,
    MaxBlock,       \* bound: block IDs
    MaxLog,         \* bound: records
    MaxRestarts     \* bound: restarts

ASSUME BlockLogConstants ==
    /\ KeyBlock \in [Keys -> Nat \ {0}]
    /\ Tombstone \notin Vals
    /\ RecentN \in Nat \ {0} /\ IgnoredThreshold \in Nat
    /\ MaxBlock \in Nat /\ MaxLog \in Nat /\ MaxRestarts \in Nat

Blocks == 1 .. MaxBlock
NoPointer == 0

VARIABLES
    log,            \* the data file: records [blk, key, val]
    index,          \* block -> [start, end], for the blocks that have an entry
    latestBlockID,
    recentBlocks,   \* the tracked blocks, oldest first
    tracking,       \* recentBlocks # nil: a write rebuilt it after the open
    indexedBlocks,
    skiplist,       \* key -> position of a record, or NoPointer
    restarts

logVars == <<log, index, latestBlockID, recentBlocks, tracking, indexedBlocks, skiplist, restarts>>

Indexed(b) == b \in DOMAIN index

-----------------------------------------------------------------------------
\* Write tracking and eviction

Sorted(S) == SetToSortSeq(S, <)
LastN(s) == IF Len(s) <= RecentN THEN s ELSE SubSeq(s, Len(s) - RecentN + 1, Len(s))

PointedBlocks == {log[skiplist[k]].blk : k \in {x \in Keys : skiplist[x] # NoPointer}}

\* ensureWriteTrackingInitialized: after an open the tracked blocks are the
\* ones the skiplist points into.
Tracked == IF tracking THEN recentBlocks ELSE LastN(Sorted(PointedBlocks))

\* updateRecentBlocks for each block of news: those that fall out of the window.
Evicted(news) ==
    LET all == Tracked \o news IN ToSet(SubSeq(all, 1, Len(all) - Len(LastN(all))))

\* evictOldBlockFromSkiplist: only pointers into the evicted blocks go.
Surviving(news) ==
    [k \in Keys |->
        IF skiplist[k] # NoPointer /\ log[skiplist[k]].blk \in Evicted(news)
        THEN NoPointer ELSE skiplist[k]]

StillIndexed(news) == (indexedBlocks \union ToSet(news)) \ Evicted(news)

\* The state after news entered the window and the records of block b, written
\* at the end of the log, were added to the skiplist.
Track(news, b, recs) ==
    /\ tracking' = TRUE
    /\ recentBlocks' = LastN(Tracked \o news)
    /\ indexedBlocks' = StillIndexed(news)
    /\ skiplist' = [k \in Keys |->
          IF b \in StillIndexed(news) /\ \E i \in 1 .. Len(recs) : recs[i].key = k
          THEN Len(log) + CHOOSE i \in 1 .. Len(recs) : recs[i].key = k
          ELSE Surviving(news)[k]]

-----------------------------------------------------------------------------
\* The writers

\* writeLogEntries: one record per key of the map.
Records(b, kvs) ==
    LET ks == SetToSeq(DOMAIN kvs) IN
    [i \in 1 .. Len(ks) |-> [blk |-> b, key |-> ks[i], val |-> kvs[ks[i]]]]

isFirstAppend == latestBlockID = 0 /\ Len(log) = 0

\* Append's monotonicity check.
AppendResult(b) ==
    IF b > latestBlockID THEN "ok"
    ELSE IF ~Indexed(b) THEN "error"
    ELSE IF b < latestBlockID THEN "ignored" ELSE "ok"

GapBlocks(b) ==
    IF isFirstAppend \/ b <= latestBlockID + 1 THEN <<>>
    ELSE [i \in 1 .. (b - latestBlockID - 1) |-> latestBlockID + i]

EmptyRange == [start |-> Len(log), end |-> Len(log)]

\* Append(blockID, kvs) after the check: fill the gap, write the records.
DoAppend(b, kvs) ==
    LET recs == Records(b, kvs)
        fresh == b > latestBlockID /\ Len(recs) > 0
        news == IF fresh THEN Append(GapBlocks(b), b) ELSE GapBlocks(b)
        range == [start |-> IF Indexed(b) THEN index[b].start ELSE Len(log),
                  end |-> Len(log) + Len(recs)]
    IN /\ Len(log) + Len(recs) <= MaxLog
       /\ log' = log \o recs
       /\ index' = [x \in DOMAIN index \union ToSet(news) \union (IF Len(recs) > 0 THEN {b} ELSE {}) |->
                      IF x = b /\ Len(recs) > 0 THEN range
                      ELSE IF Indexed(x) THEN index[x] ELSE EmptyRange]
       /\ latestBlockID' = IF Len(news) > 0 THEN Last(news) ELSE latestBlockID
       /\ Track(news, b, recs)
       /\ UNCHANGED restarts

\* A historical block is silently ignored: Append returns nil and writes nothing.
AppendBlock(b, kvs) ==
    \/ AppendResult(b) = "ok" /\ DoAppend(b, kvs)
    \/ AppendResult(b) = "ignored" /\ UNCHANGED logVars

\* AppendToNewBlock(kvs)
AppendToNewBlock(kvs) ==
    LET b == latestBlockID + 1
        recs == Records(b, kvs)
    IN /\ DOMAIN kvs # {} /\ b \in Blocks /\ Len(log) + Len(recs) <= MaxLog
       /\ log' = log \o recs
       /\ index' = [x \in DOMAIN index \union {b} |->
                      IF x = b THEN [start |-> Len(log), end |-> Len(log) + Len(recs)] ELSE index[x]]
       /\ latestBlockID' = b
       /\ Track(<<b>>, b, recs)
       /\ UNCHANGED restarts

\* The age check of Delete subtracts unsigned: a key of a future block
\* underflows and counts as very old.
DeleteIgnored(k) ==
    latestBlockID > 0 /\ (KeyBlock[k] > latestBlockID \/ latestBlockID - KeyBlock[k] > IgnoredThreshold)

\* Delete(key): a tombstone in a block of its own.
DeleteKey(k) ==
    IF DeleteIgnored(k) THEN UNCHANGED logVars
    ELSE AppendToNewBlock([x \in {k} |-> Tombstone])

\* MarkBlockCommitted(blockID); an old block is a no-op.
MarkBlockCommitted(b) ==
    LET news == [i \in 1 .. (b - latestBlockID) |-> latestBlockID + i] IN
    /\ b > latestBlockID
    /\ index' = [x \in DOMAIN index \union ToSet(news) |-> IF Indexed(x) THEN index[x] ELSE EmptyRange]
    /\ latestBlockID' = b
    /\ Track(news, b, <<>>)
    /\ UNCHANGED <<log, restarts>>

\* DeleteByPrefixInBlock, first half, under the read lock: the keys in P (the
\* ones with the prefix) whose last record in the block is not a tombstone.
PrefixScan(b, P) ==
    {k \in P : \E i \in (index[b].start + 1) .. index[b].end :
        /\ log[i].key = k /\ log[i].val # Tombstone
        /\ \A j \in (i + 1) .. index[b].end : log[j].key # k}

-----------------------------------------------------------------------------
\* Close and open: the skiplist is rebuilt from the recentN newest blocks

Recoverable == LastN(Sorted(DOMAIN index))

\* Mutant: the rebuild keeps the first version it reads.
NewestIn_Oldest(s, k) ==
    LET at == {i \in 1 .. Len(log) : log[i].key = k /\
                 \E b \in ToSet(s) : index[b].start < i /\ i <= index[b].end}
    IN IF at = {} THEN NoPointer ELSE CHOOSE i \in at : \A j \in at : i <= j

\* The newest record of k in the blocks of s: readAndIndexBlockFrom, oldest first.
NewestIn(s, k) ==
    LET at == {i \in 1 .. Len(log) : log[i].key = k /\
                 \E b \in ToSet(s) : index[b].start < i /\ i <= index[b].end}
    IN IF at = {} THEN NoPointer ELSE CHOOSE i \in at : \A j \in at : j <= i

Restart ==
    /\ restarts < MaxRestarts
    /\ restarts' = restarts + 1
    /\ tracking' = FALSE /\ recentBlocks' = <<>>
    /\ indexedBlocks' = ToSet(Recoverable)
    /\ skiplist' = [k \in Keys |-> NewestIn(Recoverable, k)]
    /\ UNCHANGED <<log, index, latestBlockID>>

-----------------------------------------------------------------------------
\* The readers

\* Mutant: the scan starts one record too late.
FirstInBlock_Late(b, k) ==
    LET at == {i \in (index[b].start + 2) .. index[b].end : log[i].key = k}
    IN IF at = {} THEN NoPointer ELSE CHOOSE i \in at : \A j \in at : i <= j

\* findKeyInOneBlock: the first record of the key in the block's range.
FirstInBlock(b, k) ==
    LET at == {i \in (index[b].start + 1) .. index[b].end : log[i].key = k}
    IN IF at = {} THEN NoPointer ELSE CHOOSE i \in at : \A j \in at : i <= j

NotFound == "not found"
Future == "future block"
Empty == "empty"        \* Get returns "", true

ValueAt(i) == IF log[i].val = Tombstone THEN Empty ELSE log[i].val

Get(k) ==
    LET b == KeyBlock[k] IN
    IF skiplist[k] # NoPointer THEN ValueAt(skiplist[k])
    ELSE IF b > latestBlockID THEN Future
    ELSE IF latestBlockID - b > IgnoredThreshold THEN Empty
    ELSE IF b \in indexedBlocks \/ ~Indexed(b) \/ FirstInBlock(b, k) = NoPointer THEN NotFound
    ELSE ValueAt(FirstInBlock(b, k))

LogInit ==
    /\ log = <<>> /\ index = [b \in {} |-> EmptyRange]
    /\ latestBlockID = 0
    /\ recentBlocks = <<>> /\ tracking = FALSE /\ indexedBlocks = {}
    /\ skiplist = [k \in Keys |-> NoPointer]
    /\ restarts = 0
=============================================================================
