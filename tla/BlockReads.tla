----------------------------- MODULE BlockReads -----------------------------
(***************************************************************************)
(* Callers of the BlockAppendOnlyLog and what they may rely on: Get against *)
(* the history of the writes that returned, through evictions, tombstones  *)
(* and restarts.                                                           *)
(***************************************************************************)
EXTENDS BlockLog

CONSTANTS
    Programs    \* the programs that use the log: what one does, with which keys and blocks

ASSUME ProgramsAssumption ==
    \A p \in Programs :
        /\ p.does \subseteq {"own", "again", "any", "delete", "prefix", "mark", "restart"}
        /\ p.keys \subseteq Keys /\ p.blocks \subseteq Blocks

VARIABLES
    program,    \* the program that uses the log, chosen once
    newest,     \* history: what was last written under each key
    doomed      \* keys a DeleteByPrefixInBlock has read and not yet deleted

vars == <<logVars, program, newest, doomed>>

Absent == "absent"
NoKeys == {}

Written(kvs) == newest' = [k \in Keys |-> IF k \in DOMAIN kvs THEN kvs[k] ELSE newest[k]]

Maps(S) == UNION {[T -> Vals] : T \in SUBSET S}

\* Block data keys carry the block's hash, so the replay writes each key once,
\* in its own block.
AppendOwn(b, kvs) ==
    /\ "own" \in program.does
    /\ \A k \in DOMAIN kvs : KeyBlock[k] = b /\ newest[k] = Absent
    /\ AppendResult(b) = "ok" /\ DoAppend(b, kvs)
    /\ Written(kvs) /\ UNCHANGED <<program, doomed>>

\* A key of the block is written again, with more kvs for the latest block.
AppendAgain(b, kvs) ==
    /\ "again" \in program.does
    /\ \A k \in DOMAIN kvs : KeyBlock[k] = b
    /\ AppendResult(b) = "ok" /\ DoAppend(b, kvs)
    /\ Written(kvs) /\ UNCHANGED <<program, doomed>>

\* Any key in any block.
AppendAny(b, kvs) ==
    /\ "any" \in program.does
    /\ AppendResult(b) = "ok" /\ DoAppend(b, kvs)
    /\ Written(kvs) /\ UNCHANGED <<program, doomed>>

\* Append of a historical block returns nil; nothing was written.
AppendIgnored(b) ==
    /\ program.does \intersect {"own", "again", "any"} # {}
    /\ AppendResult(b) = "ignored"
    /\ UNCHANGED vars

Delete(k) ==
    /\ "delete" \in program.does
    /\ DeleteKey(k)
    /\ newest' = [newest EXCEPT ![k] = IF DeleteIgnored(k) THEN newest[k] ELSE Tombstone]
    /\ UNCHANGED <<program, doomed>>

\* DeleteByPrefixInBlock releases the lock between the scan and the append.
DeleteByPrefixRead(b, P) ==
    /\ "prefix" \in program.does
    /\ doomed = NoKeys
    /\ Indexed(b) /\ PrefixScan(b, P) # {}
    /\ doomed' = PrefixScan(b, P)
    /\ UNCHANGED <<logVars, program, newest>>

DeleteByPrefixWrite ==
    /\ doomed # NoKeys
    /\ LET kvs == [k \in doomed |-> Tombstone] IN AppendToNewBlock(kvs) /\ Written(kvs)
    /\ doomed' = NoKeys
    /\ UNCHANGED program

Mark(b) ==
    /\ "mark" \in program.does
    /\ MarkBlockCommitted(b)
    /\ UNCHANGED <<program, newest, doomed>>

Reopen ==
    /\ "restart" \in program.does
    /\ Restart
    /\ doomed' = NoKeys
    /\ UNCHANGED <<program, newest>>

Init == LogInit /\ program \in Programs /\ newest = [k \in Keys |-> Absent] /\ doomed = NoKeys

Next ==
    \/ \E b \in program.blocks, kvs \in Maps(program.keys) : AppendOwn(b, kvs) \/ AppendAgain(b, kvs) \/ AppendAny(b, kvs)
    \/ \E b \in program.blocks : AppendIgnored(b) \/ Mark(b)
    \/ \E k \in program.keys : Delete(k)
    \/ \E b \in program.blocks, P \in SUBSET program.keys : DeleteByPrefixRead(b, P)
    \/ DeleteByPrefixWrite \/ Reopen

Spec == Init /\ [][Next]_vars

-----------------------------------------------------------------------------
\* Properties

\* The records, the index, the skiplist and the tracking of blocks keep their types.
TypeOK ==
    /\ \A i \in 1 .. Len(log) : log[i] \in [blk : Blocks, key : Keys, val : Vals \union {Tombstone}]
    /\ DOMAIN index \subseteq Blocks
    /\ \A b \in DOMAIN index : index[b] \in [start : 0 .. MaxLog, end : 0 .. MaxLog]
    /\ latestBlockID \in 0 .. MaxBlock
    /\ ToSet(recentBlocks) \subseteq Blocks /\ indexedBlocks \subseteq Blocks
    /\ skiplist \in [Keys -> 0 .. Len(log)]
    /\ newest \in [Keys -> Vals \union {Tombstone, Absent}] /\ doomed \subseteq Keys

TooOld(k) == latestBlockID > KeyBlock[k] + IgnoredThreshold

\* Get returns what was last written under a key until the key is older than
\* IgnoredThreshold blocks, and never returns a value for a key that was not
\* written: through evictions, gaps, commit markers and restarts.
GetLatest ==
    "own" \in program.does => \A k \in Keys :
        IF newest[k] \in Vals THEN Get(k) = newest[k] \/ (TooOld(k) /\ Get(k) = Empty)
        ELSE Get(k) \notin Vals

\* A skiplist pointer is to the newest record of its key in the whole log, also
\* after it is rebuilt: a pointer to an older version never comes back.
SkiplistNewest ==
    \A k \in Keys : skiplist[k] # NoPointer =>
        /\ log[skiplist[k]].key = k
        /\ \A i \in (skiplist[k] + 1) .. Len(log) : log[i].key # k

\* Get answers "no such key" for a block of indexedBlocks without reading the
\* disk, so every key recorded in such a block has its skiplist pointer.
IndexedComplete ==
    "own" \in program.does => \A b \in indexedBlocks \intersect DOMAIN index :
        \A i \in (index[b].start + 1) .. index[b].end : skiplist[log[i].key] # NoPointer

\* indexedBlocks is the "set of block IDs currently in the skiplist", which
\* indexes "recent N blocks" (datablockStore.go:96, 100).
IndexedBounded == Cardinality(indexedBlocks) <= RecentN

\* Every block in the window of tracked blocks is indexed, and the window is
\* bounded; until the first restart the window is all that is indexed.
WindowAgrees ==
    tracking => /\ Len(recentBlocks) <= RecentN
                /\ ToSet(recentBlocks) \subseteq indexedBlocks
                /\ restarts = 0 => indexedBlocks = ToSet(recentBlocks)

\* A deleted key stays deleted: "Handles tombstones (returns "", true for
\* deleted keys)" (datablockStore.go:1014).
DeletedStaysDeleted == \A k \in Keys : newest[k] = Tombstone => Get(k) \notin Vals
=============================================================================
