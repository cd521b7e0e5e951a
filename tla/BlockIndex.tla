----------------------------- MODULE BlockIndex -----------------------------
(***************************************************************************)
(* The persistence protocol of THEO's BlockAppendOnlyLog                   *)
(* (src/THEO/datablockStore.go): the data file, the block index file with  *)
(* its metadata file, the in-memory index buffer, the writer that holds    *)
(* baol.mu, the background flush goroutine that does not, a crash of the   *)
(* process and the next open.                                              *)
(*                                                                         *)
(* A data record is abstracted to the block ID in its header; offsets are  *)
(* counted in records.  Each handler is a program: the sequence of its     *)
(* steps that another goroutine, or a crash, can tell apart.  The skiplist *)
(* and what Get returns are modelled in BlockLog.                          *)
(***************************************************************************)
EXTENDS Naturals, Sequences, FiniteSets, FiniteSetsExt, Functions

CONSTANTS
    Blocks,         \* block IDs the clients append or mark
    MaxSlot,        \* bound: the last slot of the index file that is modelled
    MaxKvs,         \* bound: records in one append
    MaxData,        \* bound: records in the data file
    MaxStops,       \* bound: crashes and closes
    RecentN,        \* baol.recentN
    Clients,        \* the operations that callers use
    BgFlush,        \* whether the background goroutine's ticker fires
    CloseTimeout,   \* whether Close may give up waiting for the goroutine
    Preload         \* 0: the log starts empty; otherwise its only block

AllClients == {"append", "extend", "new", "delete", "mark", "flush", "close", "crash"}

ASSUME ConstantsAssumption ==
    /\ MaxSlot \in Nat /\ MaxKvs \in Nat /\ MaxData \in Nat
    /\ MaxStops \in Nat /\ RecentN \in Nat \ {0}
    /\ Blocks \subseteq 0 .. MaxSlot
    /\ Clients \subseteq AllClients
    /\ BgFlush \in BOOLEAN /\ CloseTimeout \in BOOLEAN
    /\ Preload \in {0} \union Blocks

Slots == 0 .. MaxSlot

Entry == [blk : Slots, start : Nat, end : Nat]

\* A slot that was never written reads back as zeros, which the code skips.
ZeroEntry == [blk |-> 0, start |-> 0, end |-> 0]

VARIABLES
    data,           \* data file: the block ID of every record
    idx,            \* index file: slot -> entry
    meta,           \* minBlockID in the metadata file; 0: missing, short or 0
    up,             \* the store is open
    minBlockID, latestBlockID, currentOffset, indexBuffer,
    op, pc,         \* the handler that holds baol.mu and its next step
    blk, cnt, staged, entry,    \* the handler's block, kvs, unflushed records, index entry
    wMin, wTaken,   \* its flushIndexBufferWithBlockID: argument, entries to write
    bgPc, bgMin, bgTaken,       \* the goroutine's flushIndexBufferWithBlockID
    acked,          \* history: the entry of every block whose handler returned nil
    lost,           \* history: acknowledged blocks that a stop caught in the goroutine's hands
    stops

disk == <<data, idx, meta>>
memory == <<up, minBlockID, latestBlockID, currentOffset, indexBuffer>>
writer == <<op, pc, blk, cnt, staged, entry, wMin, wTaken>>
goroutine == <<bgPc, bgMin, bgTaken>>
history == <<acked, lost, stops>>
vars == <<disk, memory, writer, goroutine, history>>

-----------------------------------------------------------------------------
\* Looking a block up

ValidEntry(e) == e.end >= e.start /\ e # ZeroEntry

DiskEntryAt(min, b) ==
    IF b >= min /\ idx[b - min].blk = b /\ ValidEntry(idx[b - min])
    THEN {idx[b - min]} ELSE {}

findBlockIndexEntryOnDisk(b) == DiskEntryAt(minBlockID, b)

FirstInBuffer(b) ==
    {indexBuffer[i] : i \in {j \in 1 .. Len(indexBuffer) :
        /\ indexBuffer[j].blk = b
        /\ \A k \in 1 .. (j - 1) : indexBuffer[k].blk # b}}

\* The set holds the entry found, or nothing; the buffer shadows the file.
getBlockIndexEntry(b) ==
    IF FirstInBuffer(b) # {} THEN FirstInBuffer(b) ELSE findBlockIndexEntryOnDisk(b)

Exists(b) == getBlockIndexEntry(b) # {}
TheEntry(b) == CHOOSE e \in getBlockIndexEntry(b) : TRUE

-----------------------------------------------------------------------------
\* What an open reads from the files

loadIndexMeta == meta

LoadedSlots ==
    {s \in Slots : ValidEntry(idx[s]) /\ (loadIndexMeta # 0 => idx[s].blk = loadIndexMeta + s)}

LoadedBlocks == {idx[s].blk : s \in LoadedSlots}

\* A block ID found in two slots keeps the later one.
LoadedEntry(b) ==
    idx[CHOOSE s \in LoadedSlots : idx[s].blk = b /\
            \A t \in LoadedSlots : idx[t].blk = b => t <= s]

InferredMin == IF LoadedBlocks \ {0} = {} THEN 0 ELSE Min(LoadedBlocks \ {0})

RecoveredMin == IF loadIndexMeta = 0 THEN InferredMin ELSE loadIndexMeta
RecoveredLatest == Max(LoadedBlocks \union {0})

\* The recentN largest block IDs: the ones the skiplist is rebuilt from.
RecoveredRecent ==
    {b \in LoadedBlocks : Cardinality({c \in LoadedBlocks : c > b}) < RecentN}

\* rebuildSkiplist reads every recent block's range; a range past the end of
\* the data file makes the open fail.
OpenSucceeds ==
    \A b \in RecoveredRecent :
        LET e == LoadedEntry(b) IN e.end > e.start => e.end <= Len(data)

\* What a lookup returns just after the open, when blockIndex is released.
RecoveredEntry(b) == DiskEntryAt(RecoveredMin, b)

-----------------------------------------------------------------------------
\* The handlers as programs

FillSteps == <<"fill", "take", "drain", "trunc", "meta", "then">>

\* Mutants: the index entry buffered before the data is flushed; no flush of
\* the index buffer before the return.
AppendSteps_IndexFirst == <<"write", "buffer", "setMin", "setLatest", "trunc", "meta",
                            "flushData", "take", "drain", "ack">>
AppendSteps_NoFlush == <<"write", "flushData", "buffer", "setMin", "setLatest",
                         "trunc", "meta", "ack">>
AppendSteps == <<"write", "flushData", "buffer", "setMin", "setLatest",
                 "trunc", "meta", "take", "drain", "ack">>
ExtendSteps_NoFlush == <<"write", "flushData", "buffer", "ack">>
ExtendSteps == <<"write", "flushData", "buffer", "take", "drain", "ack">>
MarkSteps == <<"setMin", "buffer", "setLatest", "take", "drain", "trunc", "meta", "ack">>
NewSteps == <<"write", "setMin", "setLatest", "buffer", "flushData",
              "take", "drain", "trunc", "meta", "ack">>
DeleteSteps == <<"write", "setLatest", "buffer", "flushData", "take", "drain", "ack">>
FlushSteps == <<"flushData", "take", "drain", "trunc", "meta", "then">>
CloseSteps == <<"wait", "take", "drain", "flushData", "closeFiles">>

\* The gap operations fill the blocks between latestBlockID and their own
\* first; gapOnly is an append of no kvs.
Ops == {"none", "append", "gapAppend", "gapOnly", "extend", "mark", "gapMark",
        "new", "delete", "flush", "close"}

Program(o) ==
    CASE o = "append" -> AppendSteps
      [] o = "extend" -> ExtendSteps
      [] o = "mark" -> MarkSteps
      [] o = "new" -> NewSteps
      [] o = "delete" -> DeleteSteps
      [] o = "flush" -> FlushSteps
      [] o = "close" -> CloseSteps
      [] OTHER -> FillSteps

At(step) == op # "none" /\ Program(op)[pc] = step
Advance == pc' = pc + 1 /\ op' = op

-----------------------------------------------------------------------------
\* Calling a handler: its checks and early returns

Call(o, b, n) ==
    /\ up /\ op = "none"
    /\ op' = o /\ pc' = 1 /\ blk' = b /\ cnt' = n
    /\ staged' = 0 /\ entry' = ZeroEntry
    /\ UNCHANGED <<disk, memory, wMin, wTaken, goroutine, history>>

isFirstAppend == latestBlockID = 0 /\ currentOffset = 0

\* Blocks that nobody appended lie between the latest block and b.
Gap_OffByOne(b) == ~isFirstAppend /\ b > latestBlockID + 2
Gap(b) == ~isFirstAppend /\ b > latestBlockID + 1

\* Append(blockID, kvs).  An older block that exists is ignored, one that does
\* not exist is an error: neither changes the state.
AppendCall(b, n) ==
    /\ "append" \in Clients
    /\ Len(data) + n <= MaxData
    /\ b > latestBlockID \/ (b = 0 /\ isFirstAppend)
    /\ Gap(b) \/ n > 0
    /\ Call(IF ~Gap(b) THEN IF b > latestBlockID THEN "append" ELSE "extend"
            ELSE IF n > 0 THEN "gapAppend" ELSE "gapOnly", b, n)

\* Append to the latest block again: more kvs for it.
ExtendCall(n) ==
    /\ "extend" \in Clients
    /\ n > 0 /\ Len(data) + n <= MaxData
    /\ latestBlockID \in Blocks /\ ~isFirstAppend
    /\ Exists(latestBlockID)
    /\ Call("extend", latestBlockID, n)

AppendToNewBlockCall(n) ==
    /\ "new" \in Clients
    /\ n > 0 /\ Len(data) + n <= MaxData
    /\ latestBlockID + 1 \in Blocks
    /\ Call("new", latestBlockID + 1, n)

DeleteCall ==
    /\ "delete" \in Clients
    /\ Len(data) < MaxData
    /\ latestBlockID + 1 \in Blocks
    /\ Call("delete", latestBlockID + 1, 1)

MarkBlockCommittedCall(b) ==
    /\ "mark" \in Clients
    /\ b # 0 /\ b > latestBlockID
    /\ Call(IF b > latestBlockID + 1 THEN "gapMark" ELSE "mark", b, 0)

FlushDataAndIndexCall ==
    /\ "flush" \in Clients
    /\ Call("flush", 0, 0)

CloseCall ==
    /\ "close" \in Clients
    /\ stops < MaxStops
    /\ Call("close", 0, 0)

-----------------------------------------------------------------------------
\* The steps of a handler

Tags(b, n) == [i \in 1 .. n |-> b]

\* One iteration of fillMissingBlocksUntil's loop, or its exit.
FillStep ==
    /\ At("fill")
    /\ IF latestBlockID + 1 < blk
       THEN /\ minBlockID' = IF minBlockID = 0 THEN latestBlockID + 1 ELSE minBlockID
            /\ indexBuffer' = Append(indexBuffer, [blk |-> latestBlockID + 1,
                                 start |-> currentOffset, end |-> currentOffset])
            /\ latestBlockID' = latestBlockID + 1
            /\ UNCHANGED <<op, pc>>
       ELSE Advance /\ UNCHANGED <<minBlockID, indexBuffer, latestBlockID>>
    /\ UNCHANGED <<disk, up, currentOffset, blk, cnt, staged, entry, wMin, wTaken,
                   goroutine, history>>

\* Append puts more kvs of an existing block behind its records; Delete and
\* AppendToNewBlock never look the block up.
Appending == op \in {"append", "extend"} /\ Exists(blk)
StartOffset == IF Appending THEN TheEntry(blk).end ELSE currentOffset
EntryStart == IF Appending THEN TheEntry(blk).start ELSE StartOffset
EndOffset(n) == StartOffset + n

\* dataWriter.Write: a batch larger than the writer's buffer goes to the file
\* in part; the rest stays in the buffer.
WriteStep ==
    /\ At("write")
    /\ entry' = [blk |-> blk, start |-> EntryStart, end |-> EndOffset(cnt)]
    /\ currentOffset' = EndOffset(cnt)
    /\ \E through \in 0 .. cnt :
          /\ data' = data \o Tags(blk, through)
          /\ staged' = cnt - through
    /\ Advance
    /\ UNCHANGED <<idx, meta, up, minBlockID, latestBlockID, indexBuffer,
                   blk, cnt, wMin, wTaken, goroutine, history>>

FlushDataStep ==
    /\ At("flushData")
    /\ data' = data \o Tags(blk, staged)
    /\ staged' = 0
    /\ Advance
    /\ UNCHANGED <<idx, meta, memory, blk, cnt, entry, wMin, wTaken, goroutine, history>>

\* bufferIndexEntry
BufferStep ==
    /\ At("buffer")
    /\ LET e == IF op = "mark"
                THEN [blk |-> blk, start |-> currentOffset, end |-> currentOffset]
                ELSE entry
       IN entry' = e /\ indexBuffer' = Append(indexBuffer, e)
    /\ Advance
    /\ UNCHANGED <<disk, up, minBlockID, latestBlockID, currentOffset,
                   blk, cnt, staged, wMin, wTaken, goroutine, history>>

SetMinStep ==
    /\ At("setMin")
    /\ minBlockID' = IF minBlockID = 0 THEN blk ELSE minBlockID
    /\ Advance
    /\ UNCHANGED <<disk, up, latestBlockID, currentOffset, indexBuffer,
                   blk, cnt, staged, entry, wMin, wTaken, goroutine, history>>

SetLatestStep ==
    /\ At("setLatest")
    /\ latestBlockID' = blk
    /\ Advance
    /\ UNCHANGED <<disk, up, minBlockID, currentOffset, indexBuffer,
                   blk, cnt, staged, entry, wMin, wTaken, goroutine, history>>

\* saveIndexMeta opens the file with O_TRUNC and then writes it.
TruncStep ==
    /\ At("trunc")
    /\ meta' = 0
    /\ Advance
    /\ UNCHANGED <<data, idx, memory, blk, cnt, staged, entry, wMin, wTaken, goroutine, history>>

\* Mutant: the two fields of the metadata swapped.
MetaStep_Swapped ==
    /\ At("meta")
    /\ meta' = latestBlockID
    /\ Advance
    /\ UNCHANGED <<data, idx, memory, blk, cnt, staged, entry, wMin, wTaken, goroutine, history>>

MetaStep ==
    /\ At("meta")
    /\ meta' = minBlockID
    /\ Advance
    /\ UNCHANGED <<data, idx, memory, blk, cnt, staged, entry, wMin, wTaken, goroutine, history>>

\* flushIndexBufferWithBlockID: copy and empty the buffer under indexBufferMu.
TakeStep ==
    /\ At("take")
    /\ wMin' = minBlockID /\ wTaken' = indexBuffer
    /\ indexBuffer' = <<>>
    /\ Advance
    /\ UNCHANGED <<disk, up, minBlockID, latestBlockID, currentOffset,
                   blk, cnt, staged, entry, goroutine, history>>

\* idx after e is written for a log whose first block is min; an entry below
\* min is skipped.
WriteIndex(min, e) ==
    IF e.blk >= min
    THEN [idx EXCEPT ![e.blk - min] = e] ELSE idx

\* The loop over the copied entries, one WriteAt at a time.
DrainStep ==
    /\ At("drain")
    /\ IF wTaken = <<>>
       THEN Advance /\ UNCHANGED <<idx, wTaken>>
       ELSE /\ idx' = WriteIndex(wMin, Head(wTaken))
            /\ wTaken' = Tail(wTaken)
            /\ UNCHANGED <<op, pc>>
    /\ UNCHANGED <<data, meta, memory, blk, cnt, staged, entry, wMin, goroutine, history>>

Idle == op' = "none" /\ pc' = 0 /\ blk' = 0 /\ cnt' = 0 /\ staged' = 0 /\ entry' = ZeroEntry

\* The handler returns nil and releases baol.mu.
AckStep ==
    /\ At("ack")
    /\ acked' = [acked EXCEPT ![blk] = entry]
    /\ lost' = lost \ {blk}
    /\ Idle
    /\ UNCHANGED <<disk, memory, wMin, wTaken, goroutine, stops>>

\* What follows the gap fill, or the return of a handler that commits no block.
ThenStep ==
    /\ At("then")
    /\ IF op \in {"gapAppend", "gapMark"}
       THEN /\ op' = IF op = "gapAppend" THEN "append" ELSE "mark"
            /\ pc' = 1
            /\ UNCHANGED <<blk, cnt, staged, entry>>
       ELSE Idle
    /\ UNCHANGED <<disk, memory, wMin, wTaken, goroutine, history>>

\* Close waits for the goroutine's exit, at most two seconds.
WaitStep ==
    /\ At("wait")
    /\ bgPc = "idle" \/ CloseTimeout
    /\ Advance
    /\ UNCHANGED <<disk, memory, blk, cnt, staged, entry, wMin, wTaken, goroutine, history>>

HeldByGoroutine == {e.blk : e \in Range(bgTaken)}

Stop ==
    /\ up' = FALSE
    /\ minBlockID' = 0 /\ latestBlockID' = 0 /\ currentOffset' = 0 /\ indexBuffer' = <<>>
    /\ Idle /\ wMin' = 0 /\ wTaken' = <<>>
    /\ bgPc' = "idle" /\ bgMin' = 0 /\ bgTaken' = <<>>
    /\ stops' = stops + 1
    /\ lost' = lost \union {b \in Slots : b \in HeldByGoroutine /\ acked[b] # ZeroEntry}
    /\ UNCHANGED <<disk, acked>>

CloseFilesStep == At("closeFiles") /\ Stop

\* The process dies: what write(2) was given survives, memory does not.
Crash ==
    /\ "crash" \in Clients
    /\ up /\ stops < MaxStops
    /\ Stop

\* Mutant: the offset taken from the index instead of the file's size.
RecoveredOffset_Indexed == Max({idx[t].end : t \in LoadedSlots} \union {0})
RecoveredOffset == Len(data)

\* NewBlockAppendOnlyLog on the files that are there.
Open ==
    /\ ~up /\ OpenSucceeds
    /\ up' = TRUE
    /\ minBlockID' = RecoveredMin
    /\ latestBlockID' = RecoveredLatest
    /\ currentOffset' = RecoveredOffset
    /\ UNCHANGED <<disk, indexBuffer, writer, goroutine, history>>

-----------------------------------------------------------------------------
\* backgroundFlush: flushIndexBuffer reads minBlockID without baol.mu

BgCall ==
    /\ BgFlush /\ up /\ bgPc = "idle"
    /\ ~(op = "close" /\ pc > 1)
    /\ bgPc' = "called" /\ bgMin' = minBlockID
    /\ UNCHANGED <<disk, memory, writer, bgTaken, history>>

BgTake ==
    /\ bgPc = "called"
    /\ bgTaken' = indexBuffer /\ indexBuffer' = <<>>
    /\ bgPc' = IF indexBuffer = <<>> THEN "idle" ELSE "drain"
    /\ bgMin' = IF indexBuffer = <<>> THEN 0 ELSE bgMin
    /\ UNCHANGED <<disk, up, minBlockID, latestBlockID, currentOffset, writer, history>>

\* Mutant: a write fails and the entries are not put back into the buffer.
BgDrain_Drop ==
    /\ bgPc = "drain"
    /\ bgTaken' = <<>> /\ bgPc' = "idle" /\ bgMin' = 0
    /\ UNCHANGED <<disk, memory, writer, history>>

BgDrain ==
    /\ bgPc = "drain"
    /\ idx' = WriteIndex(bgMin, Head(bgTaken))
    /\ bgTaken' = Tail(bgTaken)
    /\ bgPc' = IF Tail(bgTaken) = <<>> THEN "idle" ELSE "drain"
    /\ bgMin' = IF Tail(bgTaken) = <<>> THEN 0 ELSE bgMin
    /\ UNCHANGED <<data, meta, memory, writer, history>>

-----------------------------------------------------------------------------
PreEntry == [blk |-> Preload, start |-> 0, end |-> 1]

Init ==
    /\ data = IF Preload = 0 THEN <<>> ELSE <<Preload>>
    /\ idx = [s \in Slots |-> IF s = 0 /\ Preload # 0 THEN PreEntry ELSE ZeroEntry]
    /\ meta = Preload
    /\ up = TRUE
    /\ minBlockID = Preload /\ latestBlockID = Preload
    /\ currentOffset = IF Preload = 0 THEN 0 ELSE 1
    /\ indexBuffer = <<>>
    /\ op = "none" /\ pc = 0 /\ blk = 0 /\ cnt = 0 /\ staged = 0 /\ entry = ZeroEntry
    /\ wMin = 0 /\ wTaken = <<>>
    /\ bgPc = "idle" /\ bgMin = 0 /\ bgTaken = <<>>
    /\ acked = [b \in Slots |-> IF b = Preload /\ Preload # 0 THEN PreEntry ELSE ZeroEntry]
    /\ lost = {} /\ stops = 0

WriterStep ==
    \/ FillStep \/ WriteStep \/ FlushDataStep \/ BufferStep \/ SetMinStep
    \/ SetLatestStep \/ TruncStep \/ MetaStep \/ TakeStep \/ DrainStep
    \/ AckStep \/ ThenStep \/ WaitStep \/ CloseFilesStep

BgStep == BgTake \/ BgDrain

ClientCall ==
    \/ \E b \in Blocks, n \in 0 .. MaxKvs : AppendCall(b, n)
    \/ \E n \in 1 .. MaxKvs : ExtendCall(n) \/ AppendToNewBlockCall(n)
    \/ \E b \in Blocks : MarkBlockCommittedCall(b)
    \/ DeleteCall \/ FlushDataAndIndexCall \/ CloseCall

Next == ClientCall \/ WriterStep \/ BgCall \/ BgStep \/ Crash \/ Open

Spec == Init /\ [][Next]_vars

\* The goroutine and a handler that is running keep running; nobody has to call.
Fairness == WF_vars(BgStep) /\ WF_vars(WriterStep)

FairSpec == Spec /\ Fairness
-----------------------------------------------------------------------------
\* Properties

\* The variables stay in their types.
TypeOK ==
    /\ data \in Seq(Slots) /\ idx \in [Slots -> Entry] /\ meta \in Slots
    /\ up \in BOOLEAN
    /\ minBlockID \in Slots /\ latestBlockID \in Slots /\ currentOffset \in Nat
    /\ indexBuffer \in Seq(Entry)
    /\ op \in Ops /\ pc \in Nat /\ blk \in Slots /\ cnt \in Nat /\ staged \in Nat
    /\ entry \in Entry /\ wMin \in Slots /\ wTaken \in Seq(Entry)
    /\ bgPc \in {"idle", "called", "drain"} /\ bgMin \in Slots /\ bgTaken \in Seq(Entry)
    /\ bgPc = "drain" <=> bgTaken # <<>>
    /\ acked \in [Slots -> Entry] /\ lost \in SUBSET Slots /\ stops \in Nat

Acked(b) == acked[b] # ZeroEntry

\* e is the entry a, possibly extended by later records of the same block.
Covers(e, a) == e.blk = a.blk /\ e.start = a.start /\ e.end >= a.end

\* A crash now followed by an open would find the block.
Durable(b) == \E e \in RecoveredEntry(b) : Covers(e, acked[b])

\* Append, Delete, AppendToNewBlock and MarkBlockCommitted flush the index
\* buffer before they return, so a block whose handler returned survives a
\* crash (datablockStore.go:946, 1811).
AckedDurable == \A b \in Slots : Acked(b) => Durable(b)

\* An acknowledged block is durable unless the background goroutine copied its
\* entry out of the buffer and has not written it yet; a crash loses nothing else.
AckedHeldOrDurable ==
    \A b \in Slots : Acked(b) /\ b \notin lost =>
        Durable(b) \/ \E e \in Range(bgTaken) : Covers(e, acked[b])

\* The range recorded for an acknowledged block holds the records of that
\* block and of no other, whatever was left behind by handlers that crashed.
DataIntact ==
    \A b \in Slots : Acked(b) =>
        /\ acked[b].end <= Len(data)
        /\ \A i \in (acked[b].start + 1) .. acked[b].end : data[i] = b

\* currentOffset is the "current end offset of the data file"
\* (datablockStore.go:87) whenever no handler runs: the next block is indexed
\* where O_APPEND puts it.
OffsetIsFileEnd == up /\ op = "none" => currentOffset = Len(data)

\* Whatever the instant of the crash, the next open finds every recent range
\* inside the data file and succeeds (rebuildSkiplist would fail otherwise).
Reopenable == OpenSucceeds

\* With baol.mu free, every block from minBlockID to latestBlockID is found by
\* a lookup or is in the goroutine's hands: gaps are filled and no flush
\* displaces an entry.  After a crash the slot of an entry that the
\* goroutine held stays empty, so the process must not have stopped before.
ContiguousIndex ==
    up /\ op = "none" /\ latestBlockID # 0 /\ stops = 0 =>
        \A b \in minBlockID .. latestBlockID : Exists(b) \/ b \in HeldByGoroutine

\* A written slot of the index file is never given to another block and its
\* range never shrinks: neither flusher overwrites a newer entry by a stale one.
SlotsOnlyGrow ==
    [][\A s \in Slots : idx[s] # ZeroEntry => Covers(idx'[s], idx[s])]_vars

\* While the store stays open, the goroutine gets every entry it took to the
\* file, so an acknowledged block becomes durable.
EventuallyDurable ==
    \A b \in Slots : (up /\ Acked(b) /\ b \notin lost) ~> (Durable(b) \/ ~up)
=============================================================================
