------------------------ MODULE BlockIndexContents ------------------------
(***************************************************************************)
(* Proofs that the range acknowledged for a block holds that block's       *)
(* records whatever crashed before (DataIntact), that currentOffset is the *)
(* end of the data file (OffsetIsFileEnd), and that no block between the   *)
(* first and the latest is missing before a stop (ContiguousIndex).        *)
(***************************************************************************)
EXTENDS BlockIndexDurability

\* The handler has computed the range of its block.
EntryWritten ==
    \/ op \in {"append", "new", "delete"} /\ pc > 1
    \/ op = "mark" /\ pc > 2

\* The next record goes where currentOffset says, after those still buffered.
OffsetFollows ==
    /\ up => currentOffset = Len(data) + staged
    /\ staged # 0 => Unflushed

\* The range of the running handler ends with the records it buffered, and what
\* of it is in the file already is the handler's.
RangeWritten ==
    EntryWritten => /\ entry.end = Len(data) + staged
                    /\ \A i \in (entry.start + 1) .. Len(data) : data[i] = blk

ContentsInv == OffsetFollows /\ RangeWritten /\ DataIntact

-----------------------------------------------------------------------------
\* The records of the data file

\* The data writer adds records at the end.
LEMMA DataGrows ==
  ASSUME TypeOK, NEW n \in Nat, data' = data \o Tags(blk, n)
  PROVE  /\ Len(data) \in Nat /\ Len(data') = Len(data) + n
         /\ \A i \in 1 .. Len(data) : data'[i] = data[i]
         /\ \A i \in (Len(data) + 1) .. Len(data') : data'[i] = blk
<1>1. /\ Tags(blk, n) \in Seq(Slots) /\ Len(Tags(blk, n)) = n
      /\ \A i \in 1 .. n : Tags(blk, n)[i] = blk
  BY TagsType DEF TypeOK, Tags
<1>2. data \in Seq(Slots) /\ Len(data) \in Nat
  BY LenProperties DEF TypeOK
<1>3. /\ Len(data') = Len(data) + n
      /\ \A i \in 1 .. (Len(data) + n) :
            data'[i] = IF i <= Len(data) THEN data[i] ELSE Tags(blk, n)[i - Len(data)]
  BY <1>1, <1>2, ConcatProperties
<1>4. ASSUME NEW i \in 1 .. Len(data) PROVE data'[i] = data[i]
  BY <1>2, <1>3
<1>5. ASSUME NEW i \in (Len(data) + 1) .. Len(data') PROVE data'[i] = blk
  <2>1. i \in 1 .. (Len(data) + n) /\ ~(i <= Len(data)) /\ i - Len(data) \in 1 .. n
    BY <1>2, <1>3
  <2> QED BY <1>1, <1>3, <2>1
<1> QED BY <1>2, <1>3, <1>4, <1>5

\* Records behind an acknowledged range do not change it.
LEMMA IntactGrows ==
  ASSUME TypeOK, DataIntact, NEW n \in Nat, data' = data \o Tags(blk, n), acked' = acked
  PROVE  DataIntact'
<1> SUFFICES ASSUME NEW b \in Slots, acked[b] # ZeroEntry
             PROVE  /\ acked[b].end <= Len(data')
                    /\ \A i \in (acked[b].start + 1) .. acked[b].end : data'[i] = b
  BY DEF DataIntact, Acked
<1>1. /\ acked[b].end <= Len(data) /\ acked[b].start \in Nat /\ acked[b].end \in Nat
      /\ \A i \in (acked[b].start + 1) .. acked[b].end : data[i] = b
  BY DEF DataIntact, Acked, TypeOK, Entry
<1>2. /\ Len(data) \in Nat /\ Len(data') = Len(data) + n
      /\ \A i \in 1 .. Len(data) : data'[i] = data[i]
  BY DataGrows
<1>3. ASSUME NEW i \in (acked[b].start + 1) .. acked[b].end PROVE data'[i] = b
  <2>1. i \in 1 .. Len(data)
    BY <1>1, <1>2
  <2> QED BY <1>1, <1>2, <2>1
<1> QED BY <1>1, <1>2, <1>3

\* The records that a handler has not flushed: it is before its flush.
LEMMA UnflushedAdvances ==
  ASSUME TypeOK, PcInProgram, Unflushed, Advance, ~At("flushData")
  PROVE  Unflushed'
<1>1. op # "none" /\ pc \in Nat /\ op' = op /\ pc' = pc + 1
  BY DEF Unflushed, Advance, TypeOK
<1>2. op \in {"append", "extend"} => pc # 2
  BY <1>1 DEF At, Program, AppendSteps, ExtendSteps
<1>3. op = "new" => pc # 5
  BY <1>1 DEF At, Program, NewSteps
<1>4. op = "delete" => pc # 4
  BY <1>1 DEF At, Program, DeleteSteps
<1> QED BY <1>1, <1>2, <1>3, <1>4 DEF Unflushed

\* A step that neither writes records nor acknowledges.
LEMMA QuietContents ==
  ASSUME ContentsInv, UNCHANGED <<data, currentOffset, up, blk, staged, entry, acked>>,
         EntryWritten' => EntryWritten, Unflushed => Unflushed'
  PROVE  ContentsInv'
<1>1. OffsetFollows'
  BY DEF ContentsInv, OffsetFollows
<1>2. RangeWritten'
  BY DEF ContentsInv, RangeWritten
<1>3. DataIntact'
  BY DEF ContentsInv, DataIntact, Acked
<1> QED BY <1>1, <1>2, <1>3 DEF ContentsInv

\* No handler, or one that has no range yet, and nothing staged.
LEMMA FreshContents ==
  ASSUME TypeOK, ContentsInv, UNCHANGED <<data, acked>>, staged' = 0, ~EntryWritten',
         up' => currentOffset' = Len(data)
  PROVE  ContentsInv'
<1>1. Len(data) \in Nat /\ Len(data) + 0 = Len(data)
  BY LenProperties DEF TypeOK
<1>2. OffsetFollows'
  BY <1>1 DEF OffsetFollows
<1>3. RangeWritten'
  BY DEF RangeWritten
<1>4. DataIntact'
  BY DEF ContentsInv, DataIntact, Acked
<1> QED BY <1>2, <1>3, <1>4 DEF ContentsInv

\* With nothing staged the offset is the end of the file.
LEMMA OffsetAtEnd ==
  ASSUME TypeOK, ContentsInv, ~Unflushed
  PROVE  staged = 0 /\ (up => currentOffset = Len(data))
<1>1. Len(data) \in Nat /\ Len(data) + 0 = Len(data)
  BY LenProperties DEF TypeOK
<1> QED BY <1>1 DEF ContentsInv, OffsetFollows

\* Only write and bufferIndexEntry give a handler its range.
LEMMA WrittenAdvances ==
  ASSUME TypeOK, PcInProgram, Advance, op # "none", ~At("write"), ~At("buffer"), EntryWritten'
  PROVE  EntryWritten
<1>1. pc \in Nat /\ pc \in 1 .. Len(Program(op)) /\ op' = op /\ pc' = pc + 1
  BY DEF Advance, TypeOK, PcInProgram
<1>2. op \in {"append", "new", "delete"} => pc # 1
  BY <1>1 DEF At, Program, AppendSteps, NewSteps, DeleteSteps
<1>3. op = "mark" => pc # 2
  BY <1>1 DEF At, Program, MarkSteps
<1> QED BY <1>1, <1>2, <1>3 DEF EntryWritten

\* The steps that advance and touch neither records nor ranges.
LEMMA AdvanceContents ==
  ASSUME TypeOK, PcInProgram, ContentsInv, Advance, NEW step, At(step),
         step \notin {"write", "buffer", "flushData"},
         UNCHANGED <<data, currentOffset, up, blk, staged, entry, acked>>
  PROVE  ContentsInv'
<1>1. op # "none" /\ ~At("write") /\ ~At("buffer") /\ ~At("flushData")
  BY DEF At
<1>2. EntryWritten' => EntryWritten
  BY <1>1, WrittenAdvances
<1>3. Unflushed => Unflushed'
  BY <1>1, UnflushedAdvances
<1> QED BY <1>2, <1>3, QuietContents

\* The write of a block's records.
LEMMA WriteContents ==
  ASSUME DurabilityAssumption, DurabilityInv, ContentsInv, WriteStep
  PROVE  ContentsInv'
<1>1. op \in {"append", "new", "delete"} /\ pc = 1 /\ op' = op /\ pc' = 2 /\ up
  <2>1. op \in {"append", "extend", "new", "delete"} /\ pc = 1
    BY StepPositions DEF DurabilityInv, WriteStep
  <2>2. op' = op /\ pc' = pc + 1
    BY DEF WriteStep, Advance
  <2> QED BY <2>1, <2>2, NotExtending DEF DurabilityInv, Kept, OneMinimum
<1>2. staged = 0 /\ currentOffset = Len(data) /\ Len(data) \in Nat /\ cnt \in Nat /\ TypeOK
  <2>1. ~Unflushed
    BY <1>1 DEF Unflushed
  <2>2. Len(data) \in Nat /\ cnt \in Nat
    BY LenProperties DEF DurabilityInv, TypeOK
  <2> QED BY <1>1, <2>1, <2>2, OffsetAtEnd DEF DurabilityInv
<1>3. /\ entry'.start = Len(data) /\ entry'.end = Len(data) + cnt /\ currentOffset' = Len(data) + cnt
      /\ UNCHANGED <<up, blk, acked>>
  BY <1>1, <1>2, NewBlockNotFound DEF WriteStep, EntryStart, EndOffset, StartOffset, history
<1>4. PICK through \in 0 .. cnt : data' = data \o Tags(blk, through) /\ staged' = cnt - through
  BY DEF WriteStep
<1>5. through \in Nat /\ staged' \in Nat /\ through + staged' = cnt
  BY <1>2, <1>4
<1>6. /\ Len(data') = Len(data) + through
      /\ \A i \in (Len(data) + 1) .. Len(data') : data'[i] = blk
  BY <1>2, <1>4, <1>5, DataGrows
<1>7. Len(data') + staged' = Len(data) + cnt
  <2>1. \A a, t, g \in Nat : (a + t) + g = a + (t + g)
    OBVIOUS
  <2>2. (Len(data) + through) + staged' = Len(data) + (through + staged')
    BY <1>2, <1>5, <2>1, Zenon
  <2> QED BY <1>5, <1>6, <2>2, Zenon
<1>8. OffsetFollows'
  BY <1>1, <1>3, <1>7 DEF OffsetFollows, Unflushed
<1>9. RangeWritten'
  BY <1>3, <1>6, <1>7 DEF RangeWritten
<1>10. DataIntact'
  BY <1>2, <1>3, <1>4, <1>5, IntactGrows DEF ContentsInv
<1> QED BY <1>8, <1>9, <1>10 DEF ContentsInv

\* The flush of the records that the write left in the writer's buffer.
LEMMA FlushContents ==
  ASSUME DurabilityInv, ContentsInv, FlushDataStep
  PROVE  ContentsInv'
<1>1. /\ data' = data \o Tags(blk, staged) /\ staged' = 0 /\ Advance /\ At("flushData")
      /\ UNCHANGED <<up, currentOffset, blk, entry, acked>>
  BY DEF FlushDataStep, memory, history
<1>2. staged \in Nat /\ TypeOK /\ PcInProgram
  BY DEF DurabilityInv, TypeOK
<1>3. /\ Len(data) \in Nat /\ Len(data') = Len(data) + staged
      /\ \A i \in 1 .. Len(data) : data'[i] = data[i]
      /\ \A i \in (Len(data) + 1) .. Len(data') : data'[i] = blk
  BY <1>1, <1>2, DataGrows
<1>4. Len(data') + staged' = Len(data) + staged
  BY <1>1, <1>2, <1>3
<1>5. OffsetFollows'
  BY <1>1, <1>4 DEF ContentsInv, OffsetFollows
<1>6. EntryWritten' => EntryWritten
  <2>1. op # "none" /\ ~At("write") /\ ~At("buffer")
    BY <1>1 DEF At
  <2> QED BY <1>1, <1>2, <2>1, WrittenAdvances
<1>7. RangeWritten'
  <2> SUFFICES ASSUME EntryWritten'
               PROVE  /\ entry'.end = Len(data') + staged'
                      /\ \A i \in (entry'.start + 1) .. Len(data') : data'[i] = blk'
    BY DEF RangeWritten
  <2>1. /\ entry.end = Len(data) + staged /\ entry.start \in Nat
        /\ \A i \in (entry.start + 1) .. Len(data) : data[i] = blk
    BY <1>2, <1>6 DEF ContentsInv, RangeWritten, TypeOK, Entry
  <2>2. ASSUME NEW i \in (entry.start + 1) .. Len(data') PROVE data'[i] = blk
    <3>1. CASE i <= Len(data)
      <4>1. i \in 1 .. Len(data) /\ i \in (entry.start + 1) .. Len(data)
        BY <1>3, <2>1, <3>1
      <4> QED BY <1>3, <2>1, <4>1
    <3>2. CASE ~(i <= Len(data))
      <4>1. i \in (Len(data) + 1) .. Len(data')
        BY <1>2, <1>3, <2>1, <3>2
      <4> QED BY <1>3, <4>1
    <3> QED BY <3>1, <3>2
  <2> QED BY <1>1, <1>4, <2>1, <2>2
<1>8. DataIntact'
  BY <1>1, <1>2, IntactGrows DEF ContentsInv
<1> QED BY <1>5, <1>7, <1>8 DEF ContentsInv
\* The range of the running handler enters the buffer.
LEMMA BufferContents ==
  ASSUME DurabilityInv, ContentsInv, BufferStep
  PROVE  ContentsInv'
<1>1. /\ UNCHANGED <<data, currentOffset, up, blk, staged, acked>> /\ Advance /\ At("buffer")
      /\ op' = op /\ pc' = pc + 1
  BY DEF BufferStep, Advance, disk, history
<1>2. TypeOK /\ PcInProgram /\ up
  BY <1>1 DEF DurabilityInv, Kept, OneMinimum, At
<1>3. CASE op = "mark"
  <2>1. ~Unflushed
    BY <1>3 DEF Unflushed
  <2>2. staged = 0 /\ currentOffset = Len(data) /\ Len(data) \in Nat
    BY <1>2, <2>1, OffsetAtEnd, LenProperties DEF TypeOK
  <2>3. entry'.start = Len(data) /\ entry'.end = Len(data)
    BY <1>3, <2>2 DEF BufferStep
  <2>4. OffsetFollows'
    BY <1>1, <2>2 DEF ContentsInv, OffsetFollows
  <2>5. RangeWritten'
    BY <1>1, <2>2, <2>3 DEF RangeWritten
  <2>6. DataIntact'
    BY <1>1 DEF ContentsInv, DataIntact, Acked
  <2> QED BY <2>4, <2>5, <2>6 DEF ContentsInv
<1>4. CASE op # "mark"
  <2>1. entry' = entry
    BY <1>4 DEF BufferStep
  <2>2. Unflushed => Unflushed'
    <3>1. ~At("flushData")
      BY <1>1 DEF At
    <3> QED BY <1>1, <1>2, <3>1, UnflushedAdvances
  <2>3. EntryWritten' => EntryWritten
    <3>1. pc # 1 /\ pc \in Nat
      BY <1>1, <1>2, <1>4, StepPositions DEF TypeOK
    <3> QED BY <1>1, <1>2, <1>4, <3>1 DEF EntryWritten, PcInProgram
  <2> QED BY <1>1, <2>1, <2>2, <2>3, QuietContents
<1> QED BY <1>3, <1>4

\* The handler returns with its records in the file.
LEMMA AckContents ==
  ASSUME DurabilityInv, ContentsInv, AckStep
  PROVE  ContentsInv'
<1>1. /\ acked' = [acked EXCEPT ![blk] = entry] /\ data' = data /\ up' = up /\ currentOffset' = currentOffset
      /\ op' = "none" /\ staged' = 0
  BY DEF AckStep, Idle, disk, memory
<1>2. EntryWritten /\ ~Unflushed
  <2>1. \/ op \in {"append", "new"} /\ pc = 10
        \/ op = "mark" /\ pc = 8
        \/ op = "delete" /\ pc = 7
    <3>1. At("ack")
      BY DEF AckStep
    <3> QED BY <3>1, StepPositions, NotExtending DEF DurabilityInv
  <2> QED BY <2>1 DEF EntryWritten, Unflushed
<1>3. staged = 0 /\ (up => currentOffset = Len(data)) /\ Len(data) \in Nat
  BY <1>2, OffsetAtEnd, LenProperties DEF DurabilityInv, TypeOK
<1>4. /\ entry.end = Len(data) /\ entry \in Entry /\ acked \in [Slots -> Entry]
      /\ \A i \in (entry.start + 1) .. Len(data) : data[i] = blk
  BY <1>2, <1>3 DEF ContentsInv, RangeWritten, DurabilityInv, TypeOK
<1>5. DataIntact'
  <2> SUFFICES ASSUME NEW b \in Slots, acked'[b] # ZeroEntry
               PROVE  /\ acked'[b].end <= Len(data)
                      /\ \A i \in (acked'[b].start + 1) .. acked'[b].end : data[i] = b
    BY <1>1 DEF DataIntact, Acked
  <2>1. CASE b = blk
    <3>1. acked'[b] = entry
      BY <1>1, <1>4, <2>1
    <3> QED BY <1>3, <1>4, <2>1, <3>1
  <2>2. CASE b # blk
    <3>1. acked'[b] = acked[b]
      BY <1>1, <1>4, <2>2
    <3> QED BY <3>1 DEF ContentsInv, DataIntact, Acked
  <2> QED BY <2>1, <2>2
<1>6. OffsetFollows'
  BY <1>1, <1>3 DEF OffsetFollows
<1>7. RangeWritten'
  BY <1>1 DEF RangeWritten, EntryWritten
<1> QED BY <1>5, <1>6, <1>7 DEF ContentsInv

\* Every step of a handler keeps the contents.
LEMMA WriterContents ==
  ASSUME DurabilityAssumption, DurabilityInv, ContentsInv, WriterStep
  PROVE  ContentsInv'
<1>0. TypeOK /\ PcInProgram
  BY DEF DurabilityInv
<1>1. CASE FillStep
  <2>1. UNCHANGED <<data, currentOffset, up, blk, staged, entry, acked>> /\ op' = op
    BY <1>1 DEF FillStep, Advance, disk, history
  <2>2. op \in GapHandlers
    BY <1>0, <1>1, StepPositions DEF FillStep, GapHandlers
  <2>3. ~Unflushed /\ ~EntryWritten'
    BY <2>1, <2>2 DEF Unflushed, EntryWritten, GapHandlers
  <2> QED BY <2>1, <2>3, QuietContents
<1>2. CASE SetMinStep \/ SetLatestStep \/ TakeStep \/ TruncStep \/ MetaStep \/ WaitStep
  <2>1. UNCHANGED <<data, currentOffset, up, blk, staged, entry, acked>> /\ Advance
    BY <1>2, Zenon DEF SetMinStep, SetLatestStep, TakeStep, TruncStep, MetaStep, WaitStep, disk, memory, history
  <2>2. At("setMin") \/ At("setLatest") \/ At("take") \/ At("trunc") \/ At("meta") \/ At("wait")
    BY <1>2 DEF SetMinStep, SetLatestStep, TakeStep, TruncStep, MetaStep, WaitStep
  <2> QED BY <1>0, <2>1, <2>2, AdvanceContents
<1>3. CASE DrainStep
  <2>1. UNCHANGED <<data, currentOffset, up, blk, staged, entry, acked>> /\ At("drain")
    BY <1>3 DEF DrainStep, memory, history
  <2>2. CASE Advance
    BY <1>0, <2>1, <2>2, AdvanceContents
  <2>3. CASE UNCHANGED <<op, pc>>
    <3>1. (EntryWritten' <=> EntryWritten) /\ (Unflushed' <=> Unflushed)
      BY <2>3 DEF EntryWritten, Unflushed
    <3> QED BY <2>1, <3>1, QuietContents
  <2> QED BY <1>3, <2>2, <2>3 DEF DrainStep
<1>4. CASE ThenStep
  <2>1. UNCHANGED <<data, currentOffset, up, acked>> /\ op \notin BlockHandlers /\ op # "extend"
    BY <1>0, <1>4, StepPositions DEF ThenStep, disk, memory, history, BlockHandlers
  <2>2. ~Unflushed
    BY <2>1 DEF Unflushed, BlockHandlers
  <2>3. staged = 0 /\ (up => currentOffset = Len(data))
    BY <1>0, <2>2, OffsetAtEnd
  <2>4. staged' = 0 /\ ~EntryWritten'
    <3>1. staged' \in {0, staged} /\ (op' = "none" \/ pc' = 1)
      BY <1>4 DEF ThenStep, Idle
    <3> QED BY <2>3, <3>1 DEF EntryWritten
  <2> QED BY <1>0, <2>1, <2>3, <2>4, FreshContents
<1>5. CASE CloseFilesStep
  BY <1>0, <1>5, FreshContents DEF CloseFilesStep, Stop, Idle, EntryWritten, disk
<1> QED
  BY <1>1, <1>2, <1>3, <1>4, <1>5, WriteContents, FlushContents, BufferContents, AckContents
  DEF WriterStep

\* Every step keeps the contents.
LEMMA ContentsStep ==
  ASSUME DurabilityAssumption, DurabilityInv, ContentsInv, [Next]_vars
  PROVE  ContentsInv'
<1>0. TypeOK /\ PcInProgram
  BY DEF DurabilityInv
<1>1. op = "none" => staged = 0 /\ (up => currentOffset = Len(data))
  <2>1. op = "none" => ~Unflushed
    BY DEF Unflushed
  <2> QED BY <1>0, <2>1, OffsetAtEnd
<1>2. CASE ClientCall
  <2>1. PICK o \in Ops, b \in Slots, n \in Nat : Call(o, b, n)
    BY <1>0, <1>2, ClientCalls
  <2>2. /\ op = "none" /\ pc' = 1 /\ staged' = 0 /\ UNCHANGED <<data, acked, up, currentOffset>>
    BY <2>1 DEF Call, disk, memory, history
  <2> QED BY <1>0, <1>1, <2>2, FreshContents DEF EntryWritten
<1>3. CASE WriterStep
  BY <1>3, WriterContents
<1>4. CASE Crash
  BY <1>0, <1>4, FreshContents DEF Crash, Stop, Idle, EntryWritten, disk
<1>5. CASE Open
  <2>1. /\ op = "none" /\ op' = "none" /\ staged' = staged /\ UNCHANGED <<data, acked>>
        /\ currentOffset' = Len(data)
    BY <1>5 DEF Open, RecoveredOffset, disk, writer, history, DurabilityInv, Kept, OneMinimum
  <2> QED BY <1>0, <1>1, <2>1, FreshContents DEF EntryWritten
<1>6. CASE BgCall \/ BgStep \/ UNCHANGED vars
  <2>1. UNCHANGED <<data, currentOffset, up, blk, staged, entry, acked>> /\ UNCHANGED <<op, pc>>
    BY <1>6, Zenon DEF BgCall, BgStep, BgTake, BgDrain, vars, disk, memory, writer, history
  <2>2. (EntryWritten' <=> EntryWritten) /\ (Unflushed' <=> Unflushed)
    BY <2>1 DEF EntryWritten, Unflushed
  <2> QED BY <2>1, <2>2, QuietContents
<1> QED BY <1>2, <1>3, <1>4, <1>5, <1>6 DEF Next

\* The log of one block holds its record.
LEMMA InitContents ==
  ASSUME DurabilityAssumption, Init
  PROVE  ContentsInv
<1>1. Preload # 0 /\ data = <<Preload>> /\ currentOffset = 1 /\ op = "none" /\ staged = 0
  BY DEF Init, DurabilityAssumption
<1>2. Len(data) = 1 /\ data[1] = Preload
  BY <1>1
<1>3. OffsetFollows /\ RangeWritten
  BY <1>1, <1>2 DEF OffsetFollows, RangeWritten, EntryWritten
<1>4. DataIntact
  <2> SUFFICES ASSUME NEW b \in Slots, acked[b] # ZeroEntry
               PROVE  /\ acked[b].end <= Len(data)
                      /\ \A i \in (acked[b].start + 1) .. acked[b].end : data[i] = b
    BY DEF DataIntact, Acked
  <2>1. b = Preload /\ acked[b].start = 0 /\ acked[b].end = 1
    BY <1>1 DEF Init, PreEntry
  <2> QED BY <1>2, <2>1
<1> QED BY <1>3, <1>4 DEF ContentsInv

\* The range that Append, AppendToNewBlock, Delete or MarkBlockCommitted
\* acknowledged for a block holds the records of that block and of no other, for
\* every number of crashes at every point of every handler: records that a crash
\* left behind the last range stay outside all of them.
THEOREM AcknowledgedRangesIntact ==
  ASSUME DurabilityAssumption
  PROVE  Spec => []DataIntact
<1>1. Init => DurabilityInv /\ ContentsInv
  BY InitKept, InitContents
<1>2. (DurabilityInv /\ ContentsInv) /\ [Next]_vars => (DurabilityInv /\ ContentsInv)'
  BY DurabilityStep, ContentsStep
<1>3. ContentsInv => DataIntact
  BY DEF ContentsInv
<1> QED BY <1>1, <1>2, <1>3, PTL DEF Spec

\* With baol.mu free currentOffset is the end of the data file, as the comment at
\* datablockStore.go:87 says, although it is only ever computed from the ranges.
THEOREM OffsetTracksFile ==
  ASSUME DurabilityAssumption
  PROVE  Spec => []OffsetIsFileEnd
<1>1. Init => DurabilityInv /\ ContentsInv
  BY InitKept, InitContents
<1>2. (DurabilityInv /\ ContentsInv) /\ [Next]_vars => (DurabilityInv /\ ContentsInv)'
  BY DurabilityStep, ContentsStep
<1>3. DurabilityInv /\ ContentsInv => OffsetIsFileEnd
  BY OffsetAtEnd DEF DurabilityInv, OffsetIsFileEnd, Unflushed
<1> QED BY <1>1, <1>2, <1>3, PTL DEF Spec
-----------------------------------------------------------------------------
\* No block is missing

\* A handler's copy of the buffer is written out before the next copy.
TakenWhileDraining == wTaken # <<>> => At("drain")

\* fillMissingBlocksUntil leaves no gap.
GapFilled == op \in GapHandlers /\ pc > 1 => blk <= latestBlockID + 1

\* Before the first stop every block up to the frontier has its entry.
Covered ==
    stops = 0 => /\ up
                 /\ \A b \in Preload .. Frontier : \E e \in Circulating : e.blk = b

CoverInv == TakenWhileDraining /\ GapFilled /\ Covered

\* A lookup finds every entry that the buffer or the file holds.
LEMMA CirculatingFound ==
  ASSUME DurabilityAssumption, DurabilityInv, up, NEW e \in Range(indexBuffer) \union OnDisk
  PROVE  Exists(e.blk)
<1>1. CASE e \in Range(indexBuffer)
  <2>1. indexBuffer \in Seq(Entry) /\ Len(indexBuffer) \in Nat /\ DOMAIN indexBuffer = 1 .. Len(indexBuffer)
    BY LenProperties DEF DurabilityInv, TypeOK
  <2>2. PICK j \in 1 .. Len(indexBuffer) : indexBuffer[j] = e
    BY <1>1, <2>1 DEF Range
  <2> DEFINE Js == {k \in 1 .. Len(indexBuffer) : indexBuffer[k].blk = e.blk}
  <2>3. Js \in SUBSET Nat /\ Js # {}
    BY <2>1, <2>2
  <2>4. Min(Js) \in Js /\ \A x \in Js : Min(Js) <= x
    BY <2>3, MinExists
  <2> DEFINE m == Min(Js)
  <2>5. m \in 1 .. Len(indexBuffer) /\ indexBuffer[m].blk = e.blk /\ \A x \in Js : m <= x
    BY <2>4
  <2> HIDE DEF m
  <2>6. \A k \in 1 .. (m - 1) : indexBuffer[k].blk # e.blk
    <3> SUFFICES ASSUME NEW k \in 1 .. (m - 1), indexBuffer[k].blk = e.blk PROVE FALSE
      OBVIOUS
    <3>1. m \in Nat
      BY <2>1, <2>5
    <3>2. k \in Js
      BY <2>1, <2>5, <3>1
    <3> QED BY <2>5, <3>1, <3>2
  <2>7. indexBuffer[m] \in FirstInBuffer(e.blk)
    BY <2>5, <2>6 DEF FirstInBuffer
  <2> QED BY <2>7 DEF Exists, getBlockIndexEntry
<1>2. CASE e \in OnDisk
  <2>1. PICK s \in Slots : idx[s] # ZeroEntry /\ e = idx[s]
    BY <1>2 DEF OnDisk
  <2>2. /\ e.blk = Preload + s /\ minBlockID = Preload /\ Preload \in Nat /\ s \in Nat
    BY <2>1, ConstantsAssumption DEF DurabilityInv, Kept, SlotsOfBlocks, OneMinimum, Slots
  <2>3. e.blk - Preload = s /\ e.blk >= Preload
    BY <2>2
  <2>4. ValidEntry(e)
    <3>1. e \in Circulating /\ e \in Entry
      BY <2>1 DEF Circulating, OnDisk, DurabilityInv, TypeOK
    <3> QED BY <2>1, <3>1 DEF DurabilityInv, Kept, EntryOrder, WellFormed, ValidEntry, Entry
  <2>5. findBlockIndexEntryOnDisk(e.blk) # {}
    BY <2>1, <2>2, <2>3, <2>4 DEF findBlockIndexEntryOnDisk, DiskEntryAt
  <2> QED BY <2>5 DEF Exists, getBlockIndexEntry
<1> QED BY <1>1, <1>2

\* The invariant is strong enough.
LEMMA CoverIsContiguous ==
  ASSUME DurabilityAssumption, DurabilityInv, CoverInv
  PROVE  ContiguousIndex
<1> SUFFICES ASSUME up, op = "none", stops = 0, NEW b \in minBlockID .. latestBlockID
             PROVE  Exists(b) \/ b \in HeldByGoroutine
  BY DEF ContiguousIndex
<1>1. minBlockID = Preload /\ Frontier = latestBlockID
  BY DEF DurabilityInv, Kept, OneMinimum, Frontier, BlockHandlers
<1>2. PICK e \in Circulating : e.blk = b
  BY <1>1 DEF CoverInv, Covered
<1>3. wTaken = <<>>
  BY DEF CoverInv, TakenWhileDraining, At
<1>4. e \in Range(indexBuffer) \union OnDisk \/ e \in Range(bgTaken)
  BY <1>3, RangeEmpty DEF Circulating, Pending
<1> QED BY <1>2, <1>4, CirculatingFound DEF HeldByGoroutine

\* Only bufferIndexEntry moves the frontier inside a handler.
LEMMA BufferedAdvances ==
  ASSUME TypeOK, PcInProgram, Advance, op # "none", ~At("buffer")
  PROVE  EntryBuffered' <=> EntryBuffered
<1>1. pc \in Nat /\ op' = op /\ pc' = pc + 1
  BY DEF Advance, TypeOK
<1>2. op \in {"append", "delete"} => pc # 3
  BY DEF At, Program, AppendSteps, DeleteSteps
<1>3. op = "mark" => pc # 2
  BY DEF At, Program, MarkSteps
<1>4. op = "new" => pc # 4
  BY DEF At, Program, NewSteps
<1> QED BY <1>1, <1>2, <1>3, <1>4, SMTT(30) DEF EntryBuffered

\* Entries do not disappear and the frontier stays.
LEMMA CoverKept ==
  ASSUME CoverInv, UNCHANGED <<up, stops>>, Circulating \subseteq Circulating',
         stops = 0 => Preload \in Int /\ Frontier \in Int /\ Frontier' \in Int /\ Frontier' <= Frontier
  PROVE  Covered'
<1> SUFFICES ASSUME stops = 0, NEW b \in Preload .. Frontier'
             PROVE  \E e \in Circulating' : e.blk = b
  BY DEF CoverInv, Covered
<1>1. b \in Preload .. Frontier
  OBVIOUS
<1> QED BY <1>1 DEF CoverInv, Covered

\* The entry of the block behind the frontier enters.
LEMMA CoverExtended ==
  ASSUME CoverInv, UNCHANGED <<up, stops>>, NEW e, Circulating' = Circulating \union {e},
         Preload \in Int, Frontier \in Int, e.blk = Frontier + 1, Frontier' = Frontier + 1
  PROVE  Covered'
<1> SUFFICES ASSUME stops = 0, NEW b \in Preload .. Frontier'
             PROVE  \E x \in Circulating' : x.blk = b
  BY DEF CoverInv, Covered
<1>1. CASE b = Frontier + 1
  BY <1>1
<1>2. CASE b # Frontier + 1
  <2>1. b \in Preload .. Frontier
    BY <1>2
  <2> QED BY <2>1 DEF CoverInv, Covered
<1> QED BY <1>1, <1>2
\* A handler step that moves no entry.
LEMMA QuietCover ==
  ASSUME DurabilityInv, TypeOK', CoverInv, op # "none",
         UNCHANGED <<idx, indexBuffer, wTaken, bgTaken, up, blk, op, stops>>,
         op \notin BlockHandlers => latestBlockID' = latestBlockID,
         EntryBuffered' <=> EntryBuffered
  PROVE  Covered'
<1>1. OnDisk' = OnDisk /\ Circulating' = Circulating
  BY DEF OnDisk, Circulating, Pending
<1>2. Frontier \in Int /\ Frontier' = Frontier /\ Preload \in Int
  BY FrontierType DEF DurabilityInv, Frontier
<1> QED BY <1>1, <1>2, CoverKept

\* An advancing step other than take, drain and the ones that change blocks.
LEMMA AdvanceCover ==
  ASSUME DurabilityInv, TypeOK', CoverInv, Advance, NEW step, At(step),
         step \notin {"fill", "buffer", "drain", "take"},
         UNCHANGED <<idx, indexBuffer, wTaken, bgTaken, up, blk, stops>>,
         op \notin BlockHandlers => latestBlockID' = latestBlockID
  PROVE  CoverInv'
<1>1. op # "none" /\ ~At("buffer") /\ ~At("drain") /\ ~At("fill") /\ op' = op /\ pc' = pc + 1
  BY DEF At, Advance
<1>2. TypeOK /\ PcInProgram /\ pc \in Nat /\ pc \in 1 .. Len(Program(op))
  BY <1>1 DEF DurabilityInv, TypeOK, PcInProgram
<1>3. EntryBuffered' <=> EntryBuffered
  BY <1>1, <1>2, BufferedAdvances
<1>4. Covered'
  BY <1>1, <1>3, QuietCover
<1>5. TakenWhileDraining'
  BY <1>1 DEF CoverInv, TakenWhileDraining
<1>6. op \in GapHandlers => pc # 1
  BY <1>1 DEF At, Program, FillSteps, GapHandlers
<1>7. GapFilled'
  <2> SUFFICES ASSUME op \in GapHandlers PROVE blk <= latestBlockID + 1 /\ latestBlockID' = latestBlockID
    BY <1>1 DEF GapFilled
  <2>1. pc > 1
    BY <1>2, <1>6
  <2> QED BY <2>1 DEF CoverInv, GapFilled, GapHandlers, BlockHandlers
<1> QED BY <1>4, <1>5, <1>7 DEF CoverInv

\* A call of a block handler is for the next block.
LEMMA NextBlockOnly ==
  ASSUME DurabilityAssumption, DurabilityInv, ClientCall
  PROVE  \E o \in Ops, b \in Slots, n \in Nat :
            Call(o, b, n) /\ (o \in BlockHandlers => b = latestBlockID + 1)
<1> DEFINE Goal == \E o \in Ops, b \in Slots, n \in Nat :
                      Call(o, b, n) /\ (o \in BlockHandlers => b = latestBlockID + 1)
<1>0. /\ 0 \in Slots /\ Blocks \subseteq Slots /\ Slots \subseteq Nat /\ MaxKvs \in Nat
      /\ latestBlockID \in Nat /\ Preload \in Nat \ {0}
  BY ConstantsAssumption DEF Slots, DurabilityInv, TypeOK, DurabilityAssumption
<1>1. ASSUME NEW b \in Blocks, NEW n \in 0 .. MaxKvs, AppendCall(b, n) PROVE Goal
  <2>1. up /\ op = "none" /\ n \in Nat
    BY <1>0, <1>1 DEF AppendCall, Call
  <2>2. Preload <= latestBlockID
    BY <2>1 DEF DurabilityInv, Kept, HandlerOrder
  <2>3. ~isFirstAppend
    BY <1>0, <2>2 DEF isFirstAppend
  <2>4. b > latestBlockID /\ b \in Nat
    BY <1>0, <1>1, <2>3 DEF AppendCall
  <2>5. CASE b > latestBlockID + 1
    <3>1. \E o \in {"gapAppend", "gapOnly"} : Call(o, b, n)
      BY <1>1, <2>3, <2>5 DEF AppendCall, Gap
    <3> QED BY <1>0, <2>1, <3>1 DEF Ops, BlockHandlers
  <2>6. CASE ~(b > latestBlockID + 1)
    <3>1. b = latestBlockID + 1
      BY <1>0, <2>4, <2>6
    <3>2. Call("append", b, n)
      BY <1>1, <2>3, <2>4, <2>6 DEF AppendCall, Gap
    <3> QED BY <1>0, <2>1, <3>1, <3>2 DEF Ops
  <2> QED BY <2>5, <2>6
<1>2. ASSUME NEW n \in 1 .. MaxKvs, ExtendCall(n) PROVE Goal
  BY <1>2 DEF ExtendCall, DurabilityAssumption
<1>3. ASSUME NEW n \in 1 .. MaxKvs, AppendToNewBlockCall(n) PROVE Goal
  <2>1. latestBlockID + 1 \in Slots /\ n \in Nat /\ "new" \in Ops
    BY <1>0, <1>3 DEF AppendToNewBlockCall, Ops
  <2> QED BY <1>3, <2>1 DEF AppendToNewBlockCall
<1>4. ASSUME NEW b \in Blocks, MarkBlockCommittedCall(b) PROVE Goal
  <2>1. b \in Slots /\ b \in Nat /\ b > latestBlockID /\ 0 \in Nat
    BY <1>0, <1>4 DEF MarkBlockCommittedCall
  <2>2. CASE b > latestBlockID + 1
    <3>1. Call("gapMark", b, 0)
      BY <1>4, <2>2 DEF MarkBlockCommittedCall
    <3> QED BY <2>1, <3>1 DEF Ops, BlockHandlers
  <2>3. CASE ~(b > latestBlockID + 1)
    <3>1. b = latestBlockID + 1
      BY <1>0, <2>1, <2>3
    <3>2. Call("mark", b, 0)
      BY <1>4, <2>3 DEF MarkBlockCommittedCall
    <3> QED BY <2>1, <3>1, <3>2 DEF Ops
  <2> QED BY <2>2, <2>3
<1>5. CASE DeleteCall
  <2>1. latestBlockID + 1 \in Slots /\ 1 \in Nat /\ "delete" \in Ops
    BY <1>0, <1>5 DEF DeleteCall, Ops
  <2> QED BY <1>5, <2>1 DEF DeleteCall
<1>6. CASE FlushDataAndIndexCall
  BY <1>0, <1>6 DEF FlushDataAndIndexCall, Ops, BlockHandlers
<1>7. CASE CloseCall
  BY <1>0, <1>7 DEF CloseCall, Ops, BlockHandlers
<1>8. CASE \E b \in Blocks, n \in 0 .. MaxKvs : AppendCall(b, n)
  BY <1>1, <1>8
<1>9. CASE \E n \in 1 .. MaxKvs : ExtendCall(n) \/ AppendToNewBlockCall(n)
  BY <1>2, <1>3, <1>9
<1>10. CASE \E b \in Blocks : MarkBlockCommittedCall(b)
  BY <1>4, <1>10
<1> QED BY <1>5, <1>6, <1>7, <1>8, <1>9, <1>10 DEF ClientCall

\* A handler starts.
LEMMA CallCover ==
  ASSUME DurabilityAssumption, DurabilityInv, TypeOK', CoverInv, ClientCall
  PROVE  CoverInv'
<1>1. PICK o \in Ops, b \in Slots, n \in Nat :
        Call(o, b, n) /\ (o \in BlockHandlers => b = latestBlockID + 1)
  BY NextBlockOnly
<1>2. /\ op = "none" /\ op' = o /\ pc' = 1 /\ blk' = b
      /\ UNCHANGED <<idx, indexBuffer, wTaken, bgTaken, up, latestBlockID, stops>>
  BY <1>1 DEF Call, disk, memory, goroutine, history
<1>3. wTaken = <<>>
  BY <1>2 DEF CoverInv, TakenWhileDraining, At
<1>4. TakenWhileDraining' /\ GapFilled'
  BY <1>2, <1>3 DEF TakenWhileDraining, GapFilled
<1>5. Circulating' = Circulating
  BY <1>2 DEF OnDisk, Circulating, Pending
<1>6. latestBlockID \in Nat /\ Preload \in Int /\ Frontier = latestBlockID
  BY <1>2, FrontierType DEF DurabilityInv, Frontier, BlockHandlers
<1>7. Frontier' = latestBlockID
  <2>1. ~EntryBuffered'
    BY <1>2 DEF EntryBuffered
  <2>2. (latestBlockID + 1) - 1 = latestBlockID
    BY <1>6
  <2> QED BY <1>1, <1>2, <2>1, <2>2 DEF Frontier
<1>8. Covered'
  BY <1>2, <1>5, <1>6, <1>7, CoverKept
<1> QED BY <1>4, <1>8 DEF CoverInv
\* fillMissingBlocksUntil gives the next missing block an empty range.
LEMMA FillCover ==
  ASSUME DurabilityInv, TypeOK', CoverInv, FillStep
  PROVE  CoverInv'
<1>1. /\ op \in GapHandlers /\ pc = 1 /\ op' = op /\ blk' = blk
      /\ UNCHANGED <<idx, wTaken, bgTaken, up, stops>> /\ At("fill")
  BY StepPositions DEF DurabilityInv, FillStep, Advance, GapHandlers, disk, goroutine, history
<1>2. wTaken = <<>>
  BY <1>1 DEF CoverInv, TakenWhileDraining, At
<1>3. ~EntryBuffered /\ ~EntryBuffered' /\ op \notin BlockHandlers /\ op # "none"
  BY <1>1 DEF EntryBuffered, GapHandlers, BlockHandlers
<1>4. TakenWhileDraining'
  BY <1>1, <1>2 DEF TakenWhileDraining
<1>5. latestBlockID \in Nat /\ blk \in Nat /\ Preload \in Int /\ Frontier = latestBlockID
  BY <1>3, FrontierType DEF DurabilityInv, Frontier
<1>6. CASE latestBlockID + 1 < blk
  <2> DEFINE e == [blk |-> latestBlockID + 1, start |-> currentOffset, end |-> currentOffset]
  <2>1. /\ indexBuffer' = Append(indexBuffer, e) /\ latestBlockID' = latestBlockID + 1 /\ pc' = pc
    BY <1>6 DEF FillStep
  <2>2. e \in Entry /\ e.blk = latestBlockID + 1
    BY <1>5, <1>6, ConstantsAssumption DEF DurabilityInv, TypeOK, Slots, Entry
  <2> HIDE DEF e
  <2>3. Range(indexBuffer') = Range(indexBuffer) \union {e} /\ OnDisk' = OnDisk
    BY <1>1, <2>1, <2>2, RangeAppend DEF DurabilityInv, TypeOK, OnDisk
  <2>4. Circulating' = Circulating \union {e}
    BY <1>1, <2>3 DEF Circulating, Pending
  <2>5. Frontier' = latestBlockID + 1
    BY <1>1, <1>3, <2>1 DEF Frontier
  <2>6. Covered'
    BY <1>1, <1>5, <2>2, <2>4, <2>5, CoverExtended
  <2>7. GapFilled'
    BY <1>1, <2>1 DEF GapFilled
  <2> QED BY <1>4, <2>6, <2>7 DEF CoverInv
<1>7. CASE ~(latestBlockID + 1 < blk)
  <2>1. UNCHANGED <<indexBuffer, latestBlockID>>
    BY <1>7 DEF FillStep
  <2>2. Covered'
    BY <1>1, <1>3, <2>1, QuietCover
  <2>3. GapFilled'
    BY <1>1, <1>5, <1>7, <2>1 DEF GapFilled
  <2> QED BY <1>4, <2>2, <2>3 DEF CoverInv
<1> QED BY <1>6, <1>7

\* The entry of the handler's block enters the buffer.
LEMMA BufferCover ==
  ASSUME DurabilityInv, TypeOK', CoverInv, BufferStep
  PROVE  CoverInv'
<1>1. /\ op' = op /\ pc' = pc + 1 /\ blk' = blk
      /\ \/ op \in {"append", "delete"} /\ pc = 3
         \/ op = "mark" /\ pc = 2
         \/ op = "new" /\ pc = 4
  BY StepPositions DEF DurabilityInv, Kept, HandlerOrder, BufferStep, Advance
<1>2. UNCHANGED <<idx, wTaken, bgTaken, up, stops>> /\ At("buffer")
  BY DEF BufferStep, disk, goroutine, history
<1>3. op \in BlockHandlers /\ op \notin GapHandlers /\ ~EntryBuffered /\ EntryBuffered'
  BY <1>1 DEF BlockHandlers, GapHandlers, EntryBuffered
<1>4. entry' \in Entry /\ indexBuffer' = Append(indexBuffer, entry')
  BY DEF TypeOK, BufferStep
<1>5. entry'.blk = blk
  <2>1. CASE op = "mark"
    BY <2>1 DEF BufferStep
  <2>2. CASE op # "mark"
    <3>1. op \in BlockHandlers \ {"mark"} /\ pc > 1 /\ entry' = entry
      BY <1>1, <1>3, <2>2 DEF BufferStep
    <3> QED BY <3>1 DEF DurabilityInv, Kept, EntryKept
  <2> QED BY <2>1, <2>2
<1>6. Range(indexBuffer') = Range(indexBuffer) \union {entry'} /\ OnDisk' = OnDisk
  BY <1>2, <1>4, RangeAppend DEF DurabilityInv, TypeOK, OnDisk
<1>7. Circulating' = Circulating \union {entry'}
  BY <1>2, <1>6 DEF Circulating, Pending
<1>8. /\ Frontier = blk - 1 /\ Frontier' = blk /\ blk \in Nat /\ Preload \in Int
  BY <1>1, <1>3, FrontierType DEF DurabilityInv, Frontier
<1>9. Covered'
  <2>1. Frontier \in Int /\ entry'.blk = Frontier + 1 /\ Frontier' = Frontier + 1
    BY <1>5, <1>8
  <2> QED BY <1>2, <1>7, <1>8, <2>1, CoverExtended
<1>10. TakenWhileDraining'
  BY <1>2 DEF CoverInv, TakenWhileDraining, At
<1>11. GapFilled'
  BY <1>1, <1>3 DEF GapFilled
<1> QED BY <1>9, <1>10, <1>11 DEF CoverInv

\* The handler copies the buffer and goes on to write its copy out.
LEMMA TakeCover ==
  ASSUME DurabilityInv, TypeOK', CoverInv, TakeStep
  PROVE  CoverInv'
<1>1. /\ op' = op /\ pc' = pc + 1 /\ blk' = blk /\ UNCHANGED <<up, latestBlockID, idx, bgTaken, stops>>
      /\ wTaken' = indexBuffer /\ indexBuffer' = <<>> /\ At("take") /\ Advance
  BY DEF TakeStep, Advance, disk, goroutine, history
<1>2. op \in Ops \ {"none"} /\ TypeOK /\ PcInProgram /\ pc \in Nat /\ pc \in 1 .. Len(Program(op))
  BY <1>1 DEF DurabilityInv, TypeOK, PcInProgram, At
<1>3. Program(op)[pc + 1] = "drain"
  <2>1. \A o \in Ops \ {"none"} : \A i \in 1 .. Len(Program(o)) :
           Program(o)[i] = "take" => Program(o)[i + 1] = "drain"
    BY DEF Program, Ops, AppendSteps, ExtendSteps, MarkSteps, NewSteps, DeleteSteps,
           FlushSteps, CloseSteps, FillSteps
  <2> QED BY <1>1, <1>2, <2>1 DEF At
<1>4. TakenWhileDraining'
  BY <1>1, <1>2, <1>3 DEF TakenWhileDraining, At
<1>5. wTaken = <<>> /\ Range(wTaken) = {} /\ Range(indexBuffer') = {}
  BY <1>1, RangeEmpty DEF CoverInv, TakenWhileDraining, At
<1>6. Circulating' = Circulating
  BY <1>1, <1>5 DEF Circulating, Pending, OnDisk
<1>7. EntryBuffered' <=> EntryBuffered
  BY <1>1, <1>2, BufferedAdvances DEF At
<1>8. Frontier \in Int /\ Frontier' = Frontier /\ Preload \in Int
  BY <1>1, <1>7, FrontierType DEF DurabilityInv, Frontier
<1>9. Covered'
  BY <1>1, <1>6, <1>8, CoverKept
<1>10. GapFilled'
  <2> SUFFICES ASSUME op \in GapHandlers PROVE blk <= latestBlockID + 1
    BY <1>1 DEF GapFilled
  <2>1. pc # 1
    BY <1>1 DEF At, Program, FillSteps, GapHandlers
  <2>2. pc > 1
    BY <1>2, <2>1
  <2> QED BY <2>2 DEF CoverInv, GapFilled
<1> QED BY <1>4, <1>9, <1>10 DEF CoverInv

\* The handler writes an entry it took, or is done.
LEMMA DrainCover ==
  ASSUME DurabilityAssumption, DurabilityInv, TypeOK', CoverInv, DrainStep
  PROVE  CoverInv'
<1>1. /\ op' = op /\ blk' = blk /\ UNCHANGED <<up, latestBlockID, indexBuffer, bgTaken, stops>>
      /\ At("drain") /\ op # "none" /\ pc \in Nat
  BY DEF DrainStep, Advance, memory, goroutine, history, At, DurabilityInv, TypeOK
<1>2. CASE wTaken = <<>>
  <2>1. pc' = pc + 1 /\ UNCHANGED <<idx, wTaken>> /\ Advance
    BY <1>2 DEF DrainStep, Advance
  <2>2. EntryBuffered' <=> EntryBuffered
    BY <1>1, <2>1, BufferedAdvances DEF At, DurabilityInv
  <2>3. Covered'
    BY <1>1, <2>1, <2>2, QuietCover
  <2>4. TakenWhileDraining'
    BY <1>2, <2>1 DEF TakenWhileDraining
  <2>5. GapFilled'
    <3> SUFFICES ASSUME op \in GapHandlers PROVE blk <= latestBlockID + 1
      BY <1>1 DEF GapFilled
    <3>1. pc = 3
      BY <1>1, StepPositions DEF DurabilityInv, GapHandlers
    <3> QED BY <3>1 DEF CoverInv, GapFilled
  <2> QED BY <2>3, <2>4, <2>5 DEF CoverInv
<1>3. CASE wTaken # <<>>
  <2>1. pc' = pc /\ idx' = WriteIndex(Preload, Head(wTaken)) /\ wTaken' = Tail(wTaken)
    BY <1>3 DEF DrainStep, DurabilityInv, Kept, OneMinimum
  <2>2. Range(wTaken) = {Head(wTaken)} \union Range(wTaken')
    BY <1>3, <2>1, RangeTail DEF DurabilityInv, TypeOK
  <2>3. Head(wTaken) \in Pending
    BY <2>2 DEF Pending
  <2>4. OnDisk' = OnDisk \union {Head(wTaken)}
    BY <2>1, <2>3, WriteOnDisk
  <2>5. Circulating' = Circulating
    BY <1>1, <2>2, <2>4 DEF Circulating, Pending
  <2>6. Frontier \in Int /\ Frontier' = Frontier /\ Preload \in Int
    BY <1>1, <2>1, FrontierType DEF DurabilityInv, Frontier, EntryBuffered
  <2>7. Covered'
    BY <1>1, <2>5, <2>6, CoverKept
  <2>8. TakenWhileDraining' /\ GapFilled'
    BY <1>1, <2>1 DEF CoverInv, TakenWhileDraining, GapFilled, At
  <2> QED BY <2>7, <2>8 DEF CoverInv
<1> QED BY <1>2, <1>3

\* The handler returns, or goes on behind the gap it filled.
LEMMA EndCover ==
  ASSUME DurabilityInv, TypeOK', CoverInv, AckStep \/ ThenStep
  PROVE  CoverInv'
<1>1. /\ UNCHANGED <<idx, indexBuffer, wTaken, bgTaken, up, latestBlockID, stops>>
      /\ At("ack") \/ At("then")
      /\ op # "none" /\ pc \in 1 .. Len(Program(op))
  BY Zenon DEF AckStep, ThenStep, disk, memory, goroutine, history, At, DurabilityInv, PcInProgram
<1>2. wTaken = <<>>
  BY <1>1 DEF CoverInv, TakenWhileDraining, At
<1>3. TakenWhileDraining'
  BY <1>1, <1>2 DEF TakenWhileDraining
<1>4. Circulating' = Circulating
  BY <1>1 DEF OnDisk, Circulating, Pending
<1>5. /\ Frontier \in Int /\ Frontier' \in Int /\ Preload \in Int /\ latestBlockID \in Nat
      /\ blk \in Nat /\ pc \in Nat
  <2>1. blk' \in Nat /\ latestBlockID' \in Nat
    BY ConstantsAssumption DEF TypeOK, Slots
  <2>2. Frontier' \in Int
    BY <2>1 DEF Frontier
  <2> QED BY <2>2, FrontierType DEF DurabilityInv
<1>6. GapFilled' /\ Frontier' <= Frontier
  <2>1. CASE AckStep
    <3>1. op' = "none"
      BY <2>1 DEF AckStep, Idle
    <3>2. op \in BlockHandlers /\ EntryBuffered /\ LatestSet
      <4>1. \/ op \in {"append", "new"} /\ pc = 10
            \/ op = "mark" /\ pc = 8
            \/ op = "delete" /\ pc = 7
        <5>1. At("ack")
          BY <2>1 DEF AckStep
        <5> QED BY <5>1, StepPositions, NotExtending DEF DurabilityInv
      <4> QED BY <4>1 DEF BlockHandlers, EntryBuffered, LatestSet
    <3>3. latestBlockID = blk
      BY <3>2 DEF DurabilityInv, Kept, HandlerOrder
    <3>4. Frontier = blk /\ Frontier' = blk
      BY <1>1, <3>1, <3>2, <3>3 DEF Frontier, BlockHandlers
    <3> QED BY <1>5, <3>1, <3>4 DEF GapFilled, GapHandlers
  <2>2. CASE ThenStep
    <3>1. op \notin BlockHandlers /\ Frontier = latestBlockID
      BY <2>2, StepPositions DEF DurabilityInv, ThenStep, BlockHandlers, Frontier
    <3>2. CASE op \in {"gapAppend", "gapMark"}
      <4>1. op' \in {"append", "mark"} /\ pc' = 1 /\ blk' = blk
        BY <2>2, <3>2 DEF ThenStep
      <4>2. pc # 1
        BY <2>2, <3>2 DEF ThenStep, At, Program, FillSteps
      <4>3. pc > 1
        BY <1>1, <1>5, <4>2
      <4>4. blk <= latestBlockID + 1
        BY <3>2, <4>3 DEF CoverInv, GapFilled, GapHandlers
      <4>5. Frontier' = blk - 1
        BY <4>1 DEF Frontier, BlockHandlers, EntryBuffered
      <4> QED BY <1>5, <3>1, <4>1, <4>4, <4>5 DEF GapFilled
    <3>3. CASE op \notin {"gapAppend", "gapMark"}
      <4>1. op' = "none"
        BY <2>2, <3>3 DEF ThenStep, Idle
      <4> QED BY <1>1, <1>5, <3>1, <4>1 DEF Frontier, BlockHandlers, GapFilled, GapHandlers
    <3> QED BY <3>2, <3>3
  <2> QED BY <2>1, <2>2
<1>7. Covered'
  BY <1>1, <1>4, <1>5, <1>6, CoverKept
<1> QED BY <1>3, <1>6, <1>7 DEF CoverInv
\* The goroutine copies the buffer and writes its copy out.
LEMMA BackgroundCover ==
  ASSUME DurabilityAssumption, DurabilityInv, CoverInv, BgCall \/ BgStep
  PROVE  CoverInv'
<1>1. UNCHANGED <<up, latestBlockID, op, pc, blk, wTaken, stops>>
  BY DEF BgCall, BgStep, BgTake, BgDrain, memory, writer, history
<1>2. TakenWhileDraining' /\ GapFilled'
  BY <1>1 DEF CoverInv, TakenWhileDraining, GapFilled, At
<1>3. Frontier \in Int /\ Frontier' = Frontier /\ Preload \in Int
  BY <1>1, FrontierType DEF DurabilityInv, Frontier, EntryBuffered
<1>4. Circulating' = Circulating
  <2>1. CASE BgCall
    BY <1>1, <2>1 DEF BgCall, disk, memory, Circulating, Pending, OnDisk
  <2>2. CASE BgTake
    <3>1. bgTaken = <<>> /\ bgTaken' = indexBuffer /\ indexBuffer' = <<>> /\ idx' = idx
      BY <2>2 DEF BgTake, disk, DurabilityInv, TypeOK
    <3> QED BY <1>1, <3>1, RangeEmpty DEF Circulating, Pending, OnDisk
  <2>3. CASE BgDrain
    <3>1. /\ bgTaken # <<>> /\ bgTaken' = Tail(bgTaken) /\ indexBuffer' = indexBuffer
          /\ idx' = WriteIndex(Preload, Head(bgTaken))
      BY <2>3 DEF BgDrain, memory, DurabilityInv, Kept, TypeOK, OneMinimum
    <3>2. Range(bgTaken) = {Head(bgTaken)} \union Range(bgTaken')
      BY <3>1, RangeTail DEF DurabilityInv, TypeOK
    <3>3. Head(bgTaken) \in Pending
      BY <3>2 DEF Pending
    <3>4. OnDisk' = OnDisk \union {Head(bgTaken)}
      BY <3>1, <3>3, WriteOnDisk
    <3> QED BY <1>1, <3>1, <3>2, <3>4 DEF Circulating, Pending
  <2> QED BY <2>1, <2>2, <2>3 DEF BgStep
<1>5. Covered'
  BY <1>1, <1>3, <1>4, CoverKept
<1> QED BY <1>2, <1>5 DEF CoverInv

\* A stop ends what Covered promises; an open follows a stop.
LEMMA StopCover ==
  ASSUME DurabilityInv, CoverInv, Stop \/ Open
  PROVE  CoverInv'
<1>1. CASE Stop
  <2>1. stops' # 0 /\ wTaken' = <<>> /\ op' = "none"
    BY <1>1 DEF Stop, Idle, DurabilityInv, TypeOK
  <2> QED BY <2>1 DEF CoverInv, TakenWhileDraining, GapFilled, Covered, GapHandlers
<1>2. CASE Open
  <2>1. stops' = stops /\ ~up /\ op' = "none" /\ wTaken' = wTaken /\ wTaken = <<>>
    BY <1>2 DEF Open, history, writer, DurabilityInv, Kept, OneMinimum
  <2>2. stops # 0
    BY <2>1 DEF CoverInv, Covered
  <2> QED BY <2>1, <2>2 DEF CoverInv, TakenWhileDraining, GapFilled, Covered, GapHandlers
<1> QED BY <1>1, <1>2

\* Every step keeps the entries of the blocks up to the frontier.
LEMMA CoverStep ==
  ASSUME DurabilityAssumption, DurabilityInv, TypeOK', CoverInv, [Next]_vars
  PROVE  CoverInv'
<1>1. CASE WriteStep \/ FlushDataStep \/ SetMinStep \/ SetLatestStep \/ TruncStep \/ MetaStep \/ WaitStep
  <2>1. UNCHANGED <<idx, indexBuffer, wTaken, bgTaken, up, blk, stops>> /\ Advance
    BY <1>1, Zenon
    DEF WriteStep, FlushDataStep, SetMinStep, SetLatestStep, TruncStep, MetaStep, WaitStep,
        disk, memory, goroutine, history
  <2>2. \/ At("write") \/ At("flushData") \/ At("setMin") \/ At("setLatest")
        \/ At("trunc") \/ At("meta") \/ At("wait")
    BY <1>1, Zenon
    DEF WriteStep, FlushDataStep, SetMinStep, SetLatestStep, TruncStep, MetaStep, WaitStep
  <2>3. op \notin BlockHandlers => latestBlockID' = latestBlockID
    <3>1. CASE SetLatestStep
      BY <3>1, StepPositions DEF SetLatestStep, DurabilityInv, BlockHandlers
    <3>2. CASE ~SetLatestStep
      BY <1>1, <3>2, Zenon
      DEF WriteStep, FlushDataStep, SetMinStep, TruncStep, MetaStep, WaitStep, memory
    <3> QED BY <3>1, <3>2
  <2> QED BY <2>1, <2>2, <2>3, AdvanceCover
<1>2. CASE UNCHANGED vars
  <2>1. UNCHANGED <<idx, indexBuffer, wTaken, bgTaken, up, latestBlockID, stops>> /\ UNCHANGED <<op, pc, blk>>
    BY <1>2 DEF vars, disk, memory, writer, goroutine, history
  <2>2. TakenWhileDraining' /\ GapFilled'
    BY <2>1 DEF CoverInv, TakenWhileDraining, GapFilled, At
  <2>3. Frontier' = Frontier /\ Circulating' = Circulating
    BY <2>1 DEF Frontier, EntryBuffered, Circulating, Pending, OnDisk
  <2>4. Covered'
    BY <2>1, <2>3 DEF CoverInv, Covered
  <2> QED BY <2>2, <2>4 DEF CoverInv
<1> QED
  BY <1>1, <1>2, CallCover, FillCover, BufferCover, TakeCover, DrainCover, EndCover, StopCover,
     BackgroundCover
  DEF Next, WriterStep, CloseFilesStep, Crash

\* The log of one block.
LEMMA InitCover ==
  ASSUME DurabilityAssumption, Init
  PROVE  CoverInv
<1>1. op = "none" /\ wTaken = <<>> /\ up /\ Frontier = Preload /\ Preload \in Nat \ {0}
  BY ConstantsAssumption DEF Init, Frontier, BlockHandlers, DurabilityAssumption, Slots
<1>2. 0 \in Slots /\ idx[0] = PreEntry /\ PreEntry.blk = Preload /\ PreEntry # ZeroEntry
  BY <1>1, ConstantsAssumption DEF Init, Slots, PreEntry, ZeroEntry
<1>3. PreEntry \in Circulating
  BY <1>2 DEF Circulating, OnDisk
<1>4. Covered
  BY <1>1, <1>2, <1>3 DEF Covered
<1> QED BY <1>1, <1>4 DEF CoverInv, TakenWhileDraining, GapFilled, GapHandlers

\* Until the process first stops, every block from minBlockID to latestBlockID
\* is found by a lookup, or is the goroutine's to write, whenever baol.mu is
\* free: fillMissingBlocksUntil leaves no gap and neither flusher drops or
\* displaces an entry.
THEOREM NoBlockMissing ==
  ASSUME DurabilityAssumption
  PROVE  Spec => []ContiguousIndex
<1>1. Init => DurabilityInv /\ CoverInv
  BY InitKept, InitCover
<1>2. (DurabilityInv /\ CoverInv) /\ [Next]_vars => (DurabilityInv /\ CoverInv)'
  <2>1. DurabilityInv /\ [Next]_vars => DurabilityInv'
    BY DurabilityStep
  <2>2. DurabilityInv' => TypeOK'
    BY DEF DurabilityInv
  <2> QED BY <2>1, <2>2, CoverStep
<1>3. DurabilityInv /\ CoverInv => ContiguousIndex
  BY CoverIsContiguous
<1> QED BY <1>1, <1>2, <1>3, PTL DEF Spec

=============================================================================
