-------------------------- MODULE BlockIndexTypes --------------------------
(***************************************************************************)
(* Proofs about BlockIndex, for all values of its constants: the typing    *)
(* invariant, and where in its program a handler takes which step.         *)
(***************************************************************************)
EXTENDS BlockIndex, TLAPS, SequenceTheorems, WellFoundedInduction

-----------------------------------------------------------------------------
\* Minima, maxima and sequences

\* A set of naturals that is not empty has the minimum that loadBlockIndex
\* infers minBlockID from.
LEMMA MinExists ==
  ASSUME NEW S \in SUBSET Nat, S # {}
  PROVE  Min(S) \in S /\ \A x \in S : Min(S) <= x
<1> DEFINE Less == {p \in Nat \X Nat : p[1] < p[2]}
<1>1. IsWellFoundedOn(Less, Nat)
  BY NatLessThanWellFounded, Zenon DEF OpToRel
<1>2. PICK m \in S : \A x \in S : ~ (<<x, m>> \in Less)
  <2> HIDE DEF Less
  <2> QED BY <1>1, WFMin, Zenon
<1>3. ASSUME NEW x \in S PROVE m <= x
  <2>1. <<x, m>> \notin Less BY <1>2
  <2>2. <<x, m>> \in Nat \X Nat OBVIOUS
  <2> QED BY <2>1, <2>2
<1> QED BY <1>3, Zenon DEF Min

\* A bounded set of naturals that is not empty has a maximum, the latestBlockID
\* that loadBlockIndex recovers.
LEMMA MaxExists ==
  ASSUME NEW n \in Nat, NEW S \in SUBSET (0 .. n), S # {}
  PROVE  Max(S) \in S /\ \A x \in S : x <= Max(S)
<1> DEFINE T == {n - x : x \in S}
<1>1. T \in SUBSET Nat /\ T # {}
  <2>1. ASSUME NEW x \in S PROVE n - x \in Nat
    <3>1. x \in 0 .. n OBVIOUS
    <3> QED BY <3>1
  <2> QED BY <2>1, Zenon
<1>2. Min(T) \in T /\ \A y \in T : Min(T) <= y
  BY <1>1, MinExists, Zenon
<1>3. PICK m \in S : Min(T) = n - m
  BY <1>2
<1>4. ASSUME NEW x \in S PROVE m >= x
  <2>1. Min(T) <= n - x BY <1>2, Zenon
  <2>2. m \in 0 .. n /\ x \in 0 .. n OBVIOUS
  <2> QED BY <1>3, <2>1, <2>2
<1>5. m \in S /\ \A x \in S : m >= x
  BY <1>4
<1>6. Max(S) \in S /\ \A x \in S : Max(S) >= x
  BY <1>5, Zenon DEF Max
<1>7. ASSUME NEW x \in S PROVE x <= Max(S)
  <2>1. Max(S) >= x /\ x \in 0 .. n /\ Max(S) \in 0 .. n BY <1>6, Zenon
  <2> QED BY <2>1
<1> QED BY <1>6, <1>7

\* The records one WriteAt or flush adds carry their block's ID.
LEMMA TagsType ==
  ASSUME NEW b \in Slots, NEW n \in Nat
  PROVE  Tags(b, n) \in Seq(Slots) /\ Len(Tags(b, n)) = n
<1>1. Tags(b, n) \in Seq(Slots)
  BY DEF Tags
<1>2. Len(Tags(b, n)) = n
  BY DEF Tags
<1> QED BY <1>1, <1>2

-----------------------------------------------------------------------------
\* Typing

\* A lookup returns index entries only.
LEMMA LookupType ==
  ASSUME TypeOK, NEW b \in Slots
  PROVE  getBlockIndexEntry(b) \subseteq Entry
<1>1. FirstInBuffer(b) \subseteq Entry
  BY ElementOfSeq DEF TypeOK, FirstInBuffer
<1>2. findBlockIndexEntryOnDisk(b) \subseteq Entry
  BY ConstantsAssumption DEF TypeOK, findBlockIndexEntryOnDisk, DiskEntryAt, Slots
<1> QED BY <1>1, <1>2, Zenon DEF getBlockIndexEntry

\* What the handler writes starts and ends at offsets.
LEMMA OffsetType ==
  ASSUME TypeOK
  PROVE  StartOffset \in Nat /\ EntryStart \in Nat /\ EndOffset(cnt) \in Nat
<1>1. blk \in Slots /\ currentOffset \in Nat /\ cnt \in Nat
  BY DEF TypeOK
<1>2. Exists(blk) => TheEntry(blk) \in Entry
  BY <1>1, LookupType, Zenon DEF Exists, TheEntry
<1>3. Exists(blk) => TheEntry(blk).start \in Nat /\ TheEntry(blk).end \in Nat
  BY <1>2 DEF Entry
<1>4. StartOffset \in Nat /\ EntryStart \in Nat
  BY <1>1, <1>3 DEF StartOffset, EntryStart, Appending
<1> QED BY <1>1, <1>4 DEF EndOffset

\* The metadata that an open recovers are block IDs.
LEMMA RecoveredType ==
  ASSUME TypeOK
  PROVE  RecoveredMin \in Slots /\ RecoveredLatest \in Slots /\ RecoveredOffset \in Nat
<1>1. LoadedBlocks \subseteq Slots
  BY DEF TypeOK, LoadedBlocks, LoadedSlots, Entry
<1>2. 0 \in Slots /\ Slots \subseteq Nat
  BY ConstantsAssumption DEF Slots
<1>3. InferredMin \in Slots
  BY <1>1, <1>2, MinExists, Zenon DEF InferredMin
<1>4. RecoveredLatest \in Slots
  <2>1. LoadedBlocks \union {0} \in SUBSET (0 .. MaxSlot) /\ LoadedBlocks \union {0} # {}
    BY <1>1, <1>2 DEF Slots
  <2> QED BY <2>1, ConstantsAssumption, MaxExists, Zenon DEF RecoveredLatest, Slots
<1>5. RecoveredOffset \in Nat
  BY LenProperties DEF TypeOK, RecoveredOffset
<1> QED BY <1>3, <1>4, <1>5 DEF TypeOK, RecoveredMin, loadIndexMeta

\* Writing an entry of a flush keeps the index file a table of entries.
LEMMA WriteIndexType ==
  ASSUME TypeOK, NEW min \in Slots, NEW e \in Entry
  PROVE  WriteIndex(min, e) \in [Slots -> Entry]
BY ConstantsAssumption, Zenon DEF TypeOK, WriteIndex, Entry, Slots

\* A call of a handler keeps the types.
LEMMA CallType ==
  ASSUME TypeOK, NEW o \in Ops, NEW b \in Slots, NEW n \in Nat, Call(o, b, n)
  PROVE  TypeOK'
<1>1. ZeroEntry \in Entry
  BY ConstantsAssumption DEF ZeroEntry, Entry, Slots
<1> QED
  BY <1>1 DEF TypeOK, Call, disk, memory, goroutine, history

\* Every call that a client can make is a call of an operation, a block and a
\* number of key-values; AppendToNewBlock and Delete run only if clients use them.
LEMMA ClientCalls ==
  ASSUME TypeOK, ClientCall
  PROVE  \E o \in Ops, b \in Slots, n \in Nat :
            Call(o, b, n) /\ (o \in {"new", "delete"} => o \in Clients)
<1> USE ConstantsAssumption
<1>0. 0 \in Slots /\ 0 \in Nat /\ 1 \in Nat /\ Blocks \subseteq Slots
  BY DEF Slots
<1>1. CASE \E b \in Blocks, n \in 0 .. MaxKvs : AppendCall(b, n)
  BY <1>0, <1>1 DEF AppendCall, Ops
<1>2. CASE \E n \in 1 .. MaxKvs : ExtendCall(n) \/ AppendToNewBlockCall(n)
  <2>1. PICK n \in 1 .. MaxKvs : ExtendCall(n) \/ AppendToNewBlockCall(n)
    BY <1>2
  <2>2. n \in Nat /\ "extend" \in Ops /\ "new" \in Ops
    BY DEF Ops
  <2>3. CASE ExtendCall(n)
    <3>1. latestBlockID \in Slots /\ Call("extend", latestBlockID, n)
      BY <1>0, <2>3 DEF ExtendCall
    <3> QED BY <2>2, <3>1
  <2>4. CASE AppendToNewBlockCall(n)
    <3>1. latestBlockID + 1 \in Slots /\ Call("new", latestBlockID + 1, n) /\ "new" \in Clients
      BY <1>0, <2>4, Zenon DEF AppendToNewBlockCall
    <3> QED BY <2>2, <3>1
  <2> QED BY <2>1, <2>3, <2>4
<1>3. CASE \E b \in Blocks : MarkBlockCommittedCall(b)
  BY <1>0, <1>3 DEF MarkBlockCommittedCall, Ops
<1>4. CASE DeleteCall
  BY <1>0, <1>4, Zenon DEF DeleteCall, Ops
<1>5. CASE FlushDataAndIndexCall
  BY <1>0, <1>5 DEF FlushDataAndIndexCall, Ops
<1>6. CASE CloseCall
  BY <1>0, <1>6 DEF CloseCall, Ops
<1> QED BY <1>1, <1>2, <1>3, <1>4, <1>5, <1>6 DEF ClientCall

\* A stop, by Close or by a crash, keeps the types.
LEMMA StopType ==
  ASSUME TypeOK, Stop
  PROVE  TypeOK'
<1>1. ZeroEntry \in Entry /\ 0 \in Slots
  BY ConstantsAssumption DEF ZeroEntry, Entry, Slots
<1>2. <<>> \in Seq(Entry)
  BY EmptySeq
<1>3. data' \in Seq(Slots) /\ idx' \in [Slots -> Entry] /\ meta' \in Slots /\ up' \in BOOLEAN
  BY Zenon DEF TypeOK, Stop, disk
<1>4. /\ minBlockID' \in Slots /\ latestBlockID' \in Slots /\ currentOffset' \in Nat
      /\ indexBuffer' \in Seq(Entry)
  BY <1>1, <1>2 DEF Stop
<1>5. /\ op' \in Ops /\ pc' \in Nat /\ blk' \in Slots /\ cnt' \in Nat /\ staged' \in Nat
      /\ entry' \in Entry /\ wMin' \in Slots /\ wTaken' \in Seq(Entry)
  BY <1>1, <1>2 DEF Stop, Idle, Ops
<1>6. /\ bgPc' \in {"idle", "called", "drain"} /\ bgMin' \in Slots /\ bgTaken' \in Seq(Entry)
      /\ bgPc' = "drain" <=> bgTaken' # <<>>
  BY <1>1, <1>2 DEF Stop
<1>7. acked' \in [Slots -> Entry] /\ lost' \in SUBSET Slots /\ stops' \in Nat
  BY DEF TypeOK, Stop
<1> QED BY <1>3, <1>4, <1>5, <1>6, <1>7 DEF TypeOK

\* The steps of a running handler keep the types.
LEMMA WriterType ==
  ASSUME TypeOK, WriterStep
  PROVE  TypeOK'
<1> USE ConstantsAssumption
<1>0. ZeroEntry \in Entry /\ 0 \in Slots
  BY DEF ZeroEntry, Entry, Slots
<1>1. CASE FillStep
  <2>1. CASE latestBlockID + 1 < blk
    <3>1. latestBlockID + 1 \in Slots
      BY <2>1 DEF TypeOK, Slots
    <3> DEFINE e == [blk |-> latestBlockID + 1, start |-> currentOffset, end |-> currentOffset]
    <3>2. e \in Entry /\ indexBuffer' = Append(indexBuffer, e) /\ indexBuffer \in Seq(Entry)
      BY <1>1, <2>1, <3>1 DEF TypeOK, Entry, FillStep
    <3> HIDE DEF e
    <3>3. indexBuffer' \in Seq(Entry)
      BY <3>2, AppendProperties
    <3> QED BY <1>1, <2>1, <3>1, <3>3 DEF TypeOK, FillStep, disk, goroutine, history
  <2>2. CASE ~(latestBlockID + 1 < blk)
    BY <1>1, <2>2 DEF TypeOK, FillStep, Advance, disk, goroutine, history
  <2> QED BY <2>1, <2>2
<1>2. CASE WriteStep
  <2>1. PICK through \in 0 .. cnt :
          data' = data \o Tags(blk, through) /\ staged' = cnt - through
    BY <1>2 DEF WriteStep
  <2>2. through \in Nat /\ cnt - through \in Nat
    BY <2>1 DEF TypeOK
  <2>3. data' \in Seq(Slots)
    BY <2>1, <2>2, TagsType, ConcatProperties DEF TypeOK
  <2>4. entry' \in Entry /\ currentOffset' \in Nat
    BY <1>2, OffsetType DEF TypeOK, WriteStep, Entry
  <2> QED BY <1>2, <2>1, <2>2, <2>3, <2>4 DEF TypeOK, WriteStep, Advance, goroutine, history
<1>3. CASE FlushDataStep
  <2>1. data' \in Seq(Slots)
    BY <1>3, TagsType, ConcatProperties DEF TypeOK, FlushDataStep
  <2> QED BY <1>3, <2>1 DEF TypeOK, FlushDataStep, Advance, memory, goroutine, history
<1>4. CASE BufferStep
  <2>1. entry' \in Entry
    BY <1>4 DEF TypeOK, BufferStep, Entry
  <2>2. indexBuffer' \in Seq(Entry)
    BY <1>4, <2>1, AppendProperties DEF TypeOK, BufferStep
  <2> QED BY <1>4, <2>1, <2>2 DEF TypeOK, BufferStep, Advance, disk, goroutine, history
<1>5. CASE SetMinStep
  BY <1>5 DEF TypeOK, SetMinStep, Advance, disk, goroutine, history
<1>6. CASE SetLatestStep
  BY <1>6 DEF TypeOK, SetLatestStep, Advance, disk, goroutine, history
<1>7. CASE TruncStep
  BY <1>0, <1>7 DEF TypeOK, TruncStep, Advance, memory, goroutine, history
<1>8. CASE MetaStep
  BY <1>8 DEF TypeOK, MetaStep, Advance, memory, goroutine, history
<1>9. CASE TakeStep
  BY <1>9, EmptySeq DEF TypeOK, TakeStep, Advance, disk, goroutine, history
<1>10. CASE DrainStep
  <2>1. CASE wTaken = <<>>
    BY <1>10, <2>1 DEF TypeOK, DrainStep, Advance, memory, goroutine, history
  <2>2. CASE wTaken # <<>>
    <3>1. Head(wTaken) \in Entry /\ Tail(wTaken) \in Seq(Entry)
      BY <2>2, HeadTailProperties DEF TypeOK
    <3>2. idx' = WriteIndex(wMin, Head(wTaken)) /\ wTaken' = Tail(wTaken) /\ wMin \in Slots
      BY <1>10, <2>2 DEF TypeOK, DrainStep
    <3>3. idx' \in [Slots -> Entry] /\ wTaken' \in Seq(Entry)
      BY <3>1, <3>2, WriteIndexType
    <3> QED BY <1>10, <2>2, <3>3 DEF TypeOK, DrainStep, memory, goroutine, history
  <2> QED BY <2>1, <2>2
<1>11. CASE AckStep
  BY <1>0, <1>11 DEF TypeOK, AckStep, Idle, Ops, disk, memory, goroutine
<1>12. CASE ThenStep
  BY <1>0, <1>12 DEF TypeOK, ThenStep, Idle, Ops, disk, memory, goroutine, history
<1>13. CASE WaitStep
  BY <1>13 DEF TypeOK, WaitStep, Advance, disk, memory, goroutine, history
<1>14. CASE CloseFilesStep
  BY <1>14, StopType DEF CloseFilesStep
<1> QED
  BY <1>1, <1>2, <1>3, <1>4, <1>5, <1>6, <1>7, <1>8, <1>9, <1>10, <1>11, <1>12, <1>13, <1>14
  DEF WriterStep

\* The background goroutine keeps the types.
LEMMA BackgroundType ==
  ASSUME TypeOK, BgCall \/ BgStep
  PROVE  TypeOK'
<1>0. 0 \in Slots /\ <<>> \in Seq(Entry)
  BY ConstantsAssumption, EmptySeq DEF Slots
<1>1. CASE BgCall
  BY <1>1 DEF TypeOK, BgCall, disk, memory, writer, history
<1>2. CASE BgTake
  BY <1>0, <1>2 DEF TypeOK, BgTake, disk, writer, history
<1>3. CASE BgDrain
  <2>1. bgTaken # <<>> /\ bgTaken \in Seq(Entry) /\ bgMin \in Slots
    BY <1>3 DEF TypeOK, BgDrain
  <2>2. Head(bgTaken) \in Entry /\ Tail(bgTaken) \in Seq(Entry)
    BY <2>1, HeadTailProperties
  <2>3. idx' = WriteIndex(bgMin, Head(bgTaken)) /\ bgTaken' = Tail(bgTaken)
    BY <1>3 DEF BgDrain
  <2>4. idx' \in [Slots -> Entry] /\ bgTaken' \in Seq(Entry)
    BY <2>1, <2>2, <2>3, WriteIndexType
  <2>5. bgPc' \in {"idle", "called", "drain"} /\ bgMin' \in Slots /\ (bgPc' = "drain" <=> bgTaken' # <<>>)
    BY <1>0, <1>3, <2>1, <2>3 DEF BgDrain
  <2> QED BY <1>3, <2>4, <2>5, Zenon DEF TypeOK, BgDrain, memory, writer, history
<1> QED BY <1>1, <1>2, <1>3 DEF BgStep

\* Every step keeps the types.
LEMMA TypeStep ==
  ASSUME TypeOK, [Next]_vars
  PROVE  TypeOK'
<1>1. CASE ClientCall
  BY <1>1, ClientCalls, CallType
<1>2. CASE WriterStep
  BY <1>2, WriterType
<1>3. CASE BgCall \/ BgStep
  BY <1>3, BackgroundType
<1>4. CASE Crash
  BY <1>4, StopType DEF Crash
<1>5. CASE Open
  BY <1>5, RecoveredType DEF TypeOK, Open, disk, writer, goroutine, history
<1>6. CASE UNCHANGED vars
  BY <1>6 DEF TypeOK, vars, disk, memory, writer, goroutine, history
<1> QED BY <1>1, <1>2, <1>3, <1>4, <1>5, <1>6 DEF Next

\* The initial state, an empty log or a log of one block, has the types.
LEMMA InitType ==
  ASSUME Init
  PROVE  TypeOK
<1>1. 0 \in Slots /\ Preload \in Slots /\ ZeroEntry \in Entry /\ PreEntry \in Entry
  BY ConstantsAssumption DEF Slots, ZeroEntry, PreEntry, Entry
<1>2. <<>> \in Seq(Entry) /\ <<>> \in Seq(Slots) /\ <<Preload>> \in Seq(Slots)
  BY <1>1, EmptySeq
<1>3. /\ idx \in [Slots -> Entry] /\ acked \in [Slots -> Entry]
      /\ data \in Seq(Slots) /\ currentOffset \in Nat
  BY <1>1, <1>2 DEF Init
<1> QED BY <1>1, <1>2, <1>3 DEF Init, TypeOK, Ops

\* Every variable keeps its type, for any number of blocks, records and crashes.
THEOREM TypeCorrect == Spec => []TypeOK
<1>1. Init => TypeOK
  BY InitType
<1>2. TypeOK /\ [Next]_vars => TypeOK'
  BY TypeStep
<1> QED BY <1>1, <1>2, PTL DEF Spec

-----------------------------------------------------------------------------
\* Positions in the handlers' programs

\* A running handler is at one of its steps.
PcInProgram == op # "none" => pc \in 1 .. Len(Program(op))

\* Only the steps that return or jump are the last of their programs.
LEMMA NotLast ==
  ASSUME NEW o \in Ops \ {"none"}, NEW i \in 1 .. Len(Program(o)),
         Program(o)[i] \notin {"ack", "then", "closeFiles"}
  PROVE  i + 1 \in 1 .. Len(Program(o))
BY DEF Program, Ops, AppendSteps, ExtendSteps, MarkSteps, NewSteps, DeleteSteps,
       FlushSteps, CloseSteps, FillSteps

\* Every program has a first step.
LEMMA FirstStep ==
  ASSUME NEW o \in Ops
  PROVE  1 \in 1 .. Len(Program(o))
BY DEF Program, Ops, AppendSteps, ExtendSteps, MarkSteps, NewSteps, DeleteSteps,
       FlushSteps, CloseSteps, FillSteps

\* An action that advances stays inside the program.
LEMMA AdvanceInProgram ==
  ASSUME TypeOK, PcInProgram, Advance, NEW step, At(step),
         step \notin {"ack", "then", "closeFiles"}
  PROVE  PcInProgram'
<1>1. op \in Ops \ {"none"} /\ pc \in 1 .. Len(Program(op)) /\ Program(op)[pc] = step
  BY DEF TypeOK, PcInProgram, At
<1>2. pc + 1 \in 1 .. Len(Program(op))
  BY <1>1, NotLast
<1>3. op' = op /\ pc' = pc + 1
  BY DEF Advance
<1> QED BY <1>2, <1>3 DEF PcInProgram

\* A handler starts at its first step.
LEMMA CallInProgram ==
  ASSUME NEW o \in Ops, NEW b, NEW n, Call(o, b, n)
  PROVE  PcInProgram'
BY FirstStep DEF Call, PcInProgram

\* The steps of a handler move inside its program, or leave it.
LEMMA WriterInProgram ==
  ASSUME TypeOK, PcInProgram, WriterStep
  PROVE  PcInProgram'
<1>1. CASE FillStep
  <2>1. CASE latestBlockID + 1 < blk
    BY <1>1, <2>1 DEF FillStep, PcInProgram
  <2>2. CASE ~(latestBlockID + 1 < blk)
    BY <1>1, <2>2, AdvanceInProgram DEF FillStep
  <2> QED BY <2>1, <2>2
<1>2. CASE WriteStep
  BY <1>2, AdvanceInProgram DEF WriteStep
<1>3. CASE FlushDataStep
  BY <1>3, AdvanceInProgram DEF FlushDataStep
<1>4. CASE BufferStep
  BY <1>4, AdvanceInProgram DEF BufferStep
<1>5. CASE SetMinStep
  BY <1>5, AdvanceInProgram DEF SetMinStep
<1>6. CASE SetLatestStep
  BY <1>6, AdvanceInProgram DEF SetLatestStep
<1>7. CASE TruncStep
  BY <1>7, AdvanceInProgram DEF TruncStep
<1>8. CASE MetaStep
  BY <1>8, AdvanceInProgram DEF MetaStep
<1>9. CASE TakeStep
  BY <1>9, AdvanceInProgram DEF TakeStep
<1>10. CASE DrainStep
  <2>1. CASE wTaken = <<>>
    BY <1>10, <2>1, AdvanceInProgram DEF DrainStep
  <2>2. CASE wTaken # <<>>
    BY <1>10, <2>2 DEF DrainStep, PcInProgram
  <2> QED BY <2>1, <2>2
<1>11. CASE AckStep
  BY <1>11 DEF AckStep, Idle, PcInProgram
<1>12. CASE ThenStep
  BY <1>12, FirstStep DEF ThenStep, Idle, PcInProgram, Ops
<1>13. CASE WaitStep
  BY <1>13, AdvanceInProgram DEF WaitStep
<1>14. CASE CloseFilesStep
  BY <1>14 DEF CloseFilesStep, Stop, Idle, PcInProgram
<1> QED
  BY <1>1, <1>2, <1>3, <1>4, <1>5, <1>6, <1>7, <1>8, <1>9, <1>10, <1>11, <1>12, <1>13, <1>14
  DEF WriterStep

\* Every step keeps the handler inside its program.
LEMMA PcStep ==
  ASSUME TypeOK, PcInProgram, [Next]_vars
  PROVE  PcInProgram'
<1>1. CASE ClientCall
  BY <1>1, ClientCalls, CallInProgram
<1>2. CASE WriterStep
  BY <1>2, WriterInProgram
<1>3. CASE BgCall \/ BgStep
  BY <1>3 DEF BgCall, BgStep, BgTake, BgDrain, writer, PcInProgram
<1>4. CASE Crash
  BY <1>4 DEF Crash, Stop, Idle, PcInProgram
<1>5. CASE Open
  BY <1>5 DEF Open, writer, PcInProgram
<1>6. CASE UNCHANGED vars
  BY <1>6 DEF vars, writer, PcInProgram
<1> QED BY <1>1, <1>2, <1>3, <1>4, <1>5, <1>6 DEF Next

\* Which handlers write records, and when each flushes them, buffers its entry
\* and takes the buffer.
LEMMA StepPositions ==
  ASSUME TypeOK, PcInProgram
  PROVE  /\ At("fill") => op \in {"gapAppend", "gapOnly", "gapMark"} /\ pc = 1
         /\ At("write") => op \in {"append", "extend", "new", "delete"} /\ pc = 1
         /\ At("buffer") => \/ op \in {"append", "extend", "delete"} /\ pc = 3
                            \/ op = "mark" /\ pc = 2
                            \/ op = "new" /\ pc = 4
         /\ At("flushData") => \/ op \in {"append", "extend"} /\ pc = 2
                               \/ op = "new" /\ pc = 5
                               \/ op = "delete" /\ pc = 4
                               \/ op \in {"flush", "close"}
         /\ At("take") => \/ op = "append" /\ pc = 8
                          \/ op \in {"extend", "mark"} /\ pc = 4
                          \/ op = "new" /\ pc = 6
                          \/ op = "delete" /\ pc = 5
                          \/ op \notin {"append", "extend", "mark", "new", "delete"} /\ pc = 2
         /\ At("setMin") => \/ op = "append" /\ pc = 4
                            \/ op = "mark" /\ pc = 1
                            \/ op = "new" /\ pc = 2
         /\ At("setLatest") => \/ op = "append" /\ pc = 5
                               \/ op = "mark" /\ pc = 3
                               \/ op = "new" /\ pc = 3
                               \/ op = "delete" /\ pc = 2
         /\ At("trunc") \/ At("meta") => \/ op = "append" /\ pc \in 6 .. 7
                                         \/ op = "mark" /\ pc \in 6 .. 7
                                         \/ op = "new" /\ pc \in 8 .. 9
                                         \/ op \notin {"append", "extend", "mark", "new", "delete"}
         /\ At("ack") => \/ op = "append" /\ pc = 10
                         \/ op = "extend" /\ pc = 6
                         \/ op = "mark" /\ pc = 8
                         \/ op = "new" /\ pc = 10
                         \/ op = "delete" /\ pc = 7
         /\ At("then") \/ At("wait") => op \notin {"append", "extend", "mark", "new", "delete"}
         /\ At("drain") => \/ op = "append" /\ pc = 9
                           \/ op \in {"extend", "mark"} /\ pc = 5
                           \/ op = "new" /\ pc = 7
                           \/ op = "delete" /\ pc = 6
                           \/ op \notin {"append", "extend", "mark", "new", "delete"} /\ pc = 3
<1>1. CASE op = "none"
  BY <1>1 DEF At
<1>2. CASE op # "none"
  <2>1. pc \in 1 .. Len(Program(op)) /\ op \in Ops \ {"none"}
    BY <1>2 DEF PcInProgram, TypeOK
  <2> QED
    BY <2>1, SMTT(30) DEF At, Program, Ops, AppendSteps, ExtendSteps, MarkSteps, NewSteps,
        DeleteSteps, FlushSteps, CloseSteps, FillSteps
<1> QED BY <1>1, <1>2

\* Between the write and the flush of the data.
Unflushed ==
    \/ op \in {"append", "extend"} /\ pc = 2
    \/ op = "new" /\ pc \in 2 .. 5
    \/ op = "delete" /\ pc \in 2 .. 4
=============================================================================
