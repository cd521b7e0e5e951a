-------------------------- MODULE BlockIndexReopen --------------------------
(***************************************************************************)
(* Proof that BlockIndex can be reopened after a crash at any step, for    *)
(* all values of its constants.                                            *)
(***************************************************************************)
EXTENDS BlockIndexTypes

\* AppendToNewBlock and Delete buffer their index entry before they flush the
\* data; the goroutine must not run beside them.
ReopenAssumption == ~BgFlush \/ Clients \intersect {"new", "delete"} = {}

EndsBy(entries, n) == \A i \in 1 .. Len(entries) : entries[i].end <= n

\* The records that the data writer still holds and the buffer already indexes.
Ahead == IF op \in {"new", "delete"} THEN staged ELSE 0

WriterWithin ==
    /\ staged # 0 => Unflushed
    /\ BgFlush => op \notin {"new", "delete"}
    /\ currentOffset <= Len(data) + staged
    /\ entry.end <= Len(data) + staged

EntriesWithin ==
    /\ bgPc # "idle" => BgFlush
    /\ EndsBy(indexBuffer, Len(data) + Ahead)
    /\ EndsBy(wTaken, Len(data)) /\ EndsBy(bgTaken, Len(data))
    /\ \A s \in Slots : idx[s].end <= Len(data)

\* The inductive invariant: no index entry outside the buffer reaches past the
\* data file, and the buffer does so only while new or delete holds the lock.
ReopenInv == TypeOK /\ PcInProgram /\ WriterWithin /\ EntriesWithin

\* Entries that end inside the data file make the open succeed.
LEMMA WithinReopens == ReopenInv => Reopenable
<1> SUFFICES ASSUME ReopenInv, NEW b \in RecoveredRecent
             PROVE  LoadedEntry(b).end <= Len(data)
  BY DEF Reopenable, OpenSucceeds
<1> DEFINE At_b == {s \in LoadedSlots : idx[s].blk = b}
<1>1. At_b \in SUBSET (0 .. MaxSlot) /\ At_b # {}
  BY DEF RecoveredRecent, LoadedBlocks, LoadedSlots, Slots
<1>2. PICK m \in At_b : \A t \in At_b : t <= m
  BY <1>1, MaxExists, ConstantsAssumption, Zenon
<1>3. \E s \in LoadedSlots : idx[s].blk = b /\ \A t \in LoadedSlots : idx[t].blk = b => t <= s
  BY <1>2
<1>4. \E s \in LoadedSlots : LoadedEntry(b) = idx[s]
  BY <1>3, Zenon DEF LoadedEntry
<1> QED BY <1>4 DEF ReopenInv, EntriesWithin, LoadedSlots

\* A lookup returns an entry that ends where the lookup's sources allow.
LEMMA LookupWithin ==
  ASSUME ReopenInv, op \in {"append", "extend"}, pc = 1, Exists(blk)
  PROVE  TheEntry(blk) \in Entry /\ TheEntry(blk).end <= Len(data)
<1>1. blk \in Slots /\ minBlockID \in Slots /\ indexBuffer \in Seq(Entry) /\ Len(data) \in Nat
  BY LenProperties DEF ReopenInv, TypeOK
<1>2. Ahead = 0 /\ Len(data) + 0 = Len(data)
  BY <1>1 DEF Ahead
<1>3. \A e \in FirstInBuffer(blk) : e.end <= Len(data)
  BY <1>1, <1>2 DEF ReopenInv, EntriesWithin, EndsBy, FirstInBuffer
<1>4. \A e \in findBlockIndexEntryOnDisk(blk) : e.end <= Len(data)
  BY <1>1, ConstantsAssumption
  DEF ReopenInv, EntriesWithin, findBlockIndexEntryOnDisk, DiskEntryAt, Slots
<1>5. \A e \in getBlockIndexEntry(blk) : e.end <= Len(data)
  BY <1>3, <1>4 DEF getBlockIndexEntry
<1>6. TheEntry(blk) \in getBlockIndexEntry(blk)
  BY DEF TheEntry, Exists
<1> QED BY <1>1, <1>5, <1>6, LookupType DEF ReopenInv

\* The end of the data file as a number that no step lowers.
LEMMA WithinNumbers ==
  ASSUME TypeOK
  PROVE  /\ Len(data) \in Nat /\ staged \in Nat /\ currentOffset \in Nat /\ cnt \in Nat
         /\ Len(data) + staged \in Nat /\ Ahead \in Nat /\ entry.end \in Nat
         /\ \A s \in Slots : idx[s].end \in Nat
BY LenProperties DEF TypeOK, Ahead, Entry

\* Entries that end by n end by every larger number.
LEMMA EndsByMonotonic ==
  ASSUME NEW es \in Seq(Entry), NEW m \in Nat, NEW n \in Nat, m <= n, EndsBy(es, m)
  PROVE  EndsBy(es, n)
<1> SUFFICES ASSUME NEW i \in 1 .. Len(es) PROVE es[i].end <= n
  BY DEF EndsBy
<1>1. es[i].end <= m /\ es[i] \in Entry
  BY ElementOfSeq DEF EndsBy
<1>2. es[i].end \in Nat
  BY <1>1 DEF Entry
<1> QED BY <1>1, <1>2

\* Appending an entry that ends by n.
LEMMA EndsByAppend ==
  ASSUME NEW es \in Seq(Entry), NEW e \in Entry, NEW n \in Nat, EndsBy(es, n), e.end <= n
  PROVE  EndsBy(Append(es, e), n)
<1> SUFFICES ASSUME NEW i \in 1 .. Len(Append(es, e)) PROVE Append(es, e)[i].end <= n
  BY DEF EndsBy
<1>1. /\ Len(es) \in Nat /\ Len(Append(es, e)) = Len(es) + 1
      /\ \A j \in 1 .. Len(es) : Append(es, e)[j] = es[j]
      /\ Append(es, e)[Len(es) + 1] = e
  BY AppendProperties, LenProperties
<1>2. CASE i \in 1 .. Len(es)
  BY <1>1, <1>2 DEF EndsBy
<1>3. CASE i = Len(es) + 1
  BY <1>1, <1>3
<1> QED BY <1>1, <1>2, <1>3

\* Taking the first entry off.
LEMMA EndsByTail ==
  ASSUME NEW es \in Seq(Entry), es # <<>>, NEW n \in Nat, EndsBy(es, n)
  PROVE  Head(es) \in Entry /\ Head(es).end <= n /\ EndsBy(Tail(es), n)
<1>1. /\ Head(es) \in Entry /\ Len(Tail(es)) = Len(es) - 1
      /\ \A i \in 1 .. Len(Tail(es)) : Tail(es)[i] = es[i + 1]
  BY HeadTailProperties
<1>2. Len(es) \in Nat \ {0} /\ Head(es) = es[1]
  BY EmptySeq
<1>3. Head(es).end <= n
  BY <1>2 DEF EndsBy
<1>4. EndsBy(Tail(es), n)
  BY <1>1, <1>2 DEF EndsBy
<1> QED BY <1>1, <1>3, <1>4

\* Writing an entry that ends by n into the index file.
LEMMA WriteIndexWithin ==
  ASSUME TypeOK, NEW min \in Slots, NEW e \in Entry, NEW n \in Nat, e.end <= n,
         \A s \in Slots : idx[s].end <= n
  PROVE  \A s \in Slots : WriteIndex(min, e)[s].end <= n
BY ConstantsAssumption DEF TypeOK, WriteIndex, Slots, Entry

\* Nothing is staged once the data is flushed.
LEMMA NothingStaged ==
  ASSUME ReopenInv,
         \/ At("fill") \/ At("take") \/ At("drain") \/ At("trunc") \/ At("meta")
         \/ At("ack") \/ At("then") \/ At("wait")
  PROVE  staged = 0
<1>1. TypeOK /\ PcInProgram /\ (staged # 0 => Unflushed)
  BY DEF ReopenInv, WriterWithin
<1>2. ~Unflushed
  BY <1>1, StepPositions, SMTT(30) DEF Unflushed
<1> QED BY <1>1, <1>2

\* A step that leaves the entries alone.
LEMMA SameEntries ==
  ASSUME EntriesWithin, UNCHANGED <<data, idx, indexBuffer, wTaken, bgPc, bgTaken>>, Ahead' = Ahead
  PROVE  EntriesWithin'
BY DEF EntriesWithin, EndsBy

\* A step that leaves the offsets and the entries alone and does not flush.
LEMMA QuietWithin ==
  ASSUME ReopenInv, UNCHANGED <<data, idx, currentOffset, indexBuffer, entry, staged>>,
         UNCHANGED <<wTaken, bgPc, bgTaken>>,
         staged = 0 \/ (op' = op /\ Unflushed'),
         BgFlush => op' \notin {"new", "delete"}
  PROVE  WriterWithin' /\ EntriesWithin'
<1>1. Ahead' = Ahead
  BY DEF Ahead
<1>2. EntriesWithin'
  BY <1>1, SameEntries DEF ReopenInv
<1>3. WriterWithin'
  BY DEF ReopenInv, WriterWithin
<1> QED BY <1>2, <1>3

\* A handler that starts has nothing staged.
LEMMA CallWithin ==
  ASSUME ReopenAssumption, ReopenInv, NEW o \in Ops, NEW b, NEW n, Call(o, b, n),
         o \in {"new", "delete"} => o \in Clients
  PROVE  WriterWithin' /\ EntriesWithin'
<1>1. staged = 0 /\ Ahead = 0 /\ Ahead' = 0
  BY DEF ReopenInv, WriterWithin, Unflushed, Call, Ahead
<1>2. WriterWithin'
  BY <1>1, WithinNumbers, SMTT(30)
  DEF ReopenAssumption, ReopenInv, WriterWithin, Call, disk, memory, ZeroEntry
<1>3. EntriesWithin'
  BY <1>1 DEF ReopenInv, EntriesWithin, EndsBy, Call, disk, memory, goroutine
<1> QED BY <1>2, <1>3

\* A stop forgets what is not in the files.
LEMMA StopWithin ==
  ASSUME ReopenInv, Stop
  PROVE  WriterWithin' /\ EntriesWithin'
<1>1. Len(<<>>) = 0
  BY EmptySeq
<1>2. /\ UNCHANGED <<data, idx>> /\ indexBuffer' = <<>> /\ wTaken' = <<>> /\ bgTaken' = <<>>
      /\ bgPc' = "idle" /\ currentOffset' = 0 /\ op' = "none" /\ staged' = 0 /\ entry' = ZeroEntry
  BY DEF Stop, Idle, disk
<1>3. WriterWithin'
  BY <1>2, WithinNumbers, SMTT(30) DEF ReopenInv, WriterWithin, ZeroEntry
<1>4. EntriesWithin'
  BY <1>1, <1>2 DEF ReopenInv, EntriesWithin, EndsBy
<1> QED BY <1>3, <1>4

\* The data of a batch reaches the file before its entry leaves the handler.
LEMMA WriteWithin ==
  ASSUME ReopenInv, WriteStep
  PROVE  WriterWithin' /\ EntriesWithin'
<1>1. op \in {"append", "extend", "new", "delete"} /\ pc = 1 /\ op' = op /\ pc' = 2
  BY StepPositions, SMTT(30) DEF ReopenInv, WriteStep, Advance
<1>2. staged = 0 /\ Ahead = 0
  BY <1>1 DEF ReopenInv, WriterWithin, Unflushed, Ahead
<1>3. StartOffset \in Nat /\ EndOffset(cnt) = StartOffset + cnt /\ StartOffset <= Len(data)
  <2>1. TypeOK /\ currentOffset <= Len(data)
    BY <1>2, WithinNumbers DEF ReopenInv, WriterWithin
  <2>2. StartOffset <= Len(data)
    BY <1>1, <2>1, LookupWithin DEF StartOffset, Appending
  <2> QED BY <2>1, <2>2, OffsetType DEF EndOffset
<1>4. PICK through \in 0 .. cnt : data' = data \o Tags(blk, through) /\ staged' = cnt - through
  BY DEF WriteStep
<1>5. Len(data') = Len(data) + through /\ through \in Nat /\ staged' \in Nat /\ through + staged' = cnt
  <2>1. through \in Nat /\ cnt - through \in Nat /\ through + (cnt - through) = cnt
    BY <1>4, WithinNumbers DEF ReopenInv
  <2>2. Tags(blk, through) \in Seq(Slots) /\ Len(Tags(blk, through)) = through
    BY <2>1, TagsType DEF ReopenInv, TypeOK
  <2>3. Len(data \o Tags(blk, through)) = Len(data) + through
    BY <2>2, ConcatProperties, Zenon DEF ReopenInv, TypeOK
  <2> QED BY <1>4, <2>1, <2>3
<1>6. WriterWithin'
  <2>1. Unflushed' BY <1>1 DEF Unflushed
  <2>2. currentOffset' = StartOffset + cnt /\ entry'.end = StartOffset + cnt
    BY <1>3 DEF WriteStep
  <2>3. StartOffset + cnt <= Len(data') + staged'
    <3>1. Len(data) \in Nat /\ cnt \in Nat BY WithinNumbers DEF ReopenInv
    <3>2. \A a, c, n, t, g \in Nat : a <= n /\ t + g = c => a + c <= (n + t) + g
      OBVIOUS
    <3>3. StartOffset + cnt <= (Len(data) + through) + staged'
      BY <1>3, <1>5, <3>1, <3>2, Zenon
    <3> QED BY <1>5, <3>3
  <2> QED BY <1>1, <2>1, <2>2, <2>3 DEF ReopenInv, WriterWithin
<1>7. EntriesWithin'
  <2>1. Len(data) \in Nat /\ Len(data') \in Nat /\ Len(data) <= Len(data')
    BY <1>5, WithinNumbers DEF ReopenInv
  <2>2. Len(data') + Ahead' \in Nat /\ Len(data) + Ahead <= Len(data') + Ahead'
    BY <1>2, <1>5, <2>1 DEF Ahead
  <2>3. EndsBy(indexBuffer, Len(data') + Ahead')
    BY <1>2, <2>1, <2>2, EndsByMonotonic DEF ReopenInv, EntriesWithin, TypeOK
  <2>4. EndsBy(wTaken, Len(data')) /\ EndsBy(bgTaken, Len(data'))
    BY <2>1, EndsByMonotonic DEF ReopenInv, EntriesWithin, TypeOK
  <2>5. \A s \in Slots : idx[s].end <= Len(data')
    BY <2>1, WithinNumbers, SMTT(30) DEF ReopenInv, EntriesWithin
  <2> QED BY <2>3, <2>4, <2>5 DEF ReopenInv, EntriesWithin, WriteStep, goroutine
<1> QED BY <1>6, <1>7

\* A flush moves the staged records to the file.
LEMMA FlushWithin ==
  ASSUME ReopenInv, FlushDataStep
  PROVE  WriterWithin' /\ EntriesWithin'
<1>1. Len(data') = Len(data) + staged /\ staged' = 0 /\ op' = op
  <2>1. Tags(blk, staged) \in Seq(Slots) /\ Len(Tags(blk, staged)) = staged
    BY TagsType DEF ReopenInv, TypeOK
  <2>2. Len(data \o Tags(blk, staged)) = Len(data) + staged
    BY <2>1, ConcatProperties, Zenon DEF ReopenInv, TypeOK
  <2> QED BY <2>2 DEF FlushDataStep, Advance
<1>2. Len(data) \in Nat /\ staged \in Nat /\ Len(data) <= Len(data') /\ Ahead \in Nat /\ Ahead <= staged
  BY <1>1, WithinNumbers DEF ReopenInv, Ahead
<1>3. WriterWithin'
  BY <1>1, <1>2 DEF ReopenInv, WriterWithin, FlushDataStep, memory
<1>4. EntriesWithin'
  <2>1. Len(data') \in Nat /\ Len(data) + Ahead \in Nat /\ Len(data) + Ahead <= Len(data') /\ Ahead' = 0
    BY <1>1, <1>2 DEF Ahead
  <2>2. EndsBy(indexBuffer, Len(data'))
    BY <2>1, EndsByMonotonic DEF ReopenInv, EntriesWithin, TypeOK
  <2>3. EndsBy(wTaken, Len(data')) /\ EndsBy(bgTaken, Len(data'))
    BY <1>2, <2>1, EndsByMonotonic DEF ReopenInv, EntriesWithin, TypeOK
  <2>4. \A s \in Slots : idx[s].end <= Len(data')
    BY <1>2, <2>1, WithinNumbers DEF ReopenInv, EntriesWithin
  <2>5. Len(data') + Ahead' = Len(data')
    BY <2>1
  <2> QED BY <2>2, <2>3, <2>4, <2>5 DEF ReopenInv, EntriesWithin, FlushDataStep, memory, goroutine
<1> QED BY <1>3, <1>4

\* The entry that a handler buffers ends inside the file, or ahead of it by what
\* the handler staged.
LEMMA BufferWithin ==
  ASSUME ReopenInv, BufferStep
  PROVE  WriterWithin' /\ EntriesWithin'
<1>1. /\ op' = op /\ pc' = pc + 1
      /\ \/ op \in {"append", "extend", "delete"} /\ pc = 3
         \/ op = "mark" /\ pc = 2
         \/ op = "new" /\ pc = 4
  BY StepPositions DEF ReopenInv, BufferStep, Advance
<1>2. staged' = staged /\ data' = data /\ Ahead' = Ahead
  BY <1>1 DEF BufferStep, disk, Ahead
<1>3. op \notin {"new", "delete"} => staged = 0
  BY <1>1 DEF ReopenInv, WriterWithin, Unflushed
<1>4. entry' \in Entry /\ entry'.end <= Len(data) + Ahead /\ indexBuffer' = Append(indexBuffer, entry')
  BY <1>3, WithinNumbers, Zenon DEF ReopenInv, WriterWithin, TypeOK, BufferStep, Entry, Ahead
<1>5. Len(data) + Ahead \in Nat /\ Ahead <= staged
  BY WithinNumbers DEF ReopenInv, Ahead
<1>6. EndsBy(indexBuffer', Len(data') + Ahead')
  BY <1>2, <1>4, <1>5, EndsByAppend DEF ReopenInv, EntriesWithin, TypeOK
<1>7. EntriesWithin'
  BY <1>2, <1>6 DEF ReopenInv, EntriesWithin, BufferStep, disk, goroutine
<1>8. staged # 0 => Unflushed'
  BY <1>1, <1>3 DEF Unflushed
<1>9. entry'.end <= Len(data) + staged
  <2>1. entry'.end \in Nat /\ Len(data) \in Nat /\ staged \in Nat /\ Ahead \in Nat
    BY <1>4, WithinNumbers DEF ReopenInv, Entry
  <2> QED BY <1>4, <1>5, <2>1
<1>10. WriterWithin'
  BY <1>1, <1>2, <1>8, <1>9 DEF ReopenInv, WriterWithin, BufferStep
<1> QED BY <1>7, <1>10

\* Both flushers take a buffer whose entries end inside the file.
LEMMA TakeWithin ==
  ASSUME ReopenInv, TakeStep
  PROVE  WriterWithin' /\ EntriesWithin'
<1>1. staged = 0 /\ op' = op
  BY NothingStaged DEF TakeStep, Advance
<1>2. Ahead = 0 /\ Ahead' = 0 /\ Len(data) + 0 = Len(data)
  BY <1>1, WithinNumbers DEF ReopenInv, Ahead, TakeStep
<1>3. Len(<<>>) = 0
  BY EmptySeq
<1>4. EntriesWithin'
  BY <1>2, <1>3, SMTT(30) DEF ReopenInv, EntriesWithin, EndsBy, TakeStep, disk, goroutine
<1>5. WriterWithin'
  BY <1>1 DEF ReopenInv, WriterWithin, TakeStep, disk
<1> QED BY <1>4, <1>5

\* The handler's own flush of the index.
LEMMA DrainWithin ==
  ASSUME ReopenInv, DrainStep
  PROVE  WriterWithin' /\ EntriesWithin'
<1>1. UNCHANGED <<data, staged, currentOffset, entry, indexBuffer, bgPc, bgTaken>> /\ op' = op /\ Ahead' = Ahead
  BY DEF DrainStep, Advance, memory, goroutine, Ahead
<1>2. staged = 0
  BY NothingStaged DEF DrainStep
<1>3. WriterWithin'
  BY <1>1, <1>2 DEF ReopenInv, WriterWithin
<1>4. CASE wTaken = <<>>
  BY <1>1, <1>3, <1>4 DEF ReopenInv, EntriesWithin, DrainStep
<1>5. CASE wTaken # <<>>
  <2>1. idx' = WriteIndex(wMin, Head(wTaken)) /\ wTaken' = Tail(wTaken)
    BY <1>5 DEF DrainStep
  <2>2. Head(wTaken) \in Entry /\ Head(wTaken).end <= Len(data) /\ EndsBy(Tail(wTaken), Len(data))
    BY <1>5, EndsByTail, WithinNumbers DEF ReopenInv, EntriesWithin, TypeOK
  <2>3. \A s \in Slots : idx'[s].end <= Len(data)
    BY <2>1, <2>2, WriteIndexWithin, WithinNumbers DEF ReopenInv, EntriesWithin, TypeOK
  <2> QED BY <1>1, <1>3, <2>1, <2>2, <2>3 DEF ReopenInv, EntriesWithin
<1> QED BY <1>4, <1>5

\* Every step of a handler keeps the entries inside the data file.
LEMMA WriterStepWithin ==
  ASSUME ReopenInv, WriterStep
  PROVE  WriterWithin' /\ EntriesWithin'
<1>0. BgFlush => op \notin {"new", "delete"}
  BY DEF ReopenInv, WriterWithin
<1>1. CASE FillStep
  <2>1. staged = 0 /\ op' = op /\ Ahead = 0 /\ Ahead' = 0
    BY <1>1, NothingStaged DEF FillStep, Advance, Ahead
  <2>2. WriterWithin'
    BY <1>0, <1>1, <2>1 DEF ReopenInv, WriterWithin, FillStep, disk
  <2>3. EndsBy(indexBuffer', Len(data) + Ahead)
    <3> DEFINE e == [blk |-> latestBlockID + 1, start |-> currentOffset, end |-> currentOffset]
    <3>1. CASE latestBlockID + 1 < blk
      <4>1. e \in Entry
        BY <3>1, ConstantsAssumption, SMTT(30) DEF ReopenInv, TypeOK, Entry, Slots
      <4>2. e.end <= Len(data) + Ahead
        BY <2>1 DEF ReopenInv, WriterWithin
      <4>3. indexBuffer' = Append(indexBuffer, e)
        BY <1>1, <3>1 DEF FillStep
      <4> HIDE DEF e
      <4> QED
        BY <4>1, <4>2, <4>3, EndsByAppend, WithinNumbers, <2>1 DEF ReopenInv, EntriesWithin, TypeOK
    <3>2. CASE ~(latestBlockID + 1 < blk)
      BY <1>1, <3>2 DEF FillStep, ReopenInv, EntriesWithin
    <3> QED BY <3>1, <3>2
  <2>4. EntriesWithin'
    BY <1>1, <2>1, <2>3 DEF ReopenInv, EntriesWithin, FillStep, disk, goroutine
  <2> QED BY <2>2, <2>4
<1>2. CASE WriteStep
  BY <1>2, WriteWithin
<1>3. CASE FlushDataStep
  BY <1>3, FlushWithin
<1>4. CASE BufferStep
  BY <1>4, BufferWithin
<1>5. CASE SetMinStep
  <2>1. staged = 0 \/ Unflushed'
    <3>1. op' = op /\ pc' = pc + 1 /\ (staged # 0 => Unflushed)
      BY <1>5 DEF ReopenInv, WriterWithin, SetMinStep, Advance
    <3>2. At("setMin") /\ TypeOK /\ PcInProgram
      BY <1>5 DEF ReopenInv, SetMinStep
    <3>3. \/ op = "append" /\ pc = 4
          \/ op = "mark" /\ pc = 1
          \/ op = "new" /\ pc = 2
      BY <3>2, StepPositions
    <3> QED BY <3>1, <3>3 DEF Unflushed
  <2> QED
    BY <1>0, <1>5, <2>1, QuietWithin DEF SetMinStep, Advance, disk, goroutine
<1>6. CASE SetLatestStep
  <2>1. staged = 0 \/ Unflushed'
    <3>1. op' = op /\ pc' = pc + 1 /\ (staged # 0 => Unflushed)
      BY <1>6 DEF ReopenInv, WriterWithin, SetLatestStep, Advance
    <3>2. At("setLatest") /\ TypeOK /\ PcInProgram
      BY <1>6 DEF ReopenInv, SetLatestStep
    <3>3. \/ op = "append" /\ pc = 5
          \/ op = "mark" /\ pc = 3
          \/ op = "new" /\ pc = 3
          \/ op = "delete" /\ pc = 2
      BY <3>2, StepPositions
    <3> QED BY <3>1, <3>3 DEF Unflushed
  <2> QED
    BY <1>0, <1>6, <2>1, QuietWithin DEF SetLatestStep, Advance, disk, goroutine
<1>7. CASE TruncStep
  <2>1. staged = 0
    BY <1>7, NothingStaged DEF TruncStep
  <2> QED
    BY <1>0, <1>7, <2>1, QuietWithin DEF TruncStep, Advance, memory, goroutine
<1>8. CASE MetaStep
  <2>1. staged = 0
    BY <1>8, NothingStaged DEF MetaStep
  <2> QED
    BY <1>0, <1>8, <2>1, QuietWithin DEF MetaStep, Advance, memory, goroutine
<1>9. CASE TakeStep
  BY <1>9, TakeWithin
<1>10. CASE DrainStep
  BY <1>10, DrainWithin
<1>11. CASE AckStep
  <2>1. staged = 0
    BY <1>11, NothingStaged DEF AckStep
  <2> QED
    <3>1. /\ UNCHANGED <<data, idx, indexBuffer, wTaken, bgPc, bgTaken, currentOffset>>
          /\ staged' = 0 /\ op' = "none" /\ entry' = ZeroEntry
      BY <1>11 DEF AckStep, Idle, disk, memory, goroutine
    <3>2. Ahead' = Ahead
      BY <2>1, <3>1 DEF Ahead
    <3>3. EntriesWithin'
      BY <3>1, <3>2, SameEntries DEF ReopenInv
    <3>4. WriterWithin'
      BY <2>1, <3>1, WithinNumbers, SMTT(30) DEF ReopenInv, WriterWithin, ZeroEntry
    <3> QED BY <3>3, <3>4
<1>12. CASE ThenStep
  <2>1. staged = 0
    BY <1>12, NothingStaged DEF ThenStep
  <2> QED
    <3>1. /\ UNCHANGED <<data, idx, indexBuffer, wTaken, bgPc, bgTaken, currentOffset>>
          /\ staged' = 0 /\ op' \in {"none", "append", "mark"} /\ entry' \in {entry, ZeroEntry}
      BY <1>12, <2>1 DEF ThenStep, Idle, disk, memory, goroutine
    <3>2. Ahead' = Ahead
      BY <2>1, <3>1 DEF Ahead
    <3>3. EntriesWithin'
      BY <3>1, <3>2, SameEntries DEF ReopenInv
    <3>4. entry'.end = entry.end \/ entry'.end = 0
      BY <3>1 DEF ZeroEntry
    <3>5. /\ Len(data) \in Nat /\ staged \in Nat /\ currentOffset <= Len(data) + staged
          /\ entry.end <= Len(data) + staged
      BY WithinNumbers DEF ReopenInv, WriterWithin
    <3>6. WriterWithin'
      BY <2>1, <3>1, <3>4, <3>5 DEF WriterWithin
    <3> QED BY <3>3, <3>6
<1>13. CASE WaitStep
  <2>1. staged = 0
    BY <1>13, NothingStaged DEF WaitStep
  <2> QED
    BY <1>0, <1>13, <2>1, QuietWithin DEF WaitStep, Advance, disk, memory, goroutine
<1>14. CASE CloseFilesStep
  BY <1>14, StopWithin DEF CloseFilesStep
<1> QED
  BY <1>1, <1>2, <1>3, <1>4, <1>5, <1>6, <1>7, <1>8, <1>9, <1>10, <1>11, <1>12, <1>13, <1>14
  DEF WriterStep

\* The goroutine runs only beside handlers that buffer flushed data.
LEMMA BackgroundWithin ==
  ASSUME ReopenInv, BgCall \/ BgStep
  PROVE  WriterWithin' /\ EntriesWithin'
<1>1. CASE BgCall
  <2>1. /\ UNCHANGED <<data, idx, op, pc, staged, entry, indexBuffer, wTaken, bgTaken, currentOffset>>
        /\ BgFlush /\ Ahead' = Ahead
    BY <1>1 DEF BgCall, Ahead, disk, memory, writer
  <2>2. WriterWithin'
    BY <2>1 DEF ReopenInv, WriterWithin, Unflushed
  <2>3. EntriesWithin'
    BY <2>1 DEF ReopenInv, EntriesWithin, EndsBy
  <2> QED BY <2>2, <2>3
<1>2. CASE BgTake
  <2>1. /\ BgFlush /\ op \notin {"new", "delete"}
        /\ UNCHANGED <<data, idx, op, pc, staged, entry, wTaken, currentOffset>>
        /\ indexBuffer' = <<>> /\ bgTaken' = indexBuffer
    BY <1>2 DEF ReopenInv, WriterWithin, EntriesWithin, BgTake, disk, writer
  <2>2. Ahead = 0 /\ Ahead' = 0 /\ Len(data) + 0 = Len(data) /\ Len(<<>>) = 0
    BY <2>1, EmptySeq, WithinNumbers DEF ReopenInv, Ahead
  <2>3. WriterWithin'
    BY <2>1 DEF ReopenInv, WriterWithin, Unflushed
  <2>4. EndsBy(bgTaken', Len(data)) /\ EndsBy(indexBuffer', Len(data))
    BY <2>1, <2>2 DEF ReopenInv, EntriesWithin, EndsBy
  <2>5. EntriesWithin'
    BY <2>1, <2>2, <2>4 DEF ReopenInv, EntriesWithin
  <2> QED BY <2>3, <2>5
<1>3. CASE BgDrain
  <2>1. /\ bgTaken # <<>> /\ idx' = WriteIndex(bgMin, Head(bgTaken)) /\ bgTaken' = Tail(bgTaken)
        /\ Ahead' = Ahead /\ BgFlush
    BY <1>3 DEF ReopenInv, EntriesWithin, TypeOK, BgDrain, writer, Ahead
  <2>2. Head(bgTaken) \in Entry /\ Head(bgTaken).end <= Len(data) /\ EndsBy(Tail(bgTaken), Len(data))
    BY <2>1, EndsByTail, WithinNumbers DEF ReopenInv, EntriesWithin, TypeOK
  <2>3. \A s \in Slots : idx'[s].end <= Len(data)
    BY <2>1, <2>2, WriteIndexWithin, WithinNumbers, Zenon DEF ReopenInv, EntriesWithin, TypeOK
  <2> QED
    BY <1>3, <2>1, <2>2, <2>3
    DEF ReopenInv, WriterWithin, EntriesWithin, Unflushed, BgDrain, memory, writer
<1> QED BY <1>1, <1>2, <1>3 DEF BgStep

\* Reopenable is what rebuildSkiplist needs: after a crash at any step, of any
\* number of handlers on any number of blocks, NewBlockAppendOnlyLog succeeds,
\* as long as the background flush does not run beside AppendToNewBlock or Delete.
THEOREM AlwaysReopenable ==
  ASSUME ReopenAssumption
  PROVE  Spec => []Reopenable
<1>1. Init => ReopenInv
  <2> SUFFICES ASSUME Init PROVE ReopenInv
    OBVIOUS
  <2>1. TypeOK
    BY InitType
  <2>2. Len(<<>>) = 0 /\ Len(<<Preload>>) = 1
    BY EmptySeq
  <2>3. Len(data) \in Nat /\ currentOffset = Len(data) /\ \A s \in Slots : idx[s].end <= Len(data)
    BY <2>2, SMTT(30) DEF Init, PreEntry, ZeroEntry
  <2>4. PcInProgram /\ WriterWithin /\ EntriesWithin
    BY <2>2, <2>3, SMTT(30) DEF Init, PcInProgram, WriterWithin, EntriesWithin, EndsBy, Ahead, ZeroEntry
  <2> QED BY <2>1, <2>4 DEF ReopenInv
<1>2. ReopenInv /\ [Next]_vars => ReopenInv'
  <2> SUFFICES ASSUME ReopenInv, [Next]_vars PROVE ReopenInv'
    OBVIOUS
  <2>0. TypeOK /\ TypeOK' /\ PcInProgram'
    BY TypeStep, PcStep DEF ReopenInv
  <2>1. CASE ClientCall
    BY <2>0, <2>1, ClientCalls, CallWithin DEF ReopenInv
  <2>2. CASE WriterStep
    BY <2>0, <2>2, WriterStepWithin DEF ReopenInv
  <2>3. CASE BgCall \/ BgStep
    BY <2>0, <2>3, BackgroundWithin DEF ReopenInv
  <2>4. CASE Crash
    BY <2>0, <2>4, StopWithin DEF Crash, ReopenInv
  <2>5. CASE Open
    <3>1. staged = 0 \/ Unflushed'
      BY <2>5 DEF ReopenInv, WriterWithin, Unflushed, Open, writer
    <3>2. /\ UNCHANGED <<data, idx, indexBuffer, wTaken, bgPc, bgTaken, op, pc, staged, entry>>
          /\ currentOffset' = Len(data) /\ Ahead' = Ahead
      BY <2>5 DEF Open, RecoveredOffset, Ahead, disk, writer, goroutine
    <3>3. WriterWithin'
      BY <3>1, <3>2, WithinNumbers, SMTT(30) DEF ReopenInv, WriterWithin
    <3>4. EntriesWithin'
      BY <3>2, SameEntries DEF ReopenInv
    <3> QED BY <2>0, <3>3, <3>4 DEF ReopenInv
  <2>6. CASE UNCHANGED vars
    <3>1. /\ UNCHANGED <<data, idx, indexBuffer, wTaken, bgPc, bgTaken, op, pc, staged, entry, currentOffset>>
          /\ Ahead' = Ahead
      BY <2>6 DEF vars, disk, memory, writer, goroutine, Ahead
    <3>2. WriterWithin'
      BY <3>1 DEF ReopenInv, WriterWithin, Unflushed
    <3>3. EntriesWithin'
      BY <3>1, SameEntries DEF ReopenInv
    <3> QED BY <2>0, <3>2, <3>3 DEF ReopenInv
  <2> QED BY <2>1, <2>2, <2>3, <2>4, <2>5, <2>6 DEF Next
<1> QED BY <1>1, <1>2, WithinReopens, PTL DEF Spec

=============================================================================
