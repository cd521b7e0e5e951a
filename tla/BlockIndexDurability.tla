------------------------ MODULE BlockIndexDurability ------------------------
(***************************************************************************)
(* Proof that a block whose handler returned nil survives a crash, unless  *)
(* the background goroutine held its index entry: AckedHeldOrDurable of    *)
(* BlockIndex, for all values of the constants, on a log that has its      *)
(* first block and is not extended in place.                               *)
(***************************************************************************)
EXTENDS BlockIndexTypes

\* The first append of an empty log sets minBlockID behind the goroutine's back,
\* and an append to the latest block leaves two entries of it in circulation:
\* both lose acknowledged blocks.
DurabilityAssumption == Preload # 0 /\ "extend" \notin Clients

BlockHandlers == {"append", "mark", "new", "delete"}
GapHandlers == {"gapAppend", "gapOnly", "gapMark"}

\* How far a block handler has got.
LatestSet ==
    \/ op = "append" /\ pc > 5
    \/ op = "mark" /\ pc > 3
    \/ op = "new" /\ pc > 3
    \/ op = "delete" /\ pc > 2
EntryBuffered ==
    \/ op = "append" /\ pc > 3
    \/ op = "mark" /\ pc > 2
    \/ op = "new" /\ pc > 4
    \/ op = "delete" /\ pc > 3
BufferTaken ==
    \/ op = "append" /\ pc > 8
    \/ op = "mark" /\ pc > 4
    \/ op = "new" /\ pc > 6
    \/ op = "delete" /\ pc > 5
IndexFlushed ==
    \/ op = "append" /\ pc > 9
    \/ op = "mark" /\ pc > 5
    \/ op = "new" /\ pc > 7
    \/ op = "delete" /\ pc > 6

\* The entries on their way to the index file, and those in it.
Pending == Range(indexBuffer) \union Range(wTaken) \union Range(bgTaken)
OnDisk == {idx[s] : s \in {t \in Slots : idx[t] # ZeroEntry}}
Circulating == Pending \union OnDisk

\* The largest block that may have an entry.
Frontier ==
    IF op \in BlockHandlers THEN IF EntryBuffered THEN blk ELSE blk - 1
    ELSE latestBlockID

\* Everybody agrees on the first block.
OneMinimum ==
    /\ meta \in {0, Preload}
    /\ up => minBlockID = Preload
    /\ wTaken # <<>> => wMin = Preload
    /\ bgPc # "idle" => bgMin = Preload
    /\ ~up => op = "none" /\ indexBuffer = <<>> /\ wTaken = <<>> /\ bgPc = "idle" /\ bgTaken = <<>>

\* A slot belongs to one block; the first is taken.
SlotsOfBlocks ==
    /\ idx[0] # ZeroEntry
    /\ \A s \in Slots : idx[s] # ZeroEntry => idx[s].blk = Preload + s

WellFormed(e) == e.blk >= Preload /\ e.start <= e.end

\* Blocks enter in increasing order.
HandlerOrder ==
    /\ up => Preload <= latestBlockID
    /\ op # "extend"
    /\ op \in GapHandlers => latestBlockID < blk
    /\ op \in BlockHandlers => IF LatestSet THEN latestBlockID = blk ELSE latestBlockID < blk
    /\ op \in BlockHandlers => Preload < blk

\* No entry is ahead of the handlers, and a block has one entry.
EntryOrder ==
    /\ \A e \in Circulating : WellFormed(e) /\ (up => e.blk <= Frontier)
    /\ \A e, f \in Circulating : e.blk = f.blk => e = f

\* The entry of a running handler is never dropped.
EntryKept ==
    /\ op \in BlockHandlers \ {"mark"} /\ pc > 1 => entry.blk = blk /\ entry.start <= entry.end
    /\ EntryBuffered =>
         /\ entry.blk = blk
         /\ \/ entry \in Range(bgTaken) \union OnDisk
            \/ ~BufferTaken /\ entry \in Range(indexBuffer)
            \/ BufferTaken /\ ~IndexFlushed /\ entry \in Range(wTaken)

AckedKept ==
    \A b \in Slots : Acked(b) => /\ acked[b].blk = b /\ Preload <= b
                                 /\ b \notin lost => acked[b] \in Range(bgTaken) \union OnDisk

Kept == OneMinimum /\ SlotsOfBlocks /\ HandlerOrder /\ EntryOrder /\ EntryKept /\ AckedKept

DurabilityInv == TypeOK /\ PcInProgram /\ Kept

-----------------------------------------------------------------------------
\* Entries moving between the buffer, the flushers and the file

\* bufferIndexEntry adds one entry.
LEMMA RangeAppend ==
  ASSUME NEW es \in Seq(Entry), NEW e \in Entry
  PROVE  Range(Append(es, e)) = Range(es) \union {e}
<1>1. /\ Len(es) \in Nat /\ Append(es, e) \in Seq(Entry) /\ Len(Append(es, e)) = Len(es) + 1
      /\ \A j \in 1 .. Len(es) : Append(es, e)[j] = es[j]
      /\ Append(es, e)[Len(es) + 1] = e
  BY AppendProperties, LenProperties
<1>2. DOMAIN es = 1 .. Len(es) /\ DOMAIN Append(es, e) = 1 .. (Len(es) + 1)
  BY <1>1, LenProperties
<1>3. 1 .. (Len(es) + 1) = (1 .. Len(es)) \union {Len(es) + 1}
  BY <1>1
<1> QED BY <1>1, <1>2, <1>3 DEF Range

\* A flusher takes the first entry of its copy off.
LEMMA RangeTail ==
  ASSUME NEW es \in Seq(Entry), es # <<>>
  PROVE  Range(es) = {Head(es)} \union Range(Tail(es))
<1>1. /\ Tail(es) \in Seq(Entry) /\ Len(Tail(es)) = Len(es) - 1
      /\ \A i \in 1 .. Len(Tail(es)) : Tail(es)[i] = es[i + 1]
  BY HeadTailProperties
<1>2. Len(es) \in Nat \ {0} /\ Head(es) = es[1]
  BY EmptySeq
<1>3. DOMAIN es = 1 .. Len(es) /\ DOMAIN Tail(es) = 1 .. (Len(es) - 1)
  BY <1>1, LenProperties
<1>4. Range(es) \subseteq {Head(es)} \union Range(Tail(es))
  <2> SUFFICES ASSUME NEW i \in 1 .. Len(es) PROVE es[i] \in {Head(es)} \union Range(Tail(es))
    BY <1>3 DEF Range
  <2>1. CASE i = 1
    BY <1>2, <2>1
  <2>2. CASE i # 1
    <3>1. i - 1 \in 1 .. (Len(es) - 1) /\ (i - 1) + 1 = i
      BY <1>2, <2>2
    <3> QED BY <1>1, <1>3, <3>1, Zenon DEF Range
  <2> QED BY <2>1, <2>2
<1>5. {Head(es)} \union Range(Tail(es)) \subseteq Range(es)
  <2>1. Head(es) \in Range(es)
    BY <1>2, <1>3 DEF Range
  <2>2. ASSUME NEW i \in 1 .. (Len(es) - 1) PROVE Tail(es)[i] \in Range(es)
    <3>1. i + 1 \in 1 .. Len(es)
      BY <1>2
    <3> QED BY <1>1, <1>3, <3>1 DEF Range
  <2> QED BY <1>3, <2>1, <2>2 DEF Range
<1> QED BY <1>4, <1>5

\* An emptied buffer holds nothing.
LEMMA RangeEmpty == Range(<<>>) = {}
BY DEF Range

\* The entries in circulation are entries, and so have natural fields.
LEMMA CirculatingType ==
  ASSUME TypeOK
  PROVE  Circulating \subseteq Entry
<1>1. Range(indexBuffer) \subseteq Entry /\ Range(wTaken) \subseteq Entry /\ Range(bgTaken) \subseteq Entry
  BY LenProperties DEF TypeOK, Range
<1>2. OnDisk \subseteq Entry
  BY DEF TypeOK, OnDisk
<1> QED BY <1>1, <1>2 DEF Circulating, Pending

\* Writing a circulating entry adds it to the file and overwrites no other.
LEMMA WriteOnDisk ==
  ASSUME DurabilityAssumption, DurabilityInv, NEW e \in Pending, idx' = WriteIndex(Preload, e)
  PROVE  OnDisk' = OnDisk \union {e} /\ SlotsOfBlocks'
<1>1. e \in Entry /\ e \in Circulating /\ e.blk >= Preload
  BY CirculatingType DEF DurabilityInv, Kept, Circulating, EntryOrder, WellFormed
<1>2. Preload \in Nat \ {0} /\ MaxSlot \in Nat
  BY ConstantsAssumption DEF DurabilityAssumption
<1>3. e.blk - Preload \in Slots /\ Preload + (e.blk - Preload) = e.blk /\ e # ZeroEntry
  BY <1>1, <1>2 DEF Entry, Slots, ZeroEntry
<1> DEFINE t == e.blk - Preload
<1>4. idx' = [idx EXCEPT ![t] = e] /\ idx \in [Slots -> Entry]
  BY <1>1 DEF WriteIndex, DurabilityInv, Kept, TypeOK
<1>5. t \in Slots /\ Preload + t = e.blk
  BY <1>3
<1> HIDE DEF t
<1>6. idx[t] # ZeroEntry => idx[t] = e
  <2>1. idx[t] # ZeroEntry => idx[t] \in Circulating /\ idx[t].blk = e.blk
    BY <1>5 DEF DurabilityInv, Kept, SlotsOfBlocks, Circulating, OnDisk
  <2> QED BY <1>1, <2>1 DEF DurabilityInv, Kept, EntryOrder
<1>7. OnDisk' = OnDisk \union {e}
  BY <1>3, <1>4, <1>5, <1>6 DEF OnDisk
<1>8. SlotsOfBlocks'
  <2>1. 0 \in Slots BY <1>2 DEF Slots
  <2> QED BY <1>3, <1>4, <1>5, <2>1 DEF DurabilityInv, Kept, SlotsOfBlocks
<1> QED BY <1>7, <1>8

-----------------------------------------------------------------------------
\* Order is kept when entries disappear and when one ahead of the others enters

\* The block numbers are numbers.
LEMMA FrontierType ==
  ASSUME TypeOK
  PROVE  Frontier \in Int /\ latestBlockID \in Nat /\ blk \in Nat /\ pc \in Nat /\ Preload \in Nat
BY ConstantsAssumption DEF TypeOK, Frontier, Slots

\* Dropping entries.
LEMMA OrderKept ==
  ASSUME DurabilityInv, TypeOK', Circulating' \subseteq Circulating,
         up' => up /\ Frontier <= Frontier'
  PROVE  EntryOrder'
<1>1. Circulating \subseteq Entry /\ \A e \in Entry : e.blk \in Nat
  BY CirculatingType, ConstantsAssumption DEF DurabilityInv, Kept, Entry, Slots
<1>2. Frontier \in Int /\ Frontier' \in Int
  <2>1. blk \in Nat /\ latestBlockID \in Nat /\ blk' \in Nat /\ latestBlockID' \in Nat
    BY ConstantsAssumption DEF DurabilityInv, Kept, TypeOK, Slots
  <2> QED BY <2>1 DEF Frontier
<1>3. ASSUME NEW e \in Circulating' PROVE WellFormed(e) /\ (up' => e.blk <= Frontier')
  BY <1>1, <1>2 DEF DurabilityInv, Kept, EntryOrder
<1>4. ASSUME NEW e \in Circulating', NEW f \in Circulating', e.blk = f.blk PROVE e = f
  BY <1>4 DEF DurabilityInv, Kept, EntryOrder
<1> QED BY <1>3, <1>4 DEF EntryOrder

\* Adding an entry of a block beyond the frontier.
LEMMA OrderExtended ==
  ASSUME DurabilityInv, TypeOK', NEW e \in Entry, Circulating' = Circulating \union {e},
         up, up', WellFormed(e), Frontier < e.blk, e.blk <= Frontier'
  PROVE  EntryOrder'
<1>1. Circulating \subseteq Entry /\ \A x \in Entry : x.blk \in Nat
  BY CirculatingType, ConstantsAssumption DEF DurabilityInv, Kept, Entry, Slots
<1>2. Frontier \in Int /\ Frontier' \in Int
  <2>1. blk \in Nat /\ latestBlockID \in Nat /\ blk' \in Nat /\ latestBlockID' \in Nat
    BY ConstantsAssumption DEF DurabilityInv, Kept, TypeOK, Slots
  <2> QED BY <2>1 DEF Frontier
<1>3. \A x \in Circulating : WellFormed(x) /\ x.blk <= Frontier
  BY DEF DurabilityInv, Kept, EntryOrder
<1>4. ASSUME NEW x \in Circulating PROVE x.blk < e.blk /\ x.blk <= Frontier'
  BY <1>1, <1>2, <1>3
<1>5. ASSUME NEW x \in Circulating' PROVE WellFormed(x) /\ x.blk <= Frontier'
  BY <1>3, <1>4
<1>6. ASSUME NEW x \in Circulating', NEW y \in Circulating', x.blk = y.blk PROVE x = y
  <2>1. CASE x \in Circulating /\ y \in Circulating
    BY <1>6, <2>1 DEF DurabilityInv, Kept, EntryOrder
  <2>2. CASE x = e /\ y \in Circulating
    BY <1>1, <1>4, <1>6, <2>2
  <2>3. CASE y = e /\ x \in Circulating
    BY <1>1, <1>4, <1>6, <2>3
  <2> QED BY <2>1, <2>2, <2>3
<1> QED BY <1>5, <1>6 DEF EntryOrder

\* A step that moves no entry and acknowledges none.
LEMMA NothingMoves ==
  ASSUME DurabilityInv, UNCHANGED <<idx, indexBuffer, wTaken, bgTaken, acked, lost>>
  PROVE  /\ Circulating' = Circulating /\ OnDisk' = OnDisk
         /\ SlotsOfBlocks' /\ AckedKept'
<1>1. OnDisk' = OnDisk
  BY DEF OnDisk
<1>2. Circulating' = Circulating
  BY <1>1 DEF Circulating, Pending
<1>3. SlotsOfBlocks'
  BY DEF DurabilityInv, Kept, SlotsOfBlocks
<1>4. AckedKept'
  BY <1>1 DEF DurabilityInv, Kept, AckedKept, Acked
<1> QED BY <1>1, <1>2, <1>3, <1>4

\* A crash recovers the first block, and a latest block that no entry exceeds.
LEMMA RecoveredBlocks ==
  ASSUME DurabilityAssumption, DurabilityInv
  PROVE  /\ RecoveredMin = Preload /\ Preload <= RecoveredLatest
         /\ \A e \in OnDisk : e.blk <= RecoveredLatest
<1>1. Preload \in Nat \ {0} /\ 0 \in Slots /\ MaxSlot \in Nat /\ idx \in [Slots -> Entry]
  BY ConstantsAssumption DEF DurabilityAssumption, Slots, DurabilityInv, Kept, TypeOK
<1>2. ASSUME NEW s \in Slots, idx[s] # ZeroEntry
      PROVE  s \in LoadedSlots /\ idx[s].blk = Preload + s /\ idx[s].blk \in Slots
  <2>1. idx[s].blk = Preload + s /\ idx[s] \in Circulating /\ idx[s] \in Entry
    BY <1>1, <1>2 DEF DurabilityInv, Kept, SlotsOfBlocks, Circulating, OnDisk
  <2>2. idx[s].start <= idx[s].end /\ idx[s].start \in Nat /\ idx[s].end \in Nat
    BY <2>1 DEF DurabilityInv, Kept, EntryOrder, WellFormed, Entry
  <2>3. meta \in {0, Preload}
    BY DEF DurabilityInv, Kept, OneMinimum
  <2> QED BY <1>2, <2>1, <2>2, <2>3 DEF LoadedSlots, ValidEntry, loadIndexMeta, Entry
<1>3. LoadedBlocks \subseteq {idx[s].blk : s \in {t \in Slots : idx[t] # ZeroEntry}}
  BY DEF LoadedBlocks, LoadedSlots, ValidEntry
<1>4. idx[0] # ZeroEntry /\ idx[0].blk = Preload
  BY <1>1 DEF DurabilityInv, Kept, SlotsOfBlocks
<1>5. Preload \in LoadedBlocks
  BY <1>1, <1>2, <1>4 DEF LoadedBlocks
<1>6. ASSUME NEW b \in LoadedBlocks PROVE b \in Slots /\ Preload <= b /\ b # 0
  <2>1. PICK s \in Slots : idx[s] # ZeroEntry /\ b = idx[s].blk
    BY <1>3
  <2> QED BY <1>1, <1>2, <2>1 DEF Slots
<1>7. InferredMin = Preload
  <2>1. LoadedBlocks \ {0} = LoadedBlocks
    BY <1>6
  <2>2. LoadedBlocks \in SUBSET Nat /\ LoadedBlocks # {}
    BY <1>5, <1>6 DEF Slots
  <2>3. Min(LoadedBlocks) \in LoadedBlocks /\ \A x \in LoadedBlocks : Min(LoadedBlocks) <= x
    BY <2>2, MinExists
  <2>4. Min(LoadedBlocks) <= Preload /\ Preload <= Min(LoadedBlocks) /\ Min(LoadedBlocks) \in Nat
    BY <1>5, <1>6, <2>2, <2>3, Zenon
  <2>5. Min(LoadedBlocks) = Preload
    BY <1>1, <2>4
  <2> QED BY <2>1, <2>2, <2>5, Zenon DEF InferredMin
<1>8. RecoveredMin = Preload
  BY <1>7 DEF RecoveredMin, loadIndexMeta, DurabilityInv, Kept, OneMinimum
<1>9. \A b \in LoadedBlocks : b <= RecoveredLatest
  <2>1. LoadedBlocks \union {0} \in SUBSET (0 .. MaxSlot) /\ LoadedBlocks \union {0} # {}
    BY <1>1, <1>6 DEF Slots
  <2> QED BY <1>1, <2>1, MaxExists, Zenon DEF RecoveredLatest
<1>10. \A e \in OnDisk : e.blk \in LoadedBlocks
  BY <1>2 DEF OnDisk, LoadedBlocks
<1> QED BY <1>5, <1>8, <1>9, <1>10

\* The invariant is strong enough.
LEMMA KeptIsDurable ==
  ASSUME DurabilityAssumption, DurabilityInv
  PROVE  AckedHeldOrDurable
<1> SUFFICES ASSUME NEW b \in Slots, Acked(b), b \notin lost
             PROVE  Durable(b) \/ \E e \in Range(bgTaken) : Covers(e, acked[b])
  BY DEF AckedHeldOrDurable
<1>1. acked[b].blk = b /\ Preload <= b /\ acked[b] \in Range(bgTaken) \union OnDisk
  BY DEF DurabilityInv, Kept, AckedKept
<1>2. acked[b] \in Entry /\ acked[b].end \in Nat /\ Covers(acked[b], acked[b])
  BY DEF DurabilityInv, Kept, TypeOK, Entry, Covers
<1>3. CASE acked[b] \in Range(bgTaken)
  BY <1>2, <1>3
<1>4. CASE acked[b] \in OnDisk
  <2>1. PICK s \in Slots : idx[s] # ZeroEntry /\ acked[b] = idx[s]
    BY <1>4 DEF OnDisk
  <2>2. Preload + s = b
    BY <1>1, <2>1 DEF DurabilityInv, Kept, SlotsOfBlocks
  <2>3. b - Preload = s /\ b >= Preload
    BY <2>2, ConstantsAssumption DEF Slots
  <2>4. ValidEntry(idx[s])
    <3>1. idx[s] \in Circulating /\ idx[s] \in Entry
      BY <2>1, <1>2 DEF Circulating, OnDisk
    <3> QED BY <2>1, <3>1 DEF DurabilityInv, Kept, EntryOrder, WellFormed, ValidEntry, Entry
  <2>5. RecoveredEntry(b) = {acked[b]}
    BY <1>1, <2>1, <2>3, <2>4, RecoveredBlocks DEF RecoveredEntry, DiskEntryAt
  <2> QED BY <1>2, <2>5 DEF Durable
<1> QED BY <1>1, <1>3, <1>4

-----------------------------------------------------------------------------
\* The calls and the steps

\* A call never extends a block, and a call for a block is for a new one.
LEMMA NewBlocksOnly ==
  ASSUME DurabilityAssumption, DurabilityInv, ClientCall
  PROVE  \E o \in Ops \ {"extend"}, b \in Slots, n \in Nat :
            /\ Call(o, b, n)
            /\ o \in BlockHandlers \union GapHandlers => latestBlockID < b
<1> DEFINE Goal == \E o \in Ops \ {"extend"}, b \in Slots, n \in Nat :
                      /\ Call(o, b, n)
                      /\ o \in BlockHandlers \union GapHandlers => latestBlockID < b
<1>0. /\ 0 \in Slots /\ Blocks \subseteq Slots /\ Slots \subseteq Nat /\ MaxKvs \in Nat
      /\ latestBlockID \in Nat /\ Preload \in Nat \ {0}
  BY ConstantsAssumption DEF Slots, DurabilityInv, Kept, TypeOK, DurabilityAssumption
<1>1. ASSUME NEW b \in Blocks, NEW n \in 0 .. MaxKvs, AppendCall(b, n) PROVE Goal
  <2>1. up /\ op = "none" /\ n \in Nat
    BY <1>0, <1>1 DEF AppendCall, Call
  <2>2. Preload <= latestBlockID
    BY <2>1 DEF DurabilityInv, Kept, HandlerOrder
  <2>3. ~isFirstAppend
    BY <1>0, <2>2 DEF isFirstAppend
  <2>4. b > latestBlockID /\ latestBlockID < b
    BY <1>0, <1>1, <2>3 DEF AppendCall
  <2>5. \E o \in {"append", "gapAppend", "gapOnly"} : Call(o, b, n)
    BY <1>1, <2>4 DEF AppendCall
  <2> QED BY <1>0, <2>1, <2>4, <2>5 DEF Ops
<1>2. ASSUME NEW n \in 1 .. MaxKvs, ExtendCall(n) PROVE Goal
  BY <1>2 DEF ExtendCall, DurabilityAssumption
<1>3. ASSUME NEW n \in 1 .. MaxKvs, AppendToNewBlockCall(n) PROVE Goal
  <2>1. latestBlockID + 1 \in Slots /\ latestBlockID < latestBlockID + 1 /\ n \in Nat /\ "new" \in Ops
    BY <1>0, <1>3 DEF AppendToNewBlockCall, Ops
  <2> QED BY <1>3, <2>1 DEF AppendToNewBlockCall
<1>4. ASSUME NEW b \in Blocks, MarkBlockCommittedCall(b) PROVE Goal
  BY <1>0, <1>4 DEF MarkBlockCommittedCall, Ops
<1>5. CASE DeleteCall
  <2>1. latestBlockID + 1 \in Slots /\ latestBlockID < latestBlockID + 1 /\ 1 \in Nat /\ "delete" \in Ops
    BY <1>0, <1>5 DEF DeleteCall, Ops
  <2> QED BY <1>5, <2>1 DEF DeleteCall
<1>6. CASE FlushDataAndIndexCall
  BY <1>0, <1>6 DEF FlushDataAndIndexCall, Ops, BlockHandlers, GapHandlers
<1>7. CASE CloseCall
  BY <1>0, <1>7 DEF CloseCall, Ops, BlockHandlers, GapHandlers
<1>8. CASE \E b \in Blocks, n \in 0 .. MaxKvs : AppendCall(b, n)
  BY <1>1, <1>8
<1>9. CASE \E n \in 1 .. MaxKvs : ExtendCall(n) \/ AppendToNewBlockCall(n)
  BY <1>2, <1>3, <1>9
<1>10. CASE \E b \in Blocks : MarkBlockCommittedCall(b)
  BY <1>4, <1>10
<1> QED BY <1>5, <1>6, <1>7, <1>8, <1>9, <1>10 DEF ClientCall

\* A handler starts.
LEMMA CallKeeps ==
  ASSUME DurabilityAssumption, DurabilityInv, TypeOK', ClientCall
  PROVE  Kept'
<1>1. PICK o \in Ops \ {"extend"}, b \in Slots, n \in Nat :
        Call(o, b, n) /\ (o \in BlockHandlers \union GapHandlers => latestBlockID < b)
  BY NewBlocksOnly
<1>2. up /\ up' /\ op = "none" /\ op' = o /\ pc' = 1 /\ blk' = b
  BY <1>1 DEF Call, memory
<1>3. UNCHANGED <<disk, memory, wMin, wTaken, goroutine, history>>
  BY <1>1 DEF Call
<1>4. Circulating' = Circulating /\ SlotsOfBlocks' /\ AckedKept'
  BY <1>3, NothingMoves DEF disk, memory, goroutine, history
<1>5. ~EntryBuffered' /\ ~LatestSet'
  BY <1>2 DEF EntryBuffered, LatestSet
<1>6. latestBlockID \in Nat /\ b \in Nat /\ Preload \in Nat /\ Preload <= latestBlockID
  <2>1. latestBlockID \in Nat /\ Preload \in Nat /\ (up => Preload <= latestBlockID)
    BY FrontierType DEF DurabilityInv, Kept, HandlerOrder
  <2>2. b \in Nat
    BY ConstantsAssumption DEF Slots
  <2> QED BY <1>2, <2>1, <2>2
<1>7. Frontier <= Frontier'
  BY <1>1, <1>2, <1>3, <1>5, <1>6 DEF Frontier, BlockHandlers, memory
<1>8. EntryOrder'
  BY <1>2, <1>4, <1>7, OrderKept
<1>9. OneMinimum'
  BY <1>2, <1>3 DEF DurabilityInv, Kept, OneMinimum, disk, memory, goroutine
<1>10. HandlerOrder'
  BY <1>1, <1>2, <1>3, <1>5, <1>6 DEF HandlerOrder, memory
<1>11. EntryKept'
  BY <1>2, <1>5 DEF EntryKept
<1> QED BY <1>4, <1>8, <1>9, <1>10, <1>11 DEF Kept

\* A step of a handler that moves no entry: order and acknowledgements stay.
LEMMA QuietKeeps ==
  ASSUME DurabilityInv, TypeOK', UNCHANGED <<idx, indexBuffer, wTaken, bgTaken, acked, lost, up, blk, op>>,
         op \notin BlockHandlers => latestBlockID' = latestBlockID,
         EntryBuffered' <=> EntryBuffered
  PROVE  SlotsOfBlocks' /\ EntryOrder' /\ AckedKept' /\ OnDisk' = OnDisk
<1>1. Circulating' = Circulating /\ SlotsOfBlocks' /\ AckedKept' /\ OnDisk' = OnDisk
  BY NothingMoves
<1>2. Frontier' = Frontier /\ Frontier \in Int
  BY FrontierType DEF Frontier, DurabilityInv
<1>3. EntryOrder'
  BY <1>1, <1>2, OrderKept
<1> QED BY <1>1, <1>3

\* The positions that StepPositions gives, for the invariants about progress.
LEMMA NotExtending ==
  ASSUME DurabilityInv
  PROVE  op \in Ops \ {"extend"} /\ pc \in Nat
BY DEF DurabilityInv, Kept, TypeOK, HandlerOrder

\* fillMissingBlocksUntil.
LEMMA FillKeeps ==
  ASSUME DurabilityAssumption, DurabilityInv, TypeOK', FillStep
  PROVE  Kept'
<1>1. op \in GapHandlers /\ op' = op /\ blk' = blk /\ up' = up /\ ~EntryBuffered /\ ~EntryBuffered'
  BY StepPositions DEF DurabilityInv, FillStep, Advance, GapHandlers, EntryBuffered
<1>2. up
  BY <1>1 DEF DurabilityInv, Kept, OneMinimum, GapHandlers
<1>3. minBlockID = Preload /\ Preload \in Nat \ {0} /\ latestBlockID < blk /\ Preload <= latestBlockID
  BY <1>1, <1>2, ConstantsAssumption DEF DurabilityInv, Kept, OneMinimum, HandlerOrder, DurabilityAssumption
<1>4. OneMinimum'
  BY <1>1, <1>2, <1>3 DEF DurabilityInv, Kept, OneMinimum, FillStep, disk, goroutine
<1>5. EntryKept'
  BY <1>1 DEF EntryKept, GapHandlers, BlockHandlers
<1>6. CASE latestBlockID + 1 < blk
  <2> DEFINE e == [blk |-> latestBlockID + 1, start |-> currentOffset, end |-> currentOffset]
  <2>1. /\ latestBlockID \in Nat /\ blk \in Nat /\ currentOffset \in Nat
        /\ latestBlockID + 1 \in Slots
    BY <1>6, ConstantsAssumption DEF DurabilityInv, TypeOK, Slots
  <2>2. e \in Entry /\ e.blk = latestBlockID + 1 /\ e.start <= e.end
    BY <2>1 DEF Entry
  <2>3. indexBuffer' = Append(indexBuffer, e) /\ latestBlockID' = latestBlockID + 1
    BY <1>6 DEF FillStep
  <2> HIDE DEF e
  <2>4. OnDisk' = OnDisk
    BY DEF FillStep, disk, OnDisk
  <2>5. Range(indexBuffer') = Range(indexBuffer) \union {e}
    BY <2>2, <2>3, RangeAppend, Zenon DEF DurabilityInv, TypeOK
  <2>6. Circulating' = Circulating \union {e}
    BY <2>4, <2>5 DEF Circulating, Pending, FillStep, goroutine
  <2>7. Frontier = latestBlockID /\ Frontier' = latestBlockID'
    BY <1>1 DEF Frontier, GapHandlers, BlockHandlers
  <2>8. EntryOrder'
    BY <1>1, <1>2, <1>3, <2>1, <2>2, <2>3, <2>6, <2>7, OrderExtended DEF WellFormed
  <2>9. SlotsOfBlocks' /\ AckedKept'
    BY <2>4 DEF DurabilityInv, Kept, SlotsOfBlocks, AckedKept, Acked, FillStep, disk, goroutine, history
  <2>10. HandlerOrder'
    BY <1>1, <1>2, <1>3, <1>6, <2>1, <2>3 DEF HandlerOrder, GapHandlers, BlockHandlers
  <2> QED BY <1>4, <1>5, <2>8, <2>9, <2>10 DEF Kept
<1>7. CASE ~(latestBlockID + 1 < blk)
  <2>1. UNCHANGED <<idx, indexBuffer, wTaken, bgTaken, acked, lost, up, blk, op, latestBlockID>>
    BY <1>1, <1>7 DEF FillStep, disk, goroutine, history
  <2>2. SlotsOfBlocks' /\ EntryOrder' /\ AckedKept'
    BY <1>1, <2>1, QuietKeeps
  <2>3. HandlerOrder'
    BY <1>1, <1>2, <1>3, <2>1 DEF HandlerOrder, GapHandlers, BlockHandlers
  <2> QED BY <1>4, <1>5, <2>2, <2>3 DEF Kept
<1> QED BY <1>6, <1>7

\* A lookup does not find the block that a handler is about to write.
LEMMA NewBlockNotFound ==
  ASSUME DurabilityAssumption, DurabilityInv, op \in {"append", "new", "delete"}, pc = 1
  PROVE  ~Appending
<1>0. blk \in Nat /\ blk \in 0 .. MaxSlot /\ MaxSlot \in Nat /\ Preload \in Nat
  <2>1. blk \in Slots /\ MaxSlot \in Nat
    BY ConstantsAssumption DEF DurabilityInv, TypeOK
  <2> QED BY <2>1, FrontierType DEF DurabilityInv, Slots
<1>1. up /\ minBlockID = Preload /\ Frontier = blk - 1 /\ blk \in Nat
  <2>1. up
    BY DEF DurabilityInv, Kept, OneMinimum
  <2>2. Frontier = blk - 1
    BY DEF Frontier, BlockHandlers, EntryBuffered
  <2> QED BY <1>0, <2>1, <2>2 DEF DurabilityInv, Kept, OneMinimum
<1>2. \A e \in Circulating : e.blk # blk
  <2>1. \A e \in Circulating : e.blk \in Nat /\ e.blk <= blk - 1
    BY <1>1, CirculatingType, ConstantsAssumption
    DEF DurabilityInv, Kept, EntryOrder, Entry, Slots
  <2> QED BY <1>1, <2>1
<1>3. FirstInBuffer(blk) = {}
  <2>1. \A i \in 1 .. Len(indexBuffer) : indexBuffer[i] \in Circulating
    BY LenProperties DEF DurabilityInv, TypeOK, Circulating, Pending, Range
  <2> QED BY <1>2, <2>1 DEF FirstInBuffer
<1>4. findBlockIndexEntryOnDisk(blk) = {}
  <2>1. blk >= Preload => blk - Preload \in Slots
    BY <1>0 DEF Slots
  <2>2. \A s \in Slots : ValidEntry(idx[s]) => idx[s] \in Circulating
    BY DEF ValidEntry, Circulating, OnDisk
  <2> QED BY <1>1, <1>2, <2>1, <2>2 DEF findBlockIndexEntryOnDisk, DiskEntryAt
<1> QED BY <1>3, <1>4 DEF Appending, Exists, getBlockIndexEntry

\* The write of a new block.
LEMMA WriteKeeps ==
  ASSUME DurabilityAssumption, DurabilityInv, TypeOK', WriteStep
  PROVE  Kept'
<1>1. op \in {"append", "new", "delete"} /\ pc = 1 /\ op' = op /\ pc' = 2
  <2>1. op \in {"append", "extend", "new", "delete"} /\ pc = 1
    BY StepPositions DEF DurabilityInv, WriteStep
  <2>2. op' = op /\ pc' = pc + 1
    BY DEF WriteStep, Advance
  <2> QED BY <2>1, <2>2, NotExtending
<1>2. UNCHANGED <<idx, indexBuffer, wTaken, bgTaken, acked, lost, up, blk, op, latestBlockID>>
  BY <1>1 DEF WriteStep, goroutine, history
<1>3. ~EntryBuffered /\ ~EntryBuffered' /\ ~LatestSet /\ ~LatestSet'
  BY <1>1 DEF EntryBuffered, LatestSet
<1>4. SlotsOfBlocks' /\ EntryOrder' /\ AckedKept'
  BY <1>1, <1>2, <1>3, QuietKeeps DEF BlockHandlers
<1>5. OneMinimum'
  BY <1>1, <1>2, SMTT(30) DEF DurabilityInv, Kept, OneMinimum, WriteStep, goroutine
<1>6. HandlerOrder'
  BY <1>1, <1>2, <1>3 DEF DurabilityInv, Kept, HandlerOrder, GapHandlers
<1>7. ~Appending
  BY <1>1, NewBlockNotFound
<1>8. EntryKept'
  <2>1. entry'.blk = blk /\ entry'.start = currentOffset /\ entry'.end = currentOffset + cnt
    BY <1>7 DEF WriteStep, EntryStart, EndOffset, StartOffset
  <2>2. currentOffset \in Nat /\ cnt \in Nat
    BY DEF DurabilityInv, TypeOK
  <2> QED BY <1>2, <1>3, <2>1, <2>2 DEF EntryKept
<1> QED BY <1>4, <1>5, <1>6, <1>8 DEF Kept

\* The flush of the data.
LEMMA FlushDataKeeps ==
  ASSUME DurabilityAssumption, DurabilityInv, TypeOK', FlushDataStep
  PROVE  Kept'
<1>1. op' = op /\ pc' = pc + 1 /\ op # "mark"
  BY StepPositions DEF DurabilityInv, FlushDataStep, Advance
<1>2. /\ UNCHANGED <<idx, indexBuffer, wTaken, bgTaken, acked, lost, up, blk, op, latestBlockID>>
      /\ UNCHANGED <<meta, minBlockID, wMin, bgPc, bgMin, entry>>
  BY <1>1 DEF FlushDataStep, memory, goroutine, history
<1>3. /\ EntryBuffered' <=> EntryBuffered
      /\ LatestSet' <=> LatestSet
      /\ BufferTaken' <=> BufferTaken
      /\ IndexFlushed' <=> IndexFlushed
  BY <1>1, StepPositions, NotExtending, SMTT(30)
  DEF DurabilityInv, FlushDataStep, EntryBuffered, LatestSet, BufferTaken, IndexFlushed
<1>4. SlotsOfBlocks' /\ EntryOrder' /\ AckedKept' /\ OnDisk' = OnDisk
  BY <1>2, <1>3, QuietKeeps
<1>5. OneMinimum' /\ HandlerOrder'
  BY <1>2, <1>3 DEF DurabilityInv, Kept, OneMinimum, HandlerOrder
<1>6. op \in BlockHandlers \ {"mark"} => pc > 1
  BY StepPositions, SMTT(30) DEF DurabilityInv, FlushDataStep, BlockHandlers
<1>7. EntryKept'
  BY <1>2, <1>3, <1>4, <1>6 DEF DurabilityInv, Kept, EntryKept
<1> QED BY <1>4, <1>5, <1>7 DEF Kept

\* The entry of the new block enters the buffer.
LEMMA BufferKeeps ==
  ASSUME DurabilityAssumption, DurabilityInv, TypeOK', BufferStep
  PROVE  Kept'
<1>1. /\ op' = op /\ pc' = pc + 1 /\ blk' = blk
      /\ \/ op \in {"append", "delete"} /\ pc = 3
         \/ op = "mark" /\ pc = 2
         \/ op = "new" /\ pc = 4
  BY StepPositions DEF DurabilityInv, Kept, HandlerOrder, BufferStep, Advance
<1>2. /\ UNCHANGED <<idx, wTaken, bgTaken, acked, lost, up, latestBlockID>>
      /\ UNCHANGED <<meta, minBlockID, wMin, bgPc, bgMin>>
  BY DEF BufferStep, disk, goroutine, history
<1>3. op \in BlockHandlers /\ ~EntryBuffered /\ EntryBuffered' /\ ~BufferTaken' /\ (LatestSet' <=> LatestSet)
  BY <1>1 DEF BlockHandlers, EntryBuffered, BufferTaken, LatestSet
<1>4. up /\ Preload < blk /\ blk \in Nat /\ Preload \in Nat
  <2>1. up /\ Preload < blk
    BY <1>1, <1>3 DEF DurabilityInv, Kept, OneMinimum, HandlerOrder
  <2> QED BY <2>1, FrontierType DEF DurabilityInv
<1>5. entry' \in Entry /\ indexBuffer' = Append(indexBuffer, entry')
  BY DEF TypeOK, BufferStep
<1>6. entry'.blk = blk /\ entry'.start <= entry'.end
  <2>1. CASE op = "mark"
    BY <2>1, SMTT(30) DEF BufferStep, DurabilityInv, TypeOK
  <2>2. CASE op # "mark"
    <3>1. op \in BlockHandlers \ {"mark"} /\ pc > 1 /\ entry' = entry
      BY <1>1, <1>3, <2>2 DEF BufferStep
    <3> QED BY <3>1 DEF DurabilityInv, Kept, EntryKept
  <2> QED BY <2>1, <2>2
<1>7. Range(indexBuffer') = Range(indexBuffer) \union {entry'} /\ OnDisk' = OnDisk
  BY <1>2, <1>5, RangeAppend DEF DurabilityInv, TypeOK, OnDisk
<1>8. Circulating' = Circulating \union {entry'}
  BY <1>2, <1>7 DEF Circulating, Pending
<1>9. Frontier = blk - 1 /\ Frontier' = blk
  BY <1>1, <1>3 DEF Frontier
<1>10. EntryOrder'
  <2>1. WellFormed(entry') /\ Frontier < entry'.blk /\ entry'.blk <= Frontier'
    BY <1>4, <1>6, <1>9 DEF WellFormed
  <2> QED BY <1>2, <1>4, <1>5, <1>8, <2>1, OrderExtended
<1>11. SlotsOfBlocks' /\ AckedKept' /\ OneMinimum'
  BY <1>1, <1>2, <1>4, <1>7 DEF DurabilityInv, Kept, SlotsOfBlocks, AckedKept, Acked, OneMinimum
<1>12. HandlerOrder'
  BY <1>1, <1>2, <1>3 DEF DurabilityInv, Kept, HandlerOrder
<1>13. EntryKept'
  BY <1>1, <1>3, <1>6, <1>7 DEF EntryKept
<1> QED BY <1>10, <1>11, <1>12, <1>13 DEF Kept

\* minBlockID is set only once, latestBlockID after or before the buffer.
LEMMA SetKeeps ==
  ASSUME DurabilityAssumption, DurabilityInv, TypeOK', SetMinStep \/ SetLatestStep
  PROVE  Kept'
<1>1. /\ op' = op /\ pc' = pc + 1 /\ blk' = blk /\ up' = up
      /\ UNCHANGED <<idx, indexBuffer, wTaken, bgTaken, acked, lost, meta, wMin, bgPc, bgMin, entry>>
  BY DEF SetMinStep, SetLatestStep, Advance, disk, goroutine, history
<1>2. op \in BlockHandlers
  BY StepPositions DEF DurabilityInv, SetMinStep, SetLatestStep, BlockHandlers
<1>3. up /\ minBlockID = Preload /\ Preload \in Nat \ {0}
  BY <1>2, ConstantsAssumption DEF DurabilityInv, Kept, OneMinimum, BlockHandlers, DurabilityAssumption
<1>4. minBlockID' = Preload
  BY <1>3, Zenon DEF SetMinStep, SetLatestStep
<1>5. /\ EntryBuffered' <=> EntryBuffered
      /\ BufferTaken' <=> BufferTaken
      /\ IndexFlushed' <=> IndexFlushed
      /\ op # "mark" => pc > 1
  <2>1. \/ op = "append" /\ pc \in 4 .. 5
        \/ op = "mark" /\ pc \in {1, 3}
        \/ op = "new" /\ pc \in 2 .. 3
        \/ op = "delete" /\ pc = 2
    <3>1. TypeOK /\ PcInProgram /\ (At("setMin") \/ At("setLatest"))
      BY DEF DurabilityInv, SetMinStep, SetLatestStep
    <3>2. \/ op = "append" /\ (pc = 4 \/ pc = 5)
          \/ op = "mark" /\ (pc = 1 \/ pc = 3)
          \/ op = "new" /\ (pc = 2 \/ pc = 3)
          \/ op = "delete" /\ pc = 2
      BY <3>1, StepPositions
    <3> QED BY <3>2
  <2> QED BY <1>1, <2>1, SMTT(30) DEF EntryBuffered, BufferTaken, IndexFlushed
<1>6. SlotsOfBlocks' /\ EntryOrder' /\ AckedKept' /\ OnDisk' = OnDisk
  BY <1>1, <1>2, <1>5, QuietKeeps
<1>7. OneMinimum'
  BY <1>1, <1>3, <1>4 DEF DurabilityInv, Kept, OneMinimum
<1>8. HandlerOrder'
  <2>1. CASE SetMinStep
    <3>1. ~LatestSet /\ ~LatestSet' /\ latestBlockID' = latestBlockID
      <4>1. \/ op = "append" /\ pc = 4
            \/ op = "mark" /\ pc = 1
            \/ op = "new" /\ pc = 2
        BY <2>1, StepPositions DEF DurabilityInv, SetMinStep
      <4>2. latestBlockID' = latestBlockID
        BY <2>1 DEF SetMinStep
      <4> QED BY <1>1, <4>1, <4>2 DEF LatestSet
    <3> QED BY <1>1, <3>1 DEF DurabilityInv, Kept, HandlerOrder
  <2>2. CASE SetLatestStep
    <3>1. LatestSet' /\ latestBlockID' = blk
      <4>1. \/ op = "append" /\ pc = 5
            \/ op \in {"mark", "new"} /\ pc = 3
            \/ op = "delete" /\ pc = 2
        BY <2>2, StepPositions DEF DurabilityInv, SetLatestStep
      <4>2. latestBlockID' = blk
        BY <2>2 DEF SetLatestStep
      <4> QED BY <1>1, <4>1, <4>2 DEF LatestSet
    <3>2. Preload < blk /\ op # "extend" /\ blk \in Nat /\ Preload \in Nat
      <4>1. Preload < blk /\ op # "extend"
        BY <1>2 DEF DurabilityInv, Kept, HandlerOrder
      <4> QED BY <4>1, FrontierType DEF DurabilityInv
    <3> QED BY <1>1, <1>2, <3>1, <3>2 DEF HandlerOrder, BlockHandlers, GapHandlers
  <2> QED BY <2>1, <2>2
<1>9. EntryKept'
  BY <1>1, <1>5, <1>6 DEF DurabilityInv, Kept, EntryKept
<1> QED BY <1>6, <1>7, <1>8, <1>9 DEF Kept

\* saveIndexMeta, and Close's wait.
LEMMA MetaKeeps ==
  ASSUME DurabilityAssumption, DurabilityInv, TypeOK', TruncStep \/ MetaStep \/ WaitStep
  PROVE  Kept'
<1>1. /\ op' = op /\ pc' = pc + 1 /\ blk' = blk /\ UNCHANGED <<up, minBlockID, latestBlockID>>
      /\ UNCHANGED <<idx, indexBuffer, wTaken, bgTaken, acked, lost, wMin, bgPc, bgMin, entry>>
  BY DEF TruncStep, MetaStep, WaitStep, Advance, disk, memory, goroutine, history
<1>2. op # "none" /\ up /\ minBlockID = Preload
  BY DEF DurabilityInv, Kept, OneMinimum, TruncStep, MetaStep, WaitStep, At
<1>3. meta' \in {0, Preload}
  BY <1>2 DEF DurabilityInv, Kept, OneMinimum, TruncStep, MetaStep, WaitStep, disk
<1>4. /\ EntryBuffered' <=> EntryBuffered
      /\ LatestSet' <=> LatestSet
      /\ BufferTaken' <=> BufferTaken
      /\ IndexFlushed' <=> IndexFlushed
      /\ op \in BlockHandlers => pc > 1
  <2>1. \/ op = "append" /\ pc \in 6 .. 7
        \/ op = "mark" /\ pc \in 6 .. 7
        \/ op = "new" /\ pc \in 8 .. 9
        \/ op \notin BlockHandlers
    <3>1. At("trunc") \/ At("meta") \/ At("wait")
      BY DEF TruncStep, MetaStep, WaitStep
    <3> QED BY <3>1, StepPositions DEF DurabilityInv, BlockHandlers
  <2>2. CASE op \notin BlockHandlers
    BY <1>1, <2>2 DEF EntryBuffered, LatestSet, BufferTaken, IndexFlushed, BlockHandlers
  <2>3. CASE op \in BlockHandlers
    BY <1>1, <2>1, <2>3, SMTT(30) DEF EntryBuffered, LatestSet, BufferTaken, IndexFlushed
  <2> QED BY <2>2, <2>3
<1>5. SlotsOfBlocks' /\ EntryOrder' /\ AckedKept' /\ OnDisk' = OnDisk
  BY <1>1, <1>4, QuietKeeps
<1>6. OneMinimum' /\ HandlerOrder'
  BY <1>1, <1>3, <1>4 DEF DurabilityInv, Kept, OneMinimum, HandlerOrder
<1>7. EntryKept'
  BY <1>1, <1>4, <1>5 DEF DurabilityInv, Kept, EntryKept
<1> QED BY <1>5, <1>6, <1>7 DEF Kept

\* The handler copies and empties the buffer.
LEMMA TakeKeeps ==
  ASSUME DurabilityAssumption, DurabilityInv, TypeOK', TakeStep
  PROVE  Kept'
<1>1. /\ op' = op /\ pc' = pc + 1 /\ blk' = blk /\ UNCHANGED <<up, minBlockID, latestBlockID, entry>>
      /\ UNCHANGED <<idx, meta, bgTaken, acked, lost, bgPc, bgMin>>
      /\ wMin' = minBlockID /\ wTaken' = indexBuffer /\ indexBuffer' = <<>>
  BY DEF TakeStep, Advance, disk, goroutine, history
<1>2. up /\ minBlockID = Preload
  BY DEF DurabilityInv, Kept, OneMinimum, TakeStep, At
<1>3. /\ EntryBuffered' <=> EntryBuffered
      /\ LatestSet' <=> LatestSet
      /\ ~BufferTaken
      /\ op \in BlockHandlers => EntryBuffered /\ BufferTaken' /\ ~IndexFlushed' /\ pc > 1
      /\ op \notin BlockHandlers => ~EntryBuffered
  <2>1. \/ op = "append" /\ pc = 8
        \/ op = "mark" /\ pc = 4
        \/ op = "new" /\ pc = 6
        \/ op = "delete" /\ pc = 5
        \/ op \notin BlockHandlers
    <3>1. At("take")
      BY DEF TakeStep
    <3> QED BY <3>1, StepPositions, NotExtending DEF DurabilityInv, BlockHandlers
  <2>2. CASE op \notin BlockHandlers
    BY <1>1, <2>2 DEF EntryBuffered, LatestSet, BufferTaken, BlockHandlers
  <2>3. CASE op \in BlockHandlers
    BY <1>1, <2>1, <2>3, SMTT(30) DEF EntryBuffered, LatestSet, BufferTaken, IndexFlushed
  <2> QED BY <2>2, <2>3
<1>4. OnDisk' = OnDisk /\ Range(indexBuffer') = {} /\ Range(wTaken') = Range(indexBuffer)
  BY <1>1, RangeEmpty DEF OnDisk
<1>5. Circulating' \subseteq Circulating
  BY <1>1, <1>4 DEF Circulating, Pending
<1>6. Frontier' = Frontier /\ Frontier \in Int
  BY <1>1, <1>3, FrontierType DEF Frontier, DurabilityInv
<1>7. EntryOrder'
  BY <1>1, <1>5, <1>6, OrderKept
<1>8. OneMinimum' /\ HandlerOrder'
  BY <1>1, <1>2, <1>3 DEF DurabilityInv, Kept, OneMinimum, HandlerOrder
<1>9. SlotsOfBlocks' /\ AckedKept'
  BY <1>1, <1>4, Zenon DEF DurabilityInv, Kept, SlotsOfBlocks, AckedKept, Acked
<1>10. EntryKept'
  BY <1>1, <1>3, <1>4 DEF DurabilityInv, Kept, EntryKept
<1> QED BY <1>7, <1>8, <1>9, <1>10 DEF Kept

\* The handler writes an entry it took, or is done.
LEMMA DrainKeeps ==
  ASSUME DurabilityAssumption, DurabilityInv, TypeOK', DrainStep
  PROVE  Kept'
<1>1. /\ op' = op /\ blk' = blk /\ UNCHANGED <<up, minBlockID, latestBlockID, entry, indexBuffer>>
      /\ UNCHANGED <<meta, bgTaken, acked, lost, bgPc, bgMin, wMin>>
  BY DEF DrainStep, Advance, memory, goroutine, history
<1>2. up
  BY DEF DurabilityInv, Kept, OneMinimum, DrainStep, At
<1>3. CASE wTaken = <<>>
  <2>1. pc' = pc + 1 /\ UNCHANGED <<idx, wTaken>>
    BY <1>3 DEF DrainStep, Advance
  <2>2. /\ EntryBuffered' <=> EntryBuffered
        /\ LatestSet' <=> LatestSet
        /\ BufferTaken' <=> BufferTaken
        /\ op \in BlockHandlers => BufferTaken /\ pc > 1
    <3>1. \/ op = "append" /\ pc = 9
          \/ op = "mark" /\ pc = 5
          \/ op = "new" /\ pc = 7
          \/ op = "delete" /\ pc = 6
          \/ op \notin BlockHandlers
      <4>1. At("drain")
        BY DEF DrainStep
      <4> QED BY <4>1, StepPositions, NotExtending DEF DurabilityInv, BlockHandlers
    <3>2. CASE op \notin BlockHandlers
      BY <1>1, <3>2 DEF EntryBuffered, LatestSet, BufferTaken, BlockHandlers
    <3>3. CASE op \in BlockHandlers
      BY <1>1, <2>1, <3>1, <3>3, SMTT(30) DEF EntryBuffered, LatestSet, BufferTaken
    <3> QED BY <3>2, <3>3
  <2>3. SlotsOfBlocks' /\ EntryOrder' /\ AckedKept' /\ OnDisk' = OnDisk
    BY <1>1, <2>1, <2>2, QuietKeeps
  <2>4. OneMinimum' /\ HandlerOrder'
    BY <1>1, <2>1, <2>2 DEF DurabilityInv, Kept, OneMinimum, HandlerOrder
  <2>5. Range(wTaken) = {}
    BY <1>3, RangeEmpty
  <2>6. EntryBuffered => op \in BlockHandlers
    BY DEF EntryBuffered, BlockHandlers
  <2>7. EntryKept'
    BY <1>1, <2>1, <2>2, <2>3, <2>5, <2>6 DEF DurabilityInv, Kept, EntryKept
  <2> QED BY <2>3, <2>4, <2>7 DEF Kept
<1>4. CASE wTaken # <<>>
  <2>1. pc' = pc /\ idx' = WriteIndex(Preload, Head(wTaken)) /\ wTaken' = Tail(wTaken)
    BY <1>4 DEF DrainStep, DurabilityInv, Kept, OneMinimum
  <2>2. Range(wTaken) = {Head(wTaken)} \union Range(wTaken')
    BY <1>4, <2>1, RangeTail DEF DurabilityInv, TypeOK
  <2>3. Head(wTaken) \in Pending
    BY <2>2 DEF Pending
  <2>4. OnDisk' = OnDisk \union {Head(wTaken)} /\ SlotsOfBlocks'
    BY <2>1, <2>3, WriteOnDisk
  <2>5. Circulating' = Circulating
    BY <1>1, <2>2, <2>4 DEF Circulating, Pending
  <2>6. /\ EntryBuffered' <=> EntryBuffered
        /\ LatestSet' <=> LatestSet
        /\ BufferTaken' <=> BufferTaken
        /\ IndexFlushed' <=> IndexFlushed
    BY <1>1, <2>1 DEF EntryBuffered, LatestSet, BufferTaken, IndexFlushed
  <2>7. Frontier' = Frontier /\ Frontier \in Int
    BY <1>1, <2>6, FrontierType DEF Frontier, DurabilityInv
  <2>8. EntryOrder'
    BY <1>1, <2>5, <2>7, OrderKept
  <2>9. OneMinimum' /\ HandlerOrder'
    BY <1>1, <1>2, <1>4, <2>1, <2>6 DEF DurabilityInv, Kept, OneMinimum, HandlerOrder
  <2>10. AckedKept'
    BY <1>1, <2>4 DEF DurabilityInv, Kept, AckedKept, Acked
  <2>11. EntryKept'
    BY <1>1, <2>1, <2>2, <2>4, <2>6 DEF DurabilityInv, Kept, EntryKept
  <2> QED BY <2>4, <2>8, <2>9, <2>10, <2>11 DEF Kept
<1> QED BY <1>3, <1>4

\* The handler returns nil: its entry is in the file or with the goroutine.
LEMMA AckKeeps ==
  ASSUME DurabilityAssumption, DurabilityInv, TypeOK', AckStep
  PROVE  Kept'
<1>1. /\ op \in BlockHandlers /\ EntryBuffered /\ BufferTaken /\ IndexFlushed /\ LatestSet
      /\ op' = "none" /\ ~EntryBuffered'
  <2>1. \/ op \in {"append", "new"} /\ pc = 10
        \/ op = "mark" /\ pc = 8
        \/ op = "delete" /\ pc = 7
    <3>1. At("ack")
      BY DEF AckStep
    <3> QED BY <3>1, StepPositions, NotExtending DEF DurabilityInv
  <2>2. op' = "none"
    BY DEF AckStep, Idle
  <2>3. op \in BlockHandlers /\ EntryBuffered /\ BufferTaken /\ IndexFlushed /\ LatestSet
    BY <2>1 DEF BlockHandlers, EntryBuffered, BufferTaken, IndexFlushed, LatestSet
  <2> QED BY <2>2, <2>3 DEF EntryBuffered
<1>2. UNCHANGED <<idx, meta, up, minBlockID, latestBlockID, indexBuffer, wMin, wTaken, bgPc, bgMin, bgTaken>>
  BY DEF AckStep, disk, memory, goroutine
<1>3. entry \in Range(bgTaken) \union OnDisk /\ entry.blk = blk /\ latestBlockID = blk
  BY <1>1 DEF DurabilityInv, Kept, EntryKept, HandlerOrder
<1>4. OnDisk' = OnDisk /\ Circulating' = Circulating
  BY <1>2 DEF OnDisk, Circulating, Pending
<1>5. Frontier = blk /\ Frontier' = blk
  BY <1>1, <1>2, <1>3 DEF Frontier, BlockHandlers
<1>6. blk \in Slots /\ blk \in Nat /\ Preload \in Nat /\ Preload < blk /\ Frontier \in Int
  <2>1. blk \in Slots /\ Preload < blk
    BY <1>1 DEF DurabilityInv, Kept, HandlerOrder, TypeOK
  <2> QED BY <2>1, FrontierType DEF DurabilityInv
<1>7. EntryOrder'
  <2>1. (up' => up /\ Frontier <= Frontier') /\ Circulating' \subseteq Circulating
    BY <1>2, <1>4, <1>5, <1>6
  <2> QED BY <2>1, OrderKept
<1>8. OneMinimum' /\ SlotsOfBlocks'
  BY <1>1, <1>2 DEF DurabilityInv, Kept, OneMinimum, SlotsOfBlocks, BlockHandlers
<1>9. HandlerOrder'
  <2>1. latestBlockID' = blk
    BY <1>2, <1>3
  <2>2. Preload <= blk
    <3>1. blk \in Nat /\ Preload \in Nat /\ Preload < blk
      BY <1>6
    <3> QED BY <3>1
  <2> QED BY <1>1, <2>1, <2>2 DEF HandlerOrder, BlockHandlers, GapHandlers
<1>10. EntryKept'
  BY <1>1 DEF EntryKept, BlockHandlers
<1>11. AckedKept'
  <2> SUFFICES ASSUME NEW b \in Slots, acked'[b] # ZeroEntry
               PROVE  /\ acked'[b].blk = b /\ Preload <= b
                      /\ b \notin lost' => acked'[b] \in Range(bgTaken') \union OnDisk'
    BY DEF AckedKept, Acked
  <2>1. acked' = [acked EXCEPT ![blk] = entry] /\ lost' = lost \ {blk} /\ acked \in [Slots -> Entry]
    BY DEF AckStep, DurabilityInv, TypeOK
  <2>2. CASE b = blk
    BY <1>2, <1>3, <1>4, <1>6, <2>1, <2>2, SMTT(30)
  <2>3. CASE b # blk
    <3>1. acked'[b] = acked[b] /\ (b \in lost' <=> b \in lost)
      BY <2>1, <2>3
    <3> QED BY <1>2, <1>4, <3>1 DEF DurabilityInv, Kept, AckedKept, Acked
  <2> QED BY <2>2, <2>3
<1> QED BY <1>7, <1>8, <1>9, <1>10, <1>11 DEF Kept

\* After the gap is filled the handler goes on with its own block.
LEMMA ThenKeeps ==
  ASSUME DurabilityAssumption, DurabilityInv, TypeOK', ThenStep
  PROVE  Kept'
<1>1. op \notin BlockHandlers /\ op \in Ops \ {"extend", "none"}
  BY StepPositions, NotExtending DEF DurabilityInv, ThenStep, BlockHandlers, At
<1>2. /\ UNCHANGED <<idx, meta, up, minBlockID, latestBlockID, indexBuffer, wMin, wTaken, bgPc, bgMin, bgTaken>>
      /\ UNCHANGED <<acked, lost>>
  BY DEF ThenStep, disk, memory, goroutine, history
<1>3. Circulating' = Circulating /\ SlotsOfBlocks' /\ AckedKept'
  BY <1>2, NothingMoves
<1>4. up /\ Preload <= latestBlockID /\ latestBlockID \in Nat /\ blk \in Nat /\ Preload \in Nat
  BY <1>1, FrontierType DEF DurabilityInv, Kept, OneMinimum, HandlerOrder
<1>5. CASE op \in {"gapAppend", "gapMark"}
  <2>1. op' \in {"append", "mark"} /\ pc' = 1 /\ blk' = blk /\ latestBlockID < blk
    BY <1>5 DEF ThenStep, DurabilityInv, Kept, HandlerOrder, GapHandlers
  <2>2. ~EntryBuffered' /\ ~LatestSet'
    BY <2>1 DEF EntryBuffered, LatestSet
  <2>3. Frontier = latestBlockID /\ Frontier' = blk - 1
    BY <1>1, <2>1, <2>2 DEF Frontier, BlockHandlers
  <2>4. EntryOrder'
    BY <1>2, <1>3, <1>4, <2>1, <2>3, OrderKept
  <2>5. OneMinimum'
    BY <1>2, <1>4 DEF DurabilityInv, Kept, OneMinimum
  <2>6. Preload < blk
    BY <1>4, <2>1
  <2>7. HandlerOrder'
    BY <1>2, <1>4, <2>1, <2>2, <2>6 DEF HandlerOrder, GapHandlers
  <2>8. EntryKept'
    BY <2>1, <2>2 DEF EntryKept
  <2> QED BY <1>3, <2>4, <2>5, <2>7, <2>8 DEF Kept
<1>6. CASE op \notin {"gapAppend", "gapMark"}
  <2>1. op' = "none" /\ ~EntryBuffered'
    BY <1>6 DEF ThenStep, Idle, EntryBuffered
  <2>2. Frontier = latestBlockID /\ Frontier' = latestBlockID
    BY <1>1, <1>2, <2>1 DEF Frontier, BlockHandlers
  <2>3. EntryOrder'
    BY <1>2, <1>3, <1>4, <2>2, OrderKept
  <2>4. OneMinimum' /\ HandlerOrder' /\ EntryKept'
    BY <1>2, <1>4, <2>1
    DEF DurabilityInv, Kept, OneMinimum, HandlerOrder, EntryKept, GapHandlers, BlockHandlers
  <2> QED BY <1>3, <2>3, <2>4 DEF Kept
<1> QED BY <1>5, <1>6

\* A stop forgets the pending entries; what the goroutine held is lost.
LEMMA StopKeeps ==
  ASSUME DurabilityAssumption, DurabilityInv, TypeOK', Stop
  PROVE  Kept'
<1>1. /\ ~up' /\ op' = "none" /\ pc' = 0 /\ UNCHANGED <<idx, meta, acked>>
      /\ indexBuffer' = <<>> /\ wTaken' = <<>> /\ bgTaken' = <<>> /\ bgPc' = "idle"
  BY DEF Stop, Idle, disk
<1>2. OnDisk' = OnDisk /\ Circulating' \subseteq Circulating /\ Range(bgTaken') = {}
  BY <1>1, RangeEmpty DEF OnDisk, Circulating, Pending
<1>3. EntryOrder'
  BY <1>1, <1>2, OrderKept
<1>4. OneMinimum' /\ SlotsOfBlocks' /\ HandlerOrder' /\ EntryKept'
  BY <1>1
  DEF DurabilityInv, Kept, OneMinimum, SlotsOfBlocks, HandlerOrder, EntryKept, EntryBuffered,
      BlockHandlers, GapHandlers
<1>5. AckedKept'
  <2> SUFFICES ASSUME NEW b \in Slots, acked[b] # ZeroEntry
               PROVE  /\ acked[b].blk = b /\ Preload <= b
                      /\ b \notin lost' => acked[b] \in OnDisk
    BY <1>1, <1>2 DEF AckedKept, Acked
  <2>1. /\ acked[b].blk = b /\ Preload <= b
        /\ b \notin lost => acked[b] \in Range(bgTaken) \union OnDisk
    BY DEF DurabilityInv, Kept, AckedKept, Acked
  <2>2. acked[b] \in Range(bgTaken) => b \in lost'
    BY <2>1 DEF Stop, HeldByGoroutine
  <2>3. b \in lost => b \in lost'
    BY DEF Stop
  <2> QED BY <2>1, <2>2, <2>3
<1> QED BY <1>3, <1>4, <1>5 DEF Kept

\* The open recovers the first block and a frontier past every entry.
LEMMA OpenKeeps ==
  ASSUME DurabilityAssumption, DurabilityInv, TypeOK', Open
  PROVE  Kept'
<1>1. /\ ~up /\ op = "none" /\ op' = "none" /\ minBlockID' = Preload /\ latestBlockID' = RecoveredLatest
      /\ UNCHANGED <<idx, meta, acked, lost, indexBuffer, wTaken, wMin, bgPc, bgMin, bgTaken>>
      /\ indexBuffer = <<>> /\ wTaken = <<>> /\ bgTaken = <<>> /\ bgPc = "idle"
  BY RecoveredBlocks DEF Open, disk, writer, goroutine, history, DurabilityInv, Kept, OneMinimum
<1>2. /\ Circulating' = Circulating /\ OnDisk' = OnDisk
      /\ SlotsOfBlocks' /\ AckedKept'
  BY <1>1, NothingMoves
<1>3. Circulating = OnDisk
  BY <1>1, RangeEmpty DEF Circulating, Pending
<1>4. Frontier' = RecoveredLatest /\ Preload <= RecoveredLatest /\ \A e \in OnDisk : e.blk <= RecoveredLatest
  BY <1>1, RecoveredBlocks DEF Frontier, BlockHandlers
<1>5. EntryOrder'
  <2>1. \A e \in Circulating : WellFormed(e) /\ e.blk <= Frontier'
    BY <1>3, <1>4 DEF DurabilityInv, Kept, EntryOrder
  <2>2. \A e, f \in Circulating : e.blk = f.blk => e = f
    BY DEF DurabilityInv, Kept, EntryOrder
  <2> QED BY <1>2, <2>1, <2>2 DEF EntryOrder
<1>6. OneMinimum' /\ HandlerOrder' /\ EntryKept'
  BY <1>1, <1>4
  DEF DurabilityInv, Kept, OneMinimum, HandlerOrder, EntryKept, EntryBuffered, BlockHandlers, GapHandlers
<1> QED BY <1>2, <1>5, <1>6 DEF Kept

\* The goroutine copies the buffer and writes what it copied.
LEMMA BackgroundKeeps ==
  ASSUME DurabilityAssumption, DurabilityInv, TypeOK', BgCall \/ BgStep
  PROVE  Kept'
<1>1. /\ UNCHANGED <<meta, up, minBlockID, latestBlockID, acked, lost>>
      /\ UNCHANGED <<op, pc, blk, entry, wMin, wTaken>>
  BY DEF BgCall, BgStep, BgTake, BgDrain, disk, memory, writer, history
<1>2. /\ EntryBuffered' <=> EntryBuffered
      /\ LatestSet' <=> LatestSet
      /\ BufferTaken' <=> BufferTaken
      /\ IndexFlushed' <=> IndexFlushed
  BY <1>1 DEF EntryBuffered, LatestSet, BufferTaken, IndexFlushed
<1>3. Frontier' = Frontier /\ Frontier \in Int
  BY <1>1, <1>2, FrontierType DEF Frontier, DurabilityInv
<1>4. HandlerOrder'
  BY <1>1, <1>2 DEF DurabilityInv, Kept, HandlerOrder
<1>5. up
  BY DEF BgCall, BgStep, BgTake, BgDrain, DurabilityInv, Kept, OneMinimum
<1>6. CASE BgCall
  <2>1. UNCHANGED <<idx, indexBuffer, bgTaken>> /\ bgMin' = minBlockID
    BY <1>6 DEF BgCall, disk, memory
  <2>2. SlotsOfBlocks' /\ EntryOrder' /\ AckedKept' /\ OnDisk' = OnDisk
    BY <1>1, <1>2, <2>1, QuietKeeps
  <2>3. OneMinimum' /\ EntryKept'
    BY <1>1, <1>2, <1>5, <2>1, <2>2 DEF DurabilityInv, Kept, OneMinimum, EntryKept
  <2> QED BY <1>4, <2>2, <2>3 DEF Kept
<1>7. CASE BgTake
  <2>1. /\ bgPc = "called" /\ bgTaken' = indexBuffer /\ indexBuffer' = <<>> /\ idx' = idx
        /\ bgPc' # "idle" => bgMin' = bgMin
    BY <1>7 DEF BgTake, disk
  <2>2. bgTaken = <<>>
    BY <2>1 DEF DurabilityInv, TypeOK
  <2>3. Range(bgTaken) = {} /\ Range(bgTaken') = Range(indexBuffer) /\ Range(indexBuffer') = {} /\ OnDisk' = OnDisk
    BY <2>1, <2>2, RangeEmpty DEF OnDisk
  <2>4. Circulating' = Circulating
    BY <1>1, <2>3 DEF Circulating, Pending
  <2>5. EntryOrder'
    BY <1>1, <1>3, <2>4, OrderKept
  <2>6. OneMinimum' /\ SlotsOfBlocks'
    BY <1>1, <1>5, <2>1, Zenon DEF DurabilityInv, Kept, OneMinimum, SlotsOfBlocks
  <2>7. EntryKept' /\ AckedKept'
    BY <1>1, <1>2, <2>3 DEF DurabilityInv, Kept, EntryKept, AckedKept, Acked
  <2> QED BY <1>4, <2>5, <2>6, <2>7 DEF Kept
<1>8. CASE BgDrain
  <2>1. /\ bgTaken # <<>> /\ bgTaken' = Tail(bgTaken) /\ indexBuffer' = indexBuffer
        /\ idx' = WriteIndex(Preload, Head(bgTaken))
        /\ bgPc' # "idle" => bgMin' = bgMin
        /\ bgMin = Preload
    BY <1>8 DEF BgDrain, memory, DurabilityInv, Kept, TypeOK, OneMinimum
  <2>2. Range(bgTaken) = {Head(bgTaken)} \union Range(bgTaken')
    BY <2>1, RangeTail DEF DurabilityInv, TypeOK
  <2>3. Head(bgTaken) \in Pending
    BY <2>2 DEF Pending
  <2>4. OnDisk' = OnDisk \union {Head(bgTaken)} /\ SlotsOfBlocks'
    BY <2>1, <2>3, WriteOnDisk
  <2>5. Circulating' = Circulating
    BY <1>1, <2>1, <2>2, <2>4 DEF Circulating, Pending
  <2>6. EntryOrder'
    BY <1>1, <1>3, <2>5, OrderKept
  <2>7. OneMinimum'
    BY <1>1, <1>5, <2>1 DEF DurabilityInv, Kept, OneMinimum
  <2>8. EntryKept' /\ AckedKept'
    BY <1>1, <1>2, <2>1, <2>2, <2>4 DEF DurabilityInv, Kept, EntryKept, AckedKept, Acked
  <2> QED BY <1>4, <2>4, <2>6, <2>7, <2>8 DEF Kept
<1> QED BY <1>6, <1>7, <1>8 DEF BgStep

\* The log of one block.
LEMMA InitKept ==
  ASSUME DurabilityAssumption, Init
  PROVE  DurabilityInv
<1>1. TypeOK /\ PcInProgram
  BY InitType DEF Init, PcInProgram
<1>2. Preload \in Nat \ {0} /\ Preload \in Slots /\ 0 \in Slots /\ Slots \subseteq Nat /\ Preload + 0 = Preload
  BY ConstantsAssumption DEF DurabilityAssumption, Slots
<1>3. PreEntry.blk = Preload /\ PreEntry.start = 0 /\ PreEntry.end = 1 /\ PreEntry # ZeroEntry
  BY <1>2 DEF PreEntry, ZeroEntry
<1>4. \A s \in Slots : idx[s] = IF s = 0 THEN PreEntry ELSE ZeroEntry
  BY <1>2 DEF Init
<1>5. OnDisk = {PreEntry} /\ Circulating = {PreEntry}
  <2>1. OnDisk = {PreEntry}
    BY <1>2, <1>3, <1>4 DEF OnDisk
  <2> QED BY <2>1, RangeEmpty DEF Init, Circulating, Pending
<1>6. OneMinimum
  BY DEF Init, OneMinimum
<1>7. SlotsOfBlocks
  BY <1>2, <1>3, <1>4 DEF SlotsOfBlocks
<1>8. HandlerOrder /\ EntryKept
  <2>1. op = "none" /\ latestBlockID = Preload /\ Preload <= latestBlockID
    BY <1>2 DEF Init
  <2>2. HandlerOrder
    BY <2>1 DEF HandlerOrder, BlockHandlers, GapHandlers
  <2>3. EntryKept
    BY <2>1 DEF EntryKept, EntryBuffered, BlockHandlers
  <2> QED BY <2>2, <2>3
<1>9. EntryOrder
  <2>1. Frontier = Preload /\ up
    BY DEF Init, Frontier, BlockHandlers
  <2> QED BY <1>2, <1>3, <1>5, <2>1 DEF EntryOrder, WellFormed
<1>10. AckedKept
  <2>1. \A b \in Slots : acked[b] = IF b = Preload THEN PreEntry ELSE ZeroEntry
    BY <1>2 DEF Init
  <2> SUFFICES ASSUME NEW b \in Slots, acked[b] # ZeroEntry
               PROVE  acked[b].blk = b /\ Preload <= b /\ acked[b] \in OnDisk
    BY DEF AckedKept, Acked
  <2>2. b = Preload /\ acked[b] = PreEntry
    BY <2>1
  <2> QED BY <1>2, <1>3, <1>5, <2>2
<1> QED BY <1>1, <1>6, <1>7, <1>8, <1>9, <1>10 DEF DurabilityInv, Kept

\* Every step keeps the invariant.
LEMMA DurabilityStep ==
  ASSUME DurabilityAssumption, DurabilityInv, [Next]_vars
  PROVE  DurabilityInv'
<1>0. TypeOK' /\ PcInProgram'
  BY TypeStep, PcStep DEF DurabilityInv
<1>1. CASE ClientCall
  BY <1>0, <1>1, CallKeeps DEF DurabilityInv
<1>2. CASE WriterStep
  <2>1. Kept'
    BY <1>0, <1>2, FillKeeps, WriteKeeps, FlushDataKeeps, BufferKeeps, SetKeeps, MetaKeeps, TakeKeeps,
       DrainKeeps, AckKeeps, ThenKeeps, StopKeeps DEF WriterStep, CloseFilesStep
  <2> QED BY <1>0, <2>1 DEF DurabilityInv
<1>3. CASE BgCall \/ BgStep
  BY <1>0, <1>3, BackgroundKeeps DEF DurabilityInv
<1>4. CASE Crash
  BY <1>0, <1>4, StopKeeps DEF Crash, DurabilityInv
<1>5. CASE Open
  BY <1>0, <1>5, OpenKeeps DEF DurabilityInv
<1>6. CASE UNCHANGED vars
  <2>1. /\ UNCHANGED <<idx, indexBuffer, wTaken, bgTaken, acked, lost, up, blk, op, latestBlockID, pc>>
        /\ UNCHANGED <<meta, minBlockID, wMin, bgPc, bgMin, entry>>
    BY <1>6 DEF vars, disk, memory, writer, goroutine, history
  <2>2. /\ EntryBuffered' <=> EntryBuffered
        /\ LatestSet' <=> LatestSet
        /\ BufferTaken' <=> BufferTaken
        /\ IndexFlushed' <=> IndexFlushed
    BY <2>1 DEF EntryBuffered, LatestSet, BufferTaken, IndexFlushed
  <2>3. SlotsOfBlocks' /\ EntryOrder' /\ AckedKept' /\ OnDisk' = OnDisk
    BY <1>0, <2>1, <2>2, QuietKeeps
  <2>4. OneMinimum'
    BY <2>1 DEF DurabilityInv, Kept, OneMinimum
  <2>5. HandlerOrder'
    BY <2>1, <2>2 DEF DurabilityInv, Kept, HandlerOrder
  <2>6. EntryKept'
    BY <2>1, <2>2, <2>3 DEF DurabilityInv, Kept, EntryKept
  <2> QED BY <1>0, <2>3, <2>4, <2>5, <2>6 DEF DurabilityInv, Kept
<1> QED BY <1>1, <1>2, <1>3, <1>4, <1>5, <1>6 DEF Next

\* A block whose Append, AppendToNewBlock, Delete or MarkBlockCommitted returned
\* nil is found by the open after any crash, unless the background goroutine had
\* its index entry in its hands: for every set of blocks, batch size, number of
\* crashes and interleaving of the goroutine.
THEOREM AcknowledgedBlocksSurvive ==
  ASSUME DurabilityAssumption
  PROVE  Spec => []AckedHeldOrDurable
<1>1. Init => DurabilityInv
  BY InitKept
<1>2. DurabilityInv /\ [Next]_vars => DurabilityInv'
  BY DurabilityStep
<1>3. DurabilityInv => AckedHeldOrDurable
  BY KeptIsDurable
<1> QED BY <1>1, <1>2, <1>3, PTL DEF Spec

-----------------------------------------------------------------------------
\* Without the goroutine nothing is lost

\* The goroutine never runs.
NoGoroutine == bgPc = "idle" /\ lost = {}

LEMMA NoGoroutineStep ==
  ASSUME TypeOK, ~BgFlush, NoGoroutine, [Next]_vars
  PROVE  NoGoroutine'
<1>1. bgTaken = <<>>
  BY DEF TypeOK, NoGoroutine
<1>2. HeldByGoroutine = {}
  BY <1>1, RangeEmpty DEF HeldByGoroutine
<1>3. Stop => NoGoroutine'
  BY <1>2 DEF Stop, NoGoroutine
<1>4. CASE ClientCall
  BY <1>4, ClientCalls DEF Call, goroutine, history, NoGoroutine
<1>5. CASE WriterStep
  <2>1. CASE CloseFilesStep
    BY <1>3, <2>1 DEF CloseFilesStep
  <2>2. CASE AckStep
    BY <2>2 DEF AckStep, goroutine, NoGoroutine
  <2>3. CASE FillStep \/ WriteStep \/ FlushDataStep \/ BufferStep \/ SetMinStep \/ SetLatestStep
    BY <2>3, Zenon DEF FillStep, WriteStep, FlushDataStep, BufferStep, SetMinStep, SetLatestStep,
       goroutine, history, NoGoroutine
  <2>4. CASE TruncStep \/ MetaStep \/ TakeStep \/ DrainStep \/ ThenStep \/ WaitStep
    BY <2>4 DEF TruncStep, MetaStep, TakeStep, DrainStep, ThenStep, WaitStep,
       goroutine, history, NoGoroutine
  <2> QED BY <1>5, <2>1, <2>2, <2>3, <2>4 DEF WriterStep
<1>6. CASE BgCall \/ BgStep
  BY <1>6 DEF BgCall, BgStep, BgTake, BgDrain, NoGoroutine
<1>7. CASE Crash
  BY <1>3, <1>7 DEF Crash
<1>8. CASE Open
  BY <1>8 DEF Open, goroutine, history, NoGoroutine
<1>9. CASE UNCHANGED vars
  BY <1>9 DEF vars, goroutine, history, NoGoroutine
<1> QED BY <1>4, <1>5, <1>6, <1>7, <1>8, <1>9 DEF Next

\* With the flush of every handler in the foreground alone, what the comment at
\* datablockStore.go:946 intends holds: a block whose handler returned nil is
\* found after any crash.
THEOREM ForegroundDurable ==
  ASSUME DurabilityAssumption, ~BgFlush
  PROVE  Spec => []AckedDurable
<1>1. Init => DurabilityInv /\ NoGoroutine
  BY InitKept DEF Init, NoGoroutine
<1>2. (DurabilityInv /\ NoGoroutine) /\ [Next]_vars => (DurabilityInv /\ NoGoroutine)'
  BY DurabilityStep, NoGoroutineStep DEF DurabilityInv
<1>3. DurabilityInv /\ NoGoroutine => AckedDurable
  <2> SUFFICES ASSUME DurabilityInv, NoGoroutine PROVE AckedDurable
    OBVIOUS
  <2>1. Range(bgTaken) = {}
    BY RangeEmpty DEF NoGoroutine, DurabilityInv, TypeOK
  <2> QED BY <2>1, KeptIsDurable DEF AckedHeldOrDurable, AckedDurable, NoGoroutine
<1> QED BY <1>1, <1>2, <1>3, PTL DEF Spec

-----------------------------------------------------------------------------
\* The index file

\* No step writes another entry over a slot in use.
LEMMA SlotStep ==
  ASSUME DurabilityAssumption, DurabilityInv, [Next]_vars, NEW s \in Slots, idx[s] # ZeroEntry
  PROVE  idx'[s] = idx[s]
<1>1. ASSUME NEW e \in Pending, idx' = WriteIndex(Preload, e) PROVE idx'[s] = idx[s]
  <2>1. idx[s] \in Circulating /\ e \in Circulating /\ idx \in [Slots -> Entry]
    BY DEF Circulating, OnDisk, DurabilityInv, TypeOK
  <2>2. e \in Entry /\ e.blk \in Nat /\ Preload \in Nat /\ s \in Nat /\ idx[s].blk = Preload + s
    BY <2>1, CirculatingType, FrontierType, ConstantsAssumption, SMTT(30)
    DEF DurabilityInv, Kept, SlotsOfBlocks, Entry, Slots
  <2>3. CASE e.blk >= Preload /\ e.blk - Preload = s
    <3>1. e.blk = idx[s].blk
      BY <2>2, <2>3
    <3>2. e = idx[s]
      BY <2>1, <3>1 DEF DurabilityInv, Kept, EntryOrder
    <3> QED BY <1>1, <2>1, <2>3, <3>2 DEF WriteIndex
  <2>4. CASE ~(e.blk >= Preload /\ e.blk - Preload = s)
    BY <1>1, <2>1, <2>4 DEF WriteIndex
  <2> QED BY <2>3, <2>4
<1>2. CASE DrainStep
  <2>1. CASE wTaken = <<>>
    BY <1>2, <2>1 DEF DrainStep
  <2>2. CASE wTaken # <<>>
    <3>1. idx' = WriteIndex(Preload, Head(wTaken))
      BY <1>2, <2>2 DEF DrainStep, DurabilityInv, Kept, OneMinimum
    <3>2. Head(wTaken) \in Pending
      BY <2>2, RangeTail DEF DurabilityInv, TypeOK, Pending
    <3> QED BY <1>1, <3>1, <3>2
  <2> QED BY <2>1, <2>2
<1>3. CASE BgDrain
  <2>1. bgTaken # <<>> /\ idx' = WriteIndex(Preload, Head(bgTaken))
    BY <1>3 DEF BgDrain, DurabilityInv, Kept, OneMinimum, TypeOK
  <2>2. Head(bgTaken) \in Pending
    BY <2>1, RangeTail DEF DurabilityInv, TypeOK, Pending
  <2> QED BY <1>1, <2>1, <2>2
<1>4. CASE ClientCall
  BY <1>4, ClientCalls DEF DurabilityInv, Call, disk
<1>5. CASE FillStep \/ WriteStep \/ FlushDataStep \/ BufferStep \/ SetMinStep \/ SetLatestStep
  BY <1>5, Zenon DEF FillStep, WriteStep, FlushDataStep, BufferStep, SetMinStep, SetLatestStep, disk
<1>6. CASE TruncStep \/ MetaStep \/ TakeStep \/ AckStep \/ ThenStep \/ WaitStep
  BY <1>6 DEF TruncStep, MetaStep, TakeStep, AckStep, ThenStep, WaitStep, disk
<1>7. CASE CloseFilesStep \/ Crash \/ Open
  BY <1>7, Zenon DEF CloseFilesStep, Crash, Stop, Open, disk
<1>8. CASE BgCall \/ BgTake
  BY <1>8 DEF BgCall, BgTake, disk
<1>9. CASE UNCHANGED vars
  BY <1>9 DEF vars, disk
<1> QED BY <1>2, <1>3, <1>4, <1>5, <1>6, <1>7, <1>8, <1>9 DEF Next, WriterStep, BgStep

\* Neither flusher, racing the other, gives a slot of the index file to another
\* block or shrinks its range.
THEOREM SlotsNeverShrink ==
  ASSUME DurabilityAssumption
  PROVE  Spec => SlotsOnlyGrow
<1>1. Init => DurabilityInv
  BY InitKept
<1>2. DurabilityInv /\ [Next]_vars => DurabilityInv'
  BY DurabilityStep
<1>3. DurabilityInv /\ [Next]_vars =>
        [\A s \in Slots : idx[s] # ZeroEntry => Covers(idx'[s], idx[s])]_vars
  <2> SUFFICES ASSUME DurabilityInv, [Next]_vars, NEW s \in Slots, idx[s] # ZeroEntry
               PROVE  Covers(idx'[s], idx[s])
    OBVIOUS
  <2>1. idx'[s] = idx[s] /\ idx[s].end \in Nat
    BY SlotStep DEF DurabilityInv, TypeOK, Entry
  <2> QED BY <2>1, SMTT(30) DEF Covers
<1> QED BY <1>1, <1>2, <1>3, PTL DEF Spec, SlotsOnlyGrow

=============================================================================
