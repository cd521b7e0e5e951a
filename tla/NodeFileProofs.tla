--------------------------- MODULE NodeFileProofs ---------------------------
(***************************************************************************)
(* Theorems about NodeFile for any keys, readers, buffers and bounds: a    *)
(* node file under writers, readers, compactions, sweeps and evictions is  *)
(* an atomic map.                                                          *)
(***************************************************************************)
EXTENDS NodeFile, NodeEntriesProofs, FiniteSetTheorems

\* The callers do not write a deleted key again before its file is compacted.
NoRecreateAssumption == "recreate" \notin Callers

Phases == {"idle", "enter", "load", "search", "schedule"}

Types ==
    /\ file \in AnyFile /\ image \in AnyFile
    /\ treeLock \in {"free", "writer", "sweep"} /\ fileLock \in {"free", "gc"}
    /\ wpc \in {"idle", "lock", "mutate", "append"}
    /\ spc \in {"idle", "lock", "pending", "run"}
    /\ gc \in [st : {"none", "queued", "start", "write", "finish"}, snap : AnyFile]
    /\ slot \in {"free", "tree", "storage"}
    /\ cache \in Buffers \union {NoBuf}
    /\ refs \in [Buffers -> Nat]
    /\ rd \in [Readers -> [pc : Phases, key : Keys \union {TagKey}, buf : Buffers \union {NoBuf},
                           hit : BOOLEAN, snap : AnyFile]]
    /\ got \in [Readers -> AnyInfo \union {Unanswered}]
    /\ writes \in 0..MaxWrites

\* Who holds the tree lock and the stripe lock, and what they keep out.
Locks ==
    /\ wpc \in {"mutate", "append"} <=> treeLock = "writer"
    /\ spc \in {"pending", "run"} <=> treeLock = "sweep"
    /\ treeLock # "free" => \A r \in Readers : rd[r].pc = "idle"
    /\ wpc = "append" => gc.st = "none"
    /\ wpc # "idle" => writes < MaxWrites
    /\ gc.st = "write" => cache = NoBuf /\ \A r \in Readers : rd[r].pc \notin {"load", "search"}
    /\ gc.st = "write" <=> fileLock = "gc"

\* The readers that hold a reference to buffer b.
Holders(b) == {r \in Readers : rd[r].hit /\ rd[r].buf = b}

\* A buffer's references are those of its readers and of the cache.
Counts ==
    /\ \A b \in Buffers :
         refs[b] = Cardinality(Holders(b)) + (IF cache = b THEN 1 ELSE 0)
    /\ \A r \in Readers :
         /\ rd[r].hit => rd[r].buf \in Buffers
         /\ rd[r].pc \in {"idle", "enter", "load"} => ~rd[r].hit /\ rd[r].buf = NoBuf

\* Every image in use holds what the file holds.
Contents ==
    /\ Good(file) /\ file \in [sorted : [Keys -> Infos], unsorted : Seq(Entries)]
    /\ Content \in [Keys -> Infos]
    /\ gc.st # "none" => Good(gc.snap) /\ buildEntriesFromSlices(gc.snap) = Content
    /\ cache # NoBuf => image = file
    /\ \A r \in Readers :
         /\ rd[r].pc \in {"search", "schedule"} =>
              Good(rd[r].snap) /\ buildEntriesFromSlices(rd[r].snap) = Content
         /\ rd[r].pc = "schedule" => rd[r].key \in Keys /\ got[r] = Content[rd[r].key]

Inv == Types /\ Locks /\ Counts /\ Contents

-----------------------------------------------------------------------------
\* Buffers

\* A buffer that no reader holds and the cache does not use has no references.
LEMMA UnusedBuffer ==
  ASSUME Counts, NEW b \in Buffers, cache # b, \A r \in Readers : rd[r].buf # b
  PROVE  refs[b] = 0
<1>1. Holders(b) = {}
  BY DEF Holders
<1>2. Cardinality(Holders(b)) = 0
  BY <1>1, FS_EmptySet, Zenon
<1>3. refs[b] = Cardinality(Holders(b)) + 0
  BY Zenon DEF Counts
<1> QED BY <1>2, <1>3

\* compactFileFromState always finds a buffer for its image.
LEMMA FreshBufferExists ==
  ASSUME Types, Counts, cache = NoBuf
  PROVE  FreshBuffer(refs) \in Buffers /\ refs[FreshBuffer(refs)] = 0
<1> DEFINE held == [r \in Readers |-> rd[r].buf]
<1>1. held \in [Readers -> Buffers \union {NoBuf}]
  BY DEF Types
<1>2. PICK b \in Buffers : \A r \in Readers : held[r] # b
  <2> HIDE DEF held
  <2> QED BY <1>1, BuffersAssumption, Zenon
<1>3. \A r \in Readers : rd[r].buf # b
  BY <1>2
<1>4. refs[b] = 0
  <2>1. cache # b BY BuffersAssumption, Zenon
  <2> QED BY <1>3, <2>1, UnusedBuffer, Zenon
<1>5. b \in borrowBuf(refs)
  BY <1>4, Zenon DEF borrowBuf
<1>6. FreshBuffer(refs) \in borrowBuf(refs)
  BY <1>3, <1>5, Zenon DEF FreshBuffer
<1> QED BY <1>6, Zenon DEF borrowBuf

\* readDecodedFileNode always finds a buffer, one without references.
LEMMA BorrowedIsFree ==
  ASSUME Types, Counts, NEW r \in Readers, rd[r].pc = "load", NEW b \in BorrowForLoad
  PROVE  b \in Buffers /\ refs[b] = 0
<1>1. CASE "recycle" \in Callers
  BY <1>1, Zenon DEF BorrowForLoad, borrowBuf
<1>2. CASE "recycle" \notin Callers
  <2> DEFINE held == [x \in Readers |-> IF x = r THEN cache ELSE rd[x].buf]
  <2>1. held \in [Readers -> Buffers \union {NoBuf}]
    BY DEF Types
  <2>2. PICK c \in Buffers : \A x \in Readers : held[x] # c
    <3> HIDE DEF held
    <3> QED BY <2>1, BuffersAssumption, Zenon
  <2>3. cache # c
    BY <2>2
  <2>4. rd[r].buf = NoBuf
    BY DEF Counts
  <2>5. \A x \in Readers : rd[x].buf # c
    BY <2>2, <2>4, BuffersAssumption
  <2>6. refs[c] = 0
    BY <2>3, <2>5, UnusedBuffer, Zenon
  <2>7. c \in borrowBuf(refs)
    BY <2>6, Zenon DEF borrowBuf
  <2>8. b \in borrowBuf(refs)
    <3>1. b = CHOOSE y \in borrowBuf(refs) : \A x \in Readers : rd[x].buf # y
      BY <1>2, Zenon DEF BorrowForLoad
    <3> QED BY <2>5, <2>7, <3>1, Zenon
  <2> QED BY <2>8, Zenon DEF borrowBuf
<1> QED BY <1>1, <1>2, Zenon

-----------------------------------------------------------------------------
\* What one write appends

\* Every batch the writer may append is one entry that replaces the info of its
\* key, with or without a commit tag behind it.
LEMMA BatchOfWrite ==
  ASSUME Types, Contents, NoRecreateAssumption, writes < MaxWrites, NEW es \in Writable
  PROVE  \E k \in Keys, i \in Infos :
           /\ es = <<[key |-> k, info |-> i], Tag>> \/ es = <<[key |-> k, info |-> i]>>
           /\ \A h \in Hits(file, k) : ~isNodeInfoTombstone(file.unsorted[h].info)
           /\ isNodeInfoTombstone(i) \/ (hasStorageInfo(Content[k]) => hasStorageInfo(i))
<1>1. PICK k \in Keys : MayWrite(k) /\ es \in CommitEntries(k)
  BY Zenon DEF Writable
<1>2. \A h \in Hits(file, k) : ~isNodeInfoTombstone(file.unsorted[h].info)
  BY <1>1, Zenon DEF MayWrite, NoRecreateAssumption
<1> DEFINE now == Content[k]
           n == writes + 1
           e(i) == [key |-> k, info |-> i]
<1>3. n \in 1..MaxWrites /\ 0 \in 0..MaxWrites
  BY BoundsAssumption DEF Types
<1>4. now \in Infos
  BY DEF Contents
<1>5. now.off \in 0..MaxWrites /\ now.stor \in 0..MaxWrites
  <2> HIDE DEF now
  <2> QED BY <1>4 DEF Infos
<1>6. \/ es = <<e([off |-> n, stor |-> now.stor]), Tag>>
      \/ es = <<e([off |-> n, stor |-> n]), Tag>>
      \/ es = <<e([off |-> now.off, stor |-> n])>>
      \/ es = <<e(NoInfo), Tag>>
  BY <1>1, Zenon DEF CommitEntries
<1> HIDE DEF now, n
<1>7. /\ [off |-> n, stor |-> now.stor] \in Infos /\ [off |-> n, stor |-> n] \in Infos
      /\ [off |-> now.off, stor |-> n] \in Infos /\ NoInfo \in Infos
  BY <1>3, <1>5 DEF Infos, NoInfo
<1>8. /\ hasStorageInfo(now) => hasStorageInfo([off |-> n, stor |-> now.stor])
      /\ hasStorageInfo([off |-> n, stor |-> n]) /\ hasStorageInfo([off |-> now.off, stor |-> n])
      /\ isNodeInfoTombstone(NoInfo)
  BY <1>3 DEF hasStorageInfo, isNodeInfoTombstone
<1> QED BY <1>2, <1>6, <1>7, <1>8, Zenon DEF now

\* An append leaves a file the writers intend, with one key changed.
LEMMA AppendReplaces ==
  ASSUME Types, Contents, NoRecreateAssumption, writes < MaxWrites, NEW es \in Writable
  PROVE  LET g == [file EXCEPT !.unsorted = @ \o es] IN
         /\ Good(g) /\ g \in [sorted : [Keys -> Infos], unsorted : Seq(Entries)]
         /\ \E k \in Keys, i \in Infos : buildEntriesFromSlices(g) = [Content EXCEPT ![k] = i]
<1> DEFINE g == [file EXCEPT !.unsorted = @ \o es]
<1>1. PICK k \in Keys, i \in Infos :
           /\ es = <<[key |-> k, info |-> i], Tag>> \/ es = <<[key |-> k, info |-> i]>>
           /\ \A h \in Hits(file, k) : ~isNodeInfoTombstone(file.unsorted[h].info)
           /\ isNodeInfoTombstone(i) \/ (hasStorageInfo(Content[k]) => hasStorageInfo(i))
  BY BatchOfWrite, Zenon
<1> DEFINE e == [key |-> k, info |-> i]
           one == Appended(file, e)
<1>2. i \in AnyInfo
  BY BoundsAssumption DEF Infos, AnyInfo
<1>3. Good(file) /\ file \in [sorted : [Keys -> Infos], unsorted : Seq(Entries)]
  BY DEF Contents
<1>4. Good(one) /\ buildEntriesFromSlices(one) = [Content EXCEPT ![k] = i]
  BY <1>1, <1>2, <1>3, WriteReplaces, Zenon DEF Content
<1>5. e \in Entries /\ Tag \in Entries
  BY DEF Entries
<1>6. g \in [sorted : [Keys -> Infos], unsorted : Seq(Entries)]
  <2>1. es \in Seq(Entries)
    <3>1. ASSUME NEW x \in Entries, NEW y \in Entries
          PROVE  <<x, y>> \in Seq(Entries) /\ <<x>> \in Seq(Entries)
      OBVIOUS
    <3> QED BY <1>1, <1>5, <3>1, Zenon
  <2>2. file.unsorted \o es \in Seq(Entries)
    BY <1>3, <2>1
  <2> QED BY <1>3, <2>2
<1>7. CASE es = <<e>>
  <2>1. file.unsorted \o <<e>> = Append(file.unsorted, e)
    <3> HIDE DEF e
    <3> QED BY <1>3, <1>5
  <2>2. g = one
    BY <1>7, <2>1, Zenon DEF Appended
  <2> HIDE DEF g, one
  <2> QED BY <1>4, <1>6, <2>2, Zenon DEF g
<1>8. CASE es = <<e, Tag>>
  <2>1. file.unsorted \o <<e, Tag>> = Append(Append(file.unsorted, e), Tag)
    <3> HIDE DEF e
    <3> QED BY <1>3, <1>5
  <2>2. g = Appended(one, Tag)
    <3>1. ASSUME NEW u, NEW v
          PROVE [[file EXCEPT !.unsorted = u] EXCEPT !.unsorted = v] = [file EXCEPT !.unsorted = v]
      BY <1>3
    <3>2. one.unsorted = Append(file.unsorted, e)
      BY <1>3 DEF Appended
    <3> QED BY <1>8, <2>1, <3>1, <3>2, Zenon DEF Appended
  <2>3. Good(g) /\ buildEntriesFromSlices(g) = buildEntriesFromSlices(one)
    <3> HIDE DEF g, one
    <3> QED BY <1>4, <2>2, TagChangesNothing, Zenon
  <2> HIDE DEF g, one
  <2> QED BY <1>4, <1>6, <2>3, Zenon DEF g
<1> QED BY <1>1, <1>7, <1>8, Zenon

-----------------------------------------------------------------------------
\* The inductive invariant

\* Releasing a buffer keeps the counts natural as long as it had a reference.
LEMMA ReleaseType ==
  ASSUME Types, NEW b \in Buffers \union {NoBuf}, b = NoBuf \/ refs[b] > 0
  PROVE  Release(b, refs) \in [Buffers -> Nat]
<1>1. CASE b = NoBuf
  BY <1>1 DEF Release, Types
<1>2. CASE b # NoBuf
  <2>1. b \in Buffers /\ refs[b] \in Nat /\ refs[b] - 1 \in Nat
    BY <1>2 DEF Types
  <2> QED BY <1>2, <2>1 DEF Release, Types
<1> QED BY <1>1, <1>2

\* The cached buffer and the buffers readers found in the cache have references.
LEMMA HeldIsPositive ==
  ASSUME Types, Counts
  PROVE  /\ cache # NoBuf => cache \in Buffers /\ refs[cache] > 0
         /\ \A r \in Readers : rd[r].hit => rd[r].buf \in Buffers /\ refs[rd[r].buf] > 0
<1>1. ASSUME NEW b PROVE IsFiniteSet(Holders(b)) /\ Cardinality(Holders(b)) \in Nat
  <2>1. Holders(b) \subseteq Readers
    BY DEF Holders
  <2> QED BY <2>1, ReadersAssumption, FS_Subset, FS_CardinalityType, Zenon
<1>2. ASSUME cache # NoBuf PROVE cache \in Buffers /\ refs[cache] > 0
  <2>1. cache \in Buffers
    BY <1>2 DEF Types
  <2>2. refs[cache] = Cardinality(Holders(cache)) + 1
    BY <2>1, Zenon DEF Counts
  <2> QED BY <1>1, <2>1, <2>2
<1>3. ASSUME NEW r \in Readers, rd[r].hit PROVE rd[r].buf \in Buffers /\ refs[rd[r].buf] > 0
  <2> DEFINE b == rd[r].buf
  <2>1. b \in Buffers
    BY <1>3, Zenon DEF Counts
  <2>2. refs[b] = Cardinality(Holders(b)) + (IF cache = b THEN 1 ELSE 0)
    <3> HIDE DEF b
    <3> QED BY <2>1, Zenon DEF Counts
  <2>3. r \in Holders(b)
    BY <1>3 DEF Holders
  <2>4. Cardinality(Holders(b)) # 0
    <3> HIDE DEF b
    <3> QED BY <1>1, <2>3, FS_EmptySet, Zenon
  <2> HIDE DEF b
  <2> QED BY <1>1, <2>1, <2>2, <2>4 DEF b
<1> QED BY <1>2, <1>3, Zenon

\* The answer of a search is an info.
LEMMA SearchType ==
  ASSUME Inv, NEW r \in Readers, rd[r].pc = "search", NEW k \in Keys
  PROVE  /\ getFromFileNodeWithBreakdown(rd[r].snap, k) = Content[k]
         /\ Content[k] \in AnyInfo
<1>1. Good(rd[r].snap) /\ buildEntriesFromSlices(rd[r].snap) = Content
  BY DEF Inv, Contents
<1>2. getFromFileNodeWithBreakdown(rd[r].snap, k) = Content[k]
  BY <1>1, SearchIsContent, Zenon
<1>3. Content \in [Keys -> AnyInfo]
  BY <1>1, ContentType, Zenon
<1> QED BY <1>2, <1>3

\* No file, read or compaction.
LEMMA NothingTyped ==
  /\ NoFile \in AnyFile
  /\ NoRead \in [pc : Phases, key : Keys \union {TagKey}, buf : Buffers \union {NoBuf},
                 hit : BOOLEAN, snap : AnyFile]
  /\ NoGC \in [st : {"none", "queued", "start", "write", "finish"}, snap : AnyFile]
<1>1. NoInfo \in AnyInfo
  BY DEF NoInfo, AnyInfo
<1>2. NoFile \in AnyFile
  BY <1>1 DEF NoFile, AnyFile
<1> QED BY <1>2 DEF NoRead, NoGC, Phases

\* Every step keeps the types.
LEMMA TypesKept ==
  ASSUME Inv, NoRecreateAssumption, Next
  PROVE  Types'
<1> DEFINE States == {"none", "queued", "start", "write", "finish"}
           Reads == [pc : Phases, key : Keys \union {TagKey}, buf : Buffers \union {NoBuf},
                     hit : BOOLEAN, snap : AnyFile]
<1>1. Types /\ Locks /\ Counts /\ Contents
  BY DEF Inv
<1>2. /\ cache # NoBuf => cache \in Buffers /\ refs[cache] > 0
      /\ \A r \in Readers : rd[r].hit => rd[r].buf \in Buffers /\ refs[rd[r].buf] > 0
  BY <1>1, HeldIsPositive, Zenon
<1>3. Release(cache, refs) \in [Buffers -> Nat]
  <2>1. cache \in Buffers \union {NoBuf} BY <1>1 DEF Types
  <2> QED BY <1>1, <1>2, <2>1, ReleaseType, Zenon
<1>4. NoFile \in AnyFile /\ NoRead \in Reads /\ NoGC \in [st : States, snap : AnyFile]
  BY NothingTyped, Zenon
<1>5. rd \in [Readers -> Reads] /\ gc \in [st : States, snap : AnyFile]
  BY <1>1, Zenon DEF Types
<1>6. CASE WantWrite
  BY <1>1, <1>6 DEF Types, WantWrite
<1>7. CASE PutNodeInfosWithBlockID
  BY <1>1, <1>7 DEF Types, PutNodeInfosWithBlockID
<1>8. CASE beginFileMutation
  BY <1>1, <1>8 DEF Types, beginFileMutation
<1>9. CASE appendFileNodeEntriesWithBlockID
  <2>1. writes < MaxWrites /\ writes' \in 0..MaxWrites
    BY <1>1, <1>9, BoundsAssumption DEF Types, Locks, appendFileNodeEntriesWithBlockID
  <2>2. file' \in AnyFile
    BY <1>1, <1>9, <2>1, AppendReplaces, Zenon DEF appendFileNodeEntriesWithBlockID, Good
  <2>3. refs' \in [Buffers -> Nat]
    BY <1>3, <1>9, Zenon DEF appendFileNodeEntriesWithBlockID, invalidateFileNodeCache
  <2> QED BY <1>1, <1>4, <1>9, <2>1, <2>2, <2>3 DEF Types, appendFileNodeEntriesWithBlockID
<1>10. ASSUME NEW r \in Readers, Get(r) PROVE Types'
  <2>1. [NoRead EXCEPT !.pc = "enter"] \in Reads
    BY <1>4 DEF Phases
  <2>2. rd' \in [Readers -> Reads]
    BY <1>5, <1>10, <2>1 DEF Get
  <2> QED BY <1>1, <1>10, <2>2 DEF Types, Get
<1>11. ASSUME NEW r \in Readers, Locate(r) PROVE Types'
  <2>1. rd' \in [Readers -> Reads] /\ refs' \in [Buffers -> Nat]
    <3>1. CASE gc.st # "none"
      <4>1. gc.snap \in AnyFile BY <1>5
      <4> QED BY <1>1, <1>5, <1>11, <3>1, <4>1 DEF Locate, Phases, Types
    <3>2. CASE gc.st = "none" /\ cache # NoBuf
      <4>1. cache \in Buffers /\ image \in AnyFile /\ refs \in [Buffers -> Nat] BY <1>1, <1>2, <3>2 DEF Types
      <4>2. rd' \in [Readers -> Reads]
        BY <1>5, <1>11, <3>2, <4>1 DEF Locate, Phases
      <4>3. refs' \in [Buffers -> Nat]
        BY <1>11, <3>2, <4>1 DEF Locate, Retain
      <4> QED BY <4>2, <4>3
    <3>3. CASE gc.st = "none" /\ cache = NoBuf
      BY <1>1, <1>5, <1>11, <3>3 DEF Locate, Phases, Types
    <3> QED BY <3>1, <3>2, <3>3, Zenon
  <2> QED BY <1>1, <1>11, <2>1 DEF Types, Locate
<1>12. ASSUME NEW r \in Readers, readDecodedFileNode(r) PROVE Types'
  <2>1. PICK b \in BorrowForLoad :
          /\ setFileNodeCache(b, file, refs)
          /\ rd' = [rd EXCEPT ![r].pc = "search", ![r].buf = b, ![r].snap = file]
    BY <1>12, Zenon DEF readDecodedFileNode
  <2>2. b \in Buffers
    BY <1>1, <1>12, BorrowedIsFree, Zenon DEF readDecodedFileNode
  <2>3. refs' \in [Buffers -> Nat] /\ cache' = b /\ image' = file
    BY <1>3, <2>1, <2>2 DEF setFileNodeCache, invalidateFileNodeCache
  <2>4. rd' \in [Readers -> Reads]
    <3>1. file \in AnyFile BY <1>1 DEF Types
    <3>2. ASSUME NEW x \in Reads
          PROVE  [x EXCEPT !.pc = "search", !.buf = b, !.snap = file] \in Reads
      BY <2>2, <3>1 DEF Phases
    <3>3. rd' = [rd EXCEPT ![r] = [rd[r] EXCEPT !.pc = "search", !.buf = b, !.snap = file]]
      BY <1>5, <2>1
    <3> HIDE DEF Reads
    <3> QED BY <1>5, <3>2, <3>3
  <2> QED BY <1>1, <1>12, <2>2, <2>3, <2>4 DEF Types, readDecodedFileNode
<1>13. ASSUME NEW r \in Readers, Search(r) PROVE Types'
  <2>1. PICK k \in Keys :
          /\ got' = [got EXCEPT ![r] = getFromFileNodeWithBreakdown(rd[r].snap, k)]
          /\ rd' = [rd EXCEPT ![r].pc = "schedule", ![r].key = k]
    BY <1>13, Zenon DEF Search
  <2>2. getFromFileNodeWithBreakdown(rd[r].snap, k) \in AnyInfo
    BY <1>13, SearchType, Zenon DEF Search
  <2>3. got' \in [Readers -> AnyInfo \union {Unanswered}]
    BY <1>1, <2>1, <2>2 DEF Types
  <2>4. rd' \in [Readers -> Reads]
    BY <1>5, <2>1 DEF Phases
  <2> QED BY <1>1, <1>13, <2>3, <2>4 DEF Types, Search
<1>14. ASSUME NEW r \in Readers, FinishGet(r) PROVE Types'
  <2>1. rd' \in [Readers -> Reads]
    BY <1>4, <1>5, <1>14 DEF FinishGet
  <2>2. gc' \in [st : States, snap : AnyFile]
    <3>1. rd[r].snap \in AnyFile BY <1>5
    <3> QED BY <1>5, <1>14, <3>1 DEF FinishGet
  <2>3. got' \in [Readers -> AnyInfo \union {Unanswered}]
    BY <1>1, <1>14 DEF FinishGet, Types
  <2>4. refs' \in [Buffers -> Nat]
    <3>1. CASE rd[r].hit
      <4>1. rd[r].buf \in Buffers \union {NoBuf} /\ refs[rd[r].buf] > 0 BY <1>2, <3>1, Zenon
      <4>2. refs' = Release(rd[r].buf, refs) BY <1>14, <3>1, Zenon DEF FinishGet
      <4> QED BY <1>1, <4>1, <4>2, ReleaseType, Zenon
    <3>2. CASE ~rd[r].hit
      BY <1>1, <1>14, <3>2, Zenon DEF FinishGet, Types
    <3> QED BY <3>1, <3>2, Zenon
  <2> QED BY <1>1, <1>14, <2>1, <2>2, <2>3, <2>4 DEF Types, FinishGet
<1>15. CASE EvictFileNode
  <2>1. refs' \in [Buffers -> Nat]
    BY <1>3, <1>15, Zenon DEF EvictFileNode, invalidateFileNodeCache
  <2> QED BY <1>1, <1>4, <1>15, <2>1 DEF Types, EvictFileNode
<1>16. CASE acquireSharedGCWorker
  BY <1>1, <1>16 DEF Types, acquireSharedGCWorker
<1>17. CASE StorageGCTakes \/ StorageGCReturns
  BY <1>1, <1>17 DEF Types, StorageGCTakes, StorageGCReturns
<1>18. CASE BeginCompact
  <2>1. refs' \in [Buffers -> Nat]
    BY <1>3, <1>18, Zenon DEF BeginCompact, invalidateFileNodeCache
  <2>2. gc' \in [st : States, snap : AnyFile]
    BY <1>5, <1>18 DEF BeginCompact
  <2> QED BY <1>1, <1>4, <1>18, <2>1, <2>2 DEF Types, BeginCompact
<1>19. CASE compactFileFromState
  <2> DEFINE new == [sorted |-> buildEntriesFromSlices(gc.snap), unsorted |-> <<>>]
             b == FreshBuffer(refs)
  <2>1. Good(gc.snap) /\ cache = NoBuf
    BY <1>1, <1>19 DEF compactFileFromState, Contents, Locks
  <2>2. new \in AnyFile
    BY <2>1, CompactedGood, Zenon DEF Good
  <2>3. b \in Buffers
    BY <1>1, <2>1, FreshBufferExists, Zenon
  <2>4. file' = new /\ image' = new /\ cache' = b
        /\ refs' = [Release(cache, refs) EXCEPT ![b] = 1]
    BY <1>19, Zenon DEF compactFileFromState, setFileNodeCache, invalidateFileNodeCache
  <2> HIDE DEF new, b
  <2>5. refs' \in [Buffers -> Nat]
    BY <1>3, <2>3, <2>4
  <2>6. gc' \in [st : States, snap : AnyFile]
    BY <1>5, <1>19 DEF compactFileFromState
  <2> QED BY <1>1, <1>19, <2>2, <2>3, <2>4, <2>5, <2>6 DEF Types, compactFileFromState
<1>20. CASE CompactFails
  BY <1>1, <1>20 DEF Types, CompactFails
<1>21. CASE finishGC
  BY <1>1, <1>4, <1>21 DEF Types, finishGC
<1>22. CASE WantSweep
  BY <1>1, <1>22 DEF Types, WantSweep
<1>23. CASE CompactAllNodeFiles
  BY <1>1, <1>23 DEF Types, CompactAllNodeFiles
<1>24. CASE buildGCStateFromFile
  <2>1. gc' \in [st : States, snap : AnyFile]
    BY <1>1, <1>5, <1>24 DEF buildGCStateFromFile, Types
  <2> QED BY <1>1, <1>24, <2>1 DEF Types, buildGCStateFromFile
<1>25. CASE runGCJobsInParallel
  BY <1>1, <1>25 DEF Types, runGCJobsInParallel
<1> QED
  BY <1>6, <1>7, <1>8, <1>9, <1>10, <1>11, <1>12, <1>13, <1>14, <1>15, <1>16, <1>17, <1>18,
     <1>19, <1>20, <1>21, <1>22, <1>23, <1>24, <1>25, Zenon
     DEF Next, Write, Read, Compact, Sweep

-----------------------------------------------------------------------------
\* What the steps of a reader change

\* Get starts without a buffer.
LEMMA GetStep ==
  ASSUME Types, NEW r \in Readers, Get(r)
  PROVE  /\ \A x \in Readers : x # r => rd'[x] = rd[x]
         /\ rd'[r].pc = "enter" /\ ~rd'[r].hit /\ rd'[r].buf = NoBuf
BY DEF Types, Get, NoRead

\* getFileNode takes the image of the compaction in flight, of the cache, or
\* goes to the disk.
LEMMA LocateStep ==
  ASSUME Types, NEW r \in Readers, Locate(r)
  PROVE  /\ \A x \in Readers : x # r => rd'[x] = rd[x]
         /\ \/ /\ gc.st # "none"
               /\ rd'[r].pc = "search" /\ rd'[r].snap = gc.snap
               /\ rd'[r].hit = rd[r].hit /\ rd'[r].buf = rd[r].buf /\ refs' = refs
            \/ /\ gc.st = "none" /\ cache # NoBuf
               /\ rd'[r].pc = "search" /\ rd'[r].snap = image
               /\ rd'[r].hit /\ rd'[r].buf = cache /\ refs' = Retain(cache, refs)
            \/ /\ gc.st = "none" /\ cache = NoBuf
               /\ rd'[r].pc = "load"
               /\ rd'[r].hit = rd[r].hit /\ rd'[r].buf = rd[r].buf /\ refs' = refs
<1>1. \A x \in Readers : x # r => rd'[x] = rd[x]
  BY DEF Types, Locate
<1>2. CASE gc.st # "none"
  <2>1. /\ rd'[r].pc = "search" /\ rd'[r].snap = gc.snap
        /\ rd'[r].hit = rd[r].hit /\ rd'[r].buf = rd[r].buf /\ refs' = refs
    BY <1>2 DEF Types, Locate
  <2> QED BY <1>1, <1>2, <2>1, Zenon
<1>3. CASE gc.st = "none" /\ cache # NoBuf
  <2>1. /\ rd'[r].pc = "search" /\ rd'[r].snap = image
        /\ rd'[r].hit /\ rd'[r].buf = cache /\ refs' = Retain(cache, refs)
    BY <1>3 DEF Types, Locate
  <2> QED BY <1>1, <1>3, <2>1, Zenon
<1>4. CASE gc.st = "none" /\ cache = NoBuf
  <2>1. /\ rd'[r].pc = "load"
        /\ rd'[r].hit = rd[r].hit /\ rd'[r].buf = rd[r].buf /\ refs' = refs
    BY <1>4 DEF Types, Locate
  <2> QED BY <1>1, <1>4, <2>1, Zenon
<1> QED BY <1>2, <1>3, <1>4, Zenon

\* readDecodedFileNode searches the file it read, in a buffer of its own.
LEMMA LoadStep ==
  ASSUME Types, Counts, NEW r \in Readers, readDecodedFileNode(r)
  PROVE  /\ \A x \in Readers : x # r => rd'[x] = rd[x]
         /\ \E b \in Buffers :
              /\ refs[b] = 0 /\ cache' = b /\ image' = file
              /\ refs' = [Release(cache, refs) EXCEPT ![b] = 1]
              /\ rd'[r].pc = "search" /\ rd'[r].snap = file
              /\ rd'[r].hit = rd[r].hit /\ rd'[r].buf = b
<1>1. PICK b \in BorrowForLoad :
        /\ setFileNodeCache(b, file, refs)
        /\ rd' = [rd EXCEPT ![r].pc = "search", ![r].buf = b, ![r].snap = file]
  BY Zenon DEF readDecodedFileNode
<1>2. b \in Buffers /\ refs[b] = 0
  BY BorrowedIsFree, Zenon DEF readDecodedFileNode
<1>3. cache' = b /\ image' = file /\ refs' = [Release(cache, refs) EXCEPT ![b] = 1]
  BY <1>1, Zenon DEF setFileNodeCache, invalidateFileNodeCache
<1>4. \A x \in Readers : x # r => rd'[x] = rd[x]
  BY <1>1 DEF Types
<1>5. /\ rd'[r].pc = "search" /\ rd'[r].snap = file
      /\ rd'[r].hit = rd[r].hit /\ rd'[r].buf = b
  BY <1>1 DEF Types
<1> QED BY <1>2, <1>3, <1>4, <1>5, Zenon

\* The search keeps the reader's image and buffer.
LEMMA SearchStep ==
  ASSUME Inv, NEW r \in Readers, Search(r)
  PROVE  /\ \A x \in Readers : x # r => rd'[x] = rd[x] /\ got'[x] = got[x]
         /\ rd'[r].pc = "schedule" /\ rd'[r].snap = rd[r].snap
         /\ rd'[r].hit = rd[r].hit /\ rd'[r].buf = rd[r].buf
         /\ \E k \in Keys :
              /\ rd'[r].key = k /\ got'[r] = Content[k] /\ got' = [got EXCEPT ![r] = Content[k]]
<1>1. Types
  BY DEF Inv
<1>2. PICK k \in Keys :
        /\ got' = [got EXCEPT ![r] = getFromFileNodeWithBreakdown(rd[r].snap, k)]
        /\ rd' = [rd EXCEPT ![r].pc = "schedule", ![r].key = k]
  BY Zenon DEF Search
<1>3. getFromFileNodeWithBreakdown(rd[r].snap, k) = Content[k]
  BY SearchType, Zenon DEF Search
<1>4. /\ rd'[r].pc = "schedule" /\ rd'[r].snap = rd[r].snap /\ rd'[r].key = k
      /\ rd'[r].hit = rd[r].hit /\ rd'[r].buf = rd[r].buf
      /\ \A x \in Readers : x # r => rd'[x] = rd[x]
  BY <1>1, <1>2 DEF Types
<1>5. got' = [got EXCEPT ![r] = Content[k]]
  BY <1>2, <1>3, Zenon
<1>6. got'[r] = Content[k] /\ \A x \in Readers : x # r => got'[x] = got[x]
  BY <1>1, <1>5 DEF Types
<1> QED BY <1>4, <1>5, <1>6, Zenon

\* The end of Get lets everything go and may schedule a compaction.
LEMMA FinishStep ==
  ASSUME Types, NEW r \in Readers, FinishGet(r)
  PROVE  /\ \A x \in Readers : x # r => rd'[x] = rd[x] /\ got'[x] = got[x]
         /\ rd'[r].pc = "idle" /\ ~rd'[r].hit /\ rd'[r].buf = NoBuf
         /\ \/ gc' = gc
            \/ gc.st = "none" /\ gc'.st = "queued" /\ gc'.snap = rd[r].snap
<1>1. /\ \A x \in Readers : x # r => rd'[x] = rd[x] /\ got'[x] = got[x]
      /\ rd'[r].pc = "idle" /\ ~rd'[r].hit /\ rd'[r].buf = NoBuf
  BY DEF Types, FinishGet, NoRead
<1>2. \/ gc' = gc
      \/ gc.st = "none" /\ gc' = [st |-> "queued", snap |-> rd[r].snap]
  BY Zenon DEF FinishGet, maybeScheduleGC
<1>3. \/ gc' = gc
      \/ gc.st = "none" /\ gc'.st = "queued" /\ gc'.snap = rd[r].snap
  BY <1>2
<1> QED BY <1>1, <1>3, Zenon

-----------------------------------------------------------------------------
\* Every step keeps the locks' meaning.
LEMMA LocksKept ==
  ASSUME Inv, Next
  PROVE  Locks'
<1>1. Types /\ Locks /\ Counts
  BY DEF Inv
<1>2. gc \in [st : {"none", "queued", "start", "write", "finish"}, snap : AnyFile]
  BY <1>1 DEF Types
<1>3. CASE WantWrite
  BY <1>1, <1>3 DEF Locks, WantWrite
<1>4. CASE PutNodeInfosWithBlockID
  BY <1>1, <1>4 DEF Locks, PutNodeInfosWithBlockID
<1>5. CASE beginFileMutation
  BY <1>1, <1>5 DEF Locks, beginFileMutation
<1>6. CASE appendFileNodeEntriesWithBlockID
  BY <1>1, <1>6 DEF Locks, appendFileNodeEntriesWithBlockID
<1>7. ASSUME NEW r \in Readers, Get(r) PROVE Locks'
  <2>1. /\ \A x \in Readers : x # r => rd'[x] = rd[x]
        /\ rd'[r].pc = "enter"
    BY <1>1, <1>7, GetStep, Zenon
  <2> QED BY <1>1, <1>7, <2>1 DEF Locks, Get
<1>8. ASSUME NEW r \in Readers, Locate(r) PROVE Locks'
  <2>1. \A x \in Readers : x # r => rd'[x] = rd[x]
    BY <1>1, <1>8, LocateStep, Zenon
  <2> QED BY <1>1, <1>8, <2>1 DEF Locks, Locate
<1>9. ASSUME NEW r \in Readers, readDecodedFileNode(r) PROVE Locks'
  <2>1. \A x \in Readers : x # r => rd'[x] = rd[x]
    BY <1>1, <1>9, LoadStep, Zenon
  <2>2. gc.st # "write" /\ treeLock = "free"
    BY <1>1, <1>9 DEF Locks, readDecodedFileNode
  <2> QED BY <1>1, <1>9, <2>1, <2>2 DEF Locks, readDecodedFileNode
<1>10. ASSUME NEW r \in Readers, Search(r) PROVE Locks'
  <2>1. /\ \A x \in Readers : x # r => rd'[x] = rd[x]
        /\ rd'[r].pc = "schedule"
    BY <1>10, SearchStep, Zenon
  <2>2. gc.st # "write" /\ treeLock = "free"
    BY <1>1, <1>10 DEF Locks, Search
  <2> QED BY <1>1, <1>10, <2>1, <2>2 DEF Locks, Search
<1>11. ASSUME NEW r \in Readers, FinishGet(r) PROVE Locks'
  <2>1. /\ \A x \in Readers : x # r => rd'[x] = rd[x]
        /\ rd'[r].pc = "idle"
        /\ \/ gc' = gc
           \/ gc.st = "none" /\ gc'.st = "queued" /\ gc'.snap = rd[r].snap
    BY <1>1, <1>11, FinishStep, Zenon
  <2>2. treeLock = "free" /\ wpc # "append"
    BY <1>1, <1>11 DEF Locks, FinishGet
  <2>3. gc'.st = "write" <=> gc.st = "write"
    BY <2>1
  <2>4. UNCHANGED <<treeLock, wpc, spc, fileLock, cache, writes>>
    BY <1>11, Zenon DEF FinishGet
  <2> QED BY <1>1, <2>1, <2>2, <2>3, <2>4 DEF Locks
<1>12. CASE EvictFileNode
  BY <1>1, <1>12 DEF Locks, EvictFileNode
<1>13. CASE acquireSharedGCWorker
  BY <1>1, <1>2, <1>13 DEF Locks, acquireSharedGCWorker
<1>14. CASE StorageGCTakes \/ StorageGCReturns
  BY <1>1, <1>14 DEF Locks, StorageGCTakes, StorageGCReturns
<1>15. CASE BeginCompact
  BY <1>1, <1>2, <1>15 DEF Locks, BeginCompact
<1>16. CASE compactFileFromState
  <2>1. gc'.st = "finish" /\ fileLock' = "free" /\ gc.st = "write"
    BY <1>2, <1>16 DEF compactFileFromState
  <2>2. UNCHANGED <<treeLock, wpc, spc, rd, writes>>
    BY <1>16, Zenon DEF compactFileFromState
  <2> QED BY <1>1, <2>1, <2>2 DEF Locks
<1>17. CASE CompactFails
  BY <1>1, <1>2, <1>17 DEF Locks, CompactFails
<1>18. CASE finishGC
  <2>1. gc'.st = "none" BY <1>18 DEF finishGC, NoGC
  <2> QED BY <1>1, <1>18, <2>1 DEF Locks, finishGC
<1>19. CASE WantSweep
  BY <1>1, <1>19 DEF Locks, WantSweep
<1>20. CASE CompactAllNodeFiles
  BY <1>1, <1>20 DEF Locks, CompactAllNodeFiles
<1>21. CASE buildGCStateFromFile
  <2>1. /\ gc.st = "none" /\ gc'.st # "write"
        /\ gc'.st # "none" => wpc' # "append"
    BY <1>1, <1>21 DEF Locks, buildGCStateFromFile
  <2> QED BY <1>1, <1>21, <2>1 DEF Locks, buildGCStateFromFile
<1>22. CASE runGCJobsInParallel
  BY <1>1, <1>22 DEF Locks, runGCJobsInParallel
<1> QED
  BY <1>3, <1>4, <1>5, <1>6, <1>7, <1>8, <1>9, <1>10, <1>11, <1>12, <1>13, <1>14, <1>15,
     <1>16, <1>17, <1>18, <1>19, <1>20, <1>21, <1>22, Zenon
     DEF Next, Write, Read, Compact, Sweep

-----------------------------------------------------------------------------
\* The reference counts change only with the cache, the readers and the counts.
LEMMA CountsUnchanged ==
  ASSUME Counts, UNCHANGED <<cache, refs, rd>>
  PROVE  Counts'
BY Zenon DEF Counts, Holders

\* A reader that holds no reference comes, goes or changes its place.
LEMMA CountsOfOthers ==
  ASSUME Types, Counts, UNCHANGED <<cache, refs>>, NEW r \in Readers,
         \A x \in Readers : x # r => rd'[x] = rd[x],
         ~rd[r].hit, ~rd'[r].hit,
         rd'[r].pc \in {"idle", "enter", "load"} => rd'[r].buf = NoBuf
  PROVE  Counts'
<1>1. ASSUME NEW b \in Buffers PROVE Holders(b)' = Holders(b)
  BY Zenon DEF Holders
<1>2. ASSUME NEW b \in Buffers
      PROVE  refs'[b] = Cardinality(Holders(b)') + (IF cache' = b THEN 1 ELSE 0)
  BY <1>1, Zenon DEF Counts
<1>3. ASSUME NEW x \in Readers
      PROVE  /\ rd'[x].hit => rd'[x].buf \in Buffers
             /\ rd'[x].pc \in {"idle", "enter", "load"} => ~rd'[x].hit /\ rd'[x].buf = NoBuf
  <2>1. CASE x = r BY <2>1, Zenon
  <2>2. CASE x # r BY <2>2, Zenon DEF Counts
  <2> QED BY <2>1, <2>2
<1> QED BY <1>2, <1>3, Zenon DEF Counts

\* The cache gives up its buffer, or takes one without references instead.
LEMMA CountsOfCache ==
  ASSUME Types, Counts, NEW b \in Buffers \union {NoBuf}, b # NoBuf => refs[b] = 0,
         cache' = b,
         refs' = IF b = NoBuf THEN Release(cache, refs) ELSE [Release(cache, refs) EXCEPT ![b] = 1],
         \A x \in Readers : rd'[x].hit = rd[x].hit,
         \A x \in Readers : rd[x].hit => rd'[x].buf = rd[x].buf
  PROVE  \A c \in Buffers : refs'[c] = Cardinality(Holders(c)') + (IF cache' = c THEN 1 ELSE 0)
<1> SUFFICES ASSUME NEW c \in Buffers
             PROVE  refs'[c] = Cardinality(Holders(c)') + (IF cache' = c THEN 1 ELSE 0)
  OBVIOUS
<1>1. Holders(c)' = Holders(c)
  BY Zenon DEF Holders
<1>2. Cardinality(Holders(c)) \in Nat
  <2>1. Holders(c) \subseteq Readers
    BY DEF Holders
  <2> QED BY <2>1, ReadersAssumption, FS_Subset, FS_CardinalityType, Zenon
<1>3. refs[c] = Cardinality(Holders(c)) + (IF cache = c THEN 1 ELSE 0)
  BY Zenon DEF Counts
<1>4. Release(cache, refs)[c] = Cardinality(Holders(c))
  <2>1. CASE cache = c
    <3>1. cache # NoBuf BY <2>1, BuffersAssumption, Zenon
    <3>2. Release(cache, refs)[c] = refs[c] - 1
      BY <2>1, <3>1 DEF Release, Types
    <3> QED BY <1>2, <1>3, <2>1, <3>2
  <2>2. CASE cache # c
    <3>1. Release(cache, refs)[c] = refs[c]
      BY <2>2 DEF Release, Types
    <3> QED BY <1>2, <1>3, <2>2, <3>1
  <2> QED BY <2>1, <2>2
<1>5. Release(cache, refs) \in [Buffers -> Int]
  BY DEF Release, Types
<1>6. CASE b = c
  <2>1. b # NoBuf /\ refs[c] = 0 BY <1>6, BuffersAssumption, Zenon
  <2>2. Cardinality(Holders(c)) = 0
    BY <1>2, <1>3, <2>1
  <2>3. refs'[c] = 1
    BY <1>5, <1>6, <2>1
  <2> QED BY <1>1, <1>6, <2>2, <2>3
<1>7. CASE b # c
  <2>1. refs'[c] = Release(cache, refs)[c]
    BY <1>5, <1>7
  <2>2. refs'[c] = Cardinality(Holders(c)') + 0
    BY <1>1, <1>2, <1>4, <2>1
  <2> QED BY <1>7, <2>2, Zenon
<1> QED BY <1>6, <1>7

\* A reader retains the cached buffer or releases the one it held.
LEMMA CountsOfReader ==
  ASSUME Types, Counts, NEW r \in Readers, NEW b \in Buffers, cache' = cache,
         \A x \in Readers : x # r => rd'[x] = rd[x],
         \/ /\ ~rd[r].hit /\ rd'[r].hit /\ rd'[r].buf = b /\ refs' = Retain(b, refs)
         \/ /\ rd[r].hit /\ rd[r].buf = b /\ ~rd'[r].hit /\ refs' = [refs EXCEPT ![b] = @ - 1]
  PROVE  \A c \in Buffers : refs'[c] = Cardinality(Holders(c)') + (IF cache' = c THEN 1 ELSE 0)
<1> SUFFICES ASSUME NEW c \in Buffers
             PROVE  refs'[c] = Cardinality(Holders(c)') + (IF cache' = c THEN 1 ELSE 0)
  OBVIOUS
<1>1. Holders(c) \subseteq Readers
  BY DEF Holders
<1>2. IsFiniteSet(Holders(c)) /\ Cardinality(Holders(c)) \in Nat
  BY <1>1, ReadersAssumption, FS_Subset, FS_CardinalityType, Zenon
<1>3. refs[c] = Cardinality(Holders(c)) + (IF cache = c THEN 1 ELSE 0)
  BY Zenon DEF Counts
<1>4. refs \in [Buffers -> Nat]
  BY DEF Types
<1>5. CASE c # b
  <2>1. Holders(c)' = Holders(c)
    <3>1. ASSUME NEW x \in Readers
          PROVE  (rd'[x].hit /\ rd'[x].buf = c) <=> (rd[x].hit /\ rd[x].buf = c)
      BY <1>5, Zenon
    <3> QED BY <3>1, Zenon DEF Holders
  <2>2. refs'[c] = refs[c]
    BY <1>4, <1>5 DEF Retain
  <2> QED BY <1>3, <2>1, <2>2, Zenon
<1>6. CASE c = b /\ rd'[r].hit
  <2>1. Holders(c)' = Holders(c) \union {r} /\ r \notin Holders(c)
    BY <1>6, Zenon DEF Holders
  <2>2. Cardinality(Holders(c)') = Cardinality(Holders(c)) + 1
    BY <1>2, <2>1, FS_AddElement, Zenon
  <2>3. refs'[c] = refs[c] + 1
    BY <1>4, <1>6 DEF Retain
  <2> QED BY <1>2, <1>3, <2>2, <2>3
<1>7. CASE c = b /\ ~rd'[r].hit
  <2>1. Holders(c)' = Holders(c) \ {r} /\ r \in Holders(c)
    BY <1>7, Zenon DEF Holders
  <2>2. Cardinality(Holders(c)') = Cardinality(Holders(c)) - 1
    BY <1>2, <2>1, FS_RemoveElement, Zenon
  <2>3. refs'[c] = refs[c] - 1
    BY <1>4, <1>7
  <2> QED BY <1>2, <1>3, <2>2, <2>3
<1> QED BY <1>5, <1>6, <1>7, Zenon

\* Every step keeps the counts.
LEMMA CountsKept ==
  ASSUME Inv, Next
  PROVE  Counts'
<1> DEFINE Counted == \A c \in Buffers :
                        refs[c] = Cardinality(Holders(c)) + (IF cache = c THEN 1 ELSE 0)
           Tidy == \A x \in Readers :
                     /\ rd[x].hit => rd[x].buf \in Buffers
                     /\ rd[x].pc \in {"idle", "enter", "load"} => ~rd[x].hit /\ rd[x].buf = NoBuf
<1>1. Types /\ Locks /\ Counts
  BY DEF Inv
<1>2. Counted' /\ Tidy' => Counts'
  BY Zenon DEF Counts
<1>3. Tidy
  BY <1>1, Zenon DEF Counts
<1>4. CASE UNCHANGED <<cache, refs, rd>>
  BY <1>1, <1>4, CountsUnchanged, Zenon
<1>5. CASE /\ cache' = NoBuf /\ refs' = Release(cache, refs) /\ rd' = rd
  <2>1. Counted'
    BY <1>1, <1>5, CountsOfCache
  <2>2. Tidy'
    BY <1>3, <1>5, Zenon
  <2> QED BY <1>2, <2>1, <2>2, Zenon
<1>6. ASSUME NEW r \in Readers, Get(r) PROVE Counts'
  <2>1. /\ \A x \in Readers : x # r => rd'[x] = rd[x]
        /\ rd'[r].pc = "enter" /\ ~rd'[r].hit /\ rd'[r].buf = NoBuf
    BY <1>1, <1>6, GetStep, Zenon
  <2>2. ~rd[r].hit /\ UNCHANGED <<cache, refs>>
    BY <1>3, <1>6, Zenon DEF Get
  <2> QED BY <1>1, <2>1, <2>2, CountsOfOthers, Zenon
<1>7. ASSUME NEW r \in Readers, Locate(r) PROVE Counts'
  <2>1. \A x \in Readers : x # r => rd'[x] = rd[x]
    BY <1>1, <1>7, LocateStep, Zenon
  <2>2. ~rd[r].hit /\ rd[r].buf = NoBuf /\ cache' = cache
    BY <1>3, <1>7, Zenon DEF Locate
  <2>3. CASE refs' = refs /\ rd'[r].hit = rd[r].hit /\ rd'[r].buf = rd[r].buf
    BY <1>1, <2>1, <2>2, <2>3, CountsOfOthers, Zenon
  <2>4. CASE /\ cache # NoBuf /\ rd'[r].pc = "search"
             /\ rd'[r].hit /\ rd'[r].buf = cache /\ refs' = Retain(cache, refs)
    <3>1. cache \in Buffers
      BY <1>1, <2>4, Zenon DEF Types
    <3>2. Counted'
      BY <1>1, <2>1, <2>2, <2>4, <3>1, CountsOfReader
    <3>3. Tidy'
      <4> SUFFICES ASSUME NEW x \in Readers
                   PROVE  /\ rd'[x].hit => rd'[x].buf \in Buffers
                          /\ rd'[x].pc \in {"idle", "enter", "load"} => ~rd'[x].hit /\ rd'[x].buf = NoBuf
        OBVIOUS
      <4>1. CASE x = r BY <2>4, <3>1, <4>1
      <4>2. CASE x # r BY <1>3, <2>1, <4>2, Zenon
      <4> QED BY <4>1, <4>2
    <3> QED BY <1>2, <3>2, <3>3, Zenon
  <2> QED BY <1>1, <1>7, <2>3, <2>4, LocateStep, Zenon
<1>8. ASSUME NEW r \in Readers, readDecodedFileNode(r) PROVE Counts'
  <2>1. \A x \in Readers : x # r => rd'[x] = rd[x]
    BY <1>1, <1>8, LoadStep, Zenon
  <2>2. PICK b \in Buffers :
          /\ refs[b] = 0 /\ cache' = b
          /\ refs' = [Release(cache, refs) EXCEPT ![b] = 1]
          /\ rd'[r].pc = "search" /\ rd'[r].hit = rd[r].hit
    BY <1>1, <1>8, LoadStep, Zenon
  <2>3. ~rd[r].hit
    BY <1>3, <1>8, Zenon DEF readDecodedFileNode
  <2>4. Counted'
    <3>1. b # NoBuf BY BuffersAssumption, Zenon
    <3>2. \A x \in Readers : rd'[x].hit = rd[x].hit
      BY <2>1, <2>2, Zenon
    <3>3. \A x \in Readers : rd[x].hit => rd'[x].buf = rd[x].buf
      BY <2>1, <2>3, Zenon
    <3> QED BY <1>1, <2>2, <3>1, <3>2, <3>3, CountsOfCache
  <2>5. Tidy'
    <3> SUFFICES ASSUME NEW x \in Readers
                 PROVE  /\ rd'[x].hit => rd'[x].buf \in Buffers
                        /\ rd'[x].pc \in {"idle", "enter", "load"} => ~rd'[x].hit /\ rd'[x].buf = NoBuf
      OBVIOUS
    <3>1. CASE x = r BY <2>2, <2>3, <3>1
    <3>2. CASE x # r BY <1>3, <2>1, <3>2, Zenon
    <3> QED BY <3>1, <3>2
  <2> QED BY <1>2, <2>4, <2>5, Zenon
<1>9. ASSUME NEW r \in Readers, Search(r) PROVE Counts'
  <2>1. /\ \A x \in Readers : x # r => rd'[x] = rd[x]
        /\ rd'[r].pc = "schedule"
        /\ rd'[r].hit = rd[r].hit /\ rd'[r].buf = rd[r].buf
    BY <1>9, SearchStep, Zenon
  <2>2. UNCHANGED <<cache, refs>>
    BY <1>9, Zenon DEF Search
  <2>3. ASSUME NEW x \in Readers PROVE rd'[x].hit = rd[x].hit /\ rd'[x].buf = rd[x].buf
    BY <2>1, Zenon
  <2>4. Counted'
    <3>1. ASSUME NEW c \in Buffers PROVE Holders(c)' = Holders(c)
      BY <2>3, Zenon DEF Holders
    <3> QED BY <1>1, <2>2, <3>1, Zenon DEF Counts
  <2>5. Tidy'
    <3> SUFFICES ASSUME NEW x \in Readers
                 PROVE  /\ rd'[x].hit => rd'[x].buf \in Buffers
                        /\ rd'[x].pc \in {"idle", "enter", "load"} => ~rd'[x].hit /\ rd'[x].buf = NoBuf
      OBVIOUS
    <3>1. CASE x = r BY <1>3, <2>1, <3>1
    <3>2. CASE x # r BY <1>3, <2>1, <3>2, Zenon
    <3> QED BY <3>1, <3>2
  <2> QED BY <1>2, <2>4, <2>5, Zenon
<1>10. ASSUME NEW r \in Readers, FinishGet(r) PROVE Counts'
  <2>1. /\ \A x \in Readers : x # r => rd'[x] = rd[x]
        /\ rd'[r].pc = "idle" /\ ~rd'[r].hit /\ rd'[r].buf = NoBuf
    BY <1>1, <1>10, FinishStep, Zenon
  <2>2. cache' = cache
    BY <1>10, Zenon DEF FinishGet
  <2>3. CASE ~rd[r].hit
    <3>1. refs' = refs BY <1>10, <2>3, Zenon DEF FinishGet
    <3> QED BY <1>1, <2>1, <2>2, <2>3, <3>1, CountsOfOthers, Zenon
  <2>4. CASE rd[r].hit
    <3> DEFINE b == rd[r].buf
    <3>1. b \in Buffers /\ b # NoBuf
      BY <1>3, <2>4, BuffersAssumption, Zenon
    <3>2. refs' = [refs EXCEPT ![b] = @ - 1]
      BY <1>10, <2>4, <3>1, Zenon DEF FinishGet, Release
    <3>3. Counted'
      BY <1>1, <2>1, <2>2, <2>4, <3>1, <3>2, CountsOfReader
    <3>4. Tidy'
      <4> SUFFICES ASSUME NEW x \in Readers
                   PROVE  /\ rd'[x].hit => rd'[x].buf \in Buffers
                          /\ rd'[x].pc \in {"idle", "enter", "load"} => ~rd'[x].hit /\ rd'[x].buf = NoBuf
        OBVIOUS
      <4>1. CASE x = r BY <2>1, <4>1
      <4>2. CASE x # r BY <1>3, <2>1, <4>2, Zenon
      <4> QED BY <4>1, <4>2
    <3> QED BY <1>2, <3>3, <3>4, Zenon
  <2> QED BY <2>3, <2>4, Zenon
<1>11. CASE compactFileFromState
  <2> DEFINE b == FreshBuffer(refs)
  <2>1. cache = NoBuf
    BY <1>1, <1>11 DEF compactFileFromState, Locks
  <2>2. b \in Buffers /\ refs[b] = 0 /\ b # NoBuf
    BY <1>1, <2>1, FreshBufferExists, BuffersAssumption, Zenon
  <2>3. cache' = b /\ rd' = rd /\ refs' = [Release(cache, refs) EXCEPT ![b] = 1]
    BY <1>11, Zenon DEF compactFileFromState, setFileNodeCache, invalidateFileNodeCache
  <2> HIDE DEF b
  <2>4. Counted'
    BY <1>1, <2>2, <2>3, CountsOfCache
  <2>5. Tidy'
    BY <1>3, <2>3, Zenon
  <2> QED BY <1>2, <2>4, <2>5, Zenon
<1>12. CASE appendFileNodeEntriesWithBlockID \/ EvictFileNode \/ BeginCompact
  BY <1>5, <1>12, Zenon
     DEF appendFileNodeEntriesWithBlockID, EvictFileNode, BeginCompact, invalidateFileNodeCache
<1>13. CASE \/ WantWrite \/ PutNodeInfosWithBlockID \/ beginFileMutation \/ acquireSharedGCWorker
            \/ StorageGCTakes \/ StorageGCReturns \/ CompactFails \/ finishGC \/ WantSweep
            \/ CompactAllNodeFiles \/ buildGCStateFromFile \/ runGCJobsInParallel
  BY <1>4, <1>13, Zenon
     DEF WantWrite, PutNodeInfosWithBlockID, beginFileMutation, acquireSharedGCWorker,
         StorageGCTakes, StorageGCReturns, CompactFails, finishGC, WantSweep,
         CompactAllNodeFiles, buildGCStateFromFile, runGCJobsInParallel
<1> QED
  BY <1>6, <1>7, <1>8, <1>9, <1>10, <1>11, <1>12, <1>13, Zenon
     DEF Next, Write, Read, Compact, Sweep

-----------------------------------------------------------------------------
\* What a reader may rely on.
ReaderSees(r) ==
    /\ rd[r].pc \in {"search", "schedule"} =>
         Good(rd[r].snap) /\ buildEntriesFromSlices(rd[r].snap) = Content
    /\ rd[r].pc = "schedule" => rd[r].key \in Keys /\ got[r] = Content[rd[r].key]

\* The contents hold in parts: the file, the compaction, the cache, the readers.
LEMMA ContentsParts ==
  /\ Contents <=> /\ Good(file) /\ file \in [sorted : [Keys -> Infos], unsorted : Seq(Entries)]
                  /\ Content \in [Keys -> Infos]
                  /\ gc.st # "none" => Good(gc.snap) /\ buildEntriesFromSlices(gc.snap) = Content
                  /\ cache # NoBuf => image = file
                  /\ \A r \in Readers : ReaderSees(r)
BY Zenon DEF Contents, ReaderSees

\* A step that leaves the file alone, and neither the compaction, the cache nor
\* a reader with a wrong image, keeps the contents.
LEMMA ContentsSameFile ==
  ASSUME Contents, file' = file,
         \/ gc'.st = "none"
         \/ gc'.snap = gc.snap /\ gc.st # "none"
         \/ Good(gc'.snap) /\ buildEntriesFromSlices(gc'.snap) = Content,
         \/ cache' = NoBuf
         \/ UNCHANGED <<cache, image>>
         \/ image' = file,
         \A r \in Readers : (rd'[r] = rd[r] /\ got'[r] = got[r]) \/ ReaderSees(r)'
  PROVE  Contents'
<1>1. Content' = Content
  BY Zenon DEF Content
<1>2. /\ Good(file) /\ file \in [sorted : [Keys -> Infos], unsorted : Seq(Entries)]
      /\ Content \in [Keys -> Infos]
      /\ gc.st # "none" => Good(gc.snap) /\ buildEntriesFromSlices(gc.snap) = Content
      /\ cache # NoBuf => image = file
      /\ \A r \in Readers : ReaderSees(r)
  BY ContentsParts, Zenon
<1>3. ASSUME NEW r \in Readers PROVE ReaderSees(r)'
  <2>1. CASE rd'[r] = rd[r] /\ got'[r] = got[r]
    BY <1>1, <1>2, <2>1, Zenon DEF ReaderSees
  <2> QED BY <2>1, Zenon
<1>4. Good(file') /\ file' \in [sorted : [Keys -> Infos], unsorted : Seq(Entries)]
      /\ Content' \in [Keys -> Infos]
  BY <1>1, <1>2, Zenon
<1>5. gc'.st # "none" => Good(gc'.snap) /\ buildEntriesFromSlices(gc'.snap) = Content'
  BY <1>1, <1>2, Zenon
<1>6. cache' # NoBuf => image' = file'
  BY <1>2, Zenon
<1> QED BY <1>3, <1>4, <1>5, <1>6, Zenon DEF Contents, ReaderSees

\* Every step keeps every image in use equal to the file in content.
LEMMA ContentsKept ==
  ASSUME Inv, NoRecreateAssumption, Next
  PROVE  Contents'
<1>1. Types /\ Locks /\ Counts /\ Contents
  BY DEF Inv
<1>2. /\ Good(file) /\ file \in [sorted : [Keys -> Infos], unsorted : Seq(Entries)]
      /\ Content \in [Keys -> Infos]
      /\ gc.st # "none" => Good(gc.snap) /\ buildEntriesFromSlices(gc.snap) = Content
      /\ cache # NoBuf => image = file
      /\ \A r \in Readers : ReaderSees(r)
  BY <1>1, ContentsParts, Zenon
<1>3. gc \in [st : {"none", "queued", "start", "write", "finish"}, snap : AnyFile]
  BY <1>1 DEF Types
<1>4. CASE UNCHANGED <<file, gc, cache, image, rd, got>>
  BY <1>1, <1>4, ContentsSameFile, Zenon
<1>5. CASE appendFileNodeEntriesWithBlockID
  <2>1. PICK es \in Writable : file' = [file EXCEPT !.unsorted = @ \o es]
    BY <1>5, Zenon DEF appendFileNodeEntriesWithBlockID
  <2>2. /\ writes < MaxWrites /\ gc'.st = "none" /\ cache' = NoBuf
        /\ \A r \in Readers : rd'[r].pc = "idle"
    BY <1>1, <1>5 DEF Locks, appendFileNodeEntriesWithBlockID
  <2>3. /\ Good(file') /\ file' \in [sorted : [Keys -> Infos], unsorted : Seq(Entries)]
        /\ \E k \in Keys, i \in Infos : buildEntriesFromSlices(file') = [Content EXCEPT ![k] = i]
    BY <1>1, <2>1, <2>2, AppendReplaces, Zenon
  <2>4. Content' \in [Keys -> Infos]
    <3>1. PICK k \in Keys, i \in Infos : Content' = [Content EXCEPT ![k] = i]
      BY <2>3, Zenon DEF Content
    <3> QED BY <1>2, <3>1
  <2> QED BY <2>2, <2>3, <2>4 DEF Contents
<1>6. ASSUME NEW r \in Readers, Get(r) PROVE Contents'
  <2>1. /\ \A x \in Readers : x # r => rd'[x] = rd[x]
        /\ rd'[r].pc = "enter"
    BY <1>1, <1>6, GetStep, Zenon
  <2>2. UNCHANGED <<file, gc, cache, image, got>>
    BY <1>6, Zenon DEF Get
  <2>3. ReaderSees(r)'
    BY <2>1 DEF ReaderSees
  <2>4. \A x \in Readers : (rd'[x] = rd[x] /\ got'[x] = got[x]) \/ ReaderSees(x)'
    BY <2>1, <2>2, <2>3, Zenon
  <2> QED BY <1>1, <2>2, <2>4, ContentsSameFile, Zenon
<1>7. ASSUME NEW r \in Readers, Locate(r) PROVE Contents'
  <2>1. \A x \in Readers : x # r => rd'[x] = rd[x]
    BY <1>1, <1>7, LocateStep, Zenon
  <2>2. UNCHANGED <<file, gc, cache, image, got>>
    BY <1>7, Zenon DEF Locate
  <2>3. \/ gc.st # "none" /\ rd'[r].pc = "search" /\ rd'[r].snap = gc.snap
        \/ cache # NoBuf /\ rd'[r].pc = "search" /\ rd'[r].snap = image
        \/ rd'[r].pc = "load"
    BY <1>1, <1>7, LocateStep, Zenon
  <2>4. Content' = Content /\ buildEntriesFromSlices(file) = Content
    BY <2>2, Zenon DEF Content
  <2>5. ReaderSees(r)'
    <3>1. CASE rd'[r].pc = "load"
      BY <3>1 DEF ReaderSees
    <3>2. CASE gc.st # "none" /\ rd'[r].pc = "search" /\ rd'[r].snap = gc.snap
      BY <1>2, <2>4, <3>2 DEF ReaderSees
    <3>3. CASE cache # NoBuf /\ rd'[r].pc = "search" /\ rd'[r].snap = image
      BY <1>2, <2>4, <3>3 DEF ReaderSees
    <3> QED BY <2>3, <3>1, <3>2, <3>3, Zenon
  <2>6. \A x \in Readers : (rd'[x] = rd[x] /\ got'[x] = got[x]) \/ ReaderSees(x)'
    BY <2>1, <2>2, <2>5, Zenon
  <2> QED BY <1>1, <2>2, <2>6, ContentsSameFile, Zenon
<1>8. ASSUME NEW r \in Readers, readDecodedFileNode(r) PROVE Contents'
  <2>1. \A x \in Readers : x # r => rd'[x] = rd[x]
    BY <1>1, <1>8, LoadStep, Zenon
  <2>2. image' = file /\ rd'[r].pc = "search" /\ rd'[r].snap = file
    BY <1>1, <1>8, LoadStep, Zenon
  <2>3. UNCHANGED <<file, gc, got>>
    BY <1>8, Zenon DEF readDecodedFileNode
  <2>4. Content' = Content /\ buildEntriesFromSlices(file) = Content
    BY <2>3, Zenon DEF Content
  <2>5. ReaderSees(r)'
    BY <1>2, <2>2, <2>4 DEF ReaderSees
  <2>6. \A x \in Readers : (rd'[x] = rd[x] /\ got'[x] = got[x]) \/ ReaderSees(x)'
    BY <2>1, <2>3, <2>5, Zenon
  <2> QED BY <1>1, <2>2, <2>3, <2>6, ContentsSameFile, Zenon
<1>9. ASSUME NEW r \in Readers, Search(r) PROVE Contents'
  <2>1. /\ \A x \in Readers : x # r => rd'[x] = rd[x] /\ got'[x] = got[x]
        /\ rd'[r].pc = "schedule" /\ rd'[r].snap = rd[r].snap
        /\ \E k \in Keys : rd'[r].key = k /\ got'[r] = Content[k]
    BY <1>9, SearchStep, Zenon
  <2>2. UNCHANGED <<file, gc, cache, image>> /\ rd[r].pc = "search"
    BY <1>9, Zenon DEF Search
  <2>3. Content' = Content
    BY <2>2, Zenon DEF Content
  <2>4. ReaderSees(r)'
    <3>1. Good(rd[r].snap) /\ buildEntriesFromSlices(rd[r].snap) = Content
      BY <1>2, <2>2 DEF ReaderSees
    <3> QED BY <2>1, <2>3, <3>1, Zenon DEF ReaderSees
  <2>5. \A x \in Readers : (rd'[x] = rd[x] /\ got'[x] = got[x]) \/ ReaderSees(x)'
    BY <2>1, <2>4, Zenon
  <2> QED BY <1>1, <2>2, <2>5, ContentsSameFile, Zenon
<1>10. ASSUME NEW r \in Readers, FinishGet(r) PROVE Contents'
  <2>1. /\ \A x \in Readers : x # r => rd'[x] = rd[x] /\ got'[x] = got[x]
        /\ rd'[r].pc = "idle"
        /\ \/ gc' = gc
           \/ gc.st = "none" /\ gc'.st = "queued" /\ gc'.snap = rd[r].snap
    BY <1>1, <1>10, FinishStep, Zenon
  <2>2. UNCHANGED <<file, cache, image>>
    BY <1>10, Zenon DEF FinishGet
  <2>3. Good(rd[r].snap) /\ buildEntriesFromSlices(rd[r].snap) = Content
    BY <1>2, <1>10 DEF FinishGet, ReaderSees
  <2>4. ReaderSees(r)'
    BY <2>1 DEF ReaderSees
  <2>5. \A x \in Readers : (rd'[x] = rd[x] /\ got'[x] = got[x]) \/ ReaderSees(x)'
    BY <2>1, <2>4, Zenon
  <2>6. \/ gc'.st = "none"
        \/ gc'.snap = gc.snap /\ gc.st # "none"
        \/ Good(gc'.snap) /\ buildEntriesFromSlices(gc'.snap) = Content
    BY <2>1, <2>3, Zenon
  <2> QED BY <1>1, <2>2, <2>5, <2>6, ContentsSameFile, Zenon
<1>11. CASE EvictFileNode
  <2>1. UNCHANGED <<file, gc, rd, got>> /\ cache' = NoBuf
    BY <1>11, Zenon DEF EvictFileNode
  <2> QED BY <1>1, <2>1, ContentsSameFile, Zenon
<1>12. CASE acquireSharedGCWorker \/ CompactFails
  <2>1. gc'.snap = gc.snap /\ gc.st # "none" /\ UNCHANGED <<file, cache, image, rd, got>>
    BY <1>3, <1>12 DEF acquireSharedGCWorker, CompactFails
  <2> QED BY <1>1, <2>1, ContentsSameFile, Zenon
<1>13. CASE BeginCompact
  <2>1. gc'.snap = gc.snap /\ gc.st # "none" /\ cache' = NoBuf /\ UNCHANGED <<file, rd, got>>
    BY <1>3, <1>13 DEF BeginCompact
  <2> QED BY <1>1, <2>1, ContentsSameFile, Zenon
<1>14. CASE compactFileFromState
  <2> DEFINE new == [sorted |-> buildEntriesFromSlices(gc.snap), unsorted |-> <<>>]
  <2>1. gc'.snap = gc.snap /\ gc.st # "none"
    BY <1>3, <1>14 DEF compactFileFromState
  <2>2. file' = new /\ image' = new /\ UNCHANGED <<rd, got>>
    BY <1>14, Zenon DEF compactFileFromState, setFileNodeCache
  <2>3. Good(new) /\ buildEntriesFromSlices(new) = buildEntriesFromSlices(gc.snap)
    BY <1>2, <2>1, CompactedGood, Zenon
  <2>4. new \in [sorted : [Keys -> Infos], unsorted : Seq(Entries)]
    <3>1. buildEntriesFromSlices(gc.snap) \in [Keys -> Infos] BY <1>2, <2>1, Zenon
    <3> QED BY <3>1
  <2> HIDE DEF new
  <2>5. Content' = Content
    BY <1>2, <2>1, <2>2, <2>3, Zenon DEF Content
  <2>6. ASSUME NEW r \in Readers PROVE ReaderSees(r)'
    BY <1>2, <2>2, <2>5, Zenon DEF ReaderSees
  <2>7. Good(file') /\ file' \in [sorted : [Keys -> Infos], unsorted : Seq(Entries)]
        /\ Content' \in [Keys -> Infos]
    BY <1>2, <2>2, <2>3, <2>4, <2>5, Zenon
  <2>8. Good(gc'.snap) /\ buildEntriesFromSlices(gc'.snap) = Content' /\ image' = file'
    BY <1>2, <2>1, <2>2, <2>5, Zenon
  <2> QED BY <2>6, <2>7, <2>8, Zenon DEF Contents, ReaderSees
<1>15. CASE finishGC
  <2>1. gc'.st = "none" /\ UNCHANGED <<file, cache, image, rd, got>>
    BY <1>15 DEF finishGC, NoGC
  <2> QED BY <1>1, <2>1, ContentsSameFile, Zenon
<1>16. CASE buildGCStateFromFile
  <2>1. UNCHANGED <<file, cache, image, rd, got>>
    BY <1>16, Zenon DEF buildGCStateFromFile
  <2>2. gc'.st = "none" \/ gc'.snap = file
    BY <1>16 DEF buildGCStateFromFile
  <2>3. \/ gc'.st = "none"
        \/ Good(gc'.snap) /\ buildEntriesFromSlices(gc'.snap) = Content
    BY <1>2, <2>2, Zenon DEF Content
  <2> QED BY <1>1, <2>1, <2>3, ContentsSameFile, Zenon
<1>17. CASE \/ WantWrite \/ PutNodeInfosWithBlockID \/ beginFileMutation
            \/ StorageGCTakes \/ StorageGCReturns \/ WantSweep
            \/ CompactAllNodeFiles \/ runGCJobsInParallel
  BY <1>4, <1>17, Zenon
     DEF WantWrite, PutNodeInfosWithBlockID, beginFileMutation, StorageGCTakes, StorageGCReturns,
         WantSweep, CompactAllNodeFiles, runGCJobsInParallel
<1> QED
  BY <1>5, <1>6, <1>7, <1>8, <1>9, <1>10, <1>11, <1>12, <1>13, <1>14, <1>15, <1>16, <1>17, Zenon
     DEF Next, Write, Read, Compact, Sweep

-----------------------------------------------------------------------------
\* Theorems

\* A new file is empty and nobody uses it.
LEMMA InitInv ==
  ASSUME Init
  PROVE  Inv
<1> DEFINE none == [k \in Keys |-> NoInfo]
<1>1. NoInfo \in AnyInfo /\ NoInfo \in Infos
  BY BoundsAssumption DEF NoInfo, AnyInfo, Infos
<1>2. none \in [Keys -> AnyInfo] /\ none \in [Keys -> Infos]
  BY <1>1
<1>3. file = [sorted |-> none, unsorted |-> <<>>]
  BY DEF Init
<1>4. file \in AnyFile /\ Content = none
  <2> HIDE DEF none
  <2> QED BY <1>2, <1>3, CompactedKeeps, Zenon DEF Content
<1>5. file \in [sorted : [Keys -> Infos], unsorted : Seq(Entries)]
  BY <1>2, <1>3
<1>6. Good(file)
  <2>1. \A k \in Keys : Hits(file, k) = {}
    BY <1>3 DEF Hits
  <2>2. file.sorted = none BY <1>3
  <2> HIDE DEF none
  <2> QED BY <1>4, <2>1, <2>2, Zenon DEF Good, Wellformed, NewestWins, Content
<1>7. Types
  BY <1>4, NothingTyped, BoundsAssumption DEF Types, Init
<1>8. Locks
  BY DEF Locks, Init, NoRead, NoGC
<1>9. Counts
  <2>1. \A b \in Buffers : refs[b] = 0 /\ cache # b
    BY BuffersAssumption DEF Init
  <2>2. \A r \in Readers : ~rd[r].hit /\ rd[r].buf = NoBuf
    BY DEF Init, NoRead
  <2>3. ASSUME NEW b \in Buffers PROVE Cardinality(Holders(b)) = 0
    <3>1. Holders(b) = {} BY <2>2 DEF Holders
    <3> QED BY <3>1, FS_EmptySet, Zenon
  <2> QED BY <2>1, <2>2, <2>3 DEF Counts
<1>10. Contents
  <2>1. gc.st = "none" /\ cache = NoBuf /\ \A r \in Readers : rd[r].pc = "idle"
    BY DEF Init, NoGC, NoRead
  <2> HIDE DEF none
  <2> QED BY <1>2, <1>4, <1>5, <1>6, <2>1 DEF Contents
<1> QED BY <1>7, <1>8, <1>9, <1>10 DEF Inv

\* Nothing changes while the tree is idle.
LEMMA StutterInv ==
  ASSUME Inv, UNCHANGED vars
  PROVE  Inv'
<1>1. /\ file' = file /\ treeLock' = treeLock /\ wpc' = wpc /\ spc' = spc /\ gc' = gc
      /\ slot' = slot /\ fileLock' = fileLock /\ cache' = cache /\ image' = image
      /\ refs' = refs /\ rd' = rd /\ got' = got /\ writes' = writes
  BY DEF vars
<1>2. Types' BY <1>1 DEF Inv, Types
<1>3. Locks' BY <1>1, Zenon DEF Inv, Locks
<1>4. Counts' BY <1>1, CountsUnchanged, Zenon DEF Inv
<1>5. Contents' BY <1>1, ContentsSameFile, Zenon DEF Inv
<1> QED BY <1>2, <1>3, <1>4, <1>5, Zenon DEF Inv

\* The inductive invariant holds in every reachable state: the locks keep
\* writers, readers and compactions apart, the reference counts are exact and
\* every image in use has the content of the file.
THEOREM Invariance ==
  ASSUME NoRecreateAssumption
  PROVE  Spec => []Inv
<1>1. Init => Inv
  BY InitInv, Zenon
<1>2. Inv /\ [Next]_vars => Inv'
  <2>1. ASSUME Inv, Next PROVE Inv'
    BY <2>1, TypesKept, LocksKept, CountsKept, ContentsKept, Zenon DEF Inv
  <2>2. ASSUME Inv, UNCHANGED vars PROVE Inv'
    BY <2>2, StutterInv, Zenon
  <2> QED BY <2>1, <2>2, Zenon
<1> QED BY <1>1, <1>2, PTL DEF Spec

\* The file, the caches, the locks and the processes keep their types.
THEOREM TypesHold ==
  ASSUME NoRecreateAssumption
  PROVE  Spec => []TypeOK
<1>1. Inv => TypeOK
  BY DEF Inv, Types, Contents, TypeOK
<1> QED BY <1>1, Invariance, PTL

\* Get answers the newest write of its key, from whichever image it searched.
THEOREM LookupsAreCurrent ==
  ASSUME NoRecreateAssumption
  PROVE  Spec => []GetLatest
<1>1. Inv => GetLatest
  BY Zenon DEF Inv, Contents, GetLatest
<1> QED BY <1>1, Invariance, PTL

\* A compaction in flight, even one scheduled from an image read long before,
\* writes back every entry the file holds.
THEOREM CompactionsLoseNothing ==
  ASSUME NoRecreateAssumption
  PROVE  Spec => []CompactLosesNothing
<1>1. Inv => CompactLosesNothing
  BY DEF Inv, Contents, CompactLosesNothing
<1> QED BY <1>1, Invariance, PTL

\* The cached image is the file: no append or compaction leaves an older one.
THEOREM TheCacheIsTheFile ==
  ASSUME NoRecreateAssumption
  PROVE  Spec => []CacheIsFile
<1>1. Inv => CacheIsFile
  BY Zenon DEF Inv, Contents, CacheIsFile
<1> QED BY <1>1, Invariance, PTL

\* A reader that found its image in the cache keeps the buffer out of the pool
\* until it is done, whatever is evicted meanwhile.
THEOREM BuffersAreHeld ==
  ASSUME NoRecreateAssumption
  PROVE  Spec => []HitBufferHeld
<1>1. Inv => HitBufferHeld
  BY HeldIsPositive, Zenon DEF Inv, HitBufferHeld
<1> QED BY <1>1, Invariance, PTL

\* Every step of the tree is a step of the map or none: appends write one key,
\* searches answer, the end of Get takes the answer, and compactions, sweeps,
\* evictions and loads are invisible.
LEMMA StepRefines ==
  ASSUME Inv, NoRecreateAssumption, Next
  PROVE  Map!Next \/ UNCHANGED <<Content, got>>
<1>1. Types /\ Locks /\ Contents
  BY DEF Inv
<1>2. CASE UNCHANGED <<file, got>>
  BY <1>2, Zenon DEF Content
<1>3. CASE appendFileNodeEntriesWithBlockID
  <2>1. PICK es \in Writable : file' = [file EXCEPT !.unsorted = @ \o es]
    BY <1>3, Zenon DEF appendFileNodeEntriesWithBlockID
  <2>2. writes < MaxWrites /\ got' = got
    BY <1>1, <1>3 DEF Locks, appendFileNodeEntriesWithBlockID
  <2>3. \E k \in Keys, i \in Infos : Content' = [Content EXCEPT ![k] = i]
    BY <1>1, <2>1, <2>2, AppendReplaces, Zenon DEF Content
  <2>4. Map!Write
    BY <2>2, <2>3, Zenon DEF Map!Write
  <2> QED BY <2>4, Zenon DEF Map!Next
<1>4. ASSUME NEW r \in Readers, Search(r) PROVE Map!Next
  <2>1. \E k \in Keys : got' = [got EXCEPT ![r] = Content[k]]
    BY <1>4, SearchStep, Zenon
  <2>2. Content' = Content
    BY <1>4, Zenon DEF Search, Content
  <2>3. Map!Answer
    BY <2>1, <2>2, Zenon DEF Map!Answer
  <2> QED BY <2>3, Zenon DEF Map!Next
<1>5. ASSUME NEW r \in Readers, FinishGet(r) PROVE Map!Next
  <2>1. got' = [got EXCEPT ![r] = Unanswered] /\ Content' = Content
    BY <1>5, Zenon DEF FinishGet, Content
  <2>2. Map!Take
    BY <2>1, Zenon DEF Map!Take
  <2> QED BY <2>2, Zenon DEF Map!Next
<1>6. CASE compactFileFromState
  <2>1. Good(gc.snap) /\ buildEntriesFromSlices(gc.snap) = Content
    BY <1>1, <1>6 DEF Contents, compactFileFromState
  <2>2. file' = [sorted |-> buildEntriesFromSlices(gc.snap), unsorted |-> <<>>] /\ got' = got
    BY <1>6, Zenon DEF compactFileFromState
  <2>3. Content' = Content
    BY <2>1, <2>2, CompactedGood, Zenon DEF Content
  <2> QED BY <2>2, <2>3, Zenon
<1>7. CASE \/ WantWrite \/ PutNodeInfosWithBlockID \/ beginFileMutation
           \/ \E r \in Readers : Get(r) \/ Locate(r) \/ readDecodedFileNode(r)
           \/ EvictFileNode \/ acquireSharedGCWorker \/ StorageGCTakes \/ StorageGCReturns
           \/ BeginCompact \/ CompactFails \/ finishGC \/ WantSweep
           \/ CompactAllNodeFiles \/ buildGCStateFromFile \/ runGCJobsInParallel
  BY <1>2, <1>7, Zenon
     DEF WantWrite, PutNodeInfosWithBlockID, beginFileMutation, Get, Locate, readDecodedFileNode,
         EvictFileNode, acquireSharedGCWorker, StorageGCTakes, StorageGCReturns, BeginCompact,
         CompactFails, finishGC, WantSweep, CompactAllNodeFiles, buildGCStateFromFile,
         runGCJobsInParallel
<1> QED
  BY <1>3, <1>4, <1>5, <1>6, <1>7, Zenon DEF Next, Write, Read, Compact, Sweep

\* The prefix tree implements an atomic map: a write takes effect when it is
\* appended, lookups answer the map, and caching, eviction, compaction and
\* sweeps are invisible.
THEOREM TreeImplementsMap ==
  ASSUME NoRecreateAssumption
  PROVE  Spec => ImplementsMap
<1>1. Init => Map!Init
  <2> SUFFICES ASSUME Init PROVE Map!Init
    OBVIOUS
  <2> DEFINE none == [k \in Keys |-> NoInfo]
  <2>1. NoInfo \in AnyInfo
    BY DEF NoInfo, AnyInfo
  <2>2. none \in [Keys -> AnyInfo]
    BY <2>1
  <2>3. file = [sorted |-> none, unsorted |-> <<>>] /\ got = [r \in Readers |-> Unanswered]
    BY DEF Init
  <2>4. Content = none
    <3> HIDE DEF none
    <3> QED BY <2>2, <2>3, CompactedKeeps, Zenon DEF Content
  <2> QED BY <2>3, <2>4, Zenon DEF Map!Init
<1>2. Inv /\ [Next]_vars => [Map!Next]_<<Content, got>>
  <2>1. ASSUME Inv, UNCHANGED vars PROVE UNCHANGED <<Content, got>>
    <3>1. file' = file /\ got' = got BY <2>1 DEF vars
    <3> QED BY <3>1, Zenon DEF Content
  <2>2. ASSUME Inv, Next PROVE Map!Next \/ UNCHANGED <<Content, got>>
    BY <2>2, StepRefines, Zenon
  <2> QED BY <2>1, <2>2, Zenon
<1> QED BY <1>1, <1>2, Invariance, PTL DEF Spec, ImplementsMap, Map!Spec
=============================================================================
