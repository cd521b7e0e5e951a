-------------------------- MODULE NodeEntriesProofs --------------------------
(***************************************************************************)
(* What the lookup and the compaction of a node file make of its entries,  *)
(* for files of any length: both answer the newest entry of a key, as long *)
(* as the writers keep the tail in the form Wellformed describes.          *)
(***************************************************************************)
EXTENDS NodeEntries, TLAPS, WellFoundedInduction

AnyInfo == [off : Nat, stor : Nat]
AnyEntry == [key : Keys, info : AnyInfo] \union {Tag}
AnyFile == [sorted : [Keys -> AnyInfo], unsorted : Seq(AnyEntry)]

\* Where the last entry of the tail that belongs to key k is.
LastHit(f, k) == CHOOSE i \in Hits(f, k) : \A j \in Hits(f, k) : j <= i

\* The form the writers give the tail: nothing follows a tombstone of its key,
\* and once an entry of a key has a storage pointer the later ones have one.
Wellformed(f) ==
    \A k \in Keys : \A i \in Hits(f, k) :
        LET e == f.unsorted[i].info IN
        /\ isNodeInfoTombstone(e) => \A j \in Hits(f, k) : j <= i
        /\ hasStorageInfo(f.sorted[k]) /\ ~isNodeInfoTombstone(e) => hasStorageInfo(e)
        /\ \A j \in Hits(f, k) :
             j <= i /\ hasStorageInfo(f.unsorted[j].info) /\ ~isNodeInfoTombstone(e)
                => hasStorageInfo(e)

\* What the writers intend: the newest entry of a key is its info.
NewestWins(f) ==
    \A k \in Keys :
        buildEntriesFromSlices(f)[k] =
            IF Hits(f, k) = {} THEN f.sorted[k] ELSE f.unsorted[LastHit(f, k)].info

-----------------------------------------------------------------------------
\* Induction: sets of naturals have a least element and bounded ones a greatest

\* A set of naturals that is not empty has a least element; induction over the
\* places of a tail takes the least place where a claim fails.
LEMMA LeastElement ==
  ASSUME NEW S \in SUBSET Nat, S # {}
  PROVE  \E m \in S : \A x \in S : m <= x
<1> DEFINE Less == {p \in Nat \X Nat : p[1] < p[2]}
<1>1. IsWellFoundedOn(Less, Nat)
  BY NatLessThanWellFounded, Zenon DEF OpToRel
<1>2. PICK m \in S : \A x \in S : ~ (<<x, m>> \in Less)
  <2> HIDE DEF Less
  <2> QED BY <1>1, WFMin, Zenon
<1>3. ASSUME NEW x \in S PROVE m <= x
  <2>1. <<x, m>> \notin Less BY <1>2
  <2>2. <<x, m>> \in Nat \X Nat OBVIOUS
  <2> QED BY <2>1, <2>2
<1> QED BY <1>3

\* The places of a key in the tail have a last one.
LEMMA GreatestElement ==
  ASSUME NEW n \in Nat, NEW S \in SUBSET (1..n), S # {}
  PROVE  \E m \in S : \A x \in S : x <= m
<1> DEFINE T == {n - x : x \in S}
<1>1. T \in SUBSET Nat /\ T # {}
  <2>1. ASSUME NEW x \in S PROVE n - x \in Nat
    <3>1. x \in 1..n OBVIOUS
    <3> QED BY <3>1
  <2> QED BY <2>1, Zenon
<1>2. PICK t \in T : \A y \in T : t <= y
  BY <1>1, LeastElement, Zenon
<1>3. PICK m \in S : t = n - m
  BY <1>2
<1>4. ASSUME NEW x \in S PROVE x <= m
  <2>1. t <= n - x BY <1>2, Zenon
  <2>2. m \in 1..n /\ x \in 1..n OBVIOUS
  <2> QED BY <1>3, <2>1, <2>2
<1> QED BY <1>4

-----------------------------------------------------------------------------
\* The merge of the tail

\* One step of the merge.
MergeStep(f, k, n, i) ==
    IF n = 0 THEN f.sorted[k]
    ELSE IF f.unsorted[n].key = k THEN mergeNodeInfoForAppend(i, f.unsorted[n].info)
    ELSE i

\* g merges the first n entries of the tail one after the other.
MergesUpTo(g, f, k, n) == g = [i \in 0..n |-> MergeStep(f, k, i, g[i - 1])]

\* The merge of the first n entries exists: by induction on n.
LEMMA MergeExists ==
  ASSUME NEW f, NEW k, NEW n \in Nat
  PROVE  \E g : MergesUpTo(g, f, k, n)
<1> DEFINE Bad == {m \in Nat : ~ \E g : MergesUpTo(g, f, k, m)}
<1>1. SUFFICES ASSUME Bad # {} PROVE FALSE
  BY <1>1
<1>2. PICK m \in Bad : \A x \in Bad : m <= x
  <2>1. Bad \in SUBSET Nat OBVIOUS
  <2> HIDE DEF Bad
  <2> QED BY <1>1, <2>1, LeastElement, Zenon
<1>3. m \in Nat OBVIOUS
<1>4. CASE m = 0
  <2> DEFINE g == [i \in 0..0 |-> f.sorted[k]]
  <2>1. MergesUpTo(g, f, k, 0)
    BY DEF MergesUpTo, MergeStep
  <2> QED BY <1>4, <2>1
<1>5. CASE m # 0
  <2>1. m - 1 \in Nat /\ ~ (m <= m - 1)
    BY <1>3, <1>5
  <2>2. m - 1 \notin Bad
    <3> HIDE DEF Bad
    <3> QED BY <1>2, <2>1, Zenon
  <2>3. PICK g : MergesUpTo(g, f, k, m - 1)
    BY <2>1, <2>2, Zenon
  <2> DEFINE h == [i \in 0..m |-> IF i = m THEN MergeStep(f, k, m, g[m - 1]) ELSE g[i]]
  <2>4. ASSUME NEW i \in 0..m PROVE h[i] = MergeStep(f, k, i, h[i - 1])
    <3>1. CASE i = m
      <4>1. h[i - 1] = g[m - 1] /\ h[i] = MergeStep(f, k, m, g[m - 1])
        BY <1>3, <1>5, <3>1
      <4> HIDE DEF h
      <4> QED BY <3>1, <4>1, Zenon
    <3>2. CASE i # m
      <4>1. i \in 0..(m - 1) /\ h[i] = g[i] BY <1>3, <3>2
      <4>2. g[i] = MergeStep(f, k, i, g[i - 1])
        BY <2>3, <4>1 DEF MergesUpTo
      <4>3. CASE i = 0
        <5>1. MergeStep(f, k, 0, g[i - 1]) = MergeStep(f, k, 0, h[i - 1])
          BY DEF MergeStep
        <5> HIDE DEF h
        <5> QED BY <4>1, <4>2, <4>3, <5>1, Zenon
      <4>4. CASE i # 0
        <5>1. h[i - 1] = g[i - 1] BY <1>3, <3>2, <4>4
        <5> HIDE DEF h
        <5> QED BY <4>1, <4>2, <5>1, Zenon
      <4> QED BY <4>3, <4>4, Zenon
    <3> QED BY <3>1, <3>2, Zenon
  <2>5. h = [i \in 0..m |-> MergeStep(f, k, i, h[i - 1])]
    <3>1. h = [i \in 0..m |-> h[i]] OBVIOUS
    <3> HIDE DEF h
    <3> QED BY <2>4, <3>1
  <2>6. MergesUpTo(h, f, k, m)
    <3> HIDE DEF h
    <3> QED BY <2>5, Zenon DEF MergesUpTo
  <2> QED
    <3> HIDE DEF h
    <3> QED BY <2>6, Zenon
<1> QED BY <1>4, <1>5, Zenon

\* The recursive function Merged is the merge of the whole tail.
LEMMA MergeUnfolds ==
  ASSUME NEW f \in AnyFile, NEW k
  PROVE  /\ Merged(f, k)[0] = f.sorted[k]
         /\ \A n \in 1..Len(f.unsorted) :
              Merged(f, k)[n] = IF f.unsorted[n].key = k
                                THEN mergeNodeInfoForAppend(Merged(f, k)[n - 1], f.unsorted[n].info)
                                ELSE Merged(f, k)[n - 1]
<1> DEFINE N == Len(f.unsorted)
           M == Merged(f, k)
<1>1. N \in Nat
  BY DEF AnyFile
<1>2. M = CHOOSE g : g = [i \in 0..N |->
                            IF i = 0 THEN f.sorted[k]
                            ELSE IF f.unsorted[i].key = k
                                 THEN mergeNodeInfoForAppend(g[i - 1], f.unsorted[i].info)
                                 ELSE g[i - 1]]
  BY Zenon DEF Merged
<1>3. \E g : g = [i \in 0..N |->
                    IF i = 0 THEN f.sorted[k]
                    ELSE IF f.unsorted[i].key = k
                         THEN mergeNodeInfoForAppend(g[i - 1], f.unsorted[i].info)
                         ELSE g[i - 1]]
  <2> HIDE DEF N
  <2>1. PICK g : MergesUpTo(g, f, k, N)
    BY <1>1, MergeExists, Zenon
  <2>2. g = [i \in 0..N |->
               IF i = 0 THEN f.sorted[k]
               ELSE IF f.unsorted[i].key = k
                    THEN mergeNodeInfoForAppend(g[i - 1], f.unsorted[i].info)
                    ELSE g[i - 1]]
    BY <2>1, Zenon DEF MergesUpTo, MergeStep
  <2> QED BY <2>2, Zenon
<1>4. M = [i \in 0..N |->
             IF i = 0 THEN f.sorted[k]
             ELSE IF f.unsorted[i].key = k
                  THEN mergeNodeInfoForAppend(M[i - 1], f.unsorted[i].info)
                  ELSE M[i - 1]]
  <2> HIDE DEF M, N
  <2> QED BY <1>2, <1>3, Zenon
<1>5. M[0] = f.sorted[k]
  <2> HIDE DEF M, N
  <2> QED BY <1>1, <1>4
<1>6. ASSUME NEW n \in 1..N
      PROVE  M[n] = IF f.unsorted[n].key = k
                    THEN mergeNodeInfoForAppend(M[n - 1], f.unsorted[n].info)
                    ELSE M[n - 1]
  <2>1. n \in 0..N /\ n # 0 BY <1>1
  <2> HIDE DEF M, N
  <2> QED BY <1>4, <2>1, Zenon
<1> QED
  <2> HIDE DEF M
  <2> QED BY <1>5, <1>6 DEF M

\* The first n entries decide the merge up to n, whatever follows them.
LEMMA MergeAgrees ==
  ASSUME NEW f \in AnyFile, NEW g \in AnyFile, NEW k, NEW n \in Nat,
         n <= Len(f.unsorted), n <= Len(g.unsorted), f.sorted[k] = g.sorted[k],
         \A i \in 1..n : f.unsorted[i] = g.unsorted[i]
  PROVE  Merged(f, k)[n] = Merged(g, k)[n]
<1> DEFINE Bad == {m \in Nat : m <= n /\ Merged(f, k)[m] # Merged(g, k)[m]}
<1>1. SUFFICES ASSUME Bad # {} PROVE FALSE
  BY <1>1
<1>2. PICK m \in Bad : \A x \in Bad : m <= x
  <2>1. Bad \in SUBSET Nat OBVIOUS
  <2> HIDE DEF Bad
  <2> QED BY <1>1, <2>1, LeastElement, Zenon
<1>3. m \in Nat /\ m <= n /\ Merged(f, k)[m] # Merged(g, k)[m]
  OBVIOUS
<1>4. m # 0
  <2>1. Merged(f, k)[0] = f.sorted[k] BY MergeUnfolds
  <2>2. Merged(g, k)[0] = g.sorted[k] BY MergeUnfolds
  <2> QED BY <1>3, <2>1, <2>2, Zenon
<1>5. m - 1 \in Nat /\ m - 1 <= n /\ ~ (m <= m - 1)
  BY <1>3, <1>4
<1>6. Merged(f, k)[m - 1] = Merged(g, k)[m - 1]
  <2>1. m - 1 \notin Bad
    <3> HIDE DEF Bad
    <3> QED BY <1>2, <1>5, Zenon
  <2> QED BY <1>5, <2>1, Zenon
<1>7. m \in 1..n /\ m \in 1..Len(f.unsorted) /\ m \in 1..Len(g.unsorted)
  <2>1. Len(f.unsorted) \in Nat /\ Len(g.unsorted) \in Nat BY DEF AnyFile
  <2> QED BY <1>3, <1>4, <2>1
<1>8. f.unsorted[m] = g.unsorted[m]
  BY <1>7, Zenon
<1>9. Merged(f, k)[m] = IF f.unsorted[m].key = k
                        THEN mergeNodeInfoForAppend(Merged(f, k)[m - 1], f.unsorted[m].info)
                        ELSE Merged(f, k)[m - 1]
  BY <1>7, MergeUnfolds
<1>10. Merged(g, k)[m] = IF g.unsorted[m].key = k
                         THEN mergeNodeInfoForAppend(Merged(g, k)[m - 1], g.unsorted[m].info)
                         ELSE Merged(g, k)[m - 1]
  BY <1>7, MergeUnfolds
<1> QED BY <1>3, <1>6, <1>8, <1>9, <1>10, Zenon

-----------------------------------------------------------------------------
\* Appends

Appended(f, e) == [f EXCEPT !.unsorted = Append(@, e)]

\* The file appendFileNodeEntriesWithBlockID leaves, one entry at a time.
LEMMA AppendedFile ==
  ASSUME NEW f \in AnyFile, NEW e \in AnyEntry
  PROVE  /\ Appended(f, e) \in AnyFile
         /\ Appended(f, e).sorted = f.sorted
         /\ Len(f.unsorted) \in Nat
         /\ Len(Appended(f, e).unsorted) = Len(f.unsorted) + 1
         /\ \A i \in 1..Len(f.unsorted) : Appended(f, e).unsorted[i] = f.unsorted[i]
         /\ Appended(f, e).unsorted[Len(f.unsorted) + 1] = e
<1>1. f.unsorted \in Seq(AnyEntry)
  BY DEF AnyFile
<1>2. Appended(f, e) = [sorted |-> f.sorted, unsorted |-> Append(f.unsorted, e)]
  <2>1. ASSUME NEW u PROVE [f EXCEPT !.unsorted = u] = [sorted |-> f.sorted, unsorted |-> u]
    BY DEF AnyFile
  <2> QED BY <2>1, Zenon DEF Appended
<1>3. Append(f.unsorted, e) \in Seq(AnyEntry)
  BY <1>1
<1> QED BY <1>1, <1>2, <1>3 DEF AnyFile

\* A compaction after the append keeps the merge of what it kept before with
\* the entry.
LEMMA AppendMerges ==
  ASSUME NEW f \in AnyFile, NEW e \in AnyEntry, NEW k \in Keys
  PROVE  buildEntriesFromSlices(Appended(f, e))[k] =
           IF e.key = k THEN mergeNodeInfoForAppend(buildEntriesFromSlices(f)[k], e.info)
           ELSE buildEntriesFromSlices(f)[k]
<1> DEFINE g == Appended(f, e)
           n == Len(f.unsorted)
<1>1. /\ g \in AnyFile /\ g.sorted = f.sorted /\ n \in Nat /\ Len(g.unsorted) = n + 1
      /\ \A i \in 1..n : f.unsorted[i] = g.unsorted[i]
      /\ g.unsorted[n + 1] = e
  BY AppendedFile
<1> HIDE DEF g
<1>2. Merged(f, k)[n] = Merged(g, k)[n]
  <2>1. n <= Len(f.unsorted) /\ n <= Len(g.unsorted) BY <1>1
  <2>2. f.sorted[k] = g.sorted[k] BY <1>1
  <2> HIDE DEF n
  <2> QED BY <1>1, <2>1, <2>2, MergeAgrees
<1>3. Merged(g, k)[n + 1] = IF e.key = k THEN mergeNodeInfoForAppend(Merged(g, k)[n], e.info)
                            ELSE Merged(g, k)[n]
  <2>1. n + 1 \in 1..Len(g.unsorted) /\ (n + 1) - 1 = n BY <1>1
  <2>2. Merged(g, k)[n + 1] =
          IF g.unsorted[n + 1].key = k
          THEN mergeNodeInfoForAppend(Merged(g, k)[(n + 1) - 1], g.unsorted[n + 1].info)
          ELSE Merged(g, k)[(n + 1) - 1]
    BY <1>1, <2>1, MergeUnfolds
  <2> HIDE DEF n
  <2> QED BY <1>1, <2>1, <2>2, Zenon
<1>4. buildEntriesFromSlices(g)[k] = Merged(g, k)[n + 1]
  BY <1>1 DEF buildEntriesFromSlices
<1>5. buildEntriesFromSlices(f)[k] = Merged(f, k)[n]
  BY DEF buildEntriesFromSlices
<1> HIDE DEF n
<1> QED BY <1>2, <1>3, <1>4, <1>5, Zenon DEF g

\* A compacted file holds what its sorted part holds.
LEMMA CompactedKeeps ==
  ASSUME NEW s \in [Keys -> AnyInfo]
  PROVE  LET c == [sorted |-> s, unsorted |-> <<>>] IN
         c \in AnyFile /\ buildEntriesFromSlices(c) = s
<1> DEFINE c == [sorted |-> s, unsorted |-> <<>>]
<1>1. c \in AnyFile /\ Len(c.unsorted) = 0 /\ c.sorted = s
  BY DEF AnyFile
<1> HIDE DEF c
<1>2. ASSUME NEW k \in Keys PROVE Merged(c, k)[0] = s[k]
  BY <1>1, MergeUnfolds
<1>3. buildEntriesFromSlices(c) = [k \in Keys |-> Merged(c, k)[0]]
  BY <1>1, Zenon DEF buildEntriesFromSlices
<1>4. buildEntriesFromSlices(c) = s
  BY <1>2, <1>3
<1> QED BY <1>1, <1>4 DEF c

\* The places of a key: an append adds its own place or none.
LEMMA AppendHits ==
  ASSUME NEW f \in AnyFile, NEW e \in AnyEntry, NEW k \in Keys
  PROVE  Hits(Appended(f, e), k) = IF e.key = k THEN Hits(f, k) \union {Len(f.unsorted) + 1}
                                   ELSE Hits(f, k)
<1> DEFINE g == Appended(f, e)
           n == Len(f.unsorted)
<1>1. /\ n \in Nat /\ Len(g.unsorted) = n + 1
      /\ \A i \in 1..n : g.unsorted[i] = f.unsorted[i]
      /\ g.unsorted[n + 1] = e
  BY AppendedFile
<1> HIDE DEF g
<1>2. ASSUME NEW i \in 1..n PROVE i \in Hits(g, k) <=> i \in Hits(f, k)
  <2>1. i \in 1..(n + 1) BY <1>1
  <2> QED BY <1>1, <2>1 DEF Hits
<1>3. n + 1 \in Hits(g, k) <=> e.key = k
  <2>1. n + 1 \in 1..Len(g.unsorted) BY <1>1
  <2> QED BY <1>1, <2>1 DEF Hits
<1>4. n + 1 \notin Hits(f, k) /\ Hits(f, k) \subseteq 1..n
  BY <1>1 DEF Hits
<1>5. Hits(g, k) \subseteq 1..n \union {n + 1}
  BY <1>1 DEF Hits
<1> HIDE DEF n
<1>6. CASE e.key = k
  BY <1>2, <1>3, <1>4, <1>5, <1>6, Zenon DEF g, n
<1>7. CASE e.key # k
  <2>1. Hits(g, k) = Hits(f, k)
    BY <1>2, <1>3, <1>4, <1>5, <1>7
  <2> QED BY <1>7, <2>1, Zenon DEF g
<1> QED BY <1>6, <1>7

-----------------------------------------------------------------------------
\* Files as the writers leave them

Good(f) == f \in AnyFile /\ Wellformed(f) /\ NewestWins(f)

\* The last place of a key is the greatest of its places.
LEMMA LastHitExists ==
  ASSUME NEW f \in AnyFile, NEW k \in Keys, Hits(f, k) # {}
  PROVE  LastHit(f, k) \in Hits(f, k) /\ \A j \in Hits(f, k) : j <= LastHit(f, k)
<1>1. Len(f.unsorted) \in Nat
  BY DEF AnyFile
<1>2. Hits(f, k) \in SUBSET (1..Len(f.unsorted))
  BY DEF Hits
<1>3. \E m \in Hits(f, k) : \A x \in Hits(f, k) : x <= m
  BY <1>1, <1>2, GreatestElement, Zenon
<1> QED BY <1>3, Zenon DEF LastHit

\* The greatest place of a set is unique.
LEMMA NewestAt ==
  ASSUME NEW f \in AnyFile, NEW S \in SUBSET Nat, NEW m \in S, \A j \in S : j <= m
  PROVE  NewestInfo(f, S) = f.unsorted[m].info
<1> DEFINE c == CHOOSE i \in S : \A j \in S : j <= i
<1>1. c \in S /\ \A j \in S : j <= c
  BY Zenon
<1> HIDE DEF c
<1>2. c = m
  <2>1. c \in Nat /\ m \in Nat /\ c <= m /\ m <= c BY <1>1, Zenon
  <2> QED BY <2>1
<1> QED BY <1>2, Zenon DEF NewestInfo, c

\* getFromFileNodeWithBreakdown answers, for every key of a file the writers
\* left, what a compaction of the file would keep.
LEMMA SearchIsContent ==
  ASSUME NEW f, Good(f), NEW k \in Keys
  PROVE  getFromFileNodeWithBreakdown(f, k) = buildEntriesFromSlices(f)[k]
<1> DEFINE hits == Hits(f, k)
           stor == {i \in hits : hasStorageInfo(f.unsorted[i].info)}
           acct == hits \ stor
           last == LastHit(f, k)
           old  == f.sorted[k]
           new  == f.unsorted[last].info
           dead == \E i \in hits : isNodeInfoTombstone(f.unsorted[i].info)
           kept == buildEntriesFromSlices(f)[k]
<1>1. f \in AnyFile
  BY DEF Good
<1>2. hits \subseteq Nat
  <2>1. Len(f.unsorted) \in Nat BY <1>1 DEF AnyFile
  <2> QED BY <2>1 DEF Hits
<1>3. kept = IF hits = {} THEN old ELSE new
  BY DEF Good, NewestWins
<1>4. hits # {} => last \in hits /\ \A j \in hits : j <= last
  BY <1>1, LastHitExists, Zenon
<1>5. \A i \in hits :
        /\ isNodeInfoTombstone(f.unsorted[i].info) => \A j \in hits : j <= i
        /\ hasStorageInfo(old) /\ ~isNodeInfoTombstone(f.unsorted[i].info)
             => hasStorageInfo(f.unsorted[i].info)
        /\ \A j \in hits :
             j <= i /\ hasStorageInfo(f.unsorted[j].info) /\ ~isNodeInfoTombstone(f.unsorted[i].info)
               => hasStorageInfo(f.unsorted[i].info)
  BY Zenon DEF Good, Wellformed
<1>6. getFromFileNodeWithBreakdown(f, k) =
        IF dead THEN NoInfo
        ELSE IF stor # {} /\ acct # {}
             THEN mergeNodeInfoForAppend(NewestInfo(f, acct), mergeNodeInfoForAppend(old, NewestInfo(f, stor)))
        ELSE IF hits # {} THEN mergeNodeInfoForAppend(old, NewestInfo(f, hits))
        ELSE old
  BY Zenon DEF getFromFileNodeWithBreakdown, findNodeInfoInSortedSlice
<1> SUFFICES getFromFileNodeWithBreakdown(f, k) = kept
  OBVIOUS
<1>7. CASE hits = {}
  <2>1. ~dead /\ stor = {} BY <1>7
  <2> HIDE DEF hits, stor, acct, dead, kept, old, new, last
  <2> QED BY <1>3, <1>6, <1>7, <2>1, Zenon
<1>8. CASE dead
  <2>1. PICK i \in hits : f.unsorted[i].info = NoInfo
    BY <1>8, Zenon DEF isNodeInfoTombstone
  <2>2. \A j \in hits : j <= i
    BY <1>5, <2>1, Zenon DEF isNodeInfoTombstone
  <2>3. i = last
    <3>1. last \in Nat /\ i \in Nat /\ i <= last /\ last <= i
      <4> HIDE DEF hits, last
      <4> QED BY <1>2, <1>4, <2>1, <2>2, Zenon
    <3> HIDE DEF last
    <3> QED BY <3>1
  <2>4. new = NoInfo /\ hits # {}
    BY <2>1, <2>3, Zenon
  <2> HIDE DEF hits, stor, acct, dead, kept, old, new, last
  <2> QED BY <1>3, <1>6, <1>8, <2>4, Zenon
<1>9. CASE ~dead /\ hits # {}
  <2>1. last \in hits /\ (\A j \in hits : j <= last) /\ ~isNodeInfoTombstone(new)
    <3> HIDE DEF hits, last
    <3> QED BY <1>4, <1>9, Zenon
  <2>2. hasStorageInfo(old) => hasStorageInfo(new)
    <3> HIDE DEF hits, last, old
    <3> QED BY <1>5, <2>1, Zenon
  <2>3. mergeNodeInfoForAppend(old, new) = new
    <3> HIDE DEF old, new
    <3> QED BY <2>2, Zenon DEF mergeNodeInfoForAppend
  <2>4. NewestInfo(f, hits) = new
    <3> HIDE DEF hits, last
    <3> QED BY <1>1, <1>2, <2>1, NewestAt, Zenon
  <2>5. CASE stor # {} /\ acct # {}
    <3>1. PICK h \in hits : hasStorageInfo(f.unsorted[h].info)
      BY <2>5, Zenon
    <3>2. hasStorageInfo(new) /\ last \in stor
      <4>1. hasStorageInfo(new)
        <5> HIDE DEF hits, last
        <5> QED BY <1>5, <2>1, <3>1, Zenon
      <4> HIDE DEF hits, last
      <4> QED BY <2>1, <4>1, Zenon
    <3>3. NewestInfo(f, stor) = new
      <4>1. stor \in SUBSET Nat /\ \A j \in stor : j <= last
        BY <1>2, <2>1, Zenon
      <4> HIDE DEF stor, last
      <4> QED BY <1>1, <3>2, <4>1, NewestAt, Zenon
    <3>4. ASSUME NEW x PROVE mergeNodeInfoForAppend(x, new) = new
      <4> HIDE DEF new
      <4> QED BY <3>2, Zenon DEF mergeNodeInfoForAppend
    <3> HIDE DEF hits, stor, acct, dead, kept, old, new, last
    <3> QED BY <1>3, <1>6, <1>9, <2>3, <2>5, <3>3, <3>4, Zenon
  <2>6. CASE ~(stor # {} /\ acct # {})
    <3> HIDE DEF hits, stor, acct, dead, kept, old, new, last
    <3> QED BY <1>3, <1>6, <1>9, <2>3, <2>4, <2>6, Zenon
  <2> QED BY <2>5, <2>6, Zenon
<1> QED BY <1>7, <1>8, <1>9, Zenon

\* The entries of a tail, and what is kept of them, are infos.
LEMMA ContentType ==
  ASSUME NEW f, Good(f)
  PROVE  /\ buildEntriesFromSlices(f) \in [Keys -> AnyInfo]
         /\ \A k \in Keys : \A i \in Hits(f, k) : f.unsorted[i].info \in AnyInfo
<1>1. f \in AnyFile /\ NewestWins(f)
  BY DEF Good
<1>2. ASSUME NEW k \in Keys, NEW i \in Hits(f, k) PROVE f.unsorted[i].info \in AnyInfo
  <2>1. i \in 1..Len(f.unsorted) /\ f.unsorted[i].key = k
    BY DEF Hits
  <2>2. f.unsorted[i] \in AnyEntry
    BY <1>1, <2>1 DEF AnyFile
  <2>3. f.unsorted[i] # Tag
    BY <2>1, TagAssumption DEF Tag
  <2> QED BY <2>2, <2>3 DEF AnyEntry
<1>3. ASSUME NEW k \in Keys PROVE buildEntriesFromSlices(f)[k] \in AnyInfo
  <2>1. f.sorted[k] \in AnyInfo
    BY <1>1 DEF AnyFile
  <2>2. Hits(f, k) # {} => LastHit(f, k) \in Hits(f, k)
    BY <1>1, LastHitExists, Zenon
  <2>3. buildEntriesFromSlices(f)[k] =
          IF Hits(f, k) = {} THEN f.sorted[k] ELSE f.unsorted[LastHit(f, k)].info
    BY <1>1, Zenon DEF NewestWins
  <2> QED BY <1>2, <2>1, <2>2, <2>3, Zenon
<1>4. buildEntriesFromSlices(f) = [k \in Keys |-> buildEntriesFromSlices(f)[k]]
  BY DEF buildEntriesFromSlices
<1> QED BY <1>2, <1>3, <1>4

\* A commit tag changes nothing a lookup or a compaction sees.
LEMMA TagChangesNothing ==
  ASSUME NEW f, Good(f)
  PROVE  Good(Appended(f, Tag)) /\ buildEntriesFromSlices(Appended(f, Tag)) = buildEntriesFromSlices(f)
<1> DEFINE g == Appended(f, Tag)
<1>1. f \in AnyFile /\ Tag \in AnyEntry
  BY DEF Good, AnyEntry
<1>2. /\ g \in AnyFile /\ g.sorted = f.sorted
      /\ \A i \in 1..Len(f.unsorted) : g.unsorted[i] = f.unsorted[i]
  BY <1>1, AppendedFile
<1>3. ASSUME NEW k \in Keys
      PROVE  /\ Hits(g, k) = Hits(f, k) /\ buildEntriesFromSlices(g)[k] = buildEntriesFromSlices(f)[k]
             /\ \A i \in Hits(f, k) : g.unsorted[i] = f.unsorted[i]
             /\ LastHit(g, k) = LastHit(f, k)
  <2>1. Tag.key # k
    BY TagAssumption DEF Tag
  <2>2. Hits(g, k) = Hits(f, k)
    BY <1>1, <2>1, AppendHits, Zenon
  <2>3. buildEntriesFromSlices(g)[k] = buildEntriesFromSlices(f)[k]
    BY <1>1, <2>1, AppendMerges, Zenon
  <2>4. \A i \in Hits(f, k) : g.unsorted[i] = f.unsorted[i]
    BY <1>2, Zenon DEF Hits
  <2>5. LastHit(g, k) = LastHit(f, k)
    BY <2>2, Zenon DEF LastHit
  <2> HIDE DEF g
  <2> QED BY <2>2, <2>3, <2>4, <2>5, Zenon
<1> HIDE DEF g
<1>4. Wellformed(g)
  <2>1. Wellformed(f) BY DEF Good
  <2> SUFFICES ASSUME NEW k \in Keys, NEW i \in Hits(f, k)
               PROVE  LET e == g.unsorted[i].info IN
                      /\ isNodeInfoTombstone(e) => \A j \in Hits(f, k) : j <= i
                      /\ hasStorageInfo(g.sorted[k]) /\ ~isNodeInfoTombstone(e) => hasStorageInfo(e)
                      /\ \A j \in Hits(f, k) :
                           j <= i /\ hasStorageInfo(g.unsorted[j].info) /\ ~isNodeInfoTombstone(e)
                              => hasStorageInfo(e)
    BY <1>3, Zenon DEF Wellformed
  <2>2. g.unsorted[i] = f.unsorted[i] /\ \A j \in Hits(f, k) : g.unsorted[j] = f.unsorted[j]
    BY <1>3, Zenon
  <2> QED BY <1>2, <2>1, <2>2, Zenon DEF Wellformed
<1>5. NewestWins(g)
  <2>1. NewestWins(f) BY DEF Good
  <2> SUFFICES ASSUME NEW k \in Keys
               PROVE  buildEntriesFromSlices(g)[k] =
                        IF Hits(g, k) = {} THEN g.sorted[k] ELSE g.unsorted[LastHit(g, k)].info
    BY Zenon DEF NewestWins
  <2>2. Hits(f, k) # {} => LastHit(f, k) \in Hits(f, k)
    BY <1>1, LastHitExists, Zenon
  <2> QED BY <1>2, <1>3, <2>1, <2>2, Zenon DEF NewestWins
<1>6. buildEntriesFromSlices(g) = buildEntriesFromSlices(f)
  <2>1. buildEntriesFromSlices(g) = [k \in Keys |-> buildEntriesFromSlices(g)[k]]
    BY DEF buildEntriesFromSlices
  <2>2. buildEntriesFromSlices(f) = [k \in Keys |-> buildEntriesFromSlices(f)[k]]
    BY DEF buildEntriesFromSlices
  <2> QED BY <1>3, <2>1, <2>2
<1> QED BY <1>2, <1>4, <1>5, <1>6 DEF Good, g

\* An entry of key k written over one without a tombstone in the tail, keeping
\* a storage pointer where there is one, becomes the info of the key.
LEMMA WriteReplaces ==
  ASSUME NEW f, Good(f), NEW k \in Keys, NEW info \in AnyInfo,
         \A i \in Hits(f, k) : ~isNodeInfoTombstone(f.unsorted[i].info),
         \/ isNodeInfoTombstone(info)
         \/ hasStorageInfo(buildEntriesFromSlices(f)[k]) => hasStorageInfo(info)
  PROVE  LET g == Appended(f, [key |-> k, info |-> info]) IN
         Good(g) /\ buildEntriesFromSlices(g) = [buildEntriesFromSlices(f) EXCEPT ![k] = info]
<1> DEFINE e == [key |-> k, info |-> info]
           g == Appended(f, e)
           n == Len(f.unsorted)
           kept == buildEntriesFromSlices(f)[k]
<1>1. f \in AnyFile /\ e \in AnyEntry /\ e.key = k /\ e.info = info
  BY DEF Good, AnyEntry
<1>2. /\ g \in AnyFile /\ g.sorted = f.sorted /\ n \in Nat
      /\ \A i \in 1..n : g.unsorted[i] = f.unsorted[i]
      /\ g.unsorted[n + 1] = e
  BY <1>1, AppendedFile
<1>3. ASSUME NEW x \in Keys
      PROVE  /\ Hits(g, x) = IF x = k THEN Hits(f, x) \union {n + 1} ELSE Hits(f, x)
             /\ buildEntriesFromSlices(g)[x] =
                  IF x = k THEN mergeNodeInfoForAppend(kept, info) ELSE buildEntriesFromSlices(f)[x]
             /\ Hits(f, x) \subseteq 1..n
             /\ \A i \in Hits(f, x) : g.unsorted[i] = f.unsorted[i]
  <2>1. Hits(g, x) = IF x = k THEN Hits(f, x) \union {n + 1} ELSE Hits(f, x)
    BY <1>1, AppendHits, Zenon
  <2>2. buildEntriesFromSlices(g)[x] =
          IF x = k THEN mergeNodeInfoForAppend(kept, info) ELSE buildEntriesFromSlices(f)[x]
    <3>1. buildEntriesFromSlices(g)[x] =
            IF e.key = x THEN mergeNodeInfoForAppend(buildEntriesFromSlices(f)[x], e.info)
            ELSE buildEntriesFromSlices(f)[x]
      BY <1>1, AppendMerges
    <3> HIDE DEF g, e
    <3> QED BY <1>1, <3>1, Zenon
  <2>3. Hits(f, x) \subseteq 1..n
    BY DEF Hits
  <2>4. \A i \in Hits(f, x) : g.unsorted[i] = f.unsorted[i]
    BY <1>2, <2>3, Zenon
  <2> HIDE DEF g, n, kept
  <2> QED BY <2>1, <2>2, <2>3, <2>4, Zenon
<1> HIDE DEF g, e, n
<1>4. mergeNodeInfoForAppend(kept, info) = info
  BY Zenon DEF mergeNodeInfoForAppend
<1>5. \A i \in Hits(f, k) : i <= n + 1 /\ ~(n + 1 <= i)
  BY <1>2, <1>3
<1>6. Hits(g, k) = Hits(f, k) \union {n + 1} /\ g.unsorted[n + 1].info = info
  BY <1>1, <1>2, <1>3, Zenon
<1>7. LastHit(g, k) = n + 1
  <2>1. LastHit(g, k) \in Hits(g, k) /\ \A j \in Hits(g, k) : j <= LastHit(g, k)
    BY <1>2, <1>6, LastHitExists
  <2> QED BY <1>5, <1>6, <2>1, Zenon
<1>8. Wellformed(f) /\ NewestWins(f)
  BY DEF Good
\* The info of the key has a storage pointer if any entry of the key has.
<1>9. /\ hasStorageInfo(f.sorted[k]) => hasStorageInfo(kept)
      /\ \A j \in Hits(f, k) : hasStorageInfo(f.unsorted[j].info) => hasStorageInfo(kept)
  <2>1. CASE Hits(f, k) = {}
    BY <1>8, <2>1, Zenon DEF NewestWins
  <2>2. CASE Hits(f, k) # {}
    <3> DEFINE last == LastHit(f, k)
    <3>1. last \in Hits(f, k) /\ \A j \in Hits(f, k) : j <= last
      BY <1>1, <2>2, LastHitExists, Zenon
    <3>2. kept = f.unsorted[last].info
      BY <1>8, <2>2, Zenon DEF NewestWins
    <3> HIDE DEF last
    <3> QED BY <1>8, <3>1, <3>2, Zenon DEF Wellformed
  <2> QED BY <2>1, <2>2, Zenon
<1>10. Wellformed(g)
  <2> SUFFICES ASSUME NEW x \in Keys, NEW i \in Hits(g, x)
               PROVE  LET new == g.unsorted[i].info IN
                      /\ isNodeInfoTombstone(new) => \A j \in Hits(g, x) : j <= i
                      /\ hasStorageInfo(f.sorted[x]) /\ ~isNodeInfoTombstone(new) => hasStorageInfo(new)
                      /\ \A j \in Hits(g, x) :
                           j <= i /\ hasStorageInfo(g.unsorted[j].info) /\ ~isNodeInfoTombstone(new)
                              => hasStorageInfo(new)
    BY <1>2, Zenon DEF Wellformed
  <2>1. CASE x # k
    <3>1. Hits(g, x) = Hits(f, x) /\ \A j \in Hits(f, x) : g.unsorted[j] = f.unsorted[j]
      BY <1>3, <2>1, Zenon
    <3>2. g.unsorted[i] = f.unsorted[i] BY <3>1, Zenon
    <3> QED BY <1>8, <3>1, <3>2, Zenon DEF Wellformed
  <2>2. CASE x = k /\ i \in Hits(f, k)
    <3>1. g.unsorted[i] = f.unsorted[i] /\ \A j \in Hits(f, k) : g.unsorted[j] = f.unsorted[j]
      BY <1>3, <2>2, Zenon
    <3> QED BY <1>5, <1>6, <1>8, <2>2, <3>1, Zenon DEF Wellformed
  <2>3. CASE x = k /\ i = n + 1
    <3>1. \A j \in Hits(f, k) : g.unsorted[j] = f.unsorted[j]
      BY <1>3, Zenon
    <3>2. n + 1 <= n + 1 BY <1>2
    <3> HIDE DEF kept
    <3> QED BY <1>5, <1>6, <1>9, <2>3, <3>1, <3>2, Zenon DEF kept
  <2> QED BY <1>6, <2>1, <2>2, <2>3, Zenon
<1>11. NewestWins(g)
  <2> SUFFICES ASSUME NEW x \in Keys
               PROVE  buildEntriesFromSlices(g)[x] =
                        IF Hits(g, x) = {} THEN g.sorted[x] ELSE g.unsorted[LastHit(g, x)].info
    BY Zenon DEF NewestWins
  <2>1. CASE x = k
    BY <1>3, <1>4, <1>6, <1>7, <2>1, Zenon
  <2>2. CASE x # k
    <3>1. /\ Hits(g, x) = Hits(f, x)
          /\ buildEntriesFromSlices(g)[x] = buildEntriesFromSlices(f)[x]
          /\ \A i \in Hits(f, x) : g.unsorted[i] = f.unsorted[i]
      BY <1>3, <2>2, Zenon
    <3>2. LastHit(g, x) = LastHit(f, x)
      BY <3>1, Zenon DEF LastHit
    <3>3. Hits(f, x) # {} => LastHit(f, x) \in Hits(f, x)
      BY <1>1, LastHitExists, Zenon
    <3> QED BY <1>2, <1>8, <3>1, <3>2, <3>3, Zenon DEF NewestWins
  <2> QED BY <2>1, <2>2, Zenon
<1>12. buildEntriesFromSlices(g) = [buildEntriesFromSlices(f) EXCEPT ![k] = info]
  <2>1. buildEntriesFromSlices(g) = [x \in Keys |-> buildEntriesFromSlices(g)[x]]
    BY DEF buildEntriesFromSlices
  <2>2. buildEntriesFromSlices(f) = [x \in Keys |-> buildEntriesFromSlices(f)[x]]
    BY DEF buildEntriesFromSlices
  <2>3. ASSUME NEW x \in Keys
        PROVE  buildEntriesFromSlices(g)[x] = IF x = k THEN info ELSE buildEntriesFromSlices(f)[x]
    BY <1>3, <1>4, Zenon
  <2> QED BY <2>1, <2>2, <2>3
<1> QED BY <1>2, <1>10, <1>11, <1>12 DEF Good, g, e

\* A compaction keeps the content and leaves a file the writers could have left.
LEMMA CompactedGood ==
  ASSUME NEW f, Good(f)
  PROVE  LET c == [sorted |-> buildEntriesFromSlices(f), unsorted |-> <<>>] IN
         Good(c) /\ buildEntriesFromSlices(c) = buildEntriesFromSlices(f)
<1> DEFINE c == [sorted |-> buildEntriesFromSlices(f), unsorted |-> <<>>]
<1>1. buildEntriesFromSlices(f) \in [Keys -> AnyInfo]
  BY ContentType, Zenon
<1>2. c \in AnyFile /\ buildEntriesFromSlices(c) = buildEntriesFromSlices(f)
  BY <1>1, CompactedKeeps, Zenon
<1>3. \A k \in Keys : Hits(c, k) = {}
  BY DEF Hits
<1>4. c.sorted = buildEntriesFromSlices(f)
  OBVIOUS
<1> HIDE DEF c
<1>5. Wellformed(c) /\ NewestWins(c)
  BY <1>2, <1>3, <1>4, Zenon DEF Wellformed, NewestWins
<1> QED BY <1>2, <1>5 DEF Good, c
=============================================================================
