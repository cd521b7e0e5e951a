----------------------------- MODULE NodeEntries -----------------------------
(***************************************************************************)
(* The entries of the prefix tree's node files and what a lookup and a     *)
(* compaction make of them (src/THEO/prefixdb/prefixTree.go).  An info is  *)
(* an account offset and a storage pointer, 0: none; sizes go with their   *)
(* offsets.  A file is a sorted part and a tail of appended entries.       *)
(***************************************************************************)
EXTENDS Integers, Sequences, FiniteSets

CONSTANTS Keys          \* node keys

NoInfo == [off |-> 0, stor |-> 0]
TagKey == "tag"

\* A commit tag is told from every node entry by its key.
ASSUME TagAssumption == TagKey \notin Keys

Tag == [key |-> TagKey, info |-> NoInfo]

hasStorageInfo(i) == i.stor # 0
isNodeInfoTombstone(i) == i = NoInfo

\* An entry without storage inherits the storage of the one it follows, and
\* never moves the account back.
mergeNodeInfoForAppend(previous, next) ==
    IF ~isNodeInfoTombstone(next) /\ hasStorageInfo(previous) /\ ~hasStorageInfo(next)
    THEN [off |-> IF next.off < previous.off THEN previous.off ELSE next.off,
          stor |-> previous.stor]
    ELSE next

\* Mutant: a tombstone is skipped.
buildEntriesFromSlices_KeepDeleted(f) ==
    [k \in Keys |->
        LET info[n \in 0..Len(f.unsorted)] ==
              IF n = 0 THEN f.sorted[k]
              ELSE IF f.unsorted[n].key = k /\ f.unsorted[n].info # NoInfo
                   THEN mergeNodeInfoForAppend(info[n - 1], f.unsorted[n].info)
                   ELSE info[n - 1]
        IN info[Len(f.unsorted)]]

\* The info of key k once the first n entries of the tail are merged.
Merged(f, k) ==
    LET info[n \in 0..Len(f.unsorted)] ==
          IF n = 0 THEN f.sorted[k]
          ELSE IF f.unsorted[n].key = k
               THEN mergeNodeInfoForAppend(info[n - 1], f.unsorted[n].info)
               ELSE info[n - 1]
    IN info

\* What a compaction keeps: the entries of each key merged oldest first; tags
\* and deleted keys are dropped.
buildEntriesFromSlices(f) == [k \in Keys |-> Merged(f, k)[Len(f.unsorted)]]

\* At most one entry of a key is in the sorted part.
findNodeInfoInSortedSlice(f, k) == f.sorted[k]

\* The places of the tail that hold an entry of key k, and the last of them.
Hits(f, k) == {i \in 1..Len(f.unsorted) : f.unsorted[i].key = k}
NewestInfo(f, hits) == f.unsorted[CHOOSE i \in hits : \A j \in hits : j <= i].info

\* Mutant: the oldest entry of the tail wins.
getFromFileNodeWithBreakdown_Oldest(f, k) ==
    LET hits == Hits(f, k) IN
    IF hits = {} THEN f.sorted[k]
    ELSE f.unsorted[CHOOSE i \in hits : \A j \in hits : i <= j].info

\* The search: the newest entry with storage and the newest without, over the
\* sorted entry; any tombstone in the tail answers "not found".
getFromFileNodeWithBreakdown(f, k) ==
    LET hits == Hits(f, k)
        stor == {i \in hits : hasStorageInfo(f.unsorted[i].info)}
        acct == hits \ stor
        overSorted(es) == mergeNodeInfoForAppend(findNodeInfoInSortedSlice(f, k), NewestInfo(f, es)) IN
    IF \E i \in hits : isNodeInfoTombstone(f.unsorted[i].info) THEN NoInfo
    ELSE IF stor # {} /\ acct # {}
         THEN mergeNodeInfoForAppend(NewestInfo(f, acct), overSorted(stor))
    ELSE IF hits # {} THEN overSorted(hits)
    ELSE findNodeInfoInSortedSlice(f, k)

NoFile == [sorted |-> [k \in Keys |-> NoInfo], unsorted |-> <<>>]
==============================================================================
