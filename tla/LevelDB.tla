------------------------------ MODULE LevelDB ------------------------------
(***************************************************************************)
(* ChainKV's LevelDB (src/ChainKV/goleveldb/leveldb): one database with    *)
(* two stores.  The regular store and the state store (the functions whose *)
(* names end in _s) each have a write buffer (memdb), a frozen buffer,     *)
(* a journal and a tree of levels, and they share the sequence number, the *)
(* write lock, the snapshots and the manifest.                             *)
(*                                                                         *)
(* An entry is a key, its sequence number and whether it is a deletion.    *)
(* A table is the set of its entries, a batch of the journal the sequence  *)
(* of its entries, a write buffer the set of its entries.  File numbers    *)
(* are counted for journals only: recovery compares those.  Sizes are      *)
(* counts of entries (MemCap) or, where only a limit on bytes decides, a   *)
(* choice.                                                                 *)
(***************************************************************************)
EXTENDS Integers, Sequences, FiniteSets, SequencesExt

CONSTANTS
    Keys,          \* user keys, integers ordered as the comparer orders them
    MaxSeq,        \* a number no sequence number passes
    MemCap,        \* entries a write buffer holds (WriteBuffer)
    PauseTrigger,  \* tables of level 0 at which a writer waits (WriteL0PauseTrigger)
    MaxLevel,      \* deepest level
    MaxCrashes,    \* bound: process crashes of a behaviour
    ReaderLives,   \* bound: snapshots are taken before this many crashes
    Requests,      \* the writes clients ask for: store, key, deletion or not, large or not,
                   \* and (a bound) the sequence number below which they are asked for
    ReadKeys,      \* the <<store, key>> the reader looks up
    Merging        \* a waiting write may be merged into the holder's batch

ASSUME BoundsAssumption ==
    /\ Keys \subseteq Nat \ {0} /\ IsFiniteSet(Keys)
    /\ MaxSeq \in Nat /\ MemCap \in Nat \ {0} /\ PauseTrigger \in Nat \ {0}
    /\ MaxLevel \in Nat \ {0} /\ MaxCrashes \in Nat /\ ReaderLives \in Nat
    /\ Requests \subseteq [st : {"regular", "state"}, k : Keys, d : BOOLEAN, large : BOOLEAN,
                            upto : Nat]
    /\ ReadKeys \subseteq {"regular", "state"} \X Keys
    /\ Merging \in BOOLEAN

Stores == {"regular", "state"}
Levels == 0 .. MaxLevel

VARIABLES
    seq,       \* db.seq
    nextNum,   \* session.stNextFileNum
    mem,       \* db.mem and db.mems
    frozen,    \* db.frozenMem and db.frozenMems: a sequence of at most one buffer
    frozenSeq, \* db.frozenSeq and db.frozenSeqs
    jfd,       \* db.journalFd and db.journalFd2
    ffd,       \* db.frozenJournalFd and db.frozenJournalFd2 (0: none)
    journals,  \* the journal files: per store, a function from number to batches
    version,   \* the manifest: per store and level, its tables
    manifest,  \* the manifest's seqNum and nextFileNum
    disk,      \* the table files
    writer,    \* the holder of the write lock
    mcomp,     \* the two mCompaction goroutines
    tcomp,     \* the two tCompaction goroutines
    reader,    \* one client with a snapshot
    phase,     \* "run", "down", or a step of openDB
    recovery,  \* openDB's progress
    crashes,   \* crashes so far
    hist,      \* ghost: the entries each store was asked to hold, once journalled
    damaged,   \* ghost: <<store, key>> that a merge across the stores or a transaction
               \*        that overtook the frozen buffer has touched
    regressed, \* ghost: a recovery ends below a sequence number handed out before
    acked      \* ghost: the largest number db.seq had while the database was open

memory == <<mem, frozen, frozenSeq, jfd, ffd>>
ghosts == <<hist, damaged, regressed, acked>>
vars == <<seq, nextNum, memory, journals, version, manifest, disk, writer, mcomp,
          tcomp, reader, phase, recovery, crashes, ghosts>>

-----------------------------------------------------------------------------
(* Entries and tables *)

NoEntry == [k |-> 0, q |-> 0, d |-> TRUE]

(* The newest entry of key k that a read at sequence number q sees. *)
Newest(E, k, q) ==
    LET seen == {e \in E : e.k = k /\ e.q =< q}
    IN  IF seen = {} THEN NoEntry
        ELSE CHOOSE e \in seen : \A f \in seen : f.q =< e.q

(* What a client is told: the entry's number, 0 for ErrNotFound. *)
Answer(e) == IF e.d THEN 0 ELSE e.q

(* A memdb is ordered by internal key, so Find lands on the newest entry.  *)
memGet(m, k, q) == Newest(m, k, q)

KeysOf(t) == {e.k : e \in t}
imin(t) == Min(KeysOf(t))
imax(t) == Max(KeysOf(t))

(* tFile.overlaps: the table's key range meets [lo, hi]. *)
overlaps(t, lo, hi) == imin(t) =< hi /\ lo =< imax(t)

(* The tables of a level above 0 that meet the range.  On level 0 the      *)
(* range grows with every table found, until no further table meets it.    *)
getOverlaps(tf, lo, hi, overlapped) ==
    IF ~overlapped THEN {t \in tf : overlaps(t, lo, hi)}
    ELSE LET grow[n \in 0 .. Cardinality(tf)] ==
                 IF n = 0 THEN {t \in tf : overlaps(t, lo, hi)}
                 ELSE LET ks == {lo, hi} \cup UNION {KeysOf(t) : t \in grow[n - 1]}
                      IN  {t \in tf : overlaps(t, Min(ks), Max(ks))}
         IN  grow[Cardinality(tf)]

(* The table of a sorted level that may hold (k, q): the first whose       *)
(* largest internal key is not before it, if its smallest key is not       *)
(* after k.                                                                *)
searchLevel(tf, k, q) ==
    LET ahead == {t \in tf : \E e \in t : e.k > k \/ (e.k = k /\ e.q =< q)}
    IN  IF ahead = {} THEN {}
        ELSE LET t == CHOOSE t \in ahead : \A u \in ahead : imax(t) =< imax(u)
             IN  IF imin(t) =< k THEN t ELSE {}

(* version.get: on level 0 the newest entry of all the tables that overlap *)
(* the key; then the first level that has the key decides.                 *)
walkOverlapping(lv, l, k, q) ==
    IF l = 0 THEN Newest(UNION {t \in lv[0] : overlaps(t, k, k)}, k, q)
    ELSE Newest(searchLevel(lv[l], k, q), k, q)

versionGet(lv, k, q) ==
    LET found == {l \in Levels : walkOverlapping(lv, l, k, q) # NoEntry}
    IN  IF found = {} THEN NoEntry ELSE walkOverlapping(lv, Min(found), k, q)

(* DB.get without interruption: buffer, frozen buffer, version. *)
FrozenEntries(s) == IF frozen[s] = <<>> THEN {} ELSE frozen[s][1]

getAt(s, k, q) ==
    LET em == memGet(mem[s], k, q)
        fm == memGet(FrozenEntries(s), k, q)
    IN  CASE em # NoEntry -> em
          [] em = NoEntry /\ fm # NoEntry -> fm
          [] OTHER -> versionGet(version[s], k, q)

JournalEntries(s) ==
    UNION {UNION {Range(journals[s][n][i]) : i \in DOMAIN journals[s][n]} :
              n \in DOMAIN journals[s]}
TableEntries(s) == UNION {UNION version[s][l] : l \in Levels}
AllTables == UNION {version[s][l] : s \in Stores, l \in Levels}

-----------------------------------------------------------------------------
(* The manifest *)

(* versionStaging.commit: what a record says of each level.  Its deleted   *)
(* and its added tables are sets of <<level, table>>.                      *)
scratch(rec) == [l \in Levels |-> {x[2] : x \in {y \in rec : y[1] = l}}]

(* versionStaging.finish: the levels of the next version. *)
finish(lv, deleted, added) ==
    [l \in Levels |-> (lv[l] \ scratch(deleted)[l]) \cup scratch(added)[l]]

(* flushManifest: a record always has the next file number, the sequence   *)
(* number n only where a buffer or a transaction was committed.            *)
flushManifest(n) == manifest' = [seq |-> n, next |-> nextNum]

(* session.commit: the record to the manifest, then the new version.       *)
sessionCommit(s, deleted, added, n) ==
    /\ flushManifest(n)
    /\ version' = [version EXCEPT ![s] = finish(@, deleted, added)]

-----------------------------------------------------------------------------
(* Writing *)

NoRequest == [st |-> "regular", k |-> 0, d |-> TRUE, large |-> FALSE, upto |-> 0]
NoWriter == [pc |-> "idle", req |-> NoRequest, free |-> 0, es |-> <<>>]

(* What follows a recovery that set the sequence number back is not        *)
(* explored: numbers would be handed out twice.                            *)
Running == phase = "run" /\ ~regressed

(* internalLen: a large write is larger than a write buffer. *)
internalLen(req) == IF req.large THEN MemCap + 1 ELSE 1

(* DB.Write, Write_s, Put and Delete: the caller gets the write lock.  A   *)
(* batch of the regular store larger than a write buffer goes through a    *)
(* transaction unless the options forbid it; a state batch never does.     *)
Request(st) ==
    /\ Running /\ writer.pc = "idle"
    /\ \E req \in Requests :
         /\ req.st = st /\ seq < req.upto
         /\ \E pc \in {"flush"} \cup (IF st = "regular" /\ req.large THEN {"open"} ELSE {}) :
              writer' = [NoWriter EXCEPT !.pc = pc, !.req = req]
    /\ UNCHANGED <<seq, nextNum, memory, journals, version, manifest, disk, mcomp, tcomp,
                   reader, phase, recovery, crashes, ghosts>>

Write == Request("regular")
Write_s == Request("state")

(* newMem: a new journal and a new buffer; the old ones become frozen.     *)
(* rotateMem waits for the compaction of the frozen buffer first.          *)
newMem(s) ==
    /\ frozen[s] = <<>> /\ mcomp[s] = "idle"
    /\ nextNum' = nextNum + 1
    /\ journals' = [journals EXCEPT ![s] = (nextNum :> <<>>) @@ @]
    /\ ffd' = [ffd EXCEPT ![s] = jfd[s]]
    /\ jfd' = [jfd EXCEPT ![s] = nextNum]
    /\ frozen' = [frozen EXCEPT ![s] = <<mem[s]>>]
    /\ mem' = [mem EXCEPT ![s] = {}]
    /\ frozenSeq' = [frozenSeq EXCEPT ![s] = seq]

Free(s) == IF Cardinality(mem[s]) < MemCap THEN MemCap - Cardinality(mem[s]) ELSE 0

(* DB.flush: go on when the buffer has room; wait while level 0 is full;   *)
(* else freeze the buffer.  An empty buffer of the regular store grows     *)
(* instead, the state store freezes the empty buffer.                      *)
MakeRoom(s) ==
    LET n == internalLen(writer.req)
        ready(f) == writer' = [writer EXCEPT !.pc = "journal", !.free = f]
    IN  /\ writer.pc = "flush" /\ writer.req.st = s
        /\ \/ /\ n =< Free(s)
              /\ ready(Free(s))
              /\ UNCHANGED <<nextNum, memory, journals>>
           \/ /\ n > Free(s) /\ Cardinality(version[s][0]) < PauseTrigger
              /\ s = "regular" /\ mem[s] = {}
              /\ ready(n)
              /\ UNCHANGED <<nextNum, memory, journals>>
           \/ /\ n > Free(s) /\ Cardinality(version[s][0]) < PauseTrigger
              /\ ~(s = "regular" /\ mem[s] = {})
              /\ newMem(s)
              /\ ready(IF n > MemCap THEN n ELSE MemCap)
        /\ UNCHANGED <<seq, version, manifest, disk, mcomp, tcomp, reader, phase, recovery,
                       crashes, ghosts>>

flush == MakeRoom("regular")
flush_s == MakeRoom("state")

(* The entry of a request with sequence number q. *)
Numbered(req, q) == [k |-> req.k, q |-> q, d |-> req.d]

(* The merge loop of writeLocked takes a waiting write, of either store,   *)
(* while it fits the buffer: both stores offer theirs on writeMergeC.      *)
Mergeable ==
    {req \in Requests : /\ Merging /\ seq + 1 < req.upto
                        /\ internalLen(req) =< writer.free - internalLen(writer.req)}

(* writeJournal: one record holds the batch and what was merged into it.   *)
Journal(s) ==
    LET own == Numbered(writer.req, seq + 1)
        record(es) == /\ journals' = [journals EXCEPT ![s][jfd[s]] = Append(@, es)]
                      /\ writer' = [writer EXCEPT !.pc = "put", !.es = es]
    IN  /\ writer.pc = "journal" /\ writer.req.st = s
        /\ \/ /\ record(<<own>>)
              /\ hist' = [hist EXCEPT ![s] = @ \cup {own}]
              /\ UNCHANGED damaged
           \/ \E req \in Mergeable :
                LET merged == Numbered(req, seq + 2)
                IN  /\ record(<<own, merged>>)
                    /\ hist' = [st \in Stores |-> hist[st] \cup (IF st = s THEN {own} ELSE {})
                                                  \cup (IF st = req.st THEN {merged} ELSE {})]
                    /\ damaged' = damaged \cup
                           (IF req.st = s THEN {} ELSE Stores \X {req.k})
        /\ UNCHANGED <<seq, nextNum, memory, version, manifest, disk, mcomp, tcomp, reader,
                       phase, recovery, crashes, regressed, acked>>

writeJournal == Journal("regular")
writeJournal_s == Journal("state")

(* putMem: the entries enter the buffer; readers do not see them yet.      *)
PutMem(s) ==
    /\ writer.pc = "put" /\ writer.req.st = s
    /\ mem' = [mem EXCEPT ![s] = @ \cup Range(writer.es)]
    /\ writer' = [writer EXCEPT !.pc = "seq"]
    /\ UNCHANGED <<seq, nextNum, frozen, frozenSeq, jfd, ffd, journals, version, manifest,
                   disk, mcomp, tcomp, reader, phase, recovery, crashes, ghosts>>

putMem == PutMem("regular")
putMem_s == PutMem("state")

(* addSeq makes them visible.  A batch that filled the buffer freezes it   *)
(* before the lock is given up.                                            *)
AddSeq(s) ==
    /\ writer.pc = "seq" /\ writer.req.st = s
    /\ seq' = seq + Len(writer.es)
    /\ acked' = seq'
    /\ writer' = IF internalLen(writer.req) >= writer.free
                 THEN [writer EXCEPT !.pc = "rotate"] ELSE NoWriter
    /\ UNCHANGED <<nextNum, memory, journals, version, manifest, disk, mcomp, tcomp, reader,
                   phase, recovery, crashes, hist, damaged, regressed>>

addSeq == AddSeq("regular")
addSeq_s == AddSeq("state")

Rotate(s) ==
    /\ writer.pc = "rotate" /\ writer.req.st = s
    /\ newMem(s)
    /\ writer' = NoWriter
    /\ UNCHANGED <<seq, version, manifest, disk, mcomp, tcomp, reader, phase, recovery,
                   crashes, ghosts>>

rotateMem == Rotate("regular")
rotateMem_s == Rotate("state")

(* OpenTransaction: an unempty buffer is frozen and flushed first, and     *)
(* level 0 must have room.  A buffer frozen earlier is not waited for when *)
(* the current one is empty.                                               *)
waitCompaction == Cardinality(version["regular"][0]) < PauseTrigger

OpenTransaction ==
    /\ \/ /\ writer.pc = "open" /\ mem["regular"] # {}
          /\ newMem("regular")
          /\ writer' = [writer EXCEPT !.pc = "opening"]
       \/ /\ \/ writer.pc = "open" /\ mem["regular"] = {}
             \/ writer.pc = "opening" /\ frozen["regular"] = <<>> /\ mcomp["regular"] = "idle"
          /\ waitCompaction
          /\ writer' = [writer EXCEPT !.pc = "tables", !.es = <<Numbered(writer.req, seq + 1)>>]
          /\ UNCHANGED <<nextNum, memory, journals>>
    /\ UNCHANGED <<seq, version, manifest, disk, mcomp, tcomp, reader, phase, recovery,
                   crashes, ghosts>>

(* Transaction.Write and flush: the batch goes to a table, not a journal.  *)
TrFlush ==
    /\ writer.pc = "tables"
    /\ disk' = disk \cup {Range(writer.es)}
    /\ writer' = [writer EXCEPT !.pc = "commit"]
    /\ UNCHANGED <<seq, nextNum, memory, journals, version, manifest, mcomp, tcomp, reader,
                   phase, recovery, crashes, ghosts>>

(* Transaction.Commit: the manifest, then db.seq, then a wait for room on  *)
(* level 0 and the release of the lock.                                    *)
Commit ==
    LET t == Range(writer.es)
    IN  /\ writer.pc = "commit"
        /\ sessionCommit("regular", {}, {<<0, t>>}, seq + Len(writer.es))
        /\ writer' = [writer EXCEPT !.pc = "setSeq"]
        /\ hist' = [hist EXCEPT !["regular"] = @ \cup t]
        /\ damaged' = damaged \cup
               {<<"regular", k>> : k \in KeysOf(t) \cap KeysOf(FrozenEntries("regular"))}
        /\ UNCHANGED <<seq, nextNum, memory, journals, disk, mcomp, tcomp, reader, phase,
                       recovery, crashes, regressed, acked>>

setSeq ==
    /\ writer.pc = "setSeq"
    /\ seq' = seq + Len(writer.es)
    /\ acked' = seq'
    /\ writer' = [writer EXCEPT !.pc = "done"]
    /\ UNCHANGED <<nextNum, memory, journals, version, manifest, disk, mcomp, tcomp, reader,
                   phase, recovery, crashes, hist, damaged, regressed>>

setDone ==
    /\ writer.pc = "done" /\ waitCompaction
    /\ writer' = NoWriter
    /\ UNCHANGED <<seq, nextNum, memory, journals, version, manifest, disk, mcomp, tcomp,
                   reader, phase, recovery, crashes, ghosts>>

-----------------------------------------------------------------------------
(* Flushing the frozen buffer *)

(* dropFrozenMem: the frozen journal is removed with the buffer. *)
Without(f, n) == [m \in DOMAIN f \ {n} |-> f[m]]

dropFrozenMem(s) ==
    /\ journals' = [journals EXCEPT ![s] = Without(@, ffd[s])]
    /\ ffd' = [ffd EXCEPT ![s] = 0]
    /\ frozen' = [frozen EXCEPT ![s] = <<>>]

\* Mutant: the journal is removed with the table written but not committed.
FlushMemdb_Early(s) ==
    /\ Running /\ frozen[s] # <<>> /\ mcomp[s] = "idle"
    /\ \/ /\ frozen[s][1] = {}
          /\ dropFrozenMem(s)
          /\ UNCHANGED <<disk, mcomp>>
       \/ /\ frozen[s][1] # {} /\ tcomp[s].pc # "built"
          /\ disk' = disk \cup {frozen[s][1]}
          /\ mcomp' = [mcomp EXCEPT ![s] = "flushed"]
          /\ journals' = [journals EXCEPT ![s] = Without(@, ffd[s])]
          /\ UNCHANGED <<frozen, ffd>>
    /\ UNCHANGED <<seq, nextNum, mem, frozenSeq, jfd, version, manifest, writer, tcomp,
                   reader, phase, recovery, crashes, ghosts>>

(* memCompaction: an empty frozen buffer is dropped at once.  Otherwise    *)
(* table compaction is paused, which it can be until its tables are        *)
(* finished, and the buffer is written to a table.                         *)
FlushMemdb(s) ==
    /\ Running /\ frozen[s] # <<>> /\ mcomp[s] = "idle"
    /\ \/ /\ frozen[s][1] = {}
          /\ dropFrozenMem(s)
          /\ UNCHANGED <<disk, mcomp>>
       \/ /\ frozen[s][1] # {}
          /\ tcomp[s].pc # "built"
          /\ disk' = disk \cup {frozen[s][1]}
          /\ mcomp' = [mcomp EXCEPT ![s] = "flushed"]
          /\ UNCHANGED <<frozen, ffd, journals>>
    /\ UNCHANGED <<seq, nextNum, mem, frozenSeq, jfd, version, manifest, writer, tcomp,
                   reader, phase, recovery, crashes, ghosts>>

(* compactionCommit: the table joins level 0, and the manifest takes the   *)
(* sequence number the buffer was frozen at.                               *)
MemCommit(s) ==
    /\ mcomp[s] = "flushed"
    /\ sessionCommit(s, {}, {<<0, frozen[s][1]>>}, frozenSeq[s])
    /\ mcomp' = [mcomp EXCEPT ![s] = "committed"]
    /\ UNCHANGED <<seq, nextNum, memory, journals, disk, writer, tcomp, reader, phase,
                   recovery, crashes, ghosts>>

(* Then buffer and journal are dropped and table compaction resumes. *)
MemDrop(s) ==
    /\ mcomp[s] = "committed"
    /\ dropFrozenMem(s)
    /\ mcomp' = [mcomp EXCEPT ![s] = "idle"]
    /\ UNCHANGED <<seq, nextNum, mem, frozenSeq, jfd, version, manifest, disk, writer, tcomp,
                   reader, phase, recovery, crashes, ghosts>>

flushMemdb == FlushMemdb("regular")
flushMemdb_s == FlushMemdb("state")
memCompaction == MemCommit("regular") \/ MemDrop("regular")
memCompaction_s == MemCommit("state") \/ MemDrop("state")

-----------------------------------------------------------------------------
(* Compacting tables *)

NoCompaction == [pc |-> "idle", l |-> 0, t0 |-> {}, t1 |-> {}, minSeq |-> 0, outs |-> {}]

RangeOf(ts) == UNION {KeysOf(t) : t \in ts}

\* Mutant: the snapshots are forgotten.
minSeq_Latest == seq

(* DB.minSeq: the oldest snapshot, or the current number. *)
minSeq == IF reader.pc = "idle" THEN seq ELSE reader.q

(* compaction.expand: on level 0 the source tables grow to all that        *)
(* overlap them, t1 is what they overlap one level down, and the source    *)
(* may grow further where that does not change t1.                         *)
expand(lv, l, src) ==
    LET lo(ts) == Min(RangeOf(ts))
        hi(ts) == Max(RangeOf(ts))
        t0 == IF l = 0 THEN getOverlaps(lv[0], lo(src), hi(src), TRUE) ELSE src
        t1 == getOverlaps(lv[l + 1], lo(t0), hi(t0), FALSE)
        exp0 == getOverlaps(lv[l], lo(t0 \cup t1), hi(t0 \cup t1), l = 0)
        exp1 == getOverlaps(lv[l + 1], lo(exp0), hi(exp0), FALSE)
    IN  {<<t0, t1>>} \cup
        (IF t1 # {} /\ Cardinality(exp0) > Cardinality(t0) /\ exp1 = t1
         THEN {<<exp0, exp1>>} ELSE {})

(* pickCompaction: a table of a level whose score or whose seeks ask for   *)
(* it.  getCompactionRange: the tables of a range, and above level 0 only  *)
(* the first of them when they are too large together.                     *)
pickCompaction(lv, l) == {{t} : t \in lv[l]}

getCompactionRange(lv, l) ==
    LET found(lo, hi) == getOverlaps(lv[l], lo, hi, l = 0)
        first(ts, k) == {t \in ts : imax(t) =< k}
    IN  ({found(lo, hi) : lo \in Keys, hi \in Keys} \cup
         (IF l = 0 THEN {} ELSE {first(found(lo, hi), k) : lo \in Keys, hi \in Keys, k \in Keys}))
        \ {{}}

(* A compaction of level l starts from sources src. *)
Start(s, l, src) ==
    \E x \in expand(version[s], l, src) :
       tcomp' = [tcomp EXCEPT ![s] = [NoCompaction EXCEPT !.pc = "building", !.l = l,
                                        !.t0 = x[1], !.t1 = x[2], !.minSeq = minSeq]]

(* The table goroutine is free and not paused by the memdb's. *)
TableIdle(s) == Running /\ tcomp[s].pc = "idle" /\ mcomp[s] = "idle"

PickTables(s) ==
    /\ TableIdle(s)
    /\ \E l \in 0 .. MaxLevel - 1 :
       \E src \in pickCompaction(version[s], l) \cup getCompactionRange(version[s], l) :
          Start(s, l, src)
    /\ UNCHANGED <<seq, nextNum, memory, journals, version, manifest, disk, writer, mcomp,
                   reader, phase, recovery, crashes, ghosts>>

\* Mutant: the tables below are not looked at.
MoveTable_Blind(s) ==
    /\ TableIdle(s)
    /\ \E l \in 0 .. MaxLevel - 1 :
       \E src \in pickCompaction(version[s], l) :
       \E x \in expand(version[s], l, src) :
          /\ Cardinality(x[1]) = 1
          /\ sessionCommit(s, {l} \X x[1], {l + 1} \X x[1], manifest.seq)
    /\ UNCHANGED <<seq, nextNum, memory, journals, disk, writer, mcomp, tcomp, reader, phase,
                   recovery, crashes, ghosts>>

(* A single table that meets nothing below is moved. *)
MoveTable(s) ==
    /\ TableIdle(s)
    /\ \E l \in 0 .. MaxLevel - 1 :
       \E src \in pickCompaction(version[s], l) :
       \E x \in expand(version[s], l, src) :
          /\ Cardinality(x[1]) = 1 /\ x[2] = {}
          /\ sessionCommit(s, {l} \X x[1], {l + 1} \X x[1], manifest.seq)
    /\ UNCHANGED <<seq, nextNum, memory, journals, disk, writer, mcomp, tcomp, reader, phase,
                   recovery, crashes, ghosts>>

(* No table two or more levels below the source may hold the key. *)
baseLevelForKey(lv, l, k) ==
    \A m \in l + 2 .. MaxLevel : \A t \in lv[m] : ~overlaps(t, k, k)

(* tableCompactionBuilder.run: an entry is dropped when a newer one of its *)
(* key is old enough for every reader, or when it is such a deletion with  *)
(* nothing below it.                                                       *)
run(lv, c) ==
    LET all == UNION (c.t0 \cup c.t1)
        shadowed(e) == \E f \in all : f.k = e.k /\ f.q > e.q /\ f.q =< c.minSeq
        obsolete(e) == e.d /\ e.q =< c.minSeq /\ baseLevelForKey(lv, c.l, e.k)
    IN  {e \in all : ~shadowed(e) /\ ~obsolete(e)}

(* A new table starts at a new key only, where size or overlap ask for it. *)
Split(kept, cuts) ==
    {{e \in kept : \A c \in cuts : (e.k < c) <=> (k < c)} : k \in KeysOf(kept)}

BuildTables(s) ==
    LET c == tcomp[s]
    IN  /\ c.pc = "building" /\ mcomp[s] = "idle"
        /\ \E cuts \in SUBSET (Keys \ {Min(Keys)}) :
             LET outs == Split(run(version[s], c), cuts)
             IN  /\ tcomp' = [tcomp EXCEPT ![s].pc = "built", ![s].outs = outs]
                 /\ disk' = disk \cup outs
        /\ UNCHANGED <<seq, nextNum, memory, journals, version, manifest, writer, mcomp,
                       reader, phase, recovery, crashes, ghosts>>

(* The commit takes the sources out of the current version and puts the    *)
(* new tables in; the source files go when no version refers to them.      *)
CommitTables(s) ==
    LET c == tcomp[s]
    IN  /\ c.pc = "built"
        /\ sessionCommit(s, ({c.l} \X c.t0) \cup ({c.l + 1} \X c.t1), {c.l + 1} \X c.outs,
                         manifest.seq)
        /\ disk' = disk \ ((c.t0 \cup c.t1) \ c.outs)
        /\ tcomp' = [tcomp EXCEPT ![s] = NoCompaction]
        /\ UNCHANGED <<seq, nextNum, memory, journals, writer, mcomp, reader, phase,
                       recovery, crashes, ghosts>>

tableAutoCompaction == PickTables("regular")
tableAutoCompaction_s == PickTables("state")
trivial == MoveTable("regular")
trivial_s == MoveTable("state")
runBuilder == BuildTables("regular")
runBuilder_s == BuildTables("state")
tableCompaction == CommitTables("regular")
tableCompaction_s == CommitTables("state")

-----------------------------------------------------------------------------
(* Reading *)

NoReader == [pc |-> "idle", q |-> 0, s |-> "regular", k |-> 0, ok |-> TRUE]

acquireSnapshot ==
    /\ Running /\ reader.pc = "idle" /\ crashes < ReaderLives
    /\ reader' = [NoReader EXCEPT !.pc = "snap", !.q = seq]
    /\ UNCHANGED <<seq, nextNum, memory, journals, version, manifest, disk, writer, mcomp,
                   tcomp, phase, recovery, crashes, ghosts>>

(* The entries of a store that are to be seen for a key by the snapshot    *)
(* at q, as a client may judge an answer (a ghost: reader.ok keeps the     *)
(* verdict).                                                               *)
Right(s, k, q, e) == \/ <<s, k>> \in damaged \/ regressed
                     \/ Answer(e) = Answer(Newest(hist[s], k, q))

Answered(s, k, e) == [reader EXCEPT !.pc = "snap", !.s = "regular", !.k = 0,
                                    !.ok = @ /\ Right(s, k, reader.q, e)]

(* DB.get looks at the buffer and the frozen buffer of one moment; what    *)
(* they lack it looks up in the version of a later moment.                 *)
GetMems(s) ==
    /\ reader.pc = "snap"
    /\ \E k \in {k \in Keys : <<s, k>> \in ReadKeys} :
         LET em == memGet(mem[s], k, reader.q)
             e == IF em # NoEntry THEN em ELSE memGet(FrozenEntries(s), k, reader.q)
         IN  reader' = IF e # NoEntry THEN Answered(s, k, e)
                       ELSE [reader EXCEPT !.pc = "version", !.s = s, !.k = k]
    /\ UNCHANGED <<seq, nextNum, memory, journals, version, manifest, disk, writer, mcomp,
                   tcomp, phase, recovery, crashes, ghosts>>

getMems == GetMems("regular")
getMems_s == GetMems("state")

GetVersion(s) ==
    /\ reader.pc = "version" /\ reader.s = s
    /\ reader' = Answered(s, reader.k, versionGet(version[s], reader.k, reader.q))
    /\ UNCHANGED <<seq, nextNum, memory, journals, version, manifest, disk, writer, mcomp,
                   tcomp, phase, recovery, crashes, ghosts>>

get == GetVersion("regular")
get_s == GetVersion("state")

releaseSnapshot ==
    /\ reader.pc = "snap"
    /\ reader' = NoReader
    /\ UNCHANGED <<seq, nextNum, memory, journals, version, manifest, disk, writer, mcomp,
                   tcomp, phase, recovery, crashes, ghosts>>

-----------------------------------------------------------------------------
(* Crash and recovery *)

NoRecovery == [todo |-> <<>>, ofd |-> 0, ents |-> {}]

(* The process stops: files stay, memory goes.  Close leaves the same      *)
(* files, since it flushes no buffer.                                      *)
Crash ==
    /\ phase # "down" /\ crashes < MaxCrashes
    /\ crashes' = crashes + 1
    /\ phase' = "down"
    /\ mem' = [s \in Stores |-> {}]
    /\ frozen' = [s \in Stores |-> <<>>]
    /\ frozenSeq' = [s \in Stores |-> 0]
    /\ jfd' = [s \in Stores |-> 0]
    /\ ffd' = [s \in Stores |-> 0]
    /\ writer' = NoWriter
    /\ mcomp' = [s \in Stores |-> "idle"]
    /\ tcomp' = [s \in Stores |-> NoCompaction]
    /\ reader' = NoReader
    /\ recovery' = NoRecovery
    /\ UNCHANGED <<seq, nextNum, journals, version, manifest, disk, ghosts>>

LastJournal(s) == Max({0} \cup DOMAIN journals[s])

(* WhichLogFirst: the store with the newest journal file is recovered last. *)
WhichLogFirst == LastJournal("state") > LastJournal("regular")

(* The number a recovery ends with: that of the last batch of the store it *)
(* replays last, for want of one the other's, for want of both the         *)
(* manifest's.                                                             *)
EndSeq(order) ==
    LET last(s) == Max({0} \cup {e.q + 1 : e \in JournalEntries(s)})
    IN  CASE last(order[2]) > 0 -> last(order[2])
          [] last(order[2]) = 0 /\ last(order[1]) > 0 -> last(order[1])
          [] OTHER -> manifest.seq

(* openDB: session.recover restores the manifest's numbers. *)
openDB ==
    LET order == IF WhichLogFirst THEN <<"regular", "state">> ELSE <<"state", "regular">>
    IN  /\ phase = "down"
        /\ phase' = "replay"
        /\ seq' = manifest.seq
        /\ nextNum' = manifest.next
        /\ recovery' = [NoRecovery EXCEPT !.todo = order]
        /\ regressed' = (regressed \/ \E s \in Stores : \E e \in hist[s] : e.q > EndSeq(order))
        /\ UNCHANGED <<memory, journals, version, manifest, disk, writer, mcomp, tcomp,
                       reader, crashes, hist, damaged, acked>>

(* The journals not replayed yet, oldest first. *)
Pending(s) == {n \in DOMAIN journals[s] : n > recovery.ofd}

\* Mutant: the sequence number is not saved.
ReplayJournal_NoSeq(s) ==
    /\ phase = "replay" /\ Head(recovery.todo) = s
    /\ recovery.ofd = 0 /\ Pending(s) # {}
    /\ LET n == Min(Pending(s))
           bs == journals[s][n]
       IN  recovery' = [recovery EXCEPT !.ofd = n,
                            !.ents = UNION {Range(bs[i]) : i \in DOMAIN bs}]
    /\ nextNum' = Max({nextNum, LastJournal(s) + 1})
    /\ UNCHANGED <<seq, memory, journals, version, manifest, disk, writer, mcomp, tcomp,
                   reader, phase, crashes, ghosts>>

(* Replay one journal: its entries into a buffer, its last batch's number  *)
(* into db.seq.                                                            *)
ReplayJournal(s) ==
    /\ phase = "replay" /\ Head(recovery.todo) = s
    /\ recovery.ofd = 0 /\ Pending(s) # {}
    /\ LET n == Min(Pending(s))
           bs == journals[s][n]
       IN  /\ recovery' = [recovery EXCEPT !.ofd = n,
                               !.ents = UNION {Range(bs[i]) : i \in DOMAIN bs}]
           /\ seq' = IF bs = <<>> THEN seq ELSE Last(bs)[1].q + Len(Last(bs))
    /\ nextNum' = Max({nextNum, LastJournal(s) + 1})
    /\ UNCHANGED <<memory, journals, version, manifest, disk, writer, mcomp, tcomp, reader,
                   phase, crashes, ghosts>>

(* What was replayed becomes a table of level 0 and the manifest takes     *)
(* db.seq; the journal is removed after that.                              *)
CommitReplayed(s) ==
    LET ts == {recovery.ents} \ {{}}
    IN  /\ disk' = disk \cup ts
        /\ sessionCommit(s, {}, {0} \X ts, seq)

NextJournal(s) ==
    /\ phase = "replay" /\ Head(recovery.todo) = s
    /\ recovery.ofd # 0 /\ Pending(s) # {}
    /\ CommitReplayed(s)
    /\ phase' = "remove"
    /\ UNCHANGED <<seq, nextNum, memory, journals, writer, mcomp, tcomp, reader, recovery,
                   crashes, ghosts>>

(* After the last journal: a new one, the commit, the removal. *)
NewJournal(s) ==
    /\ phase = "replay" /\ Head(recovery.todo) = s /\ Pending(s) = {}
    /\ journals' = [journals EXCEPT ![s] = (nextNum :> <<>>) @@ @]
    /\ jfd' = [jfd EXCEPT ![s] = nextNum]
    /\ nextNum' = nextNum + 1
    /\ frozenSeq' = [frozenSeq EXCEPT ![s] = seq]
    /\ phase' = "commit"
    /\ UNCHANGED <<seq, mem, frozen, ffd, version, manifest, disk, writer, mcomp, tcomp,
                   reader, recovery, crashes, ghosts>>

CommitRecovery(s) ==
    /\ phase = "commit" /\ Head(recovery.todo) = s
    /\ CommitReplayed(s)
    /\ phase' = "finish"
    /\ UNCHANGED <<seq, nextNum, memory, journals, writer, mcomp, tcomp, reader, recovery,
                   crashes, ghosts>>

RemoveJournal(s) ==
    LET todo == IF phase = "remove" THEN recovery.todo ELSE Tail(recovery.todo)
    IN  /\ phase \in {"remove", "finish"} /\ Head(recovery.todo) = s
        /\ journals' = [journals EXCEPT ![s] = Without(@, recovery.ofd)]
        /\ recovery' = [NoRecovery EXCEPT !.todo = todo]
        /\ phase' = IF todo = <<>> THEN "clean" ELSE "replay"
        /\ UNCHANGED <<seq, nextNum, memory, version, manifest, disk, writer, mcomp, tcomp,
                       reader, crashes, ghosts>>

RecoverStore(s) == \/ ReplayJournal(s) \/ NextJournal(s) \/ NewJournal(s)
                   \/ CommitRecovery(s) \/ RemoveJournal(s)
recoverJournal == RecoverStore("regular")
recoverJournal_s == RecoverStore("state")

(* checkAndCleanFiles: every table of the version must be on disk; files   *)
(* that nothing refers to and journals before the current ones go.         *)
checkAndCleanFiles ==
    /\ phase = "clean"
    /\ AllTables \subseteq disk
    /\ disk' = AllTables
    /\ journals' = [s \in Stores |->
           [n \in {m \in DOMAIN journals[s] : m >= jfd[s]} |-> journals[s][n]]]
    /\ phase' = "run"
    /\ UNCHANGED <<seq, nextNum, memory, version, manifest, writer, mcomp, tcomp, reader,
                   recovery, crashes, ghosts>>

-----------------------------------------------------------------------------
(* A database just created: the regular store got the first journal. *)
Init ==
    /\ seq = 0 /\ nextNum = 3
    /\ mem = [s \in Stores |-> {}]
    /\ frozen = [s \in Stores |-> <<>>]
    /\ frozenSeq = [s \in Stores |-> 0]
    /\ jfd = ("regular" :> 2 @@ "state" :> 1)
    /\ ffd = [s \in Stores |-> 0]
    /\ journals = [s \in Stores |-> (jfd[s] :> <<>>)]
    /\ version = [s \in Stores |-> [l \in Levels |-> {}]]
    /\ manifest = [seq |-> 0, next |-> 3]
    /\ disk = {}
    /\ writer = NoWriter
    /\ mcomp = [s \in Stores |-> "idle"]
    /\ tcomp = [s \in Stores |-> NoCompaction]
    /\ reader = NoReader
    /\ phase = "run"
    /\ recovery = NoRecovery
    /\ crashes = 0
    /\ hist = [s \in Stores |-> {}]
    /\ damaged = {}
    /\ regressed = FALSE
    /\ acked = 0

WriteSteps ==
    \/ flush \/ flush_s \/ writeJournal \/ writeJournal_s \/ putMem \/ putMem_s
    \/ addSeq \/ addSeq_s \/ rotateMem \/ rotateMem_s
    \/ OpenTransaction \/ TrFlush \/ Commit \/ setSeq \/ setDone
Compactions ==
    \/ flushMemdb \/ flushMemdb_s \/ memCompaction \/ memCompaction_s
    \/ tableAutoCompaction \/ tableAutoCompaction_s \/ trivial \/ trivial_s
    \/ runBuilder \/ runBuilder_s \/ tableCompaction \/ tableCompaction_s
Reads == acquireSnapshot \/ getMems \/ getMems_s \/ get \/ get_s \/ releaseSnapshot
Recovery == openDB \/ recoverJournal \/ recoverJournal_s \/ checkAndCleanFiles

Next == Write \/ Write_s \/ WriteSteps \/ Compactions \/ Reads \/ Crash \/ Recovery

Spec == Init /\ [][Next]_vars

-----------------------------------------------------------------------------
(* Properties *)

Entry == [k : Keys, q : Nat, d : BOOLEAN]

(* The variables keep their shapes; buffers, tables and journals hold      *)
(* entries only.                                                           *)
TypeOK ==
    /\ seq \in Nat /\ nextNum \in Nat /\ crashes \in 0 .. MaxCrashes
    /\ \A s \in Stores :
         /\ mem[s] \cup FrozenEntries(s) \cup JournalEntries(s) \cup TableEntries(s) \subseteq Entry
         /\ Len(frozen[s]) =< 1 /\ (ffd[s] # 0) = (frozen[s] # <<>>)
         /\ phase = "run" => {jfd[s], ffd[s]} \ {0} = DOMAIN journals[s]
         /\ mcomp[s] \in {"idle", "flushed", "committed"}
         /\ tcomp[s].pc \in {"idle", "building", "built"}
    /\ writer.pc \in {"idle", "flush", "journal", "put", "seq", "rotate", "open", "opening",
                      "tables", "commit", "setSeq", "done"}
    /\ reader.pc \in {"idle", "snap", "version"}
    /\ phase \in {"run", "down", "replay", "remove", "commit", "finish", "clean"}
    /\ manifest \in [seq : Nat, next : Nat]

(* The keys no known defect has touched. *)
Sound == (Stores \X Keys) \ damaged

(* The entries of the write that is under way. *)
InFlight == IF writer.pc \in {"put", "seq", "setSeq"} THEN Range(writer.es) ELSE {}

(* DB.Get and Get_s return the last write of the key that was acknowledged *)
(* or recovered, through every flush, compaction and reopening.            *)
ReadLatest ==
    phase = "run" /\ ~regressed =>
        \A sk \in Sound :
            Answer(getAt(sk[1], sk[2], seq))
              = Answer(Newest(hist[sk[1]] \ InFlight, sk[2], MaxSeq))

(* A snapshot keeps its contents: compactions drop nothing that the        *)
(* oldest snapshot still sees (minSeq), and a read interleaved with        *)
(* freezing, flushing and compacting answers for the snapshot's moment.    *)
SnapshotIntact ==
    phase = "run" /\ ~regressed /\ reader.pc # "idle" =>
        /\ \A sk \in Sound :
             Answer(getAt(sk[1], sk[2], reader.q)) = Answer(Newest(hist[sk[1]], sk[2], reader.q))
        /\ reader.ok

(* What version.get relies on when it stops at the first level that has    *)
(* the key: tables of a level below 0 share no key, and an entry of an     *)
(* upper level is newer than every entry of its key further down.          *)
LevelsOrdered ==
    \A sk \in Sound :
        LET lv == version[sk[1]]
            of(l) == {e \in UNION lv[l] : e.k = sk[2]}
        IN  /\ \A l \in Levels \ {0} : Cardinality({t \in lv[l] : overlaps(t, sk[2], sk[2])}) =< 1
            /\ ~regressed => \A l \in Levels : \A m \in l + 1 .. MaxLevel :
                                 \A e \in of(l), f \in of(m) : e.q > f.q

(* A crash at any moment, recovery's own steps included, finds the tables  *)
(* the manifest names on disk (checkAndCleanFiles removes none of them),   *)
(* every journalled or committed write in a journal or in one of these     *)
(* tables, and no older version of its key in its place.                   *)
Recoverable ==
    /\ AllTables \subseteq disk
    /\ \A sk \in Sound :
        LET stored == JournalEntries(sk[1]) \cup TableEntries(sk[1])
            top == MaxSeq
        IN  ~regressed => Answer(Newest(stored, sk[2], top)) = Answer(Newest(hist[sk[1]], sk[2], top))

(* "Note that if it is just the process that crashes (and the machine does *)
(* not) then no writes will be lost" (opt.WriteOptions.Sync): once the     *)
(* database is open again, a read finds the last acknowledged write of the *)
(* key or a later one.                                                     *)
NoWriteLost ==
    phase = "run" =>
        \A sk \in Sound :
            LET e == Newest(hist[sk[1]], sk[2], acked)
                later == {f \in hist[sk[1]] : f.k = sk[2] /\ f.q >= e.q}
            IN  e # NoEntry => Answer(getAt(sk[1], sk[2], seq)) \in {Answer(f) : f \in later}
=============================================================================
