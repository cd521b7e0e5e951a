---------------------------- MODULE LevelWrite ----------------------------
(***************************************************************************)
(* Who may write in the leveldb fork, and who waits for whom.              *)
(*                                                                         *)
(* Writers of both stores pass through one lock channel (writeLockC).  The *)
(* lock holder may merge the writes of others into its own record, hands   *)
(* the lock over to a writer whose batch did not fit, and waits for the    *)
(* two compaction goroutines of its store when a buffer is full or level 0 *)
(* has too many tables.  The compaction goroutines pause each other,       *)
(* report their errors to the error goroutine, which itself takes the      *)
(* write lock once an error is permanent, and all of them stop on Close.   *)
(*                                                                         *)
(* Keys and values are left out: LevelDB models what the steps write.      *)
(* A rendezvous on an unbuffered channel is one step of both goroutines.   *)
(***************************************************************************)
EXTENDS Integers

CONSTANTS
  Writers,         \* the goroutines that call Put, Delete or Write
  StoreOf,         \* the store each one writes: "regular" or "state"
  Sizes,           \* the sizes its batches may have (internalLen)
  Transactions,    \* the ones that write through OpenTransaction
  BufferCap,       \* opt.WriteBuffer
  CompTrigger,     \* opt.CompactionL0Trigger: level-0 tables that start a compaction
  PauseTrigger,    \* opt.WriteL0PauseTrigger: level-0 tables that stop the writers
  Found,           \* level-0 tables the DB finds at open, in each store
  MaxWrites,       \* bound: writes of one writer
  MaxFaults,       \* bound: failed journal writes, table writes and commits
  ReadOnlyCalls    \* whether SetReadOnly is called

Stores == {"regular", "state"}

ASSUME LevelWriteAssumption ==
  /\ StoreOf \in [Writers -> Stores]
  /\ Sizes \in [Writers -> SUBSET (Nat \ {0})]
  /\ Transactions \subseteq {w \in Writers : StoreOf[w] = "regular"}
  /\ BufferCap \in Nat \ {0}
  /\ CompTrigger \in Nat \ {0}
  /\ PauseTrigger \in Nat
  /\ CompTrigger <= PauseTrigger
  /\ Found \in [Stores -> Nat]
  /\ MaxWrites \in Nat
  /\ MaxFaults \in Nat
  /\ ReadOnlyCalls \in BOOLEAN

ASSUME WriterNames ==
  Writers \cap {"free", "error", "readonly", "closer", "transaction", "lost"} = {}

VARIABLES
  pc,       \* pc[w]: where the call of w is, see TypeOK
  lock,     \* who put the token into writeLockC, or "free"
  hold,     \* where the lock holder is in writeLocked or in a transaction
  fill,     \* fill[s]: bytes in the write buffer of s
  frozen,   \* frozen[s]: the frozen buffer: "none", "empty" or "full"
  level0,   \* level0[s]: tables of level 0
  mcomp,    \* mcomp[s]: the goroutine mCompaction
  tcomp,    \* tcomp[s]: the goroutine tCompaction
  errs,     \* the goroutine compactionError: noerr, haserr, hasperr, gone
  readonly, \* the call of SetReadOnly
  close,    \* the call of Close
  stuck,    \* whether compCommitLk was left locked by a failed Commit
  faults,   \* failures so far
  calls,    \* calls[w]: writes w has begun
  written,  \* written[w]: how often a write of w reached journal and buffer
  acked     \* acked[w]: how often a write of w returned nil

vars == <<pc, lock, hold, fill, frozen, level0, mcomp, tcomp, errs, readonly,
          close, stuck, faults, calls, written, acked>>

holdVars == <<pc, lock, hold>>
dataVars == <<fill, frozen, level0>>
countVars == <<calls, written, acked>>

\* The holder's locals: the statement, what its wait is for, the size of its
\* batch, the space flush found, the room left for merging, the size and the
\* writers of the merged batches, and the refused writer with its size.
NoHold == [pc |-> "none", for |-> "none", size |-> 0, free |-> 0, limit |-> 0, added |-> 0,
           merged |-> {}, next |-> {}, nextSize |-> 0, err |-> FALSE]

HoldFor == {"none", "flush", "full", "open", "opening", "opened", "committed"}

HoldSteps == {"none", "flush", "tsend", "twait", "msend", "mwait", "new", "merge",
              "unlock", "open", "room", "tables", "commit", "done"}

\* mCompaction at a statement of its loop, where ack tells whether the lock
\* holder waits for an acknowledgement and paused whether tCompaction is paused.
MemLoop(at, ack) == [pc |-> at, ack |-> ack, paused |-> FALSE]

\* closeC is closed: every select that listens to it may take that case.
Closed == close # "open"

\* compErrC and compPerErrC are offered by the error goroutine.
CompErr == errs \in {"haserr", "hasperr"}
CompPerErr == errs = "hasperr"

Init ==
  /\ pc = [w \in Writers |-> "idle"]
  /\ lock = "free"
  /\ hold = NoHold
  /\ fill = [s \in Stores |-> 0]
  /\ frozen = [s \in Stores |-> "none"]
  /\ level0 = Found
  /\ mcomp = [s \in Stores |-> MemLoop("idle", FALSE)]
  /\ tcomp = [s \in Stores |-> [pc |-> "top", ack |-> FALSE]]
  /\ errs = "noerr"
  /\ readonly = "none"
  /\ close = "open"
  /\ stuck = FALSE
  /\ faults = 0
  /\ calls = [w \in Writers |-> 0]
  /\ written = [w \in Writers |-> 0]
  /\ acked = [w \in Writers |-> 0]

-----------------------------------------------------------------------------
(* Taking the lock: Write, Write_s, putRec, putRec_s                        *)

\* The call passes db.ok() and enters its select.
Write(w) ==
  /\ pc[w] = "idle"
  /\ ~Closed
  /\ calls[w] < MaxWrites
  /\ calls' = [calls EXCEPT ![w] = @ + 1]
  /\ pc' = [pc EXCEPT ![w] = "want"]
  /\ UNCHANGED <<lock, hold, dataVars, mcomp, tcomp, errs, readonly, close, stuck, faults,
                 written, acked>>

\* The first statement under the lock, in writeLocked or in OpenTransaction.
FirstStep(w, n) ==
  [NoHold EXCEPT !.pc = IF w \in Transactions THEN "open" ELSE "flush", !.size = n]

\* case db.writeLockC <- struct{}{}: the write lock is acquired.  (The size of
\* a batch is chosen where it first matters, here and in MergeWrite.)
LockWrite(w) ==
  /\ pc[w] = "want"
  /\ lock = "free"
  /\ lock' = w
  /\ pc' = [pc EXCEPT ![w] = "hold"]
  /\ \E n \in Sizes[w] : hold' = FirstStep(w, n)
  /\ UNCHANGED <<dataVars, mcomp, tcomp, errs, readonly, close, stuck, faults, countVars>>

\* case err := <-db.compPerErrC, case <-db.closeC: the call returns an error.
RefuseWrite(w) ==
  /\ pc[w] = "want"
  /\ CompPerErr \/ Closed
  /\ pc' = [pc EXCEPT ![w] = "idle"]
  /\ UNCHANGED <<lock, hold, dataVars, mcomp, tcomp, errs, readonly, close, stuck, faults,
                 countVars>>

\* case db.writeMergeC <- writeMerge{...}: the lock holder takes the batch in,
\* or finds it too large and remembers to hand the lock over (overflow).
MergeWrite(w) ==
  /\ pc[w] = "want"
  /\ w \notin Transactions
  /\ hold.pc = "merge"
  /\ hold.limit > 0
  /\ \E n \in Sizes[w] :
       \/ /\ n <= hold.limit
          /\ hold' = [hold EXCEPT !.limit = @ - n, !.added = @ + n, !.merged = @ \cup {w}]
          /\ pc' = [pc EXCEPT ![w] = "merged"]
       \/ /\ n > hold.limit
          /\ hold' = [hold EXCEPT !.limit = 0, !.next = {w}, !.nextSize = n]
          /\ pc' = [pc EXCEPT ![w] = "handed"]
  /\ UNCHANGED <<lock, dataVars, mcomp, tcomp, errs, readonly, close, stuck, faults, countVars>>


-----------------------------------------------------------------------------
(* Under the lock: flush, rotateMem, writeLocked, unlockWrite               *)

HoldStore == StoreOf[lock]

\* flush: go on when the buffer has room (an empty regular buffer grows), wait
\* for the table compaction when level 0 is at its limit, else rotate.
Flush ==
  LET s == HoldStore
      n == hold.size
      free == BufferCap - fill[s]
  IN /\ hold.pc = "flush"
     /\ hold' = IF n <= free
                  THEN [hold EXCEPT !.pc = "merge", !.free = free, !.limit = free - n]
                ELSE IF level0[s] >= PauseTrigger
                  THEN [hold EXCEPT !.pc = "tsend", !.for = "flush"]
                ELSE IF s = "regular" /\ fill[s] = 0
                  THEN [hold EXCEPT !.pc = "merge", !.free = n, !.limit = 0]
                ELSE [hold EXCEPT !.pc = "msend", !.for = "flush"]
     /\ UNCHANGED <<pc, lock, dataVars, mcomp, tcomp, errs, readonly, close, stuck, faults, countVars>>

\* compTrigger: a select with a default, so the command is lost when the
\* goroutine is not at its receive at that moment.
TriggerMem(s) ==
  \/ mcomp[s].pc = "idle" /\ mcomp' = [mcomp EXCEPT ![s].pc = "run"]
  \/ UNCHANGED mcomp

\* newMem and what rotateMem does after it: a transaction waits for the
\* compaction of the buffer it froze, the others only trigger it.  A buffer
\* that is still frozen is a panic, which no step models.
NewMem ==
  LET s == HoldStore
  IN /\ hold.pc = "new"
     /\ frozen[s] = "none"
     /\ frozen' = [frozen EXCEPT ![s] = IF fill[s] = 0 THEN "empty" ELSE "full"]
     /\ fill' = [fill EXCEPT ![s] = 0]
     /\ \/ /\ hold.for = "flush"
           /\ LET cap == IF hold.size > BufferCap THEN hold.size ELSE BufferCap
              IN hold' = [hold EXCEPT !.pc = "merge", !.free = cap, !.limit = cap - hold.size]
           /\ TriggerMem(s)
        \/ /\ hold.for = "full"
           /\ hold' = [hold EXCEPT !.pc = "unlock"]
           /\ TriggerMem(s)
        \/ /\ hold.for = "open"
           /\ hold' = [hold EXCEPT !.pc = "msend", !.for = "opening"]
           /\ UNCHANGED mcomp
     /\ UNCHANGED <<pc, lock, level0, tcomp, errs, readonly, close, stuck, faults, countVars>>

\* What follows a wait that ended well.
AfterWait ==
  CASE hold.for \in {"open", "full"} -> [hold EXCEPT !.pc = "new"]
    [] hold.for = "flush" -> [hold EXCEPT !.pc = IF @ \in {"msend", "mwait"} THEN "new" ELSE "flush"]
    [] hold.for = "opening" -> [hold EXCEPT !.pc = "room"]
    [] hold.for = "opened" -> [hold EXCEPT !.pc = "tables"]
    [] hold.for = "committed" -> [hold EXCEPT !.pc = "done"]

\* The holder gets an error from a wait or from newMem.  writeLocked unlocks;
\* the errors of the last rotation and of the wait after a commit are ignored;
\* OpenTransaction returns and keeps the lock.
GiveUp ==
  \/ /\ hold.for = "flush"
     /\ hold' = [hold EXCEPT !.pc = "unlock", !.err = TRUE]
     /\ UNCHANGED <<pc, lock>>
  \/ /\ hold.for = "full"
     /\ hold' = [hold EXCEPT !.pc = "unlock"]
     /\ UNCHANGED <<pc, lock>>
  \/ /\ hold.for = "committed"
     /\ hold' = [hold EXCEPT !.pc = "done"]
     /\ UNCHANGED <<pc, lock>>
  \/ /\ hold.for \in {"open", "opening", "opened"}
     /\ pc' = [pc EXCEPT ![lock] = "idle"]
     /\ lock' = "lost"
     /\ hold' = NoHold

\* newMem cannot create the journal of the next buffer.
NewMemFails ==
  /\ hold.pc = "new"
  /\ faults < MaxFaults
  /\ faults' = faults + 1
  /\ GiveUp
  /\ UNCHANGED <<dataVars, mcomp, tcomp, errs, readonly, close, stuck, countVars>>

\* Mutant: compTriggerWait does not listen to compErrC.
WaitFails_ClosedOnly ==
  LET s == HoldStore
  IN /\ hold.pc \in {"tsend", "twait", "msend", "mwait"}
     /\ Closed
     /\ mcomp' = [mcomp EXCEPT ![s].ack = FALSE]
     /\ tcomp' = [tcomp EXCEPT ![s].ack = FALSE]
     /\ GiveUp
     /\ UNCHANGED <<dataVars, errs, readonly, close, stuck, faults, countVars>>

\* compTriggerWait ends with the compaction error or with ErrClosed.  The
\* acknowledgement channel is closed, so a late ack goes nowhere.
WaitFails ==
  LET s == HoldStore
  IN /\ hold.pc \in {"tsend", "twait", "msend", "mwait"}
     /\ CompErr \/ Closed
     /\ mcomp' = [mcomp EXCEPT ![s].ack = FALSE]
     /\ tcomp' = [tcomp EXCEPT ![s].ack = FALSE]
     /\ GiveUp
     /\ UNCHANGED <<dataVars, errs, readonly, close, stuck, faults, countVars>>

\* The merge loop ends when nobody offers a batch at that moment, when there is
\* no room left, or with the refused batch.  writeJournal writes one record for
\* the batch and the merged ones; on an error nothing is put.
WriteJournal ==
  /\ hold.pc = "merge"
  /\ faults < MaxFaults
  /\ faults' = faults + 1
  /\ hold' = [hold EXCEPT !.pc = "unlock", !.err = TRUE]
  /\ UNCHANGED <<pc, lock, dataVars, mcomp, tcomp, errs, readonly, close, stuck, countVars>>

\* After the journal, putMem and addSeq for every batch; a batch that filled the
\* space flush found rotates the buffer before the lock is released.
PutMem ==
  LET in == {lock} \cup hold.merged
  IN /\ hold.pc = "merge"
     /\ written' = [w \in Writers |-> IF w \in in THEN written[w] + 1 ELSE written[w]]
     /\ fill' = [fill EXCEPT ![HoldStore] = @ + hold.size + hold.added]
     /\ hold' = IF hold.size >= hold.free
                  THEN [hold EXCEPT !.pc = "msend", !.for = "full"]
                  ELSE [hold EXCEPT !.pc = "unlock"]
     /\ UNCHANGED <<pc, lock, frozen, level0, mcomp, tcomp, errs, readonly, close, stuck,
                    faults, calls, acked>>

\* Mutant: the merged writers are told nil whatever the journal said.
AckMerged_Nil(w) ==
  /\ hold.pc = "unlock"
  /\ w \in hold.merged
  /\ pc' = [pc EXCEPT ![w] = "idle"]
  /\ hold' = [hold EXCEPT !.merged = @ \ {w}]
  /\ acked' = [acked EXCEPT ![w] = @ + 1]
  /\ UNCHANGED <<lock, dataVars, mcomp, tcomp, errs, readonly, close, stuck, faults, calls, written>>

\* unlockWrite: the merged writers get the error of the batch ...
AckMerged(w) ==
  /\ hold.pc = "unlock"
  /\ w \in hold.merged
  /\ pc' = [pc EXCEPT ![w] = "idle"]
  /\ hold' = [hold EXCEPT !.merged = @ \ {w}]
  /\ acked' = IF hold.err THEN acked ELSE [acked EXCEPT ![w] = @ + 1]
  /\ UNCHANGED <<lock, dataVars, mcomp, tcomp, errs, readonly, close, stuck, faults, calls, written>>

\* Mutant: the lock is released although a refused writer was told to go on.
UnlockWrite_Drop ==
  /\ hold.pc = "unlock"
  /\ hold.merged = {}
  /\ acked' = IF hold.err THEN acked ELSE [acked EXCEPT ![lock] = @ + 1]
  /\ \/ /\ hold.next = {}
        /\ pc' = [pc EXCEPT ![lock] = "idle"]
        /\ lock' = "free"
        /\ hold' = NoHold
     \/ \E w \in hold.next :
          /\ pc' = [pc EXCEPT ![lock] = "idle", ![w] = "hold"]
          /\ lock' = "free"
          /\ hold' = FirstStep(w, hold.nextSize)
  /\ UNCHANGED <<dataVars, mcomp, tcomp, errs, readonly, close, stuck, faults, calls, written>>

\* ... then the lock goes to the writer that was refused, or is released.
UnlockWrite ==
  /\ hold.pc = "unlock"
  /\ hold.merged = {}
  /\ acked' = IF hold.err THEN acked ELSE [acked EXCEPT ![lock] = @ + 1]
  /\ \/ /\ hold.next = {}
        /\ pc' = [pc EXCEPT ![lock] = "idle"]
        /\ lock' = "free"
        /\ hold' = NoHold
     \/ \E w \in hold.next :
          /\ pc' = [pc EXCEPT ![lock] = "idle", ![w] = "hold"]
          /\ lock' = w
          /\ hold' = FirstStep(w, hold.nextSize)
  /\ UNCHANGED <<dataVars, mcomp, tcomp, errs, readonly, close, stuck, faults, calls, written>>

-----------------------------------------------------------------------------
(* A transaction: OpenTransaction, Write, Commit, Discard                   *)

\* OpenTransaction rotates a buffer that has entries, then waits while level 0
\* is at its limit (waitCompaction).
OpenTransaction ==
  /\ \/ /\ hold.pc = "open"
        /\ hold' = IF fill["regular"] # 0
                     THEN [hold EXCEPT !.pc = "msend", !.for = "open"]
                     ELSE [hold EXCEPT !.pc = "room"]
     \/ /\ hold.pc = "room"
        /\ hold' = IF level0["regular"] >= PauseTrigger
                     THEN [hold EXCEPT !.pc = "tsend", !.for = "opened"]
                     ELSE [hold EXCEPT !.pc = "tables"]
  /\ UNCHANGED <<pc, lock, dataVars, mcomp, tcomp, errs, readonly, close, stuck, faults, countVars>>

\* Transaction.Write builds its tables; on an error DB.Write discards it.
WriteTables ==
  /\ hold.pc = "tables"
  /\ \/ /\ hold' = [hold EXCEPT !.pc = "commit"]
        /\ UNCHANGED <<pc, lock, faults>>
     \/ /\ faults < MaxFaults
        /\ faults' = faults + 1
        /\ pc' = [pc EXCEPT ![lock] = "idle"]
        /\ lock' = "free"
        /\ hold' = NoHold
  /\ UNCHANGED <<dataVars, mcomp, tcomp, errs, readonly, close, stuck, countVars>>

\* Commit puts the tables on level 0 and waits again if there are too many.
\* After three failures DB.Write returns the error: the transaction stays open
\* with the write lock, and compCommitLk stays locked.  On Close it is the
\* same, but compCommitLk is released or was not taken.
CommitTables ==
  /\ hold.pc = "commit"
  /\ \/ /\ ~stuck
        /\ level0' = [level0 EXCEPT !["regular"] = @ + 1]
        /\ written' = [written EXCEPT ![lock] = @ + 1]
        /\ hold' = IF level0'["regular"] >= PauseTrigger
                     THEN [hold EXCEPT !.pc = "tsend", !.for = "committed"]
                     ELSE [hold EXCEPT !.pc = "done"]
        /\ UNCHANGED <<pc, lock, stuck, faults>>
     \/ /\ \/ faults < MaxFaults /\ faults' = faults + 1 /\ stuck' = TRUE
           \/ Closed /\ UNCHANGED <<faults, stuck>>
        /\ pc' = [pc EXCEPT ![lock] = "idle"]
        /\ lock' = "transaction"
        /\ hold' = NoHold
        /\ UNCHANGED <<level0, written>>
  /\ UNCHANGED <<fill, frozen, mcomp, tcomp, errs, readonly, close, calls, acked>>

\* setDone after a commit.
SetDone ==
  /\ hold.pc = "done"
  /\ pc' = [pc EXCEPT ![lock] = "idle"]
  /\ acked' = [acked EXCEPT ![lock] = @ + 1]
  /\ lock' = "free"
  /\ hold' = NoHold
  /\ UNCHANGED <<dataVars, mcomp, tcomp, errs, readonly, close, stuck, faults, calls, written>>

-----------------------------------------------------------------------------
(* The compaction goroutines                                                *)

\* One round of compactionTransact: the work succeeds and the error goroutine
\* hears of it, or fails and is retried after a pause; a corruption, an error
\* after a permanent one, and Close end the goroutine.
Attempt(succeed, retry, exit) ==
  \/ /\ errs \in {"noerr", "haserr"}
     /\ errs' = "noerr"
     /\ succeed
     /\ UNCHANGED faults
  \/ /\ CompPerErr
     /\ succeed
     /\ UNCHANGED <<errs, faults>>
  \/ /\ faults < MaxFaults
     /\ faults' = faults + 1
     /\ \/ errs \in {"noerr", "haserr"} /\ errs' = "haserr" /\ retry
        \/ errs \in {"noerr", "haserr"} /\ errs' = "hasperr" /\ exit
        \/ CompPerErr /\ UNCHANGED errs /\ exit
  \/ /\ Closed
     /\ exit
     /\ UNCHANGED <<errs, faults>>

\* mCompaction receives the command of the lock holder.
ReceiveMem(s) ==
  /\ mcomp[s].pc = "idle"
  /\ hold.pc = "msend"
  /\ HoldStore = s
  /\ mcomp' = [mcomp EXCEPT ![s] = MemLoop("run", TRUE)]
  /\ hold' = [hold EXCEPT !.pc = "mwait"]
  /\ UNCHANGED <<pc, lock, dataVars, tcomp, errs, readonly, close, stuck, faults, countVars>>

\* Mutant: an empty frozen buffer is not dropped.
StartMem_KeepEmpty(s) ==
  /\ mcomp[s].pc = "run"
  /\ frozen' = frozen
  /\ mcomp' = [mcomp EXCEPT ![s].pc = IF frozen[s] = "full" THEN "pausing" ELSE "ack"]
  /\ UNCHANGED <<holdVars, fill, level0, tcomp, errs, readonly, close, stuck, faults, countVars>>

\* memCompaction: nothing frozen, an empty buffer to drop, or one to flush.
StartMem(s) ==
  /\ mcomp[s].pc = "run"
  /\ frozen' = IF frozen[s] = "empty" THEN [frozen EXCEPT ![s] = "none"] ELSE frozen
  /\ mcomp' = [mcomp EXCEPT ![s].pc = IF frozen[s] = "full" THEN "pausing" ELSE "ack"]
  /\ UNCHANGED <<holdVars, fill, level0, tcomp, errs, readonly, close, stuck, faults, countVars>>

\* Mutant: a table compaction that is about to commit counts as paused.
PauseTables_Skip(s) ==
  /\ mcomp[s].pc = "pausing"
  /\ \/ /\ tcomp[s].pc \in {"top", "compact", "commit"}
        /\ tcomp' = [tcomp EXCEPT ![s].pc = IF @ = "top" THEN "paused" ELSE IF @ = "commit" THEN @ ELSE "suspended"]
        /\ mcomp' = [mcomp EXCEPT ![s].pc = "flush", ![s].paused = TRUE]
     \/ /\ s = "regular"
        /\ CompPerErr
        /\ mcomp' = [mcomp EXCEPT ![s].pc = "flush"]
        /\ UNCHANGED tcomp
  /\ UNCHANGED <<holdVars, dataVars, errs, readonly, close, stuck, faults, countVars>>

\* The table compaction is paused, at the top of its loop or where it begins a
\* table.  The regular store goes on without it after a permanent error; the
\* state store listens to compPerErrCs, on which nobody sends.
PauseTables(s) ==
  /\ mcomp[s].pc = "pausing"
  /\ \/ /\ tcomp[s].pc \in {"top", "compact"}
        /\ tcomp' = [tcomp EXCEPT ![s].pc = IF @ = "top" THEN "paused" ELSE "suspended"]
        /\ mcomp' = [mcomp EXCEPT ![s].pc = "flush", ![s].paused = TRUE]
     \/ /\ s = "regular"
        /\ CompPerErr
        /\ mcomp' = [mcomp EXCEPT ![s].pc = "flush"]
        /\ UNCHANGED tcomp
  /\ UNCHANGED <<holdVars, dataVars, errs, readonly, close, stuck, faults, countVars>>

\* The frozen buffer becomes a table, the table is committed.
FlushMem(s) ==
  /\ mcomp[s].pc = "flush"
  /\ Attempt(mcomp' = [mcomp EXCEPT ![s].pc = "commit"],
             UNCHANGED mcomp,
             mcomp' = [mcomp EXCEPT ![s] = MemLoop("gone", FALSE)])
  /\ UNCHANGED <<holdVars, dataVars, tcomp, readonly, close, stuck, countVars>>

CommitMem(s) ==
  /\ mcomp[s].pc = "commit"
  /\ ~stuck
  /\ Attempt(/\ mcomp' = [mcomp EXCEPT ![s].pc = "resume"]
             /\ level0' = [level0 EXCEPT ![s] = @ + 1]
             /\ frozen' = [frozen EXCEPT ![s] = "none"],
             UNCHANGED <<mcomp, level0, frozen>>,
             /\ mcomp' = [mcomp EXCEPT ![s] = MemLoop("gone", FALSE)]
             /\ UNCHANGED <<level0, frozen>>)
  /\ UNCHANGED <<holdVars, fill, tcomp, readonly, close, stuck, countVars>>

\* The table compaction, if it was paused, goes on where it was.
ResumeTables(s) ==
  /\ mcomp[s].pc = "resume"
  /\ \/ /\ mcomp[s].paused
        /\ tcomp[s].pc \in {"paused", "suspended"}
        /\ tcomp' = [tcomp EXCEPT ![s].pc = IF @ = "paused" THEN "top" ELSE "compact"]
     \/ /\ ~mcomp[s].paused
        /\ UNCHANGED tcomp
  /\ mcomp' = [mcomp EXCEPT ![s].pc = "ack", ![s].paused = FALSE]
  /\ UNCHANGED <<holdVars, dataVars, errs, readonly, close, stuck, faults, countVars>>

\* The command is acknowledged and the next one awaited.
AckMem(s) ==
  /\ mcomp[s].pc = "ack"
  /\ hold' = IF mcomp[s].ack THEN AfterWait ELSE hold
  /\ mcomp' = [mcomp EXCEPT ![s] = MemLoop("idle", FALSE)]
  /\ UNCHANGED <<pc, lock, dataVars, tcomp, errs, readonly, close, stuck, faults, countVars>>

needCompaction(s) == level0[s] >= CompTrigger
resumeWrite(s) == level0[s] < PauseTrigger

\* tCompaction receives the command of the lock holder: acknowledged at once
\* if writes may go on, else queued; then a compaction begins if one is needed.
ReceiveTable(s) ==
  /\ tcomp[s].pc = "top"
  /\ hold.pc = "tsend"
  /\ HoldStore = s
  /\ tcomp' = [tcomp EXCEPT ![s] = [pc  |-> IF needCompaction(s) THEN "compact" ELSE "top",
                                    ack |-> ~resumeWrite(s)]]
  /\ hold' = IF resumeWrite(s) THEN AfterWait ELSE [hold EXCEPT !.pc = "twait"]
  /\ UNCHANGED <<pc, lock, dataVars, mcomp, errs, readonly, close, stuck, faults, countVars>>

\* A round without a command: queued writers are woken when level 0 shrank or
\* there is nothing to compact, and the next compaction begins.
AutoTable(s) ==
  /\ tcomp[s].pc = "top"
  /\ needCompaction(s) \/ tcomp[s].ack
  /\ LET wake == tcomp[s].ack /\ (resumeWrite(s) \/ ~needCompaction(s))
     IN /\ hold' = IF wake THEN AfterWait ELSE hold
        /\ tcomp' = [tcomp EXCEPT ![s] = [pc  |-> IF needCompaction(s) THEN "compact" ELSE "top",
                                          ack |-> @.ack /\ ~wake]]
  /\ UNCHANGED <<pc, lock, dataVars, mcomp, errs, readonly, close, stuck, faults, countVars>>

\* tableCompaction builds its tables ...
BuildTables(s) ==
  /\ tcomp[s].pc = "compact"
  /\ Attempt(tcomp' = [tcomp EXCEPT ![s].pc = "commit"],
             UNCHANGED tcomp,
             tcomp' = [tcomp EXCEPT ![s] = [pc |-> "gone", ack |-> FALSE]])
  /\ UNCHANGED <<holdVars, dataVars, mcomp, readonly, close, stuck, countVars>>

\* ... and its commit takes some tables off level 0.
CommitCompaction(s) ==
  /\ tcomp[s].pc = "commit"
  /\ ~stuck
  /\ Attempt(/\ tcomp' = [tcomp EXCEPT ![s].pc = "top"]
             /\ \E n \in 1..level0[s] : level0' = [level0 EXCEPT ![s] = @ - n],
             UNCHANGED <<tcomp, level0>>,
             /\ tcomp' = [tcomp EXCEPT ![s] = [pc |-> "gone", ack |-> FALSE]]
             /\ UNCHANGED level0)
  /\ UNCHANGED <<holdVars, fill, frozen, mcomp, readonly, close, stuck, countVars>>

\* Where the goroutines listen to closeC: at the top of the loops, in
\* pauseCompaction and at the two waits of memCompaction.
MayExit(s) ==
  /\ mcomp[s].pc \in {"idle", "pausing", "resume", "gone"}
  /\ tcomp[s].pc \in {"top", "paused", "suspended", "gone"}

-----------------------------------------------------------------------------
(* The error goroutine, SetReadOnly and Close                               *)

\* compactionError in hasperr: it takes the write lock, and keeps it.
LockForError ==
  /\ CompPerErr
  /\ lock = "free"
  /\ lock' = "error"
  /\ UNCHANGED <<pc, hold, dataVars, mcomp, tcomp, errs, readonly, close, stuck, faults, countVars>>

\* Mutant: the error goroutine keeps the write lock when it returns.
ExitError_Keep ==
  /\ Closed
  /\ errs # "gone"
  /\ errs' = "gone"
  /\ UNCHANGED lock
  /\ UNCHANGED <<pc, hold, dataVars, mcomp, tcomp, readonly, close, stuck, faults, countVars>>

\* case <-db.closeC of compactionError: in hasperr it gives back a lock that it
\* or SetReadOnly took (compWriteLocking), in the other states it only returns.
ExitError ==
  /\ Closed
  /\ errs # "gone"
  /\ errs' = "gone"
  /\ lock' = IF CompPerErr /\ lock \in {"error", "readonly"} THEN "free" ELSE lock
  /\ UNCHANGED <<pc, hold, dataVars, mcomp, tcomp, readonly, close, stuck, faults, countVars>>

\* SetReadOnly takes the lock (an early return while it waits for it changes
\* nothing) ...
CallSetReadOnly ==
  /\ readonly = "none"
  /\ ReadOnlyCalls
  /\ ~Closed
  /\ lock = "free"
  /\ lock' = "readonly"
  /\ readonly' = "locked"
  /\ UNCHANGED <<pc, hold, dataVars, mcomp, tcomp, errs, close, stuck, faults, countVars>>

\* ... and makes ErrReadOnly the permanent error.  On a permanent error and on
\* Close it returns early, with the lock.
SetReadOnly ==
  /\ readonly = "locked"
  /\ \/ errs \in {"noerr", "haserr"} /\ errs' = "hasperr"
     \/ (CompPerErr \/ Closed) /\ UNCHANGED errs
  /\ readonly' = "done"
  /\ UNCHANGED <<holdVars, dataVars, mcomp, tcomp, close, stuck, faults, countVars>>

\* Close marks the DB closed and closes closeC ...
Close ==
  /\ close = "open"
  /\ close' = "closing"
  /\ UNCHANGED <<holdVars, dataVars, mcomp, tcomp, errs, readonly, stuck, faults, countVars>>

\* ... discards an open transaction, whose owner finds it closed; it waits for
\* a commit that is under way ...
DiscardOpen ==
  /\ close = "closing"
  /\ hold.for # "committed"
  /\ close' = "discarded"
  /\ \/ /\ lock = "transaction"
        /\ lock' = "free"
        /\ UNCHANGED <<pc, hold>>
     \/ /\ hold.pc \in {"tables", "commit"}
        /\ pc' = [pc EXCEPT ![lock] = "idle"]
        /\ lock' = "free"
        /\ hold' = NoHold
     \/ /\ lock # "transaction"
        /\ hold.pc \notin {"tables", "commit"}
        /\ UNCHANGED holdVars
  /\ UNCHANGED <<dataVars, mcomp, tcomp, errs, readonly, stuck, faults, countVars>>

\* ... takes the write lock ...
LockForClose ==
  /\ close = "discarded"
  /\ lock = "free"
  /\ lock' = "closer"
  /\ close' = "locked"
  /\ UNCHANGED <<pc, hold, dataVars, mcomp, tcomp, errs, readonly, stuck, faults, countVars>>

\* ... and waits for the goroutines.  One that listens to closeC may have gone
\* at any time since; nobody can tell, so it goes here.
FinishClose ==
  /\ close = "locked"
  /\ errs = "gone"
  /\ \A s \in Stores : MayExit(s)
  /\ mcomp' = [s \in Stores |-> MemLoop("gone", FALSE)]
  /\ tcomp' = [s \in Stores |-> [pc |-> "gone", ack |-> FALSE]]
  /\ close' = "closed"
  /\ UNCHANGED <<holdVars, dataVars, errs, readonly, stuck, faults, countVars>>

-----------------------------------------------------------------------------
(* The specification                                                        *)

Holder == \/ Flush \/ NewMem \/ NewMemFails \/ WaitFails \/ WriteJournal \/ PutMem
          \/ UnlockWrite \/ OpenTransaction \/ WriteTables \/ CommitTables \/ SetDone

MemCompaction(s) == \/ ReceiveMem(s) \/ StartMem(s) \/ PauseTables(s) \/ FlushMem(s)
                    \/ CommitMem(s) \/ ResumeTables(s) \/ AckMem(s)

TableCompaction(s) == \/ ReceiveTable(s) \/ AutoTable(s) \/ BuildTables(s)
                      \/ CommitCompaction(s)

Select(w) == LockWrite(w) \/ RefuseWrite(w) \/ MergeWrite(w)

Closing == DiscardOpen \/ LockForClose \/ FinishClose

\* What the goroutines of the process do by themselves, and what callers ask.
Steps ==
  \/ \E w \in Writers : Select(w) \/ AckMerged(w)
  \/ Holder
  \/ \E s \in Stores : MemCompaction(s) \/ TableCompaction(s)
  \/ LockForError \/ ExitError \/ SetReadOnly
  \/ Closing

Next ==
  \/ Steps
  \/ \E w \in Writers : Write(w)
  \/ CallSetReadOnly
  \/ Close

Spec == Init /\ [][Next]_vars

\* As long as some goroutine can go on, one does.  Nobody has to call Write,
\* SetReadOnly or Close.
FairSpec == Spec /\ WF_vars(Steps)

-----------------------------------------------------------------------------
(* Properties                                                               *)

Hold == [pc : HoldSteps, for : HoldFor, size : Nat, free : Nat, limit : Nat, added : Nat,
         merged : SUBSET Writers, next : SUBSET Writers, nextSize : Nat, err : BOOLEAN]

MemSteps == {"idle", "run", "pausing", "flush", "commit", "resume", "ack", "gone"}
TableSteps == {"top", "compact", "commit", "paused", "suspended", "gone"}

\* The variables stay in their types; the merge limit never becomes negative.
TypeOK ==
  /\ pc \in [Writers -> {"idle", "want", "hold", "merged", "handed"}]
  /\ lock \in Writers \cup {"free", "error", "readonly", "closer", "transaction", "lost"}
  /\ hold \in Hold
  /\ fill \in [Stores -> Nat]
  /\ frozen \in [Stores -> {"none", "empty", "full"}]
  /\ level0 \in [Stores -> Nat]
  /\ mcomp \in [Stores -> [pc : MemSteps, ack : BOOLEAN, paused : BOOLEAN]]
  /\ tcomp \in [Stores -> [pc : TableSteps, ack : BOOLEAN]]
  /\ errs \in {"noerr", "haserr", "hasperr", "gone"}
  /\ readonly \in {"none", "locked", "done"}
  /\ close \in {"open", "closing", "discarded", "locked", "closed"}
  /\ stuck \in BOOLEAN
  /\ faults \in Nat
  /\ calls \in [Writers -> Nat] /\ written \in [Writers -> Nat] /\ acked \in [Writers -> Nat]

\* One writer at a time runs under the lock, and the token in the channel is
\* its own, also when the lock was handed over to a refused writer; the writers
\* that wait for an answer are exactly those the holder will answer.
LockOwned ==
  /\ \A w \in Writers : pc[w] = "hold" <=> lock = w
  /\ hold.pc = "none" <=> lock \notin Writers
  /\ {w \in Writers : pc[w] = "merged"} = hold.merged
  /\ {w \in Writers : pc[w] = "handed"} = hold.next
  /\ \A v, w \in hold.next : v = w

\* The holder's write, and those merged into it, between putMem and the return.
Unacked ==
  IF \/ hold.pc \in {"unlock", "done"} /\ ~hold.err
     \/ hold.for \in {"full", "committed"}
  THEN {lock} \cup hold.merged ELSE {}

\* A write returns nil exactly if it reached the journal and the buffer, once,
\* whether it took the lock, was merged, or was refused and got the lock.
ExactlyOnce ==
  \A w \in Writers : written[w] = acked[w] + (IF w \in Unacked THEN 1 ELSE 0)

\* The buffer is free when the rotation freezes the next one: newMem never
\* finds a frozen buffer (the panic "BUG: still has frozen memdb").
RotationFindsRoom ==
  hold.pc = "new" => frozen[HoldStore] = "none"

\* A table compaction of a store does not commit while its frozen buffer is
\* being flushed: the pause holds, and only a permanent error lets the regular
\* store go on without one.
CompactionsExclude ==
  \A s \in Stores :
    mcomp[s].pc \in {"flush", "commit", "resume"} =>
      \/ tcomp[s].pc \in {"paused", "suspended"}
      \/ s = "regular" /\ errs \in {"hasperr", "gone"}

\* Every write returns, through merging, handover, full buffers, a full
\* level 0, compaction errors and Close, unless a failed transaction kept the
\* lock.  (Callers stop after MaxWrites calls, so all of them come to rest.)
WritesReturn ==
  <>[](lock \in {"lost", "transaction"} \/ \A w \in Writers : pc[w] = "idle")

\* A lock that nobody will give back: by OpenTransaction when its wait failed,
\* by a transaction whose Commit failed after Close looked for one, by a
\* SetReadOnly that Close overtook, by a Commit that failed three times.
LockLeft ==
  \/ lock = "lost"
  \/ lock = "transaction" /\ close \notin {"open", "closing"}
  \/ lock = "readonly" /\ errs = "gone"
  \/ stuck

\* Close returns, unless a lock was left behind.
CloseReturns == <>[](close \in {"open", "closed"} \/ LockLeft)

=============================================================================
