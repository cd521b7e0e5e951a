-------------------------- MODULE LevelWriteProofs --------------------------
(***************************************************************************)
(* The safety invariants of LevelWrite, for every set of writers, every    *)
(* assignment of stores and sizes, and every bound.                        *)
(*                                                                         *)
(* IInv is the inductive invariant.  The lemmas about the holder (Moves,   *)
(* Releases) reduce each step under the lock to the fields of hold that it *)
(* changes; then one lemma per conjunct of IInv goes through the actions.  *)
(***************************************************************************)
EXTENDS LevelWrite, TLAPS

\* Where the holder may be, and what its wait is or was for: each statement of
\* writeLocked, rotateMem and OpenTransaction is reached on few paths.
Path(p, f) ==
  /\ p \in {"flush", "merge"} => f \in {"none", "flush"}
  /\ p \in {"tsend", "twait"} => f \in {"flush", "opened", "committed"}
  /\ p \in {"msend", "mwait"} => f \in {"flush", "full", "open", "opening"}
  /\ p = "new" => f \in {"flush", "full", "open"}
  /\ p = "unlock" => f \in {"none", "flush", "full"}
  /\ p \in {"open", "room", "tables", "commit"} => f \in {"none", "opening", "opened"}
  /\ p = "done" => f \in {"none", "opening", "opened", "committed"}

\* Merged and refused writers exist from the merge loop to unlockWrite; no writer
\* is merged after one was refused; the error is known only at unlockWrite, and
\* only before putMem.
HoldInv ==
  /\ hold.pc = "none" => hold = NoHold
  /\ Path(hold.pc, hold.for)
  /\ (hold.merged = {} /\ hold.next = {}) \/ hold.pc \in {"merge", "unlock"} \/ hold.for = "full"
  /\ hold.next # {} => hold.limit = 0
  /\ hold.err => hold.pc = "unlock" /\ hold.for \in {"none", "flush"}

\* The token, the calls of the writers and the holder's record of them agree.
LockInv ==
  /\ \A w \in Writers : pc[w] = "hold" <=> lock = w
  /\ hold.pc = "none" <=> lock \notin Writers
  /\ \A w \in Writers : pc[w] = "merged" <=> w \in hold.merged
  /\ \A w \in Writers : pc[w] = "handed" <=> w \in hold.next
  /\ \A v, w \in hold.next : v = w

\* A compaction goroutine that owes an acknowledgement owes it to the holder,
\* which is waiting for it.
AckInv ==
  \A s \in Stores :
    /\ mcomp[s].ack => hold.pc = "mwait" /\ HoldStore = s
    /\ tcomp[s].ack => hold.pc = "twait" /\ HoldStore = s

\* The acknowledgement is sent when the frozen buffer is gone, and nobody else
\* freezes one while the holder waits.
RoomInv ==
  /\ hold.pc = "new" => frozen[HoldStore] = "none"
  /\ \A s \in Stores : mcomp[s].ack /\ mcomp[s].pc \in {"resume", "ack"} => frozen[s] = "none"

\* A pause that was granted lasts until it is ended; a flush without one is the
\* regular store's after a permanent error, which stays.
PauseInv ==
  \A s \in Stores :
    /\ mcomp[s].paused => /\ mcomp[s].pc \in {"flush", "commit", "resume"}
                          /\ tcomp[s].pc \in {"paused", "suspended"}
    /\ mcomp[s].pc \in {"flush", "commit", "resume"} /\ ~mcomp[s].paused =>
         s = "regular" /\ errs \in {"hasperr", "gone"}

IInv == TypeOK /\ HoldInv /\ LockInv /\ AckInv /\ RoomInv /\ PauseInv /\ ExactlyOnce

-----------------------------------------------------------------------------
(* The holder                                                               *)

\* The other owners of the token are not writers.
LEMMA NotAWriter ==
  \A x \in {"free", "error", "readonly", "closer", "transaction", "lost"} : x \notin Writers
  BY WriterNames

\* The holder exists exactly while a writer has the lock, and is not among the
\* writers it merged or refused.
LEMMA HolderIsWriter ==
  ASSUME IInv, hold.pc # "none"
  PROVE  lock \in Writers /\ pc[lock] = "hold" /\ lock \notin hold.merged /\ lock \notin hold.next
  BY DEF IInv, LockInv, TypeOK

\* The holder goes on with its lock and with the same merged and refused writers.
LEMMA Moves ==
  ASSUME IInv, hold.pc # "none", pc' = pc, lock' = lock,
         hold' \in Hold, hold'.pc # "none", Path(hold'.pc, hold'.for),
         hold'.merged = hold.merged, hold'.next = hold.next,
         \/ hold.merged = {} /\ hold.next = {}
         \/ hold'.limit = hold.limit /\ (hold'.pc \in {"merge", "unlock"} \/ hold'.for = "full"),
         hold'.err => hold'.pc = "unlock" /\ hold'.for \in {"none", "flush"}
  PROVE  HoldInv' /\ LockInv'
<1>1. HoldInv'
  BY DEF IInv, HoldInv
<1>2. LockInv'
  BY DEF IInv, LockInv
<1> QED
  BY <1>1, <1>2

\* The holder returns; nobody waits for its answer.
LEMMA Releases ==
  ASSUME IInv, hold.pc # "none", hold.merged = {}, hold.next = {},
         pc' = [pc EXCEPT ![lock] = "idle"], lock' \in {"free", "lost", "transaction"},
         hold' = NoHold
  PROVE  hold' \in Hold /\ HoldInv' /\ LockInv'
<1>1. hold' \in Hold
  BY DEF NoHold, Hold, HoldSteps, HoldFor
<1>2. HoldInv'
  BY DEF NoHold, HoldInv, Path
<1>3. LockInv'
  BY HolderIsWriter, WriterNames DEF IInv, LockInv, NoHold, TypeOK
<1> QED
  BY <1>1, <1>2, <1>3

\* A writer enters writeLocked or OpenTransaction with nothing merged yet.
LEMMA FirstStepFields ==
  ASSUME NEW w \in Writers, NEW n \in Nat
  PROVE  /\ FirstStep(w, n) \in Hold
         /\ FirstStep(w, n).pc \in {"open", "flush"}
         /\ FirstStep(w, n).for = "none"
         /\ FirstStep(w, n).merged = {} /\ FirstStep(w, n).next = {}
         /\ ~FirstStep(w, n).err
  BY Zenon DEF FirstStep, NoHold, Hold, HoldSteps, HoldFor

\* A wait of the holder that ended well moves it to one statement.
LEMMA AfterWaitGoes ==
  ASSUME hold \in Hold, HoldInv, hold.pc \in {"tsend", "twait", "mwait"}
  PROVE  \E p \in HoldSteps :
           /\ AfterWait = [hold EXCEPT !.pc = p]
           /\ \/ p = "new" /\ hold.pc = "mwait" /\ hold.for \in {"open", "full", "flush"}
              \/ p = "flush" /\ hold.pc # "mwait" /\ hold.for = "flush"
              \/ p = "room" /\ hold.for = "opening"
              \/ p = "tables" /\ hold.for = "opened"
              \/ p = "done" /\ hold.for = "committed"
  BY DEF AfterWait, HoldInv, Path, Hold, HoldSteps, HoldFor

\* Every step keeps the holder on its paths and the three records of the lock in
\* agreement.
LEMMA HolderStep ==
  ASSUME IInv, Next
  PROVE  hold' \in Hold /\ HoldInv' /\ LockInv'
<1> DEFINE Good == hold' \in Hold /\ HoldInv' /\ LockInv'
<1> USE LevelWriteAssumption
<1>1. hold \in Hold /\ HoldInv /\ LockInv
  BY DEF IInv, TypeOK
<1>2. ASSUME UNCHANGED holdVars PROVE Good
  BY <1>1, <1>2 DEF HoldInv, LockInv, holdVars
<1>3. ASSUME NEW p \in HoldSteps \ {"none"}, hold.pc # "none", pc' = pc, lock' = lock,
             hold' = [hold EXCEPT !.pc = p], Path(p, hold.for), ~hold.err,
             \/ hold.merged = {} /\ hold.next = {}
             \/ p \in {"merge", "unlock"} \/ hold.for = "full"
      PROVE  Good
  <2>1. /\ hold' \in Hold /\ hold'.pc = p /\ hold'.for = hold.for /\ hold'.limit = hold.limit
        /\ hold'.merged = hold.merged /\ hold'.next = hold.next /\ hold'.err = hold.err
    BY <1>1, <1>3 DEF Hold
  <2> QED
    BY <1>3, <2>1, Moves
<1>4. ASSUME NEW p \in HoldSteps \ {"none"}, NEW f \in HoldFor, hold.pc # "none", pc' = pc, lock' = lock,
             hold' = [hold EXCEPT !.pc = p, !.for = f], Path(p, f), ~hold.err,
             (hold.merged = {} /\ hold.next = {}) \/ f = "full"
      PROVE  Good
  <2>1. /\ hold' \in Hold /\ hold'.pc = p /\ hold'.for = f /\ hold'.limit = hold.limit
        /\ hold'.merged = hold.merged /\ hold'.next = hold.next /\ hold'.err = hold.err
    BY <1>1, <1>4, Zenon DEF Hold
  <2> QED
    BY <1>4, <2>1, Moves
<1>5. ASSUME hold.pc # "none", pc' = pc, lock' = lock, hold.for \in {"none", "flush"},
             hold' = [hold EXCEPT !.pc = "unlock", !.err = TRUE]
      PROVE  Good
  <2>1. Path("unlock", hold.for)
    BY <1>5 DEF Path
  <2>2. /\ hold' \in Hold /\ hold'.pc = "unlock" /\ hold'.for = hold.for /\ hold'.limit = hold.limit
        /\ hold'.merged = hold.merged /\ hold'.next = hold.next /\ hold'.err
    BY <1>1, <1>5, Zenon DEF Hold, HoldSteps
  <2> QED
    BY <1>5, <2>1, <2>2, Moves
<1>6. ASSUME NEW n \in Nat, NEW l \in Nat, hold.pc \in {"flush", "new"}, hold.for \in {"none", "flush"},
             hold' = [hold EXCEPT !.pc = "merge", !.free = n, !.limit = l], pc' = pc, lock' = lock
      PROVE  Good
  <2>1. hold.merged = {} /\ hold.next = {} /\ ~hold.err
    BY <1>1, <1>6 DEF HoldInv
  <2>2. Path("merge", hold.for)
    BY <1>6 DEF Path
  <2>3. /\ hold' \in Hold /\ hold'.pc = "merge" /\ hold'.for = hold.for
        /\ hold'.merged = hold.merged /\ hold'.next = hold.next /\ hold'.err = hold.err
    BY <1>1, <1>6, Zenon DEF Hold, HoldSteps
  <2> QED
    BY <1>6, <2>1, <2>2, <2>3, Moves
<1>7. ASSUME AfterWait = hold', hold.pc \in {"tsend", "twait", "mwait"}, pc' = pc, lock' = lock
      PROVE  Good
  <2>1. PICK p \in HoldSteps :
           /\ AfterWait = [hold EXCEPT !.pc = p]
           /\ \/ p = "new" /\ hold.pc = "mwait" /\ hold.for \in {"open", "full", "flush"}
              \/ p = "flush" /\ hold.pc # "mwait" /\ hold.for = "flush"
              \/ p = "room" /\ hold.for = "opening"
              \/ p = "tables" /\ hold.for = "opened"
              \/ p = "done" /\ hold.for = "committed"
    BY <1>1, <1>7, AfterWaitGoes
  <2>2. Path(p, hold.for) /\ p # "none"
    BY <2>1 DEF Path
  <2>3. ~hold.err /\ ((hold.merged = {} /\ hold.next = {}) \/ hold.for = "full")
    BY <1>1, <1>7 DEF HoldInv
  <2> QED
    BY <1>3, <1>7, <2>1, <2>2, <2>3
<1>8. ASSUME GiveUp, hold.pc \in {"tsend", "twait", "msend", "mwait", "new"} PROVE Good
  <2>1. ~hold.err /\ ((hold.merged = {} /\ hold.next = {}) \/ hold.for = "full")
    BY <1>1, <1>8 DEF HoldInv
  <2>2. CASE hold.for = "flush"
    BY <1>5, <1>8, <2>2 DEF GiveUp
  <2>3. CASE hold.for = "full"
    <3>1. Path("unlock", hold.for) /\ hold' = [hold EXCEPT !.pc = "unlock"] /\ pc' = pc /\ lock' = lock
      BY <1>8, <2>3 DEF GiveUp, Path
    <3> QED
      BY <1>3, <1>8, <2>1, <2>3, <3>1 DEF HoldSteps
  <2>4. CASE hold.for = "committed"
    <3>1. Path("done", hold.for) /\ hold' = [hold EXCEPT !.pc = "done"] /\ pc' = pc /\ lock' = lock
      BY <1>8, <2>4 DEF GiveUp, Path
    <3> QED
      BY <1>3, <1>8, <2>1, <2>4, <3>1 DEF HoldSteps
  <2>5. CASE hold.for \in {"open", "opening", "opened"}
    <3>1. hold' = NoHold /\ lock' = "lost" /\ pc' = [pc EXCEPT ![lock] = "idle"]
      BY <1>8, <2>5 DEF GiveUp
    <3>2. hold.merged = {} /\ hold.next = {}
      BY <2>1, <2>5
    <3> QED
      BY <1>8, <3>1, <3>2, Releases
  <2> QED
    BY <1>8, <2>2, <2>3, <2>4, <2>5 DEF GiveUp
<1>9. ASSUME NEW w \in Writers, Write(w) PROVE Good
  <2>1. hold' = hold /\ lock' = lock /\ pc[w] = "idle" /\ pc' = [pc EXCEPT ![w] = "want"]
    BY <1>9 DEF Write
  <2>2. HoldInv'
    BY <1>1, <2>1 DEF HoldInv
  <2>3. LockInv'
    BY <1>1, <2>1 DEF LockInv, IInv, TypeOK
  <2> QED
    BY <1>1, <2>1, <2>2, <2>3
<1>10. ASSUME NEW w \in Writers, RefuseWrite(w) PROVE Good
  <2>1. hold' = hold /\ lock' = lock /\ pc[w] = "want" /\ pc' = [pc EXCEPT ![w] = "idle"]
    BY <1>10 DEF RefuseWrite
  <2>2. HoldInv'
    BY <1>1, <2>1 DEF HoldInv
  <2>3. LockInv'
    BY <1>1, <2>1 DEF LockInv, IInv, TypeOK
  <2> QED
    BY <1>1, <2>1, <2>2, <2>3
<1>11. ASSUME NEW w \in Writers, LockWrite(w) PROVE Good
  <2>1. PICK n \in Sizes[w] : hold' = FirstStep(w, n)
    BY <1>11 DEF LockWrite
  <2>2. lock = "free" /\ lock' = w /\ pc[w] = "want" /\ pc' = [pc EXCEPT ![w] = "hold"]
    BY <1>11 DEF LockWrite
  <2>3. hold' \in Hold /\ hold'.pc \in {"open", "flush"} /\ hold'.for = "none"
        /\ hold'.merged = {} /\ hold'.next = {} /\ ~hold'.err
    BY <2>1, FirstStepFields
  <2>4. HoldInv'
    BY <2>3 DEF HoldInv, Path
  <2>5. hold = NoHold
    BY <1>1, <2>2, WriterNames DEF LockInv, HoldInv
  <2>6. LockInv'
    BY <1>1, <2>2, <2>3, <2>5, WriterNames DEF LockInv, IInv, TypeOK, NoHold
  <2> QED
    BY <2>3, <2>4, <2>6
<1>12. ASSUME NEW w \in Writers, MergeWrite(w) PROVE Good
  <2>1. hold.pc = "merge" /\ hold.limit > 0 /\ pc[w] = "want" /\ lock' = lock
    BY <1>12 DEF MergeWrite
  <2>2. hold.next = {} /\ hold.for \in {"none", "flush"} /\ ~hold.err
    BY <1>1, <2>1 DEF HoldInv, Path
  <2>3. PICK n \in Sizes[w] :
           \/ /\ n <= hold.limit
              /\ hold' = [hold EXCEPT !.limit = @ - n, !.added = @ + n, !.merged = @ \cup {w}]
              /\ pc' = [pc EXCEPT ![w] = "merged"]
           \/ /\ n > hold.limit
              /\ hold' = [hold EXCEPT !.limit = 0, !.next = {w}, !.nextSize = n]
              /\ pc' = [pc EXCEPT ![w] = "handed"]
    BY <1>12, Zenon DEF MergeWrite
  <2>4. n \in Nat
    BY <2>3
  <2>5. CASE /\ n <= hold.limit
             /\ hold' = [hold EXCEPT !.limit = @ - n, !.added = @ + n, !.merged = @ \cup {w}]
             /\ pc' = [pc EXCEPT ![w] = "merged"]
    <3>1. hold' \in Hold /\ hold'.pc = hold.pc /\ hold'.for = hold.for /\ hold'.err = hold.err
          /\ hold'.next = hold.next /\ hold'.merged = hold.merged \cup {w}
      <4>1. hold.limit - n \in Nat /\ hold.added + n \in Nat /\ hold.merged \cup {w} \in SUBSET Writers
        BY <1>1, <2>4, <2>5 DEF Hold
      <4> QED
        BY <1>1, <2>5, <4>1, Zenon DEF Hold
    <3>2. HoldInv'
      BY <1>1, <2>1, <2>2, <3>1 DEF HoldInv
    <3>3. LockInv'
      BY <1>1, <2>1, <2>2, <2>5, <3>1 DEF LockInv, IInv, TypeOK
    <3> QED
      BY <3>1, <3>2, <3>3
  <2>6. CASE /\ n > hold.limit
             /\ hold' = [hold EXCEPT !.limit = 0, !.next = {w}, !.nextSize = n]
             /\ pc' = [pc EXCEPT ![w] = "handed"]
    <3>1. hold' \in Hold /\ hold'.pc = hold.pc /\ hold'.for = hold.for /\ hold'.err = hold.err
          /\ hold'.limit = 0 /\ hold'.next = {w} /\ hold'.merged = hold.merged
      BY <1>1, <2>4, <2>6, Zenon DEF Hold
    <3>2. HoldInv'
      BY <1>1, <2>1, <2>2, <3>1 DEF HoldInv
    <3>3. LockInv'
      BY <1>1, <2>1, <2>2, <2>6, <3>1 DEF LockInv, IInv, TypeOK
    <3> QED
      BY <3>1, <3>2, <3>3
  <2> QED
    BY <2>3, <2>5, <2>6
<1>13. ASSUME NEW w \in Writers, AckMerged(w) PROVE Good
  <2>1. hold.pc = "unlock" /\ w \in hold.merged /\ lock' = lock /\ pc[w] = "merged"
        /\ pc' = [pc EXCEPT ![w] = "idle"] /\ hold' = [hold EXCEPT !.merged = @ \ {w}]
    BY <1>1, <1>13 DEF AckMerged, LockInv
  <2>2. hold' \in Hold /\ hold'.pc = hold.pc /\ hold'.for = hold.for /\ hold'.err = hold.err
        /\ hold'.limit = hold.limit /\ hold'.next = hold.next /\ hold'.merged = hold.merged \ {w}
    BY <1>1, <2>1 DEF Hold
  <2>3. HoldInv'
    BY <1>1, <2>1, <2>2 DEF HoldInv
  <2>4. LockInv'
    BY <1>1, <2>1, <2>2 DEF LockInv, IInv, TypeOK
  <2> QED
    BY <2>2, <2>3, <2>4
<1>14. CASE Flush
  <2>1. hold.pc = "flush" /\ pc' = pc /\ lock' = lock
    BY <1>14 DEF Flush
  <2>2. ~hold.err /\ hold.for \in {"none", "flush"} /\ hold.merged = {} /\ hold.next = {}
    BY <1>1, <2>1 DEF HoldInv, Path
  <2>3. lock \in Writers /\ HoldStore \in Stores /\ hold.size \in Nat /\ fill[HoldStore] \in Nat
    BY <1>1, <2>1, HolderIsWriter, Zenon DEF HoldStore, IInv, TypeOK, Hold
  <2>4. CASE hold.size <= BufferCap - fill[HoldStore]
    <3> DEFINE n == BufferCap - fill[HoldStore]
    <3>1. n \in Nat /\ n - hold.size \in Nat
      BY <2>3, <2>4
    <3>2. hold' = [hold EXCEPT !.pc = "merge", !.free = n, !.limit = n - hold.size]
      BY <1>14, <2>4 DEF Flush
    <3> HIDE DEF n
    <3> QED
      BY <1>6, <2>1, <2>2, <3>1, <3>2, Zenon
  <2>5. CASE hold' = [hold EXCEPT !.pc = "tsend", !.for = "flush"]
    <3>1. Path("tsend", "flush")
      BY DEF Path
    <3> QED
      BY <1>4, <2>1, <2>2, <2>5, <3>1, Zenon DEF HoldSteps, HoldFor
  <2>6. CASE hold' = [hold EXCEPT !.pc = "merge", !.free = hold.size, !.limit = 0]
    BY <1>6, <2>1, <2>2, <2>3, <2>6, Zenon
  <2>7. CASE hold' = [hold EXCEPT !.pc = "msend", !.for = "flush"]
    <3>1. Path("msend", "flush")
      BY DEF Path
    <3> QED
      BY <1>4, <2>1, <2>2, <2>7, <3>1, Zenon DEF HoldSteps, HoldFor
  <2> QED
    BY <1>14, <2>4, <2>5, <2>6, <2>7 DEF Flush
<1>15. CASE NewMem
  <2>1. hold.pc = "new" /\ pc' = pc /\ lock' = lock
    BY <1>15 DEF NewMem
  <2>2. ~hold.err /\ hold.for \in {"flush", "full", "open"}
        /\ ((hold.merged = {} /\ hold.next = {}) \/ hold.for = "full")
    BY <1>1, <2>1 DEF HoldInv, Path
  <2>3. CASE hold.for = "flush"
    <3> DEFINE cap == IF hold.size > BufferCap THEN hold.size ELSE BufferCap
    <3>1. cap \in Nat /\ cap - hold.size \in Nat
      BY <1>1 DEF Hold
    <3>2. hold' = [hold EXCEPT !.pc = "merge", !.free = cap, !.limit = cap - hold.size]
      BY <1>15, <2>3 DEF NewMem
    <3> HIDE DEF cap
    <3> QED
      BY <1>6, <2>1, <2>3, <3>1, <3>2, Zenon
  <2>4. CASE hold.for = "full"
    <3>1. Path("unlock", hold.for) /\ hold' = [hold EXCEPT !.pc = "unlock"]
      BY <1>15, <2>4 DEF NewMem, Path
    <3> QED
      BY <1>3, <2>1, <2>2, <3>1 DEF HoldSteps
  <2>5. CASE hold.for = "open"
    <3>1. Path("msend", "opening") /\ hold' = [hold EXCEPT !.pc = "msend", !.for = "opening"]
      BY <1>15, <2>5 DEF NewMem, Path
    <3>2. hold.merged = {} /\ hold.next = {}
      BY <2>2, <2>5
    <3> QED
      BY <1>4, <2>1, <2>2, <3>1, <3>2, Zenon DEF HoldSteps, HoldFor
  <2> QED
    BY <2>2, <2>3, <2>4, <2>5
<1>16. CASE NewMemFails
  BY <1>8, <1>16 DEF NewMemFails
<1>17. CASE WaitFails
  BY <1>8, <1>17 DEF WaitFails
<1>18. CASE WriteJournal
  <2>1. hold.for \in {"none", "flush"}
    BY <1>1, <1>18 DEF WriteJournal, HoldInv, Path
  <2> QED
    BY <1>5, <1>18, <2>1 DEF WriteJournal
<1>19. CASE PutMem
  <2>1. hold.pc = "merge" /\ pc' = pc /\ lock' = lock
    BY <1>19 DEF PutMem
  <2>2. ~hold.err /\ hold.for \in {"none", "flush"}
    BY <1>1, <2>1 DEF HoldInv, Path
  <2>3. Path("msend", "full") /\ Path("unlock", hold.for)
    BY <2>2 DEF Path
  <2>4. CASE hold' = [hold EXCEPT !.pc = "msend", !.for = "full"]
    BY <1>4, <2>1, <2>2, <2>3, <2>4, Zenon DEF HoldSteps, HoldFor
  <2>5. CASE hold' = [hold EXCEPT !.pc = "unlock"]
    BY <1>3, <2>1, <2>2, <2>3, <2>5 DEF HoldSteps
  <2> QED
    BY <1>19, <2>4, <2>5 DEF PutMem
<1>20. CASE UnlockWrite
  <2>1. hold.pc = "unlock" /\ hold.merged = {}
    BY <1>20 DEF UnlockWrite
  <2>2. CASE hold.next = {} /\ pc' = [pc EXCEPT ![lock] = "idle"] /\ lock' = "free" /\ hold' = NoHold
    BY <2>1, <2>2, Releases
  <2>3. ASSUME NEW w \in hold.next, pc' = [pc EXCEPT ![lock] = "idle", ![w] = "hold"], lock' = w,
               hold' = FirstStep(w, hold.nextSize)
        PROVE  Good
    <3>1. w \in Writers /\ hold.nextSize \in Nat /\ lock \in Writers /\ lock # w
      BY <1>1, <2>1, HolderIsWriter DEF Hold
    <3>2. hold' \in Hold /\ hold'.pc \in {"open", "flush"} /\ hold'.for = "none"
          /\ hold'.merged = {} /\ hold'.next = {} /\ ~hold'.err
      BY <2>3, <3>1, FirstStepFields
    <3>3. HoldInv'
      BY <3>2 DEF HoldInv, Path
    <3>4. hold.next = {w} /\ \A v \in Writers : pc[v] = "handed" <=> v = w
      BY <1>1, <3>1 DEF LockInv
    <3>5. \A v \in Writers : pc'[v] = IF v = w THEN "hold" ELSE IF v = lock THEN "idle" ELSE pc[v]
      BY <2>3, <3>1 DEF IInv, TypeOK
    <3>6. \A v \in Writers : pc[v] # "merged" /\ (pc[v] = "hold" <=> v = lock)
      BY <1>1, <2>1 DEF LockInv
    <3>7. \A v \in Writers : (pc'[v] = "hold" <=> v = w) /\ pc'[v] \notin {"merged", "handed"}
      BY <3>1, <3>4, <3>5, <3>6
    <3>8. LockInv'
      BY <2>3, <3>1, <3>2, <3>7, Zenon DEF LockInv
    <3> QED
      BY <3>2, <3>3, <3>8
  <2> QED
    BY <1>20, <2>2, <2>3 DEF UnlockWrite
<1>21. CASE OpenTransaction
  <2>1. hold.pc \in {"open", "room"} /\ pc' = pc /\ lock' = lock
    BY <1>21 DEF OpenTransaction
  <2>2. ~hold.err /\ hold.for \in {"none", "opening", "opened"} /\ hold.merged = {} /\ hold.next = {}
    BY <1>1, <2>1 DEF HoldInv, Path
  <2>3. /\ Path("msend", "open") /\ Path("tsend", "opened")
        /\ Path("room", hold.for) /\ Path("tables", hold.for)
    BY <2>2 DEF Path
  <2>4. CASE hold' = [hold EXCEPT !.pc = "msend", !.for = "open"]
    BY <1>4, <2>1, <2>2, <2>3, <2>4, Zenon DEF HoldSteps, HoldFor
  <2>5. CASE hold' = [hold EXCEPT !.pc = "room"]
    BY <1>3, <2>1, <2>2, <2>3, <2>5 DEF HoldSteps
  <2>6. CASE hold' = [hold EXCEPT !.pc = "tsend", !.for = "opened"]
    BY <1>4, <2>1, <2>2, <2>3, <2>6, Zenon DEF HoldSteps, HoldFor
  <2>7. CASE hold' = [hold EXCEPT !.pc = "tables"]
    BY <1>3, <2>1, <2>2, <2>3, <2>7 DEF HoldSteps
  <2> QED
    BY <1>21, <2>4, <2>5, <2>6, <2>7 DEF OpenTransaction
<1>22. CASE WriteTables
  <2>1. hold.pc = "tables"
    BY <1>22 DEF WriteTables
  <2>2. ~hold.err /\ hold.for \in {"none", "opening", "opened"} /\ hold.merged = {} /\ hold.next = {}
    BY <1>1, <2>1 DEF HoldInv, Path
  <2>3. CASE hold' = [hold EXCEPT !.pc = "commit"] /\ pc' = pc /\ lock' = lock
    <3>1. Path("commit", hold.for)
      BY <2>2 DEF Path
    <3> QED
      BY <1>3, <2>1, <2>2, <2>3, <3>1 DEF HoldSteps
  <2>4. CASE pc' = [pc EXCEPT ![lock] = "idle"] /\ lock' = "free" /\ hold' = NoHold
    BY <2>1, <2>2, <2>4, Releases
  <2> QED
    BY <1>22, <2>3, <2>4 DEF WriteTables
<1>23. CASE CommitTables
  <2>1. hold.pc = "commit"
    BY <1>23 DEF CommitTables
  <2>2. ~hold.err /\ hold.for \in {"none", "opening", "opened"} /\ hold.merged = {} /\ hold.next = {}
    BY <1>1, <2>1 DEF HoldInv, Path
  <2>3. Path("tsend", "committed") /\ Path("done", hold.for)
    BY <2>2 DEF Path
  <2>4. CASE hold' = [hold EXCEPT !.pc = "tsend", !.for = "committed"] /\ pc' = pc /\ lock' = lock
    BY <1>4, <2>1, <2>2, <2>3, <2>4, Zenon DEF HoldSteps, HoldFor
  <2>5. CASE hold' = [hold EXCEPT !.pc = "done"] /\ pc' = pc /\ lock' = lock
    BY <1>3, <2>1, <2>2, <2>3, <2>5 DEF HoldSteps
  <2>6. CASE pc' = [pc EXCEPT ![lock] = "idle"] /\ lock' = "transaction" /\ hold' = NoHold
    BY <2>1, <2>2, <2>6, Releases
  <2> QED
    BY <1>23, <2>4, <2>5, <2>6 DEF CommitTables
<1>24. CASE SetDone
  <2>1. hold.pc = "done" /\ pc' = [pc EXCEPT ![lock] = "idle"] /\ lock' = "free" /\ hold' = NoHold
    BY <1>24 DEF SetDone
  <2>2. hold.merged = {} /\ hold.next = {}
    BY <1>1, <2>1 DEF HoldInv, Path
  <2> QED
    BY <2>1, <2>2, Releases
<1>25. ASSUME NEW s \in Stores, ReceiveMem(s) PROVE Good
  <2>1. hold.pc = "msend" /\ hold' = [hold EXCEPT !.pc = "mwait"] /\ pc' = pc /\ lock' = lock
    BY <1>25 DEF ReceiveMem
  <2>2. ~hold.err /\ ((hold.merged = {} /\ hold.next = {}) \/ hold.for = "full") /\ Path("mwait", hold.for)
    BY <1>1, <2>1 DEF HoldInv, Path
  <2> QED
    BY <1>3, <2>1, <2>2 DEF HoldSteps
<1>26. ASSUME NEW s \in Stores, AckMem(s) PROVE Good
  <2>1. CASE mcomp[s].ack
    BY <1>7, <1>26, <2>1 DEF AckMem, IInv, AckInv
  <2>2. CASE ~mcomp[s].ack
    BY <1>2, <1>26, <2>2 DEF AckMem, holdVars
  <2> QED
    BY <2>1, <2>2
<1>27. ASSUME NEW s \in Stores, ReceiveTable(s) PROVE Good
  <2>1. hold.pc = "tsend" /\ pc' = pc /\ lock' = lock
    BY <1>27 DEF ReceiveTable
  <2>2. CASE hold' = AfterWait
    BY <1>7, <2>1, <2>2
  <2>3. CASE hold' = [hold EXCEPT !.pc = "twait"]
    <3>1. ~hold.err /\ hold.merged = {} /\ hold.next = {} /\ Path("twait", hold.for)
      BY <1>1, <2>1 DEF HoldInv, Path
    <3> QED
      BY <1>3, <2>1, <2>3, <3>1 DEF HoldSteps
  <2> QED
    BY <1>27, <2>2, <2>3 DEF ReceiveTable
<1>28. ASSUME NEW s \in Stores, AutoTable(s) PROVE Good
  <2>1. CASE tcomp[s].ack /\ hold' = AfterWait
    BY <1>7, <1>28, <2>1 DEF AutoTable, IInv, AckInv
  <2>2. CASE hold' = hold
    BY <1>2, <1>28, <2>2 DEF AutoTable, holdVars
  <2> QED
    BY <1>28, <2>1, <2>2 DEF AutoTable
<1>29. ASSUME pc' = pc, hold' = hold, lock' \notin Writers, lock \notin Writers PROVE Good
  BY <1>1, <1>29 DEF HoldInv, LockInv
<1>30. CASE LockForError \/ ExitError \/ CallSetReadOnly \/ LockForClose
  <2>1. CASE LockForError
    BY <1>29, <2>1, NotAWriter DEF LockForError
  <2>2. CASE ExitError
    BY <1>2, <1>29, <2>2, NotAWriter DEF ExitError, holdVars
  <2>3. CASE CallSetReadOnly
    BY <1>29, <2>3, NotAWriter DEF CallSetReadOnly
  <2>4. CASE LockForClose
    BY <1>29, <2>4, NotAWriter DEF LockForClose
  <2> QED
    BY <1>30, <2>1, <2>2, <2>3, <2>4
<1>31. CASE DiscardOpen
  <2>1. CASE lock = "transaction" /\ lock' = "free" /\ pc' = pc /\ hold' = hold
    BY <1>29, <2>1, WriterNames
  <2>2. CASE hold.pc \in {"tables", "commit"} /\ pc' = [pc EXCEPT ![lock] = "idle"] /\ lock' = "free" /\ hold' = NoHold
    <3>1. hold.merged = {} /\ hold.next = {}
      BY <1>1, <2>2 DEF HoldInv, Path
    <3> QED
      BY <2>2, <3>1, Releases
  <2>3. CASE UNCHANGED holdVars
    BY <1>2, <2>3
  <2> QED
    BY <1>31, <2>1, <2>2, <2>3 DEF DiscardOpen
<1>32. ASSUME NEW s \in Stores, \/ StartMem(s) \/ PauseTables(s) \/ FlushMem(s) \/ CommitMem(s)
                                \/ ResumeTables(s) \/ BuildTables(s) \/ CommitCompaction(s)
       PROVE  Good
  BY <1>2, <1>32, Zenon DEF StartMem, PauseTables, FlushMem, CommitMem, ResumeTables, BuildTables, CommitCompaction
<1>33. CASE SetReadOnly \/ Close \/ FinishClose
  BY <1>2, <1>33, Zenon DEF SetReadOnly, Close, FinishClose
<1> QED
  BY <1>9, <1>10, <1>11, <1>12, <1>13, <1>14, <1>15, <1>16, <1>17, <1>18, <1>19, <1>20, <1>21,
     <1>22, <1>23, <1>24, <1>25, <1>26, <1>27, <1>28, <1>30, <1>31, <1>32, <1>33
     DEF Next, Steps, Select, Holder, MemCompaction, TableCompaction, Closing

-----------------------------------------------------------------------------
(* The compaction goroutines                                                *)

MemComp == [pc : MemSteps, ack : BOOLEAN, paused : BOOLEAN]
TableComp == [pc : TableSteps, ack : BOOLEAN]

\* mCompaction of s moves to a statement of its loop.
LEMMA MemMoves ==
  ASSUME mcomp \in [Stores -> MemComp], NEW s \in Stores, NEW p \in MemSteps,
         mcomp' = [mcomp EXCEPT ![s].pc = p]
  PROVE  /\ mcomp' \in [Stores -> MemComp]
         /\ mcomp'[s].pc = p /\ mcomp'[s].ack = mcomp[s].ack /\ mcomp'[s].paused = mcomp[s].paused
         /\ \A r \in Stores \ {s} : mcomp'[r] = mcomp[r]
<1>1. mcomp[s] \in MemComp
  OBVIOUS
<1>2. mcomp' = [mcomp EXCEPT ![s] = [mcomp[s] EXCEPT !.pc = p]]
  OBVIOUS
<1>3. [mcomp[s] EXCEPT !.pc = p] \in MemComp
  BY <1>1 DEF MemComp
<1>4. mcomp'[s] = [mcomp[s] EXCEPT !.pc = p]
  BY <1>2
<1>5. mcomp'[s].pc = p /\ mcomp'[s].ack = mcomp[s].ack /\ mcomp'[s].paused = mcomp[s].paused
  BY <1>1, <1>4 DEF MemComp
<1> QED
  BY <1>2, <1>3, <1>5

\* mCompaction of s begins or ends a round, or exits.
LEMMA MemRestarts ==
  ASSUME mcomp \in [Stores -> MemComp], NEW s \in Stores, NEW p \in MemSteps, NEW b \in BOOLEAN,
         mcomp' = [mcomp EXCEPT ![s] = MemLoop(p, b)]
  PROVE  /\ mcomp' \in [Stores -> MemComp]
         /\ mcomp'[s].pc = p /\ mcomp'[s].ack = b /\ ~mcomp'[s].paused
         /\ \A r \in Stores \ {s} : mcomp'[r] = mcomp[r]
<1>1. mcomp'[s] = MemLoop(p, b) /\ MemLoop(p, b) \in MemComp
  BY DEF MemLoop, MemComp
<1>2. mcomp'[s].pc = p /\ mcomp'[s].ack = b /\ ~mcomp'[s].paused
  BY <1>1 DEF MemLoop
<1> QED
  BY <1>1, <1>2

\* tCompaction of s moves to a statement of its loop.
LEMMA TableMoves ==
  ASSUME tcomp \in [Stores -> TableComp], NEW s \in Stores, NEW p \in TableSteps,
         tcomp' = [tcomp EXCEPT ![s].pc = p]
  PROVE  /\ tcomp' \in [Stores -> TableComp]
         /\ tcomp'[s].pc = p /\ tcomp'[s].ack = tcomp[s].ack
         /\ \A r \in Stores \ {s} : tcomp'[r] = tcomp[r]
<1>1. tcomp[s] \in TableComp
  OBVIOUS
<1>2. tcomp' = [tcomp EXCEPT ![s] = [tcomp[s] EXCEPT !.pc = p]]
  OBVIOUS
<1>3. [tcomp[s] EXCEPT !.pc = p] \in TableComp
  BY <1>1 DEF TableComp
<1>4. tcomp'[s] = [tcomp[s] EXCEPT !.pc = p]
  BY <1>2
<1>5. tcomp'[s].pc = p /\ tcomp'[s].ack = tcomp[s].ack
  BY <1>1, <1>4 DEF TableComp
<1> QED
  BY <1>2, <1>3, <1>5

\* tCompaction of s begins a round, or exits.
LEMMA TableRestarts ==
  ASSUME tcomp \in [Stores -> TableComp], NEW s \in Stores, NEW p \in TableSteps, NEW b \in BOOLEAN,
         tcomp' = [tcomp EXCEPT ![s] = [pc |-> p, ack |-> b]]
  PROVE  /\ tcomp' \in [Stores -> TableComp]
         /\ tcomp'[s].pc = p /\ tcomp'[s].ack = b
         /\ \A r \in Stores \ {s} : tcomp'[r] = tcomp[r]
<1>1. tcomp'[s] = [pc |-> p, ack |-> b] /\ [pc |-> p, ack |-> b] \in TableComp
  BY DEF TableComp
<1>2. tcomp'[s].pc = p /\ tcomp'[s].ack = b
  BY <1>1
<1> QED
  BY <1>1, <1>2

\* What the pause and the resumption do to the two goroutines of s.
LEMMA PauseMoves ==
  ASSUME mcomp \in [Stores -> MemComp], NEW s \in Stores, NEW p \in MemSteps, NEW b \in BOOLEAN,
         mcomp' = [mcomp EXCEPT ![s].pc = p, ![s].paused = b]
  PROVE  /\ mcomp' \in [Stores -> MemComp]
         /\ mcomp'[s].pc = p /\ mcomp'[s].ack = mcomp[s].ack /\ mcomp'[s].paused = b
         /\ \A r \in Stores \ {s} : mcomp'[r] = mcomp[r]
<1>1. mcomp[s] \in MemComp
  OBVIOUS
<1>2. mcomp' = [mcomp EXCEPT ![s] = [mcomp[s] EXCEPT !.pc = p, !.paused = b]]
  BY Zenon
<1>3. [mcomp[s] EXCEPT !.pc = p, !.paused = b] \in MemComp
  BY <1>1, Zenon DEF MemComp
<1>4. mcomp'[s] = [mcomp[s] EXCEPT !.pc = p, !.paused = b]
  BY <1>2
<1>5. mcomp'[s].pc = p /\ mcomp'[s].ack = mcomp[s].ack /\ mcomp'[s].paused = b
  BY <1>1, <1>4 DEF MemComp
<1> QED
  BY <1>2, <1>3, <1>5

\* An acknowledgement is owed only to a holder that waits for it.
LEMMA AckStep ==
  ASSUME IInv, Next
  PROVE  AckInv'
<1> USE LevelWriteAssumption
<1>1. AckInv /\ hold \in Hold /\ mcomp \in [Stores -> MemComp] /\ tcomp \in [Stores -> TableComp]
  BY DEF IInv, TypeOK, MemComp, TableComp
<1> DEFINE NoNewAck == \A s \in Stores : (mcomp'[s].ack => mcomp[s].ack) /\ (tcomp'[s].ack => tcomp[s].ack)
<1>2. ASSUME hold.pc \notin {"mwait", "twait"}, NoNewAck PROVE AckInv'
  BY <1>1, <1>2 DEF AckInv
<1>3. ASSUME hold' = hold, lock' = lock, NoNewAck PROVE AckInv'
  BY <1>1, <1>3 DEF AckInv, HoldStore
<1>4. hold.pc # "none" => lock \in Writers
  BY HolderIsWriter
<1>5. hold.pc = "none" \/ lock \notin {"free", "transaction"}
  BY <1>4, NotAWriter
<1>6. CASE \E w \in Writers : Write(w) \/ RefuseWrite(w)
  BY <1>3, <1>6 DEF Write, RefuseWrite
<1>7. CASE \E w \in Writers : LockWrite(w) \/ MergeWrite(w) \/ AckMerged(w)
  BY <1>2, <1>5, <1>7, Zenon DEF LockWrite, MergeWrite, AckMerged
<1>8. CASE \/ Flush \/ NewMemFails \/ WriteJournal \/ PutMem \/ UnlockWrite \/ OpenTransaction
           \/ WriteTables \/ CommitTables \/ SetDone
  BY <1>2, <1>8 DEF Flush, NewMemFails, WriteJournal, PutMem, UnlockWrite, OpenTransaction,
                    WriteTables, CommitTables, SetDone
<1>9. CASE NewMem
  <2>1. hold.pc = "new" /\ tcomp' = tcomp /\ (mcomp' = mcomp \/ mcomp' = [mcomp EXCEPT ![HoldStore].pc = "run"])
    BY <1>9 DEF NewMem, TriggerMem
  <2>2. HoldStore \in Stores
    BY <1>4, <2>1 DEF HoldStore
  <2>3. NoNewAck
    BY <1>1, <2>1, <2>2, MemMoves DEF MemSteps
  <2> QED
    BY <1>2, <2>1, <2>3
<1>10. CASE WaitFails
  <2>1. mcomp' = [mcomp EXCEPT ![HoldStore].ack = FALSE] /\ tcomp' = [tcomp EXCEPT ![HoldStore].ack = FALSE]
    BY <1>10 DEF WaitFails
  <2>2. \A s \in Stores : ~mcomp'[s].ack /\ ~tcomp'[s].ack
    BY <1>1, <2>1 DEF AckInv
  <2> QED
    BY <2>2 DEF AckInv
<1>11. ASSUME NEW s \in Stores, \/ StartMem(s) \/ PauseTables(s) \/ FlushMem(s) \/ CommitMem(s)
                                \/ ResumeTables(s) \/ BuildTables(s) \/ CommitCompaction(s)
       PROVE  AckInv'
  <2>1. hold' = hold /\ lock' = lock
    BY <1>11, Zenon DEF StartMem, PauseTables, FlushMem, CommitMem, ResumeTables, BuildTables,
                 CommitCompaction, holdVars
  <2>2. CASE StartMem(s) \/ PauseTables(s) \/ ResumeTables(s)
    <3>1. \/ \E p \in MemSteps : mcomp' = [mcomp EXCEPT ![s].pc = p]
          \/ \E p \in MemSteps, b \in BOOLEAN : mcomp' = [mcomp EXCEPT ![s].pc = p, ![s].paused = b]
      BY <2>2 DEF StartMem, PauseTables, ResumeTables, MemSteps
    <3>2. \A r \in Stores : mcomp'[r].ack = mcomp[r].ack
      BY <1>1, <3>1, MemMoves, PauseMoves, Zenon
    <3>3. tcomp' = tcomp \/ \E p \in TableSteps : tcomp' = [tcomp EXCEPT ![s].pc = p]
      BY <2>2 DEF StartMem, PauseTables, ResumeTables, TableSteps
    <3>4. \A r \in Stores : tcomp'[r].ack = tcomp[r].ack
      BY <1>1, <3>3, TableMoves
    <3> QED
      BY <1>3, <2>1, <3>2, <3>4
  <2>3. CASE FlushMem(s) \/ CommitMem(s)
    <3>1. tcomp' = tcomp /\ (\/ mcomp' = mcomp \/ mcomp' = [mcomp EXCEPT ![s].pc = "commit"]
                             \/ mcomp' = [mcomp EXCEPT ![s].pc = "resume"]
                             \/ mcomp' = [mcomp EXCEPT ![s] = MemLoop("gone", FALSE)])
      BY <2>3, Zenon DEF FlushMem, CommitMem, Attempt
    <3>2. NoNewAck
      BY <1>1, <3>1, MemMoves, MemRestarts, Zenon DEF MemSteps
    <3> QED
      BY <1>3, <2>1, <3>2
  <2>4. CASE BuildTables(s) \/ CommitCompaction(s)
    <3>1. mcomp' = mcomp /\ (\/ tcomp' = tcomp \/ tcomp' = [tcomp EXCEPT ![s].pc = "commit"]
                             \/ tcomp' = [tcomp EXCEPT ![s].pc = "top"]
                             \/ tcomp' = [tcomp EXCEPT ![s] = [pc |-> "gone", ack |-> FALSE]])
      BY <2>4 DEF BuildTables, CommitCompaction, Attempt
    <3>2. NoNewAck
      BY <1>1, <3>1, TableMoves, TableRestarts DEF TableSteps
    <3> QED
      BY <1>3, <2>1, <3>2
  <2> QED
    BY <1>11, <2>2, <2>3, <2>4
<1>12. ASSUME NEW s \in Stores, ReceiveMem(s) PROVE AckInv'
  <2>1. /\ hold.pc = "msend" /\ HoldStore = s /\ lock' = lock /\ tcomp' = tcomp
        /\ hold' = [hold EXCEPT !.pc = "mwait"] /\ mcomp' = [mcomp EXCEPT ![s] = MemLoop("run", TRUE)]
    BY <1>12 DEF ReceiveMem
  <2>2. hold'.pc = "mwait" /\ HoldStore' = s
    BY <1>1, <2>1 DEF HoldStore, Hold
  <2>3. \A r \in Stores : ~mcomp[r].ack /\ ~tcomp[r].ack
    BY <1>1, <2>1 DEF AckInv
  <2>4. \A r \in Stores : (mcomp'[r].ack => r = s) /\ ~tcomp'[r].ack
    BY <1>1, <2>1, <2>3, Zenon
  <2> QED
    BY <2>2, <2>4 DEF AckInv
<1>13. ASSUME NEW s \in Stores, AckMem(s) PROVE AckInv'
  <2>1. lock' = lock /\ tcomp' = tcomp /\ mcomp' = [mcomp EXCEPT ![s] = MemLoop("idle", FALSE)]
    BY <1>13 DEF AckMem
  <2>2. NoNewAck /\ ~mcomp'[s].ack
    BY <1>1, <2>1 DEF MemLoop
  <2>3. CASE ~mcomp[s].ack
    BY <1>3, <1>13, <2>1, <2>2, <2>3, Zenon DEF AckMem
  <2>4. CASE mcomp[s].ack
    <3>1. \A r \in Stores : ~mcomp'[r].ack /\ ~tcomp'[r].ack
      BY <1>1, <2>1, <2>2, <2>4, Zenon DEF AckInv
    <3> QED
      BY <3>1 DEF AckInv
  <2> QED
    BY <2>3, <2>4
<1>14. ASSUME NEW s \in Stores, ReceiveTable(s) PROVE AckInv'
  <2>1. /\ hold.pc = "tsend" /\ HoldStore = s /\ lock' = lock /\ mcomp' = mcomp
        /\ tcomp' = [tcomp EXCEPT ![s] = [pc  |-> IF needCompaction(s) THEN "compact" ELSE "top",
                                          ack |-> ~resumeWrite(s)]]
        /\ hold' = IF resumeWrite(s) THEN AfterWait ELSE [hold EXCEPT !.pc = "twait"]
    BY <1>14 DEF ReceiveTable
  <2>2. \A r \in Stores : ~mcomp[r].ack /\ ~tcomp[r].ack
    BY <1>1, <2>1 DEF AckInv
  <2>3. \A r \in Stores : (tcomp'[r].ack => r = s /\ ~resumeWrite(s)) /\ ~mcomp'[r].ack
    BY <1>1, <2>1, <2>2, Zenon
  <2>4. ~resumeWrite(s) => hold'.pc = "twait" /\ HoldStore' = s
    BY <1>1, <2>1 DEF HoldStore, Hold
  <2> QED
    BY <2>3, <2>4 DEF AckInv
<1>15. ASSUME NEW s \in Stores, AutoTable(s) PROVE AckInv'
  <2> DEFINE wake == tcomp[s].ack /\ (resumeWrite(s) \/ ~needCompaction(s))
  <2>1. /\ hold' = IF wake THEN AfterWait ELSE hold
        /\ lock' = lock /\ mcomp' = mcomp
        /\ tcomp' = [tcomp EXCEPT ![s] = [pc  |-> IF needCompaction(s) THEN "compact" ELSE "top",
                                          ack |-> tcomp[s].ack /\ ~wake]]
    BY <1>15 DEF AutoTable
  <2>2. NoNewAck /\ (wake => ~tcomp'[s].ack)
    BY <1>1, <2>1, Zenon
  <2>3. CASE ~wake
    BY <1>3, <2>1, <2>2, <2>3
  <2>4. CASE wake
    <3>1. \A r \in Stores : ~mcomp'[r].ack /\ ~tcomp'[r].ack
      BY <1>1, <2>1, <2>2, <2>4 DEF AckInv
    <3> QED
      BY <3>1 DEF AckInv
  <2> QED
    BY <2>3, <2>4
<1>16. CASE SetReadOnly \/ Close
  BY <1>3, <1>16 DEF SetReadOnly, Close, holdVars
<1>17. CASE LockForError \/ CallSetReadOnly \/ LockForClose
  BY <1>2, <1>5, <1>17 DEF LockForError, CallSetReadOnly, LockForClose
<1>18. CASE ExitError
  <2>1. hold' = hold /\ mcomp' = mcomp /\ tcomp' = tcomp
        /\ (lock' = lock \/ lock \in {"error", "readonly"})
    BY <1>18 DEF ExitError
  <2> QED
    BY <1>2, <1>3, <1>4, <2>1, NotAWriter
<1>19. CASE DiscardOpen
  BY <1>2, <1>3, <1>5, <1>19 DEF DiscardOpen, holdVars
<1>20. CASE FinishClose
  BY <1>20 DEF FinishClose, AckInv, MemLoop
<1> QED
  BY <1>6, <1>7, <1>8, <1>9, <1>10, <1>11, <1>12, <1>13, <1>14, <1>15, <1>16, <1>17, <1>18, <1>19, <1>20
     DEF Next, Steps, Select, Holder, MemCompaction, TableCompaction, Closing

\* A buffer that newMem is about to freeze, or whose compaction is about to be
\* acknowledged, finds nothing frozen.
LEMMA RoomStep ==
  ASSUME IInv, Next
  PROVE  RoomInv'
<1> USE LevelWriteAssumption
<1>1. /\ RoomInv /\ AckInv /\ HoldInv /\ hold \in Hold
      /\ frozen \in [Stores -> {"none", "empty", "full"}]
      /\ mcomp \in [Stores -> MemComp] /\ tcomp \in [Stores -> TableComp]
  BY DEF IInv, TypeOK, MemComp, TableComp
<1>2. (hold.pc # "none" => lock \in Writers) /\ (hold.pc = "none" \/ lock \notin {"free", "transaction"})
  BY HolderIsWriter, NotAWriter
<1> DEFINE Acking(s) == mcomp[s].ack /\ mcomp[s].pc \in {"resume", "ack"}
<1>3. ASSUME frozen' = frozen, mcomp' = mcomp, hold'.pc # "new" \/ (hold' = hold /\ lock' = lock)
      PROVE  RoomInv'
  BY <1>1, <1>3 DEF RoomInv, HoldStore
<1>4. ASSUME hold' = hold, lock' = lock, \A s \in Stores : frozen'[s] \in {frozen[s], "none"},
             \A s \in Stores : Acking(s)' => Acking(s) \/ frozen'[s] = "none"
      PROVE  RoomInv'
  <2>1. hold.pc = "new" => HoldStore \in Stores
    BY <1>2 DEF HoldStore
  <2> QED
    BY <1>1, <1>4, <2>1, Zenon DEF RoomInv, HoldStore
<1>5. CASE \E w \in Writers : Write(w) \/ RefuseWrite(w)
  BY <1>3, <1>5 DEF Write, RefuseWrite, dataVars
<1>6. ASSUME NEW w \in Writers, LockWrite(w) PROVE RoomInv'
  <2>1. hold'.pc # "new"
    BY <1>6, FirstStepFields DEF LockWrite
  <2> QED
    BY <1>3, <1>6, <2>1 DEF LockWrite, dataVars
<1>7. ASSUME NEW w \in Writers, MergeWrite(w) \/ AckMerged(w) PROVE RoomInv'
  <2>1. hold'.pc = hold.pc /\ hold.pc \in {"merge", "unlock"}
    BY <1>1, <1>7, Zenon DEF MergeWrite, AckMerged, Hold
  <2> QED
    BY <1>3, <1>7, <2>1, Zenon DEF MergeWrite, AckMerged, dataVars
<1>8. ASSUME GiveUp PROVE hold'.pc # "new"
  <2>1. \/ hold' = [hold EXCEPT !.pc = "unlock", !.err = TRUE]
        \/ hold' = [hold EXCEPT !.pc = "unlock"]
        \/ hold' = [hold EXCEPT !.pc = "done"]
        \/ hold' = NoHold
    BY <1>8 DEF GiveUp
  <2>2. NoHold.pc = "none"
    BY DEF NoHold
  <2> QED
    BY <1>1, <2>1, <2>2, Zenon DEF Hold
<1>9. CASE NewMemFails
  BY <1>3, <1>8, <1>9 DEF NewMemFails, dataVars
<1>10. CASE Flush \/ WriteJournal \/ OpenTransaction
  <2>1. hold'.pc # "new"
    BY <1>1, <1>10, Zenon DEF Flush, WriteJournal, OpenTransaction, Hold
  <2> QED
    BY <1>3, <1>10, <2>1 DEF Flush, WriteJournal, OpenTransaction, dataVars
<1>11. CASE PutMem
  <2>1. hold'.pc # "new"
    BY <1>1, <1>11 DEF PutMem, Hold
  <2> QED
    BY <1>3, <1>11, <2>1 DEF PutMem
<1>12. CASE WriteTables \/ SetDone
  <2>1. hold'.pc # "new"
    BY <1>1, <1>12 DEF WriteTables, SetDone, Hold, NoHold
  <2> QED
    BY <1>3, <1>12, <2>1 DEF WriteTables, SetDone, dataVars
<1>13. CASE CommitTables
  <2>1. hold'.pc # "new"
    <3>1. \/ hold' = [hold EXCEPT !.pc = "tsend", !.for = "committed"]
          \/ hold' = [hold EXCEPT !.pc = "done"]
          \/ hold' = NoHold
      BY <1>13 DEF CommitTables
    <3>2. NoHold.pc = "none"
      BY DEF NoHold
    <3> QED
      BY <1>1, <3>1, <3>2, Zenon DEF Hold
  <2> QED
    BY <1>3, <1>13, <2>1 DEF CommitTables
<1>14. CASE UnlockWrite
  <2>1. hold'.pc # "new"
    <3>1. hold' = NoHold \/ \E w \in hold.next : hold' = FirstStep(w, hold.nextSize)
      BY <1>14 DEF UnlockWrite
    <3>2. hold.next \subseteq Writers /\ hold.nextSize \in Nat
      BY <1>1 DEF Hold
    <3>3. NoHold.pc = "none"
      BY DEF NoHold
    <3> QED
      BY <3>1, <3>2, <3>3, FirstStepFields
  <2> QED
    BY <1>3, <1>14, <2>1 DEF UnlockWrite, dataVars
<1>15. CASE NewMem
  <2>1. hold.pc = "new" /\ (mcomp' = mcomp \/ mcomp' = [mcomp EXCEPT ![HoldStore].pc = "run"])
    BY <1>15 DEF NewMem, TriggerMem
  <2>2. hold'.pc # "new"
    BY <1>1, <1>15, Zenon DEF NewMem, Hold
  <2>3. HoldStore \in Stores
    BY <1>2, <2>1 DEF HoldStore
  <2>4. \A s \in Stores : ~mcomp[s].ack
    BY <1>1, <2>1 DEF AckInv
  <2>5. \A s \in Stores : ~mcomp'[s].ack
    BY <1>1, <2>1, <2>3, <2>4, MemMoves DEF MemSteps
  <2> QED
    BY <2>2, <2>5 DEF RoomInv
<1>16. CASE WaitFails
  <2>1. frozen' = frozen /\ hold'.pc # "new" /\ mcomp' = [mcomp EXCEPT ![HoldStore].ack = FALSE]
    BY <1>8, <1>16 DEF WaitFails, dataVars
  <2>2. \A s \in Stores : ~mcomp'[s].ack
    BY <1>1, <2>1 DEF AckInv
  <2> QED
    BY <2>1, <2>2 DEF RoomInv
<1>17. ASSUME NEW s \in Stores, ReceiveMem(s) PROVE RoomInv'
  <2>1. /\ frozen' = frozen /\ hold.pc = "msend" /\ hold' = [hold EXCEPT !.pc = "mwait"]
        /\ mcomp' = [mcomp EXCEPT ![s] = MemLoop("run", TRUE)]
    BY <1>17 DEF ReceiveMem, dataVars
  <2>2. hold'.pc # "new"
    BY <1>1, <2>1 DEF Hold
  <2>3. \A r \in Stores : ~Acking(r)'
    <3>1. \A r \in Stores : ~mcomp[r].ack
      BY <1>1, <2>1 DEF AckInv
    <3>2. mcomp'[s].pc = "run" /\ \A r \in Stores \ {s} : mcomp'[r] = mcomp[r]
      BY <1>1, <2>1, MemRestarts, Zenon DEF MemSteps
    <3> QED
      BY <3>1, <3>2
  <2> QED
    BY <2>2, <2>3 DEF RoomInv
<1>18. ASSUME NEW s \in Stores, StartMem(s) PROVE RoomInv'
  <2>1. /\ hold' = hold /\ lock' = lock
        /\ frozen' = IF frozen[s] = "empty" THEN [frozen EXCEPT ![s] = "none"] ELSE frozen
        /\ mcomp' = [mcomp EXCEPT ![s].pc = IF frozen[s] = "full" THEN "pausing" ELSE "ack"]
    BY <1>18 DEF StartMem, holdVars
  <2>2. \A r \in Stores : frozen'[r] \in {frozen[r], "none"}
    BY <1>1, <2>1
  <2>3. frozen'[s] = "none" \/ frozen[s] = "full"
    BY <1>1, <2>1
  <2>4. \A r \in Stores : Acking(r)' => Acking(r) \/ frozen'[r] = "none"
    <3> DEFINE p == IF frozen[s] = "full" THEN "pausing" ELSE "ack"
    <3>1. p \in MemSteps
      BY DEF MemSteps
    <3>2. /\ mcomp'[s].pc = p /\ mcomp'[s].ack = mcomp[s].ack
          /\ \A r \in Stores \ {s} : mcomp'[r] = mcomp[r]
      BY <1>1, <2>1, <3>1, MemMoves
    <3> QED
      BY <2>3, <3>2
  <2> QED
    BY <1>4, <2>1, <2>2, <2>4
<1>19. ASSUME NEW s \in Stores, PauseTables(s) \/ FlushMem(s) PROVE RoomInv'
  <2>1. hold' = hold /\ lock' = lock /\ frozen' = frozen
    BY <1>19, Zenon DEF PauseTables, FlushMem, holdVars, dataVars
  <2>2. \/ mcomp' = mcomp
        \/ \E p \in {"flush", "commit"} : mcomp' = [mcomp EXCEPT ![s].pc = p]
        \/ mcomp' = [mcomp EXCEPT ![s].pc = "flush", ![s].paused = TRUE]
        \/ mcomp' = [mcomp EXCEPT ![s] = MemLoop("gone", FALSE)]
    BY <1>19, Zenon DEF PauseTables, FlushMem, Attempt
  <2>3. CASE mcomp' = mcomp
    BY <1>4, <2>1, <2>3
  <2>4. CASE \E p \in {"flush", "commit"} : mcomp' = [mcomp EXCEPT ![s].pc = p]
    <3>1. mcomp'[s].pc \in {"flush", "commit"} /\ \A r \in Stores \ {s} : mcomp'[r] = mcomp[r]
      BY <1>1, <2>4, MemMoves, Zenon DEF MemSteps
    <3> QED
      BY <1>4, <2>1, <3>1
  <2>5. CASE mcomp' = [mcomp EXCEPT ![s].pc = "flush", ![s].paused = TRUE]
    <3>1. mcomp'[s].pc = "flush" /\ \A r \in Stores \ {s} : mcomp'[r] = mcomp[r]
      BY <1>1, <2>5, PauseMoves, Zenon DEF MemSteps
    <3> QED
      BY <1>4, <2>1, <3>1
  <2>6. CASE mcomp' = [mcomp EXCEPT ![s] = MemLoop("gone", FALSE)]
    <3>1. mcomp'[s].pc = "gone" /\ \A r \in Stores \ {s} : mcomp'[r] = mcomp[r]
      BY <1>1, <2>6, MemRestarts, Zenon DEF MemSteps
    <3> QED
      BY <1>4, <2>1, <3>1
  <2> QED
    BY <2>2, <2>3, <2>4, <2>5, <2>6, Zenon
<1>20. ASSUME NEW s \in Stores, CommitMem(s) PROVE RoomInv'
  <2>1. hold' = hold /\ lock' = lock
    BY <1>20 DEF CommitMem, holdVars
  <2>2. \/ mcomp' = mcomp /\ frozen' = frozen
        \/ mcomp' = [mcomp EXCEPT ![s].pc = "resume"] /\ frozen' = [frozen EXCEPT ![s] = "none"]
        \/ mcomp' = [mcomp EXCEPT ![s] = MemLoop("gone", FALSE)] /\ frozen' = frozen
    BY <1>20, Zenon DEF CommitMem, Attempt
  <2>3. \A r \in Stores : frozen'[r] \in {frozen[r], "none"}
    BY <1>1, <2>2, Zenon
  <2>4. mcomp'[s] = mcomp[s] \/ mcomp'[s].pc = "gone" \/ frozen'[s] = "none"
    <3>1. CASE mcomp' = [mcomp EXCEPT ![s] = MemLoop("gone", FALSE)]
      BY <1>1, <3>1, MemRestarts, Zenon DEF MemSteps
    <3> QED
      BY <1>1, <2>2, <3>1, Zenon
  <2>5. \A r \in Stores \ {s} : mcomp'[r] = mcomp[r]
    BY <1>1, <2>2, MemMoves, MemRestarts, Zenon DEF MemSteps
  <2> QED
    BY <1>4, <2>1, <2>3, <2>4, <2>5
<1>21. ASSUME NEW s \in Stores, ResumeTables(s) PROVE RoomInv'
  <2>1. /\ hold' = hold /\ lock' = lock /\ frozen' = frozen /\ mcomp[s].pc = "resume"
        /\ mcomp' = [mcomp EXCEPT ![s].pc = "ack", ![s].paused = FALSE]
    BY <1>21 DEF ResumeTables, holdVars, dataVars
  <2>2. mcomp'[s].ack = mcomp[s].ack /\ \A r \in Stores \ {s} : mcomp'[r] = mcomp[r]
    BY <1>1, <2>1, PauseMoves, Zenon DEF MemSteps
  <2>3. \A r \in Stores : Acking(r)' => Acking(r)
    BY <2>1, <2>2, Zenon
  <2> QED
    BY <1>4, <2>1, <2>3, Zenon
<1>22. ASSUME NEW s \in Stores, AckMem(s) PROVE RoomInv'
  <2>1. /\ frozen' = frozen /\ lock' = lock /\ mcomp[s].pc = "ack"
        /\ mcomp' = [mcomp EXCEPT ![s] = MemLoop("idle", FALSE)]
    BY <1>22 DEF AckMem, dataVars
  <2>2. ~mcomp'[s].ack /\ \A r \in Stores \ {s} : mcomp'[r] = mcomp[r]
    BY <1>1, <2>1, MemRestarts, Zenon DEF MemSteps
  <2>3. mcomp[s].ack => HoldStore = s /\ frozen[s] = "none"
    BY <1>1, <2>1 DEF RoomInv, AckInv
  <2>4. ~mcomp[s].ack => hold' = hold
    BY <1>22 DEF AckMem
  <2>5. \A r \in Stores : Acking(r)' => Acking(r)
    BY <2>2
  <2>6. hold'.pc = "new" => frozen'[HoldStore'] = "none"
    <3>1. CASE mcomp[s].ack
      BY <2>1, <2>3, <3>1 DEF HoldStore
    <3>2. CASE ~mcomp[s].ack
      BY <1>1, <2>1, <2>4, <3>2 DEF RoomInv, HoldStore
    <3> QED
      BY <3>1, <3>2
  <2> QED
    BY <1>1, <2>1, <2>5, <2>6, Zenon DEF RoomInv
<1>23. ASSUME NEW s \in Stores, ReceiveTable(s) \/ AutoTable(s) PROVE RoomInv'
  <2>1. hold' = hold \/ hold'.pc # "new"
    <3>1. \/ hold' = hold \/ hold' = [hold EXCEPT !.pc = "twait"]
          \/ hold' = AfterWait /\ hold.pc \in {"tsend", "twait"}
      BY <1>1, <1>23 DEF ReceiveTable, AutoTable, AckInv
    <3>2. hold' = AfterWait /\ hold.pc \in {"tsend", "twait"} => hold'.pc # "new"
      BY <1>1, AfterWaitGoes DEF Hold
    <3> QED
      BY <1>1, <3>1, <3>2 DEF Hold
  <2> QED
    BY <1>3, <1>23, <2>1 DEF ReceiveTable, AutoTable, dataVars
<1>24. ASSUME NEW s \in Stores, BuildTables(s) \/ CommitCompaction(s) PROVE RoomInv'
  BY <1>3, <1>24, Zenon DEF BuildTables, CommitCompaction, holdVars, dataVars
<1>25. CASE SetReadOnly \/ Close
  BY <1>3, <1>25 DEF SetReadOnly, Close, holdVars, dataVars
<1>26. CASE LockForError \/ CallSetReadOnly \/ LockForClose
  BY <1>2, <1>3, <1>26 DEF LockForError, CallSetReadOnly, LockForClose, dataVars
<1>27. CASE ExitError
  <2>1. hold' = hold /\ frozen' = frozen /\ mcomp' = mcomp
        /\ (lock' = lock \/ lock \in {"error", "readonly"})
    BY <1>27 DEF ExitError, dataVars
  <2> QED
    BY <1>2, <1>3, <2>1, NotAWriter
<1>28. CASE DiscardOpen
  <2>1. hold'.pc # "new" \/ (hold' = hold /\ lock' = lock)
    BY <1>2, <1>28 DEF DiscardOpen, holdVars, NoHold
  <2> QED
    BY <1>3, <1>28, <2>1 DEF DiscardOpen, dataVars
<1>29. CASE FinishClose
  <2>1. hold' = hold /\ lock' = lock /\ frozen' = frozen /\ \A s \in Stores : ~Acking(s)'
    BY <1>29 DEF FinishClose, MemLoop, holdVars, dataVars
  <2> QED
    BY <1>4, <2>1, Zenon
<1> QED
  BY <1>5, <1>6, <1>7, <1>9, <1>10, <1>11, <1>12, <1>13, <1>14, <1>15, <1>16, <1>17, <1>18, <1>19,
     <1>20, <1>21, <1>22, <1>23, <1>24, <1>25, <1>26, <1>27, <1>28, <1>29
     DEF Next, Steps, Select, Holder, MemCompaction, TableCompaction, Closing

\* A pause that was granted lasts until mCompaction ends it or exits, and only
\* the regular store flushes without one, after a permanent error.
LEMMA PauseStep ==
  ASSUME IInv, Next
  PROVE  PauseInv'
<1> USE LevelWriteAssumption
<1>1. /\ PauseInv /\ AckInv /\ mcomp \in [Stores -> MemComp] /\ tcomp \in [Stores -> TableComp]
      /\ errs \in {"noerr", "haserr", "hasperr", "gone"}
  BY DEF IInv, TypeOK, MemComp, TableComp
<1> DEFINE Bad == {"hasperr", "gone"}
           Paused(s) == /\ mcomp[s].pc \in {"flush", "commit", "resume"}
                        /\ tcomp[s].pc \in {"paused", "suspended"}
           Lone(s) == s = "regular" /\ errs \in Bad
           Keeps(s) == /\ mcomp[s].paused => Paused(s)
                       /\ mcomp[s].pc \in {"flush", "commit", "resume"} /\ ~mcomp[s].paused => Lone(s)
<1>2. \A s \in Stores : Keeps(s)
  BY <1>1 DEF PauseInv
<1>3. SUFFICES ASSUME NEW s \in Stores PROVE Keeps(s)'
  BY DEF PauseInv
<1>4. errs \in Bad => errs' \in Bad
  <2> SUFFICES ASSUME errs \in Bad PROVE errs' \in Bad
    OBVIOUS
  <2>1. CASE \E w \in Writers : Write(w) \/ LockWrite(w) \/ RefuseWrite(w) \/ MergeWrite(w) \/ AckMerged(w)
    BY <2>1, Zenon DEF Write, LockWrite, RefuseWrite, MergeWrite, AckMerged
  <2>2. CASE Holder
    BY <2>2, Zenon DEF Holder, Flush, NewMem, NewMemFails, WaitFails, WriteJournal, PutMem, UnlockWrite,
       OpenTransaction, WriteTables, CommitTables, SetDone
  <2>3. CASE \E r \in Stores : MemCompaction(r)
    BY <2>3, Zenon DEF MemCompaction, ReceiveMem, StartMem, PauseTables, FlushMem, CommitMem, ResumeTables,
       AckMem, Attempt, CompPerErr
  <2>4. CASE \E r \in Stores : TableCompaction(r)
    BY <2>4, Zenon DEF TableCompaction, ReceiveTable, AutoTable, BuildTables, CommitCompaction, Attempt,
       CompPerErr
  <2>5. CASE \/ LockForError \/ ExitError \/ SetReadOnly \/ CallSetReadOnly \/ Close \/ Closing
    BY <2>5, Zenon DEF LockForError, ExitError, SetReadOnly, CallSetReadOnly, Close, Closing, DiscardOpen,
       LockForClose, FinishClose, CompPerErr
  <2> QED
    BY <2>1, <2>2, <2>3, <2>4, <2>5 DEF Next, Steps, Select
<1>5. ASSUME mcomp'[s] = mcomp[s], tcomp'[s] = tcomp[s] PROVE Keeps(s)'
  BY <1>2, <1>4, <1>5
<1>6. ASSUME mcomp'[s].pc \notin {"flush", "commit", "resume"}, ~mcomp'[s].paused PROVE Keeps(s)'
  BY <1>6
<1>7. ASSUME NEW r \in Stores \ {s}, \/ MemCompaction(r) \/ TableCompaction(r) PROVE Keeps(s)'
  <2>1. mcomp'[s] = mcomp[s] /\ tcomp'[s] = tcomp[s]
    BY <1>1, <1>7, Zenon DEF MemCompaction, TableCompaction, ReceiveMem, StartMem, PauseTables, FlushMem,
       CommitMem, ResumeTables, AckMem, ReceiveTable, AutoTable, BuildTables, CommitCompaction, Attempt
  <2> QED
    BY <1>5, <2>1
<1>8. ASSUME UNCHANGED <<mcomp, tcomp>> PROVE Keeps(s)'
  BY <1>5, <1>8
<1>9. CASE NewMem
  <2>1. tcomp' = tcomp /\ hold.pc = "new" /\ (mcomp' = mcomp \/ TriggerMem(HoldStore))
    BY <1>9 DEF NewMem
  <2>2. HoldStore \in Stores
    BY <2>1, HolderIsWriter DEF HoldStore
  <2>3. mcomp'[s] = mcomp[s] \/ (mcomp'[s].pc = "run" /\ mcomp'[s].paused = mcomp[s].paused /\ mcomp[s].pc = "idle")
    <3>1. mcomp' = mcomp \/ (mcomp[HoldStore].pc = "idle" /\ mcomp' = [mcomp EXCEPT ![HoldStore].pc = "run"])
      BY <2>1 DEF TriggerMem
    <3> QED
      BY <1>1, <2>2, <3>1, MemMoves DEF MemSteps
  <2> QED
    BY <1>2, <1>5, <1>6, <2>1, <2>3
<1>10. CASE WaitFails
  <2>1. mcomp' = [mcomp EXCEPT ![HoldStore].ack = FALSE] /\ tcomp' = [tcomp EXCEPT ![HoldStore].ack = FALSE]
    BY <1>10 DEF WaitFails
  <2>2. mcomp'[s].pc = mcomp[s].pc /\ mcomp'[s].paused = mcomp[s].paused /\ tcomp'[s].pc = tcomp[s].pc
    BY <1>1, <2>1 DEF MemComp, TableComp
  <2> QED
    BY <1>2, <1>4, <2>2
<1>11. CASE ReceiveMem(s)
  <2>1. mcomp' = [mcomp EXCEPT ![s] = MemLoop("run", TRUE)]
    BY <1>11 DEF ReceiveMem
  <2>2. mcomp'[s].pc = "run" /\ ~mcomp'[s].paused
    BY <1>1, <2>1, MemRestarts, Zenon DEF MemSteps
  <2> QED
    BY <1>6, <2>2
<1>12. CASE StartMem(s)
  <2> DEFINE p == IF frozen[s] = "full" THEN "pausing" ELSE "ack"
  <2>1. mcomp[s].pc = "run" /\ mcomp' = [mcomp EXCEPT ![s].pc = p]
    BY <1>12 DEF StartMem
  <2>2. p \in {"pausing", "ack"} /\ p \in MemSteps
    BY DEF MemSteps
  <2>3. mcomp'[s].pc = p /\ mcomp'[s].paused = mcomp[s].paused
    BY <1>1, <2>1, <2>2, MemMoves
  <2> QED
    BY <1>2, <1>6, <2>1, <2>2, <2>3
<1>13. CASE PauseTables(s)
  <2>1. mcomp[s].pc = "pausing"
    BY <1>13 DEF PauseTables
  <2>2. CASE /\ tcomp[s].pc \in {"top", "compact"}
             /\ tcomp' = [tcomp EXCEPT ![s].pc = IF @ = "top" THEN "paused" ELSE "suspended"]
             /\ mcomp' = [mcomp EXCEPT ![s].pc = "flush", ![s].paused = TRUE]
    <3>1. mcomp'[s].pc = "flush" /\ mcomp'[s].paused
      BY <1>1, <2>2, PauseMoves, Zenon DEF MemSteps
    <3>2. \E p \in {"paused", "suspended"} : tcomp' = [tcomp EXCEPT ![s].pc = p]
      BY <2>2, Zenon
    <3>3. tcomp'[s].pc \in {"paused", "suspended"}
      BY <1>1, <3>2, TableMoves DEF TableSteps
    <3> QED
      BY <3>1, <3>3
  <2>3. CASE s = "regular" /\ CompPerErr /\ mcomp' = [mcomp EXCEPT ![s].pc = "flush"]
    <3>1. mcomp'[s].pc = "flush" /\ mcomp'[s].paused = mcomp[s].paused
      BY <1>1, <2>3, MemMoves, Zenon DEF MemSteps
    <3>2. ~mcomp[s].paused /\ errs' \in Bad
      BY <1>2, <1>4, <2>1, <2>3 DEF CompPerErr
    <3> QED
      BY <2>3, <3>1, <3>2
  <2> QED
    BY <1>13, <2>2, <2>3 DEF PauseTables
<1>14. CASE FlushMem(s) \/ CommitMem(s)
  <2>1. /\ tcomp' = tcomp /\ mcomp[s].pc \in {"flush", "commit"}
        /\ \/ mcomp' = mcomp
           \/ \E p \in {"commit", "resume"} : mcomp' = [mcomp EXCEPT ![s].pc = p]
           \/ mcomp' = [mcomp EXCEPT ![s] = MemLoop("gone", FALSE)]
    BY <1>14, Zenon DEF FlushMem, CommitMem, Attempt
  <2>2. CASE mcomp' = mcomp
    BY <1>5, <2>1, <2>2
  <2>3. CASE \E p \in {"commit", "resume"} : mcomp' = [mcomp EXCEPT ![s].pc = p]
    <3>1. mcomp'[s].pc \in {"commit", "resume"} /\ mcomp'[s].paused = mcomp[s].paused
      BY <1>1, <2>3, MemMoves, Zenon DEF MemSteps
    <3> QED
      BY <1>2, <1>4, <2>1, <3>1
  <2>4. CASE mcomp' = [mcomp EXCEPT ![s] = MemLoop("gone", FALSE)]
    <3>1. mcomp'[s].pc = "gone" /\ ~mcomp'[s].paused
      BY <1>1, <2>4, MemRestarts, Zenon DEF MemSteps
    <3> QED
      BY <1>6, <3>1
  <2> QED
    BY <2>1, <2>2, <2>3, <2>4, Zenon
<1>15. CASE ResumeTables(s)
  <2>1. mcomp' = [mcomp EXCEPT ![s].pc = "ack", ![s].paused = FALSE]
    BY <1>15 DEF ResumeTables
  <2>2. mcomp'[s].pc = "ack" /\ ~mcomp'[s].paused
    BY <1>1, <2>1, PauseMoves, Zenon DEF MemSteps
  <2> QED
    BY <1>6, <2>2
<1>16. CASE AckMem(s)
  <2>1. mcomp' = [mcomp EXCEPT ![s] = MemLoop("idle", FALSE)]
    BY <1>16 DEF AckMem
  <2>2. mcomp'[s].pc = "idle" /\ ~mcomp'[s].paused
    BY <1>1, <2>1, MemRestarts, Zenon DEF MemSteps
  <2> QED
    BY <1>6, <2>2
<1>17. CASE TableCompaction(s)
  <2>1. mcomp' = mcomp /\ tcomp[s].pc \in {"top", "compact", "commit"}
    BY <1>17, Zenon DEF TableCompaction, ReceiveTable, AutoTable, BuildTables, CommitCompaction
  <2> QED
    BY <1>2, <1>4, <2>1
<1>18. CASE FinishClose
  <2>1. mcomp'[s].pc = "gone" /\ ~mcomp'[s].paused
    BY <1>18 DEF FinishClose, MemLoop
  <2> QED
    BY <1>6, <2>1
<1>19. CASE \/ \E w \in Writers : Write(w) \/ LockWrite(w) \/ RefuseWrite(w) \/ MergeWrite(w) \/ AckMerged(w)
            \/ Flush \/ NewMemFails \/ WriteJournal \/ PutMem \/ UnlockWrite \/ OpenTransaction
            \/ WriteTables \/ CommitTables \/ SetDone
            \/ LockForError \/ ExitError \/ SetReadOnly \/ CallSetReadOnly \/ Close
            \/ DiscardOpen \/ LockForClose
  <2>1. UNCHANGED <<mcomp, tcomp>>
    BY <1>19, Zenon DEF Write, LockWrite, RefuseWrite, MergeWrite, AckMerged, Flush, NewMemFails,
       WriteJournal, PutMem, UnlockWrite, OpenTransaction, WriteTables, CommitTables, SetDone,
       LockForError, ExitError, SetReadOnly, CallSetReadOnly, Close, DiscardOpen, LockForClose
  <2> QED
    BY <1>8, <2>1
<1> QED
  <2> HIDE DEF Keeps
  <2>1. ASSUME NEW r \in Stores, MemCompaction(r) \/ TableCompaction(r) PROVE Keeps(s)'
    BY <1>7, <1>11, <1>12, <1>13, <1>14, <1>15, <1>16, <1>17, <2>1 DEF MemCompaction
  <2> QED
    BY <1>9, <1>10, <1>18, <1>19, <2>1 DEF Next, Steps, Select, Holder, Closing

-----------------------------------------------------------------------------
(* The writes that were acknowledged                                        *)

\* The holder is between putMem, or the commit of its tables, and its return.
Stored(h) == (h.pc \in {"unlock", "done"} /\ ~h.err) \/ h.for \in {"full", "committed"}

\* Every step counts a write as written when it reaches the buffer or the tables
\* and as acknowledged when its call returns nil.
LEMMA CountStep ==
  ASSUME IInv, Next
  PROVE  ExactlyOnce'
<1> USE LevelWriteAssumption
<1>1. /\ ExactlyOnce /\ HoldInv /\ LockInv /\ AckInv /\ hold \in Hold
      /\ written \in [Writers -> Nat] /\ acked \in [Writers -> Nat]
  BY DEF IInv, TypeOK
<1>2. Unacked = IF Stored(hold) THEN {lock} \cup hold.merged ELSE {}
  BY DEF Unacked, Stored
<1>3. Unacked' = IF Stored(hold') THEN {lock'} \cup hold'.merged ELSE {}
  BY DEF Unacked, Stored
<1>4. ASSUME UNCHANGED <<written, acked>>, Unacked' \cap Writers = Unacked \cap Writers PROVE ExactlyOnce'
  BY <1>1, <1>4 DEF ExactlyOnce
<1>5. ASSUME UNCHANGED <<written, acked, lock>>, hold'.merged = hold.merged, Stored(hold') = Stored(hold)
      PROVE  ExactlyOnce'
  BY <1>2, <1>3, <1>4, <1>5
<1>6. ASSUME UNCHANGED <<written, acked>>, ~Stored(hold), ~Stored(hold') PROVE ExactlyOnce'
  BY <1>2, <1>3, <1>4, <1>6
<1>7. ~Stored(NoHold)
  BY DEF Stored, NoHold
<1>8. ASSUME hold.pc = "none" PROVE ~Stored(hold)
  BY <1>1, <1>7, <1>8 DEF HoldInv
<1>9. (hold.pc # "none" => lock \in Writers) /\ (hold.pc = "none" \/ lock \notin {"free", "transaction"})
  BY HolderIsWriter, NotAWriter
<1>10. ASSUME NEW w \in Writers, NEW n \in Nat PROVE ~Stored(FirstStep(w, n))
  BY FirstStepFields DEF Stored
<1>11. CASE \E w \in Writers : Write(w) \/ RefuseWrite(w)
  BY <1>5, <1>11 DEF Write, RefuseWrite, countVars
<1>12. ASSUME NEW w \in Writers, LockWrite(w) PROVE ExactlyOnce'
  <2>1. lock = "free" /\ UNCHANGED <<written, acked>> /\ \E n \in Sizes[w] : hold' = FirstStep(w, n)
    BY <1>12 DEF LockWrite, countVars
  <2>2. Sizes[w] \subseteq Nat
    OBVIOUS
  <2>3. ~Stored(hold) /\ ~Stored(hold')
    BY <1>8, <1>9, <1>10, <2>1, <2>2
  <2> QED
    BY <1>6, <2>1, <2>3
<1>13. ASSUME NEW w \in Writers, MergeWrite(w) PROVE ExactlyOnce'
  <2>1. hold.pc = "merge" /\ UNCHANGED <<written, acked>>
    BY <1>13 DEF MergeWrite, countVars
  <2>2. hold'.pc = hold.pc /\ hold'.for = hold.for
    BY <1>1, <1>13, Zenon DEF MergeWrite, Hold
  <2>3. hold.for \in {"none", "flush"}
    BY <1>1, <2>1 DEF HoldInv, Path
  <2>4. ~Stored(hold) /\ ~Stored(hold')
    BY <2>1, <2>2, <2>3 DEF Stored
  <2> QED
    BY <1>6, <2>1, <2>4
<1>14. ASSUME NEW w \in Writers, AckMerged(w) PROVE ExactlyOnce'
  <2>1. /\ hold.pc = "unlock" /\ w \in hold.merged /\ lock' = lock /\ written' = written
        /\ hold' = [hold EXCEPT !.merged = @ \ {w}]
        /\ acked' = IF hold.err THEN acked ELSE [acked EXCEPT ![w] = @ + 1]
    BY <1>14 DEF AckMerged
  <2>2. hold'.pc = hold.pc /\ hold'.for = hold.for /\ hold'.err = hold.err /\ hold'.merged = hold.merged \ {w}
    BY <1>1, <2>1 DEF Hold
  <2>3. Stored(hold') = Stored(hold)
    BY <2>2 DEF Stored
  <2>4. lock # w
    BY <2>1, HolderIsWriter
  <2>5. CASE hold.err
    <3>1. ~Stored(hold)
      BY <1>1, <2>1, <2>5 DEF HoldInv, Stored
    <3> QED
      BY <1>6, <2>1, <2>3, <2>5, <3>1
  <2>6. CASE ~hold.err
    <3>1. Stored(hold) /\ Stored(hold')
      BY <2>1, <2>3, <2>6 DEF Stored
    <3>2. Unacked' = Unacked \ {w} /\ w \in Unacked
      BY <1>2, <1>3, <2>1, <2>2, <2>4, <3>1
    <3>3. \A v \in Writers : acked'[v] = IF v = w THEN acked[v] + 1 ELSE acked[v]
      BY <1>1, <2>1, <2>6
    <3> QED
      BY <1>1, <2>1, <3>2, <3>3 DEF ExactlyOnce
  <2> QED
    BY <2>5, <2>6
<1>15. CASE Flush
  <2>1. hold.pc = "flush" /\ UNCHANGED <<written, acked>>
    BY <1>15 DEF Flush, countVars
  <2>2. hold.for \in {"none", "flush"}
    BY <1>1, <2>1 DEF HoldInv, Path
  <2>3. hold'.pc \in {"merge", "tsend", "msend"} /\ hold'.for \in {"none", "flush"}
    BY <1>1, <1>15, <2>2 DEF Flush, Hold
  <2>4. ~Stored(hold) /\ ~Stored(hold')
    BY <2>1, <2>2, <2>3 DEF Stored
  <2> QED
    BY <1>6, <2>1, <2>4
<1>16. CASE NewMem
  <2>1. hold.pc = "new" /\ UNCHANGED <<written, acked, lock>>
    BY <1>16 DEF NewMem, countVars
  <2>2. hold.for \in {"flush", "full", "open"} /\ ~hold.err
    BY <1>1, <2>1 DEF HoldInv, Path
  <2>3. CASE hold.for = "full"
    <3>1. hold' = [hold EXCEPT !.pc = "unlock"]
      BY <1>16, <2>3 DEF NewMem
    <3>2. hold'.merged = hold.merged /\ hold'.for = hold.for
      BY <1>1, <3>1 DEF Hold
    <3>3. Stored(hold) /\ Stored(hold')
      BY <2>3, <3>2 DEF Stored
    <3> QED
      BY <1>5, <2>1, <3>2, <3>3
  <2>4. CASE hold.for # "full"
    <3>1. hold'.pc \in {"merge", "msend"} /\ hold'.for \in {"flush", "opening"}
      BY <1>1, <1>16, <2>4, Zenon DEF NewMem, Hold
    <3>2. ~Stored(hold) /\ ~Stored(hold')
      BY <2>1, <2>2, <2>4, <3>1 DEF Stored
    <3> QED
      BY <1>6, <2>1, <3>2
  <2> QED
    BY <2>3, <2>4
<1>17. ASSUME GiveUp, hold.pc \in {"tsend", "twait", "msend", "mwait", "new"}, UNCHANGED <<written, acked>>
       PROVE  ExactlyOnce'
  <2>1. ~hold.err
    BY <1>1, <1>17 DEF HoldInv
  <2>2. CASE hold.for = "flush"
    <3>1. hold' = [hold EXCEPT !.pc = "unlock", !.err = TRUE]
      BY <1>17, <2>2 DEF GiveUp
    <3>2. hold'.pc = "unlock" /\ hold'.err /\ hold'.for = "flush"
      BY <1>1, <2>2, <3>1 DEF Hold
    <3>3. ~Stored(hold) /\ ~Stored(hold')
      BY <1>17, <2>2, <3>2 DEF Stored
    <3> QED
      BY <1>6, <1>17, <3>3
  <2>3. CASE hold.for \in {"full", "committed"}
    <3>1. lock' = lock /\ \E p \in {"unlock", "done"} : hold' = [hold EXCEPT !.pc = p]
      BY <1>17, <2>3 DEF GiveUp
    <3>2. hold'.for = hold.for /\ hold'.merged = hold.merged
      BY <1>1, <3>1 DEF Hold
    <3>3. Stored(hold) /\ Stored(hold')
      BY <2>3, <3>2 DEF Stored
    <3> QED
      BY <1>5, <1>17, <3>1, <3>2, <3>3
  <2>4. CASE hold.for \in {"open", "opening", "opened"}
    <3>1. hold' = NoHold
      BY <1>17, <2>4 DEF GiveUp
    <3>2. ~Stored(hold)
      BY <1>17, <2>4 DEF Stored
    <3> QED
      BY <1>6, <1>7, <1>17, <3>1, <3>2
  <2> QED
    BY <1>17, <2>2, <2>3, <2>4 DEF GiveUp
<1>18. CASE NewMemFails \/ WaitFails
  BY <1>17, <1>18 DEF NewMemFails, WaitFails, countVars
<1>19. CASE WriteJournal
  <2>1. hold.pc = "merge" /\ UNCHANGED <<written, acked>> /\ hold' = [hold EXCEPT !.pc = "unlock", !.err = TRUE]
    BY <1>19 DEF WriteJournal, countVars
  <2>2. hold.for \in {"none", "flush"}
    BY <1>1, <2>1 DEF HoldInv, Path
  <2>3. hold'.pc = "unlock" /\ hold'.err /\ hold'.for = hold.for
    BY <1>1, <2>1 DEF Hold
  <2>4. ~Stored(hold) /\ ~Stored(hold')
    BY <2>1, <2>2, <2>3 DEF Stored
  <2> QED
    BY <1>6, <2>1, <2>4
<1>20. CASE PutMem
  <2>1. /\ hold.pc = "merge" /\ acked' = acked /\ lock' = lock
        /\ written' = [w \in Writers |-> IF w \in {lock} \cup hold.merged THEN written[w] + 1 ELSE written[w]]
        /\ \/ hold' = [hold EXCEPT !.pc = "msend", !.for = "full"]
           \/ hold' = [hold EXCEPT !.pc = "unlock"]
    BY <1>20 DEF PutMem
  <2>2. hold.for \in {"none", "flush"} /\ ~hold.err
    BY <1>1, <2>1 DEF HoldInv, Path
  <2>3. /\ hold'.merged = hold.merged /\ hold'.err = hold.err
        /\ hold'.pc = "unlock" \/ hold'.for = "full"
    BY <1>1, <2>1, Zenon DEF Hold
  <2>4. ~Stored(hold) /\ Stored(hold')
    BY <2>1, <2>2, <2>3 DEF Stored
  <2>5. Unacked = {} /\ Unacked' = {lock} \cup hold.merged
    BY <1>2, <1>3, <2>1, <2>3, <2>4
  <2> QED
    BY <1>1, <2>1, <2>5 DEF ExactlyOnce
<1>21. ASSUME acked' = acked, \A w \in Writers : written'[w] = IF w = lock THEN written[w] + 1 ELSE written[w],
              ~Stored(hold), hold'.merged = {}, Stored(hold'), lock' = lock
       PROVE  ExactlyOnce'
  <2>1. Unacked = {} /\ Unacked' = {lock}
    BY <1>2, <1>3, <1>21
  <2> QED
    BY <1>1, <1>21, <2>1 DEF ExactlyOnce
<1>22. ASSUME hold.pc \in {"unlock", "done"}, hold.merged = {}, written' = written, ~Stored(hold'),
              acked' = IF hold.err THEN acked ELSE [acked EXCEPT ![lock] = @ + 1]
       PROVE  ExactlyOnce'
  <2>1. CASE hold.err
    <3>1. ~Stored(hold)
      BY <1>1, <1>22, <2>1 DEF HoldInv, Stored
    <3> QED
      BY <1>6, <1>22, <2>1, <3>1
  <2>2. CASE ~hold.err
    <3>1. Stored(hold)
      BY <1>22, <2>2 DEF Stored
    <3>2. Unacked = {lock} /\ Unacked' = {} /\ lock \in Writers
      BY <1>2, <1>3, <1>9, <1>22, <3>1
    <3>3. \A w \in Writers : acked'[w] = IF w = lock THEN acked[w] + 1 ELSE acked[w]
      BY <1>1, <1>22, <2>2
    <3> QED
      BY <1>1, <1>22, <3>2, <3>3 DEF ExactlyOnce
  <2> QED
    BY <2>1, <2>2
<1>23. CASE UnlockWrite
  <2>1. /\ hold.pc = "unlock" /\ hold.merged = {} /\ written' = written
        /\ acked' = IF hold.err THEN acked ELSE [acked EXCEPT ![lock] = @ + 1]
        /\ hold' = NoHold \/ \E w \in hold.next : hold' = FirstStep(w, hold.nextSize)
    BY <1>23 DEF UnlockWrite
  <2>2. hold.next \subseteq Writers /\ hold.nextSize \in Nat
    BY <1>1 DEF Hold
  <2>3. ~Stored(hold')
    BY <1>7, <1>10, <2>1, <2>2
  <2> QED
    BY <1>22, <2>1, <2>3
<1>24. CASE SetDone
  <2>1. hold.pc = "done" /\ written' = written /\ acked' = [acked EXCEPT ![lock] = @ + 1] /\ hold' = NoHold
    BY <1>24 DEF SetDone
  <2>2. ~hold.err /\ hold.merged = {}
    BY <1>1, <2>1 DEF HoldInv, Path
  <2> QED
    BY <1>7, <1>22, <2>1, <2>2
<1>25. CASE OpenTransaction
  <2>1. hold.pc \in {"open", "room"} /\ UNCHANGED <<written, acked>>
    BY <1>25 DEF OpenTransaction, countVars
  <2>2. hold.for \in {"none", "opening", "opened"}
    BY <1>1, <2>1 DEF HoldInv, Path
  <2>3. hold'.pc \in {"msend", "room", "tsend", "tables"} /\ hold'.for \in {"none", "open", "opening", "opened"}
    BY <1>1, <1>25, <2>2, Zenon DEF OpenTransaction, Hold
  <2>4. ~Stored(hold) /\ ~Stored(hold')
    BY <2>1, <2>2, <2>3 DEF Stored
  <2> QED
    BY <1>6, <2>1, <2>4
<1>26. CASE WriteTables
  <2>1. hold.pc = "tables" /\ UNCHANGED <<written, acked>> /\ (hold' = NoHold \/ hold' = [hold EXCEPT !.pc = "commit"])
    BY <1>26 DEF WriteTables, countVars
  <2>2. hold.for \in {"none", "opening", "opened"}
    BY <1>1, <2>1 DEF HoldInv, Path
  <2>3. CASE hold' = [hold EXCEPT !.pc = "commit"]
    <3>1. hold'.pc = "commit" /\ hold'.for = hold.for
      BY <1>1, <2>3 DEF Hold
    <3>2. ~Stored(hold) /\ ~Stored(hold')
      BY <2>1, <2>2, <3>1 DEF Stored
    <3> QED
      BY <1>6, <2>1, <3>2
  <2>4. CASE hold' = NoHold
    <3>1. ~Stored(hold)
      BY <2>1, <2>2 DEF Stored
    <3> QED
      BY <1>6, <1>7, <2>1, <2>4, <3>1
  <2> QED
    BY <2>1, <2>3, <2>4
<1>27. CASE CommitTables
  <2>1. hold.pc = "commit" /\ acked' = acked
    BY <1>27 DEF CommitTables
  <2>2. hold.for \in {"none", "opening", "opened"} /\ ~hold.err /\ hold.merged = {}
    BY <1>1, <2>1 DEF HoldInv, Path
  <2>3. ~Stored(hold)
    BY <2>1, <2>2 DEF Stored
  <2>4. CASE hold' = NoHold /\ written' = written
    BY <1>6, <1>7, <2>1, <2>3, <2>4
  <2>5. CASE /\ written' = [written EXCEPT ![lock] = @ + 1] /\ lock' = lock
             /\ \/ hold' = [hold EXCEPT !.pc = "tsend", !.for = "committed"]
                \/ hold' = [hold EXCEPT !.pc = "done"]
    <3>1. hold'.merged = {} /\ (hold'.for = "committed" \/ (hold'.pc = "done" /\ hold'.err = hold.err))
      BY <1>1, <2>2, <2>5, Zenon DEF Hold
    <3>2. Stored(hold')
      BY <2>2, <3>1 DEF Stored
    <3>3. \A w \in Writers : written'[w] = IF w = lock THEN written[w] + 1 ELSE written[w]
      BY <1>1, <2>5
    <3> QED
      BY <1>21, <2>1, <2>3, <2>5, <3>1, <3>2, <3>3
  <2> QED
    BY <1>27, <2>4, <2>5 DEF CommitTables
<1>28. ASSUME NEW p \in HoldSteps \ {"unlock"}, hold.pc \in {"msend", "mwait", "tsend", "twait"},
              p = "done" => hold.for = "committed", hold' = [hold EXCEPT !.pc = p],
              UNCHANGED <<written, acked, lock>>
       PROVE  ExactlyOnce'
  <2>1. hold'.pc = p /\ hold'.for = hold.for /\ hold'.merged = hold.merged
    BY <1>1, <1>28 DEF Hold
  <2>2. Stored(hold') = Stored(hold)
    BY <1>28, <2>1 DEF Stored
  <2> QED
    BY <1>5, <1>28, <2>1, <2>2
<1>29. ASSUME hold' = AfterWait, hold.pc \in {"tsend", "twait", "mwait"}, UNCHANGED <<written, acked, lock>>
       PROVE  ExactlyOnce'
  <2>1. \E p \in HoldSteps \ {"unlock"} : hold' = [hold EXCEPT !.pc = p] /\ (p = "done" => hold.for = "committed")
    BY <1>1, <1>29, AfterWaitGoes
  <2> QED
    BY <1>28, <1>29, <2>1
<1>30. ASSUME hold' = hold, UNCHANGED <<written, acked, lock>> PROVE ExactlyOnce'
  BY <1>5, <1>30
<1>31. ASSUME NEW s \in Stores, ReceiveMem(s) PROVE ExactlyOnce'
  BY <1>28, <1>31 DEF ReceiveMem, countVars, HoldSteps
<1>32. ASSUME NEW s \in Stores, AckMem(s) PROVE ExactlyOnce'
  <2>1. UNCHANGED <<written, acked, lock>>
    BY <1>32 DEF AckMem, countVars
  <2>2. CASE mcomp[s].ack
    BY <1>1, <1>29, <1>32, <2>1, <2>2 DEF AckMem, AckInv
  <2>3. CASE ~mcomp[s].ack
    BY <1>30, <1>32, <2>1, <2>3 DEF AckMem
  <2> QED
    BY <2>2, <2>3
<1>33. ASSUME NEW s \in Stores, ReceiveTable(s) PROVE ExactlyOnce'
  <2>1. UNCHANGED <<written, acked, lock>> /\ hold.pc = "tsend"
        /\ (hold' = AfterWait \/ hold' = [hold EXCEPT !.pc = "twait"])
    BY <1>33 DEF ReceiveTable, countVars
  <2> QED
    BY <1>28, <1>29, <2>1 DEF HoldSteps
<1>34. ASSUME NEW s \in Stores, AutoTable(s) PROVE ExactlyOnce'
  <2>1. UNCHANGED <<written, acked, lock>>
    BY <1>34 DEF AutoTable, countVars
  <2>2. CASE tcomp[s].ack /\ hold' = AfterWait
    BY <1>1, <1>29, <2>1, <2>2 DEF AckInv
  <2>3. CASE hold' = hold
    BY <1>30, <2>1, <2>3
  <2> QED
    BY <1>34, <2>2, <2>3 DEF AutoTable
<1>35. ASSUME NEW s \in Stores, \/ StartMem(s) \/ PauseTables(s) \/ FlushMem(s) \/ CommitMem(s)
                                \/ ResumeTables(s) \/ BuildTables(s) \/ CommitCompaction(s)
       PROVE  ExactlyOnce'
  BY <1>30, <1>35, Zenon DEF StartMem, PauseTables, FlushMem, CommitMem, ResumeTables, BuildTables,
                      CommitCompaction, countVars, holdVars
<1>36. CASE SetReadOnly \/ Close \/ FinishClose
  BY <1>30, <1>36, Zenon DEF SetReadOnly, Close, FinishClose, countVars, holdVars
<1>37. CASE LockForError \/ CallSetReadOnly \/ LockForClose
  BY <1>6, <1>8, <1>9, <1>37 DEF LockForError, CallSetReadOnly, LockForClose, countVars
<1>38. CASE ExitError
  <2>1. UNCHANGED <<written, acked, hold>> /\ (lock' = lock \/ lock \in {"error", "readonly"})
    BY <1>38 DEF ExitError, countVars
  <2> QED
    BY <1>6, <1>8, <1>9, <1>30, <2>1, NotAWriter
<1>39. CASE DiscardOpen
  <2>1. UNCHANGED <<written, acked>>
        /\ (\/ hold' = hold /\ lock = "transaction"
            \/ hold' = NoHold /\ hold.pc \in {"tables", "commit"}
            \/ hold' = hold /\ lock' = lock)
    BY <1>39 DEF DiscardOpen, countVars, holdVars
  <2>2. hold.pc \in {"tables", "commit"} => ~Stored(hold)
    BY <1>1 DEF HoldInv, Path, Stored
  <2> QED
    BY <1>6, <1>7, <1>8, <1>9, <1>30, <2>1, <2>2
<1> QED
  BY <1>11, <1>12, <1>13, <1>14, <1>15, <1>16, <1>18, <1>19, <1>20, <1>23, <1>24, <1>25, <1>26,
     <1>27, <1>31, <1>32, <1>33, <1>34, <1>35, <1>36, <1>37, <1>38, <1>39
     DEF Next, Steps, Select, Holder, MemCompaction, TableCompaction, Closing

-----------------------------------------------------------------------------
(* The types                                                                *)

\* Every step keeps the variables in their types.
LEMMA TypeStep ==
  ASSUME IInv, Next
  PROVE  TypeOK'
<1> USE LevelWriteAssumption
<1>1. /\ pc \in [Writers -> {"idle", "want", "hold", "merged", "handed"}]
      /\ lock \in Writers \cup {"free", "error", "readonly", "closer", "transaction", "lost"}
      /\ hold \in Hold
      /\ fill \in [Stores -> Nat]
      /\ frozen \in [Stores -> {"none", "empty", "full"}]
      /\ level0 \in [Stores -> Nat]
      /\ mcomp \in [Stores -> MemComp] /\ tcomp \in [Stores -> TableComp]
      /\ errs \in {"noerr", "haserr", "hasperr", "gone"}
      /\ readonly \in {"none", "locked", "done"}
      /\ close \in {"open", "closing", "discarded", "locked", "closed"}
      /\ stuck \in BOOLEAN
      /\ faults \in Nat
      /\ calls \in [Writers -> Nat] /\ written \in [Writers -> Nat] /\ acked \in [Writers -> Nat]
  BY DEF IInv, TypeOK, MemComp, TableComp
<1>2. hold' \in Hold
  BY HolderStep
<1>3. hold.pc # "none" => lock \in Writers /\ HoldStore \in Stores
  BY HolderIsWriter DEF HoldStore
<1>4. hold.merged \subseteq Writers /\ hold.next \subseteq Writers /\ hold.size \in Nat /\ hold.added \in Nat
  BY <1>1 DEF Hold
<1> DEFINE Calls == /\ pc' \in [Writers -> {"idle", "want", "hold", "merged", "handed"}]
                    /\ lock' \in Writers \cup {"free", "error", "readonly", "closer", "transaction", "lost"}
                    /\ calls' \in [Writers -> Nat] /\ written' \in [Writers -> Nat]
                    /\ acked' \in [Writers -> Nat]
           Data == /\ fill' \in [Stores -> Nat]
                   /\ frozen' \in [Stores -> {"none", "empty", "full"}]
                   /\ level0' \in [Stores -> Nat]
           Status == /\ errs' \in {"noerr", "haserr", "hasperr", "gone"}
                     /\ readonly' \in {"none", "locked", "done"}
                     /\ close' \in {"open", "closing", "discarded", "locked", "closed"}
                     /\ stuck' \in BOOLEAN
                     /\ faults' \in Nat
           Comps == mcomp' \in [Stores -> MemComp] /\ tcomp' \in [Stores -> TableComp]
<1>5. ASSUME Calls, Data, Status, Comps PROVE TypeOK'
  BY <1>2, <1>5 DEF TypeOK, MemComp, TableComp
<1>6. ASSUME NEW w \in Writers, \/ Write(w) \/ LockWrite(w) \/ RefuseWrite(w) \/ MergeWrite(w) \/ AckMerged(w)
      PROVE  TypeOK'
  <2>1. UNCHANGED <<dataVars, mcomp, tcomp, errs, readonly, close, stuck, faults>>
    BY <1>6, Zenon DEF Write, LockWrite, RefuseWrite, MergeWrite, AckMerged
  <2>2. Calls
    <3>1. \/ pc' = [pc EXCEPT ![w] = "want"] \/ pc' = [pc EXCEPT ![w] = "hold"]
          \/ pc' = [pc EXCEPT ![w] = "idle"] \/ pc' = [pc EXCEPT ![w] = "merged"]
          \/ pc' = [pc EXCEPT ![w] = "handed"]
      BY <1>6, Zenon DEF Write, LockWrite, RefuseWrite, MergeWrite, AckMerged
    <3>2. lock' \in {lock, w} /\ written' = written
          /\ (calls' = calls \/ calls' = [calls EXCEPT ![w] = @ + 1])
          /\ (acked' = acked \/ acked' = [acked EXCEPT ![w] = @ + 1])
      BY <1>6, Zenon DEF Write, LockWrite, RefuseWrite, MergeWrite, AckMerged, countVars
    <3> QED
      BY <1>1, <3>1, <3>2
  <2> QED
    BY <1>1, <1>5, <2>1, <2>2 DEF dataVars
<1>7. ASSUME UNCHANGED <<pc, lock, countVars>> PROVE Calls
  BY <1>1, <1>7 DEF countVars
<1>8. ASSUME pc' = [pc EXCEPT ![lock] = "idle"], lock' \in {"free", "lost", "transaction"}, lock \in Writers,
             calls' = calls, written' = written, acked' = acked
      PROVE  Calls
  BY <1>1, <1>8
<1>9. ASSUME UNCHANGED <<errs, readonly, close, stuck>>, faults' \in {faults, faults + 1} PROVE Status
  BY <1>1, <1>9
<1>10. ASSUME UNCHANGED dataVars PROVE Data
  BY <1>1, <1>10 DEF dataVars
<1>11. ASSUME UNCHANGED <<mcomp, tcomp>> PROVE Comps
  BY <1>1, <1>11
<1>12. CASE Flush \/ OpenTransaction \/ WriteJournal
  <2>1. /\ UNCHANGED <<pc, lock, dataVars, mcomp, tcomp, errs, readonly, close, stuck, countVars>>
        /\ faults' \in {faults, faults + 1}
    BY <1>12 DEF Flush, OpenTransaction, WriteJournal
  <2> QED
    BY <1>5, <1>7, <1>9, <1>10, <1>11, <2>1
<1>13. CASE NewMem
  <2>1. /\ UNCHANGED <<pc, lock, level0, tcomp, errs, readonly, close, stuck, faults, countVars>>
        /\ hold.pc = "new"
        /\ frozen' = [frozen EXCEPT ![HoldStore] = IF fill[HoldStore] = 0 THEN "empty" ELSE "full"]
        /\ fill' = [fill EXCEPT ![HoldStore] = 0]
        /\ mcomp' = mcomp \/ mcomp' = [mcomp EXCEPT ![HoldStore].pc = "run"]
    BY <1>13 DEF NewMem, TriggerMem
  <2>2. Data
    BY <1>1, <1>3, <2>1
  <2>3. Comps
    BY <1>1, <1>3, <2>1, MemMoves DEF MemSteps
  <2> QED
    BY <1>5, <1>7, <1>9, <2>1, <2>2, <2>3
<1>14. ASSUME GiveUp, hold.pc # "none", UNCHANGED countVars PROVE Calls
  <2>1. CASE UNCHANGED <<pc, lock>>
    BY <1>7, <1>14, <2>1
  <2>2. CASE pc' = [pc EXCEPT ![lock] = "idle"] /\ lock' = "lost"
    BY <1>3, <1>8, <1>14, <2>2 DEF countVars
  <2> QED
    BY <1>14, <2>1, <2>2 DEF GiveUp
<1>15. CASE NewMemFails
  BY <1>5, <1>9, <1>10, <1>11, <1>14, <1>15 DEF NewMemFails
<1>16. CASE WaitFails
  <2>1. /\ GiveUp /\ hold.pc # "none" /\ UNCHANGED <<dataVars, errs, readonly, close, stuck, faults, countVars>>
        /\ mcomp' = [mcomp EXCEPT ![HoldStore].ack = FALSE] /\ tcomp' = [tcomp EXCEPT ![HoldStore].ack = FALSE]
    BY <1>16 DEF WaitFails
  <2>2. Comps
    <3>1. mcomp[HoldStore] \in MemComp /\ tcomp[HoldStore] \in TableComp
      BY <1>1, <1>3, <2>1
    <3>2. [mcomp[HoldStore] EXCEPT !.ack = FALSE] \in MemComp
      BY <3>1, Zenon DEF MemComp
    <3>3. [tcomp[HoldStore] EXCEPT !.ack = FALSE] \in TableComp
      BY <3>1, Zenon DEF TableComp
    <3> QED
      BY <1>1, <2>1, <3>2, <3>3, Zenon
  <2> QED
    BY <1>5, <1>9, <1>10, <1>14, <2>1, <2>2
<1>17. CASE PutMem
  <2>1. /\ hold.pc = "merge"
        /\ UNCHANGED <<pc, lock, frozen, level0, mcomp, tcomp, errs, readonly, close, stuck, faults, calls, acked>>
        /\ written' = [w \in Writers |-> IF w \in {lock} \cup hold.merged THEN written[w] + 1 ELSE written[w]]
        /\ fill' = [fill EXCEPT ![HoldStore] = @ + hold.size + hold.added]
    BY <1>17 DEF PutMem
  <2>2. Calls
    BY <1>1, <2>1
  <2>3. Data
    <3>1. fill[HoldStore] \in Nat
      BY <1>1, <1>3, <2>1
    <3>2. fill[HoldStore] + hold.size + hold.added \in Nat
      BY <1>4, <3>1
    <3> QED
      BY <1>1, <2>1, <3>2, Zenon
  <2> QED
    BY <1>5, <1>9, <1>11, <2>1, <2>2, <2>3
<1>18. CASE UnlockWrite
  <2>1. /\ hold.pc = "unlock"
        /\ UNCHANGED <<dataVars, mcomp, tcomp, errs, readonly, close, stuck, faults, calls, written>>
        /\ acked' = acked \/ acked' = [acked EXCEPT ![lock] = @ + 1]
        /\ \/ pc' = [pc EXCEPT ![lock] = "idle"] /\ lock' = "free"
           \/ \E w \in hold.next : pc' = [pc EXCEPT ![lock] = "idle", ![w] = "hold"] /\ lock' = w
    BY <1>18, Zenon DEF UnlockWrite
  <2>2. lock \in Writers /\ lock' \in Writers \cup {"free"}
    BY <1>3, <1>4, <2>1
  <2>3. pc' \in [Writers -> {"idle", "want", "hold", "merged", "handed"}]
    BY <1>1, <1>4, <2>1
  <2>4. acked' \in [Writers -> Nat]
    BY <1>1, <2>1
  <2>5. Calls
    BY <1>1, <2>1, <2>2, <2>3, <2>4
  <2> QED
    BY <1>5, <1>9, <1>10, <1>11, <2>1, <2>5
<1>19. CASE WriteTables
  <2>1. /\ hold.pc = "tables" /\ UNCHANGED <<dataVars, mcomp, tcomp, errs, readonly, close, stuck, countVars>>
        /\ faults' \in {faults, faults + 1}
        /\ UNCHANGED <<pc, lock>> \/ (pc' = [pc EXCEPT ![lock] = "idle"] /\ lock' = "free")
    BY <1>19 DEF WriteTables
  <2>2. Calls
    BY <1>3, <1>7, <1>8, <2>1 DEF countVars
  <2> QED
    BY <1>5, <1>9, <1>10, <1>11, <2>1, <2>2
<1>20. CASE CommitTables
  <2>1. /\ hold.pc = "commit" /\ UNCHANGED <<fill, frozen, mcomp, tcomp, errs, readonly, close, calls, acked>>
        /\ written' = written \/ written' = [written EXCEPT ![lock] = @ + 1]
        /\ level0' = level0 \/ level0' = [level0 EXCEPT !["regular"] = @ + 1]
        /\ UNCHANGED <<pc, lock>> \/ (pc' = [pc EXCEPT ![lock] = "idle"] /\ lock' = "transaction")
        /\ faults' \in {faults, faults + 1} /\ stuck' \in {stuck, TRUE}
    BY <1>20, Zenon DEF CommitTables
  <2>2. Calls
    BY <1>1, <1>3, <2>1
  <2>3. Data
    BY <1>1, <2>1 DEF Stores
  <2>4. Status
    <3>1. stuck' \in BOOLEAN
      BY <1>1, <2>1, Zenon
    <3> QED
      BY <1>1, <2>1, <3>1
  <2> QED
    BY <1>5, <1>11, <2>1, <2>2, <2>3, <2>4
<1>21. CASE SetDone
  <2>1. /\ hold.pc = "done" /\ UNCHANGED <<dataVars, mcomp, tcomp, errs, readonly, close, stuck, faults, calls, written>>
        /\ acked' = [acked EXCEPT ![lock] = @ + 1]
        /\ pc' = [pc EXCEPT ![lock] = "idle"] /\ lock' = "free"
    BY <1>21 DEF SetDone
  <2>2. Calls
    BY <1>1, <1>3, <2>1
  <2> QED
    BY <1>5, <1>9, <1>10, <1>11, <2>1, <2>2
<1>22. ASSUME NEW s \in Stores, ReceiveMem(s) \/ AckMem(s) PROVE TypeOK'
  <2>1. /\ UNCHANGED <<pc, lock, dataVars, tcomp, errs, readonly, close, stuck, faults, countVars>>
        /\ \E p \in MemSteps, b \in BOOLEAN : mcomp' = [mcomp EXCEPT ![s] = MemLoop(p, b)]
    BY <1>22, Zenon DEF ReceiveMem, AckMem, MemSteps
  <2>2. Comps
    BY <1>1, <2>1, MemRestarts, Zenon
  <2> QED
    BY <1>5, <1>7, <1>9, <1>10, <2>1, <2>2
<1>23. ASSUME NEW s \in Stores, StartMem(s) PROVE TypeOK'
  <2>1. /\ UNCHANGED <<holdVars, fill, level0, tcomp, errs, readonly, close, stuck, faults, countVars>>
        /\ frozen' = IF frozen[s] = "empty" THEN [frozen EXCEPT ![s] = "none"] ELSE frozen
        /\ \E p \in MemSteps : mcomp' = [mcomp EXCEPT ![s].pc = p]
    BY <1>23, Zenon DEF StartMem, MemSteps
  <2>2. Data
    BY <1>1, <2>1
  <2>3. Comps
    BY <1>1, <2>1, MemMoves, Zenon
  <2> QED
    BY <1>5, <1>7, <1>9, <2>1, <2>2, <2>3 DEF holdVars
<1>24. ASSUME NEW s \in Stores, PauseTables(s) \/ ResumeTables(s) PROVE TypeOK'
  <2>1. /\ UNCHANGED <<holdVars, dataVars, errs, readonly, close, stuck, faults, countVars>>
        /\ \/ \E p \in MemSteps : mcomp' = [mcomp EXCEPT ![s].pc = p]
           \/ \E p \in MemSteps, b \in BOOLEAN : mcomp' = [mcomp EXCEPT ![s].pc = p, ![s].paused = b]
    BY <1>24 DEF PauseTables, ResumeTables, MemSteps
  <2>2. tcomp' = tcomp \/ \E p \in TableSteps : tcomp' = [tcomp EXCEPT ![s].pc = p]
    BY <1>24 DEF PauseTables, ResumeTables, TableSteps
  <2>3. mcomp' \in [Stores -> MemComp]
    BY <1>1, <2>1, MemMoves, PauseMoves, Zenon
  <2>4. tcomp' \in [Stores -> TableComp]
    BY <1>1, <2>2, TableMoves
  <2> QED
    BY <1>5, <1>7, <1>9, <1>10, <2>1, <2>3, <2>4 DEF holdVars
<1>25. ASSUME NEW s \in Stores, FlushMem(s) \/ CommitMem(s) PROVE TypeOK'
  <2>1. UNCHANGED <<holdVars, fill, tcomp, readonly, close, stuck, countVars>>
    BY <1>25, Zenon DEF FlushMem, CommitMem, dataVars
  <2>2. /\ errs' \in {errs, "noerr", "haserr", "hasperr"} /\ faults' \in {faults, faults + 1}
        /\ level0' \in {level0, [level0 EXCEPT ![s] = @ + 1]}
        /\ frozen' \in {frozen, [frozen EXCEPT ![s] = "none"]}
        /\ \/ mcomp' = mcomp \/ mcomp' = [mcomp EXCEPT ![s].pc = "commit"]
           \/ mcomp' = [mcomp EXCEPT ![s].pc = "resume"]
           \/ mcomp' = [mcomp EXCEPT ![s] = MemLoop("gone", FALSE)]
    <3>1. CASE FlushMem(s)
      BY <3>1, Zenon DEF FlushMem, Attempt, dataVars
    <3>2. CASE CommitMem(s)
      BY <3>2, Zenon DEF CommitMem, Attempt
    <3> QED
      BY <1>25, <3>1, <3>2, Zenon
  <2>3. Data
    BY <1>1, <2>1, <2>2
  <2>4. Comps
    BY <1>1, <2>1, <2>2, MemMoves, MemRestarts, Zenon DEF MemSteps
  <2>5. Status
    BY <1>1, <2>1, <2>2
  <2> QED
    BY <1>5, <1>7, <2>1, <2>3, <2>4, <2>5 DEF holdVars
<1>26. ASSUME NEW s \in Stores, ReceiveTable(s) \/ AutoTable(s) PROVE TypeOK'
  <2>1. UNCHANGED <<pc, lock, dataVars, mcomp, errs, readonly, close, stuck, faults, countVars>>
    BY <1>26 DEF ReceiveTable, AutoTable
  <2>2. \E p \in TableSteps, b \in BOOLEAN : tcomp' = [tcomp EXCEPT ![s] = [pc |-> p, ack |-> b]]
    <3> DEFINE p == IF needCompaction(s) THEN "compact" ELSE "top"
               wake == tcomp[s].ack /\ (resumeWrite(s) \/ ~needCompaction(s))
    <3>1. p \in TableSteps /\ (~resumeWrite(s)) \in BOOLEAN /\ (tcomp[s].ack /\ ~wake) \in BOOLEAN
      BY DEF TableSteps
    <3>2. \/ tcomp' = [tcomp EXCEPT ![s] = [pc |-> p, ack |-> ~resumeWrite(s)]]
          \/ tcomp' = [tcomp EXCEPT ![s] = [pc |-> p, ack |-> tcomp[s].ack /\ ~wake]]
      BY <1>26 DEF ReceiveTable, AutoTable
    <3> HIDE DEF p, wake
    <3> QED
      BY <3>1, <3>2, Zenon
  <2>3. Comps
    BY <1>1, <2>1, <2>2, TableRestarts, Zenon
  <2> QED
    BY <1>5, <1>7, <1>9, <1>10, <2>1, <2>3
<1>27. ASSUME NEW s \in Stores, BuildTables(s) \/ CommitCompaction(s) PROVE TypeOK'
  <2>1. UNCHANGED <<holdVars, fill, frozen, mcomp, readonly, close, stuck, countVars>>
    BY <1>27, Zenon DEF BuildTables, CommitCompaction, dataVars
  <2>2. /\ errs' \in {errs, "noerr", "haserr", "hasperr"} /\ faults' \in {faults, faults + 1}
        /\ level0' = level0 \/ \E n \in 1..level0[s] : level0' = [level0 EXCEPT ![s] = @ - n]
        /\ \/ tcomp' = tcomp \/ tcomp' = [tcomp EXCEPT ![s].pc = "commit"]
           \/ tcomp' = [tcomp EXCEPT ![s].pc = "top"]
           \/ tcomp' = [tcomp EXCEPT ![s] = [pc |-> "gone", ack |-> FALSE]]
    <3>1. CASE BuildTables(s)
      BY <3>1 DEF BuildTables, Attempt, dataVars
    <3>2. CASE CommitCompaction(s)
      BY <3>2 DEF CommitCompaction, Attempt
    <3> QED
      BY <1>27, <3>1, <3>2
  <2>3. Data
    BY <1>1, <2>1, <2>2
  <2>4. Comps
    BY <1>1, <2>1, <2>2, TableMoves, TableRestarts, Zenon DEF TableSteps
  <2>5. Status
    BY <1>1, <2>1, <2>2
  <2> QED
    BY <1>5, <1>7, <2>1, <2>3, <2>4, <2>5 DEF holdVars
<1>28. CASE LockForError \/ ExitError \/ CallSetReadOnly \/ LockForClose \/ SetReadOnly \/ Close
  <2>1. UNCHANGED <<pc, dataVars, mcomp, tcomp, stuck, faults, countVars>>
    BY <1>28 DEF LockForError, ExitError, CallSetReadOnly, LockForClose, SetReadOnly, Close, holdVars
  <2>2. lock' \in {lock, "free", "error", "readonly", "closer"}
    BY <1>28 DEF LockForError, ExitError, CallSetReadOnly, LockForClose, SetReadOnly, Close, holdVars
  <2>3. /\ errs' \in {errs, "gone", "hasperr"} /\ readonly' \in {readonly, "locked", "done"}
        /\ close' \in {close, "closing", "locked"}
    BY <1>28 DEF LockForError, ExitError, CallSetReadOnly, LockForClose, SetReadOnly, Close
  <2>4. Calls
    BY <1>1, <2>1, <2>2 DEF countVars
  <2>5. Status
    BY <1>1, <2>1, <2>3
  <2> QED
    BY <1>5, <1>10, <1>11, <2>1, <2>4, <2>5
<1>29. CASE DiscardOpen
  <2>1. /\ UNCHANGED <<dataVars, mcomp, tcomp, errs, readonly, stuck, faults, countVars>>
        /\ close' = "discarded"
        /\ \/ UNCHANGED <<pc, lock>> \/ (UNCHANGED pc /\ lock' = "free")
           \/ hold.pc # "none" /\ pc' = [pc EXCEPT ![lock] = "idle"] /\ lock' = "free"
    BY <1>29 DEF DiscardOpen, holdVars
  <2>2. Calls
    BY <1>1, <1>3, <2>1 DEF countVars
  <2>3. Status
    BY <1>1, <2>1
  <2> QED
    BY <1>5, <1>10, <1>11, <2>1, <2>2, <2>3
<1>30. CASE FinishClose
  <2>1. UNCHANGED <<holdVars, dataVars, errs, readonly, stuck, faults, countVars>> /\ close' = "closed"
    BY <1>30 DEF FinishClose
  <2>2. Comps
    BY <1>30 DEF FinishClose, MemLoop, MemComp, TableComp, MemSteps, TableSteps
  <2>3. Status
    BY <1>1, <2>1
  <2> QED
    BY <1>5, <1>7, <1>10, <2>1, <2>2, <2>3 DEF holdVars
<1> QED
  <2> HIDE DEF Calls, Data, Status, Comps
  <2> QED
    BY <1>6, <1>12, <1>13, <1>15, <1>16, <1>17, <1>18, <1>19, <1>20, <1>21, <1>22, <1>23, <1>24,
       <1>25, <1>26, <1>27, <1>28, <1>29, <1>30
       DEF Next, Steps, Select, Holder, MemCompaction, TableCompaction, Closing

-----------------------------------------------------------------------------
(* The theorems                                                             *)

\* The inductive invariant holds when the DB was opened.
LEMMA Initially ==
  ASSUME Init
  PROVE  IInv
<1> USE LevelWriteAssumption DEF Init
<1>1. NoHold \in Hold
  BY DEF NoHold, Hold, HoldSteps, HoldFor
<1>2. \A s \in Stores : mcomp[s] = MemLoop("idle", FALSE) /\ tcomp[s] = [pc |-> "top", ack |-> FALSE]
  OBVIOUS
<1>3. TypeOK
  BY <1>1, Zenon DEF TypeOK, MemLoop, MemSteps, TableSteps
<1>4. HoldInv
  BY DEF HoldInv, Path, NoHold
<1>5. LockInv
  BY NotAWriter DEF LockInv, NoHold
<1>6. AckInv
  BY <1>2 DEF AckInv, MemLoop
<1>7. RoomInv
  BY <1>2 DEF RoomInv, MemLoop, NoHold
<1>8. PauseInv
  BY <1>2 DEF PauseInv, MemLoop
<1>9. ExactlyOnce
  <2>1. Unacked = {}
    BY DEF Unacked, NoHold
  <2>2. \A w \in Writers : written[w] = 0 /\ acked[w] = 0
    OBVIOUS
  <2> QED
    <3> SUFFICES ASSUME NEW w \in Writers
                 PROVE  written[w] = acked[w] + (IF w \in Unacked THEN 1 ELSE 0)
      BY Zenon DEF ExactlyOnce
    <3> QED
      BY <2>1, <2>2
<1> QED
  BY <1>3, <1>4, <1>5, <1>6, <1>7, <1>8, <1>9 DEF IInv

\* Every step preserves it.
LEMMA Inductive ==
  IInv /\ [Next]_vars => IInv'
<1> SUFFICES ASSUME IInv, [Next]_vars PROVE IInv'
  OBVIOUS
<1>1. CASE Next
  BY <1>1, HolderStep, AckStep, RoomStep, PauseStep, CountStep, TypeStep DEF IInv
<1>2. CASE UNCHANGED vars
  <2>1. TypeOK'
    BY <1>2 DEF vars, IInv, TypeOK
  <2>2. HoldInv' /\ LockInv'
    BY <1>2 DEF vars, IInv, HoldInv, LockInv
  <2>3. AckInv' /\ RoomInv' /\ PauseInv'
    BY <1>2 DEF vars, IInv, AckInv, RoomInv, PauseInv, HoldStore
  <2>4. ExactlyOnce'
    BY <1>2 DEF vars, IInv, ExactlyOnce, Unacked
  <2> QED
    BY <2>1, <2>2, <2>3, <2>4 DEF IInv
<1> QED
  BY <1>1, <1>2

\* The inductive invariant holds in every reachable state of the write path.
THEOREM Invariance == Spec => []IInv
  BY Initially, Inductive, PTL DEF Spec

\* Type correctness of the write path: in particular the room left for merging
\* (mergeLimit) and the number of level-0 tables never become negative.
THEOREM WriteTypes == Spec => []TypeOK
<1>1. IInv => TypeOK
  BY DEF IInv
<1> QED
  BY <1>1, Invariance, PTL

\* writeLockC: one writer at a time runs under the lock, the token is its own,
\* also after a handover, and the writers that wait for an answer are exactly
\* those the holder will answer, for any number of writers.
THEOREM TheLockIsOwned == Spec => []LockOwned
<1>1. ASSUME IInv PROVE LockOwned
  <2>1. LockInv /\ hold.merged \subseteq Writers /\ hold.next \subseteq Writers
    BY <1>1 DEF IInv, TypeOK, Hold
  <2>2. {w \in Writers : pc[w] = "merged"} = hold.merged /\ {w \in Writers : pc[w] = "handed"} = hold.next
    BY <2>1 DEF LockInv
  <2> QED
    BY <2>1, <2>2 DEF LockInv, LockOwned
<1> QED
  BY <1>1, Invariance, PTL

\* writeLocked and unlockWrite: a write returns nil exactly if it reached the
\* journal and the buffer once, whether it took the lock, was merged, or was
\* refused and got the lock handed over.
THEOREM WritesAckedExactlyOnce == Spec => []ExactlyOnce
<1>1. IInv => ExactlyOnce
  BY DEF IInv
<1> QED
  BY <1>1, Invariance, PTL

\* newMem never finds a buffer that is still frozen: its panic is unreachable.
THEOREM RotationAlwaysFindsRoom == Spec => []RotationFindsRoom
<1>1. IInv => RotationFindsRoom
  BY DEF IInv, RoomInv, RotationFindsRoom
<1> QED
  BY <1>1, Invariance, PTL

\* memCompaction: while a frozen buffer is flushed and committed, the table
\* compaction of its store is paused, unless a permanent error let the regular
\* store go on without the pause.
THEOREM PauseExcludesTables == Spec => []CompactionsExclude
<1>1. IInv => CompactionsExclude
  BY DEF IInv, PauseInv, CompactionsExclude
<1> QED
  BY <1>1, Invariance, PTL

=============================================================================
