----------------------------- MODULE TransactionDb -----------------------------
(***************************************************************************)
(* The transactional core of autorocks: the calls of `Transaction` and the *)
(* write calls of `TransactionDb` (put, delete, write), together with what *)
(* they run inside RocksDB: PessimisticTransaction / WriteCommittedTxn,    *)
(* the exclusive point locks they take, and the committed versions their   *)
(* commits add.                                                            *)
(*                                                                         *)
(* Every transaction object is driven by one thread at a time (its calls   *)
(* take `&mut self`), different objects by different threads.  A call is   *)
(* split into the steps between which another thread can act on shared     *)
(* state: the lock table, the committed versions, and the state word of a  *)
(* transaction, which a thief of expired locks changes by compare-exchange. *)
(*                                                                         *)
(* A "key" stands for a (column family, user key) pair; keys are numbers   *)
(* because LockBatch takes them in sorted order.  A put and a delete take  *)
(* the same path, so a write is a key and a version the key, the sequence  *)
(* number and the transaction that wrote it.  The clock appears only as    *)
(* the fact that a transaction's expiration time has passed.               *)
(***************************************************************************)
EXTENDS Integers

CONSTANTS Key,         \* (column family, key) pairs, ordered as LockBatch sorts them
          Txn,         \* transaction objects; an id is never reused (GenTxnID)
          NoTxn,       \* "nobody"
          TxnOptions,  \* the TransactionOptions clients begin transactions with
          Batches,     \* write batches for TransactionDb::write: sets of keys
          UnlockedBatches,  \* ... and for it with skip_concurrency_control
          MaxSeq       \* bound on the sequence number

\* What `begin_transaction_with_options` can be given, as far as the write
\* path tells options apart.
Options == [set_snapshot : BOOLEAN, expires : BOOLEAN,
            skip_concurrency_control : BOOLEAN, skip_prepare : BOOLEAN]

ASSUME KeyAssumption == Key \subseteq Nat
ASSUME NoTxnAssumption == NoTxn \notin Txn
ASSUME OptionsAssumption == TxnOptions \subseteq Options
ASSUME BatchesAssumption == Batches \subseteq SUBSET Key /\ UnlockedBatches \subseteq SUBSET Key
ASSUME MaxSeqAssumption == MaxSeq \in Nat

\* TransactionOptions of BeginInternalTransaction: the defaults.
InternalOptions == [set_snapshot |-> FALSE, expires |-> FALSE,
                    skip_concurrency_control |-> FALSE, skip_prepare |-> TRUE]

VARIABLES
  seq,       \* last published sequence number
  versions,  \* the committed writes: [key, seq, txn]
  locks,     \* key -> the transaction holding its (exclusive) lock, or NoTxn
  state,     \* txn_state_ of each transaction object
  kind,      \* "user": a Transaction; "put", "batch": a TransactionDb::put/delete, ::write
  opts,      \* its options
  expired,   \* has its expiration time passed?
  snapshot,  \* sequence number of snapshot_, or NoSnapshot
  batch,     \* the keys its write batch puts or deletes
  tracked,   \* tracked_locks_ (keys_to_unlock of a "batch"): key -> seq, or NotTracked
  pc,        \* where its current call is
  rkey       \* the key its current call is locking, or NoKey

dbVars == <<seq, versions>>
txnVars == <<state, kind, opts, expired, snapshot, batch, tracked, pc, rkey>>
vars == <<dbVars, locks, txnVars>>

-----------------------------------------------------------------------------
State == {"NONE", "STARTED", "AWAITING_COMMIT", "COMMITTED", "LOCKS_STOLEN", "DELETED"}

NoSnapshot == -1
NotTracked == -1
NoKey == -1
kMaxSequenceNumber == MaxSeq + 1

PC == {"idle",       \* no call in progress
       "lock",       \* Operate: in TryLock of the lock manager
       "validate",   \* Operate: key locked, snapshot validation is next
       "undo",       \* Operate: validation failed, UnLock is next
       "lockbatch",  \* LockBatch: in TryLock of the lock manager
       "cas",        \* Commit: IsExpired() was false
       "write",      \* Commit: AWAITING_COMMIT, WriteImpl is next
       "clear_ok",   \* Commit: written, unlocking
       "clear",      \* Clear() of a failed Commit or of a Rollback: unlocking
       "delete"}     \* destructor: unlocking

Version == [key : Key, seq : 1..MaxSeq, txn : Txn \cup {NoTxn}]
TrackedKeys(t) == {k \in Key : tracked[t][k] # NotTracked}

TypeOK ==
  /\ seq \in 0..MaxSeq
  /\ versions \subseteq Version
  /\ locks \in [Key -> Txn \cup {NoTxn}]
  /\ state \in [Txn -> State]
  /\ kind \in [Txn -> {"user", "put", "batch"}]
  /\ opts \in [Txn -> Options]
  /\ expired \in [Txn -> BOOLEAN]
  /\ snapshot \in [Txn -> 0..MaxSeq \cup {NoSnapshot}]
  /\ batch \in [Txn -> SUBSET Key]
  /\ tracked \in [Txn -> [Key -> 0..kMaxSequenceNumber \cup {NotTracked}]]
  /\ pc \in [Txn -> PC]
  /\ rkey \in [Txn -> Key \cup {NoKey}]

Init ==
  /\ seq = 0
  /\ versions = {}
  /\ locks = [k \in Key |-> NoTxn]
  /\ state = [t \in Txn |-> "NONE"]
  /\ kind = [t \in Txn |-> "user"]
  /\ opts = [t \in Txn |-> InternalOptions]
  /\ expired = [t \in Txn |-> FALSE]
  /\ snapshot = [t \in Txn |-> NoSnapshot]
  /\ batch = [t \in Txn |-> {}]
  /\ tracked = [t \in Txn |-> [k \in Key |-> NotTracked]]
  /\ pc = [t \in Txn |-> "idle"]
  /\ rkey = [t \in Txn |-> NoKey]

Live(t) == state[t] \notin {"NONE", "DELETED"}

\* Where a call goes when it has returned: the caller of a Transaction gets the
\* status, an internal transaction is deleted by the db call that made it.
Return(t) == IF kind[t] = "user" THEN "idle" ELSE "delete"

-----------------------------------------------------------------------------
(* Transaction and TransactionDb calls begin.                              *)

\* TransactionDb::begin_transaction_with_options.
Begin(t, o) ==
  /\ state[t] = "NONE"
  /\ state' = [state EXCEPT ![t] = "STARTED"]
  /\ opts' = [opts EXCEPT ![t] = o]
  /\ snapshot' = [snapshot EXCEPT ![t] = IF o.set_snapshot THEN seq ELSE NoSnapshot]
  /\ UNCHANGED <<dbVars, locks, kind, expired, batch, tracked, pc, rkey>>

\* The clock passes expiration_time_ of an expirable transaction.
Expire(t) ==
  /\ Live(t) /\ opts[t].expires /\ ~expired[t]
  /\ expired' = [expired EXCEPT ![t] = TRUE]
  /\ UNCHANGED <<dbVars, locks, state, kind, opts, snapshot, batch, tracked, pc, rkey>>

Idle(t) == kind[t] = "user" /\ Live(t) /\ pc[t] = "idle"

\* Transaction::put / ::delete of a transaction that skips concurrency control:
\* TryLock returns at once and only the batch grows (or is full: MemoryLimit,
\* which leaves the state as it was).
PutUnlocked(t, k) ==
  /\ Idle(t) /\ opts[t].skip_concurrency_control
  /\ batch' = [batch EXCEPT ![t] = @ \cup {k}]
  /\ UNCHANGED <<dbVars, locks, state, kind, opts, expired, snapshot, tracked, pc, rkey>>

\* Mutant: a put that goes to validation without the lock.
Put_NoLock(t, k) ==
  /\ Idle(t) /\ ~opts[t].skip_concurrency_control
  /\ pc' = [pc EXCEPT ![t] = "validate"]
  /\ rkey' = [rkey EXCEPT ![t] = k]
  /\ UNCHANGED <<dbVars, locks, state, kind, opts, expired, snapshot, batch, tracked>>

\* Transaction::put / ::delete: the call, up to the lock manager.  A key this
\* transaction has tracked is not locked again.
Put(t, k) ==
  /\ Idle(t) /\ ~opts[t].skip_concurrency_control
  /\ pc' = [pc EXCEPT ![t] = IF tracked[t][k] = NotTracked THEN "lock" ELSE "validate"]
  /\ rkey' = [rkey EXCEPT ![t] = k]
  /\ UNCHANGED <<dbVars, locks, state, kind, opts, expired, snapshot, batch, tracked>>

\* TransactionDb::put / ::delete: an internal transaction with PutUntracked.
DbPut(t, k) ==
  /\ state[t] = "NONE"
  /\ state' = [state EXCEPT ![t] = "STARTED"]
  /\ kind' = [kind EXCEPT ![t] = "put"]
  /\ opts' = [opts EXCEPT ![t] = InternalOptions]
  /\ pc' = [pc EXCEPT ![t] = "lock"]
  /\ rkey' = [rkey EXCEPT ![t] = k]
  /\ UNCHANGED <<dbVars, locks, expired, snapshot, batch, tracked>>

\* Mutant: LockBatch takes the keys in the order of the batch.
IsLeast_AnyOrder(k, S) == k \in S

IsLeast(k, S) == k \in S /\ \A j \in S : k <= j

\* TransactionDb::write with concurrency control: an internal transaction,
\* CommitBatch, LockBatch up to its first key.  (An empty batch locks and
\* writes nothing, and is left out.)
DbWrite(t, w) ==
  /\ state[t] = "NONE" /\ w # {}
  /\ state' = [state EXCEPT ![t] = "STARTED"]
  /\ kind' = [kind EXCEPT ![t] = "batch"]
  /\ opts' = [opts EXCEPT ![t] = InternalOptions]
  /\ batch' = [batch EXCEPT ![t] = w]
  /\ pc' = [pc EXCEPT ![t] = "lockbatch"]
  /\ \E k \in Key : IsLeast(k, w) /\ rkey' = [rkey EXCEPT ![t] = k]
  /\ UNCHANGED <<dbVars, locks, expired, snapshot, tracked>>

-----------------------------------------------------------------------------
(* The lock manager, and the rest of put / delete / write.                 *)

\* Mutant: stealing stores LOCKS_STOLEN without comparing.
CanSteal_NoCompare(v) == expired[v]

\* Mutant: the lock's expiration time is not compared with the clock.
CanSteal_Early(v) == opts[v].expires /\ state[v] = "STARTED"

\* AcquireLocked finds the key's lock expired and IsLockExpired succeeds:
\* TryStealingLocks moves the holder from STARTED to LOCKS_STOLEN.
CanSteal(v) == expired[v] /\ state[v] = "STARTED"

\* Mutant: LockBatch stops after its first key.
NextInBatch_FirstOnly(t) ==
  pc' = [pc EXCEPT ![t] = "cas"] /\ rkey' = [rkey EXCEPT ![t] = NoKey]

\* LockBatch's loop: the next key in order, or on to the commit.
NextInBatch(t) ==
  LET todo == {k \in batch[t] : tracked[t][k] = NotTracked /\ k # rkey[t]}
  IN  IF todo = {} THEN pc' = [pc EXCEPT ![t] = "cas"] /\ rkey' = [rkey EXCEPT ![t] = NoKey]
      ELSE /\ \E k \in todo : IsLeast(k, todo) /\ rkey' = [rkey EXCEPT ![t] = k]
           /\ UNCHANGED pc

\* What a lock grant leads to: Operate goes on to validation, LockBatch records
\* the key in keys_to_unlock and takes the next one.
Granted(t) ==
  \/ /\ pc[t] = "lock"
     /\ pc' = [pc EXCEPT ![t] = "validate"]
     /\ UNCHANGED <<tracked, rkey>>
  \/ /\ pc[t] = "lockbatch"
     /\ tracked' = [tracked EXCEPT ![t][rkey[t]] = kMaxSequenceNumber]
     /\ NextInBatch(t)

Waiting(t) == pc[t] \in {"lock", "lockbatch"}
Holder(t) == locks[rkey[t]]

\* PointLockManager::TryLock: the key's lock is free.
Acquire(t) ==
  /\ Waiting(t) /\ Holder(t) \in {NoTxn, t}
  /\ locks' = [locks EXCEPT ![rkey[t]] = t]
  /\ Granted(t)
  /\ UNCHANGED <<dbVars, state, kind, opts, expired, snapshot, batch>>

\* PointLockManager::TryLock: the key's lock has expired and is taken over.
Steal(t) ==
  /\ Waiting(t) /\ Holder(t) \notin {NoTxn, t} /\ CanSteal(Holder(t))
  /\ state' = [state EXCEPT ![Holder(t)] = "LOCKS_STOLEN"]
  /\ locks' = [locks EXCEPT ![rkey[t]] = t]
  /\ Granted(t)
  /\ UNCHANGED <<dbVars, kind, opts, expired, snapshot, batch>>

\* Mutant: the wait has no timeout.
LockFail_NoTimeout(t) == FALSE

\* PointLockManager::TryLock gives up: TimedOut (the key stayed locked, or the
\* stripe's mutex was not free), or Busy (a detected deadlock, the lock limit).
LockFail(t) ==
  /\ Waiting(t)
  /\ pc' = [pc EXCEPT ![t] = Return(t)]
  /\ rkey' = [rkey EXCEPT ![t] = NoKey]
  /\ UNCHANGED <<dbVars, locks, state, kind, opts, expired, snapshot, batch, tracked>>

\* Mutant: an off-by-one in the comparison with the snapshot.
ModifiedAfter_OffByOne(k, s) == \E v \in versions : v.key = k /\ v.seq > s + 1

\* Has key k been written after sequence number s?  (CheckKeyForConflicts)
ModifiedAfter(k, s) == \E v \in versions : v.key = k /\ v.seq > s

\* TryLock after the lock: may the transaction go on, and which tracked_at_seq
\* does it record?  Only `Transaction::put` / `::delete` validate (do_validate).
DoValidate(t) == kind[t] = "user" /\ snapshot[t] # NoSnapshot
TrackedAt(t, k) == IF tracked[t][k] = NotTracked THEN kMaxSequenceNumber ELSE tracked[t][k]

\* Mutant: ValidateSnapshot without CheckKeyForConflicts.
ValidateSnapshot_Skipped(t, k) == TRUE

ValidateSnapshot(t, k) ==
  TrackedAt(t, k) <= snapshot[t] \/ ~ModifiedAfter(k, snapshot[t])

TrackSeq(t, k) ==
  LET at == TrackedAt(t, k)
  IN  IF DoValidate(t) THEN (IF at <= snapshot[t] THEN at ELSE snapshot[t])
      ELSE (IF at = kMaxSequenceNumber THEN seq ELSE at)

\* PointLockTracker::Track keeps the smaller sequence number.
Track(t, k, s) ==
  tracked' = [tracked EXCEPT ![t][k] =
                IF tracked[t][k] = NotTracked \/ s < tracked[t][k] THEN s ELSE tracked[t][k]]

\* Validation succeeds, the key is tracked, and the operation is added to the
\* batch, unless the batch is full (MemoryLimit).  A db.put goes on to Commit.
Validated(t) ==
  /\ pc[t] = "validate"
  /\ DoValidate(t) => ValidateSnapshot(t, rkey[t])
  /\ Track(t, rkey[t], TrackSeq(t, rkey[t]))
  /\ \/ /\ batch' = [batch EXCEPT ![t] = @ \cup {rkey[t]}]
        /\ pc' = [pc EXCEPT ![t] = IF kind[t] = "user" THEN "idle" ELSE "cas"]
     \/ /\ kind[t] = "user"
        /\ pc' = [pc EXCEPT ![t] = "idle"]
        /\ UNCHANGED batch
  /\ rkey' = [rkey EXCEPT ![t] = NoKey]
  /\ UNCHANGED <<dbVars, locks, state, kind, opts, expired, snapshot>>

\* Validation fails: a conflict (Busy), or the read it needs fails.  A lock
\* taken by this very call is released next.
Invalid(t) ==
  /\ pc[t] = "validate" /\ DoValidate(t)
  /\ TrackedAt(t, rkey[t]) > snapshot[t]
  /\ \/ /\ tracked[t][rkey[t]] = NotTracked
        /\ pc' = [pc EXCEPT ![t] = "undo"]
        /\ UNCHANGED rkey
     \/ /\ tracked[t][rkey[t]] # NotTracked
        /\ pc' = [pc EXCEPT ![t] = "idle"]
        /\ rkey' = [rkey EXCEPT ![t] = NoKey]
  /\ UNCHANGED <<dbVars, locks, state, kind, opts, expired, snapshot, batch, tracked>>

\* Mutant: UnLockKey does not look whose lock it removes.
UnLockKey_Anybody(t, k) == locks' = [locks EXCEPT ![k] = NoTxn]

\* UnLockKey: only the holder's entry is removed.
UnLockKey(t, k) ==
  locks' = [locks EXCEPT ![k] = IF locks[k] = t THEN NoTxn ELSE locks[k]]

Undo(t) ==
  /\ pc[t] = "undo"
  /\ UnLockKey(t, rkey[t])
  /\ pc' = [pc EXCEPT ![t] = "idle"]
  /\ rkey' = [rkey EXCEPT ![t] = NoKey]
  /\ UNCHANGED <<dbVars, state, kind, opts, expired, snapshot, batch, tracked>>

-----------------------------------------------------------------------------
(* Commit, rollback, drop.                                                 *)

\* Transaction::commit: not expired when IsExpired() looks.
Commit(t) ==
  /\ Idle(t) /\ ~expired[t]
  /\ pc' = [pc EXCEPT ![t] = "cas"]
  /\ UNCHANGED <<dbVars, locks, state, kind, opts, expired, snapshot, batch, tracked, rkey>>

\* Mutants: a commit that does not see the locks were stolen, or that the
\* transaction has been committed.
CanCommit_Stolen(t) ==
  state[t] \in {"STARTED", "LOCKS_STOLEN"} /\ (opts[t].expires \/ opts[t].skip_prepare)
CanCommit_Again(t) ==
  state[t] \in {"STARTED", "COMMITTED"} /\ (opts[t].expires \/ opts[t].skip_prepare)

\* The state word decides.  A transaction with an expiration time uses a
\* compare-exchange and does not look at skip_prepare.
CanCommit(t) == state[t] = "STARTED" /\ (opts[t].expires \/ opts[t].skip_prepare)

CommitCas(t) ==
  /\ pc[t] = "cas"
  /\ \/ /\ CanCommit(t)
        /\ state' = [state EXCEPT ![t] = "AWAITING_COMMIT"]
        /\ pc' = [pc EXCEPT ![t] = "write"]
     \/ /\ ~CanCommit(t)  \* Expired, TxnNotPrepared or InvalidArgument
        /\ pc' = [pc EXCEPT ![t] = Return(t)]
        /\ UNCHANGED state
  /\ UNCHANGED <<dbVars, locks, kind, opts, expired, snapshot, batch, tracked, rkey>>

\* DBImpl::WriteImpl: the batch becomes visible at once.  Each key of it gets a
\* number of its own, but only the last is ever published, so one stands for
\* them all; an empty batch uses none.
WriteImpl(w, t) ==
  IF w = {} THEN UNCHANGED dbVars
  ELSE /\ seq < MaxSeq
       /\ seq' = seq + 1
       /\ versions' = versions \cup
            {[key |-> k, seq |-> seq + 1, txn |-> t] : k \in w}

\* The write of a Commit.  CommitBatch stores COMMITTED before it unlocks,
\* Commit after.
CommitWrite(t) ==
  /\ pc[t] = "write"
  /\ WriteImpl(batch[t], t)
  /\ \/ /\ kind[t] = "batch"
        /\ state' = [state EXCEPT ![t] = "COMMITTED"]
        /\ pc' = [pc EXCEPT ![t] = "delete"]
     \/ /\ kind[t] # "batch"
        /\ pc' = [pc EXCEPT ![t] = "clear_ok"]
        /\ UNCHANGED state
  /\ UNCHANGED <<locks, kind, opts, expired, snapshot, batch, tracked, rkey>>

CommitWriteFail(t) ==
  /\ pc[t] = "write"
  /\ pc' = [pc EXCEPT ![t] = IF kind[t] = "batch" THEN "delete" ELSE "clear"]
  /\ UNCHANGED <<dbVars, locks, state, kind, opts, expired, snapshot, batch, tracked, rkey>>

\* Transaction::rollback: outside STARTED it is refused.
Rollback(t) ==
  /\ Idle(t) /\ state[t] = "STARTED"
  /\ pc' = [pc EXCEPT ![t] = "clear"]
  /\ UNCHANGED <<dbVars, locks, state, kind, opts, expired, snapshot, batch, tracked, rkey>>

\* The Transaction is dropped.
Drop(t) ==
  /\ Idle(t)
  /\ pc' = [pc EXCEPT ![t] = "delete"]
  /\ UNCHANGED <<dbVars, locks, state, kind, opts, expired, snapshot, batch, tracked, rkey>>

\* PointLockManager::UnLock(tracker): one tracked key.  The tracker is emptied
\* here, key by key: nobody reads it before Clear() or the destructor ends.
UnLock(t, k) ==
  /\ pc[t] \in {"clear_ok", "clear", "delete"} /\ k \in TrackedKeys(t)
  /\ UnLockKey(t, k)
  /\ tracked' = [tracked EXCEPT ![t][k] = NotTracked]
  /\ UNCHANGED <<dbVars, state, kind, opts, expired, snapshot, batch, pc, rkey>>

\* Clear() ends: the batch is emptied, and a written transaction is COMMITTED.
ClearDone(t) ==
  /\ pc[t] \in {"clear_ok", "clear"} /\ TrackedKeys(t) = {}
  /\ batch' = [batch EXCEPT ![t] = {}]
  /\ state' = [state EXCEPT ![t] = IF pc[t] = "clear_ok" THEN "COMMITTED" ELSE state[t]]
  /\ pc' = [pc EXCEPT ![t] = Return(t)]
  /\ UNCHANGED <<dbVars, locks, kind, opts, expired, snapshot, tracked, rkey>>

\* Mutant: the destructor does not wait for its unlocks.
DeleteDone_NoUnLock(t) ==
  /\ pc[t] = "delete"
  /\ state' = [state EXCEPT ![t] = "DELETED"]
  /\ batch' = [batch EXCEPT ![t] = {}]
  /\ expired' = [expired EXCEPT ![t] = FALSE]
  /\ pc' = [pc EXCEPT ![t] = "idle"]
  /\ UNCHANGED <<dbVars, locks, kind, opts, snapshot, tracked, rkey>>

DeleteDone(t) ==
  /\ pc[t] = "delete" /\ TrackedKeys(t) = {}
  /\ state' = [state EXCEPT ![t] = "DELETED"]
  /\ batch' = [batch EXCEPT ![t] = {}]
  /\ expired' = [expired EXCEPT ![t] = FALSE]
  /\ pc' = [pc EXCEPT ![t] = "idle"]
  /\ UNCHANGED <<dbVars, locks, kind, opts, snapshot, tracked, rkey>>

\* TransactionDb::write_with_options with skip_concurrency_control: no
\* transaction and no locks.  (A delete_range, which only this path accepts,
\* is the deletion of the keys it covers.)
DbWriteUnlocked(w) ==
  /\ w # {}
  /\ WriteImpl(w, NoTxn)
  /\ UNCHANGED <<locks, txnVars>>

-----------------------------------------------------------------------------
\* Calls a client may make of transaction object t.
Call(t) ==
  \/ \E o \in TxnOptions : Begin(t, o)
  \/ \E k \in Key : Put(t, k) \/ PutUnlocked(t, k) \/ DbPut(t, k)
  \/ \E w \in Batches : DbWrite(t, w)
  \/ Commit(t) \/ Rollback(t) \/ Drop(t)

\* Steps of a call in progress.
Step(t) ==
  \/ Acquire(t) \/ Steal(t) \/ LockFail(t)
  \/ Validated(t) \/ Invalid(t) \/ Undo(t)
  \/ CommitCas(t) \/ CommitWrite(t) \/ CommitWriteFail(t)
  \/ \E k \in Key : UnLock(t, k)
  \/ ClearDone(t) \/ DeleteDone(t)

Next ==
  \/ \E t \in Txn : Call(t) \/ Step(t) \/ Expire(t)
  \/ \E w \in UnlockedBatches : DbWriteUnlocked(w)

Spec == Init /\ [][Next]_vars

-----------------------------------------------------------------------------
(* Safety.                                                                 *)

Isolated == {t \in Txn : ~opts[t].skip_concurrency_control}

\* The steps of this module implement the store its callers are promised.
Store == INSTANCE SnapshotStore WITH isolated <- Isolated
StoreSpec == Store!Spec

\* No transaction that works from a snapshot overwrites a write it could not
\* see (PessimisticTransaction::TryLock validates after it has locked).
NoLostUpdate == Store!NoLostUpdate

\* A transaction object publishes its batch once, whatever is called on it
\* afterwards: commit again, put and commit, rollback and commit.
AtomicCommit == Store!AtomicCommit

\* Whoever holds k's lock tracks it, or is in the call that took it.
Remembered(k) ==
  locks[k] # NoTxn =>
    LET t == locks[k] IN
    /\ Live(t)
    /\ \/ tracked[t][k] # NotTracked
       \/ rkey[t] = k /\ pc[t] \in {"validate", "undo"}

\* A lock never outlives its use: whoever holds one is alive and will give it
\* back, because it is tracked or because the call that took it is still
\* running.  (A lock nobody remembers would block its key for good.)
NoLeakedLocks == \A k \in Key : Remembered(k)

\* A transaction finds a key it tracks "not locked or locked by someone else"
\* only "if the unlocking transaction has expired" (the assertion in UnLockKey):
\* nobody's locks are taken before their time.
LostOnlyByExpiry ==
  \A t \in Txn, k \in Key : tracked[t][k] # NotTracked /\ locks[k] # t => expired[t]

\* Nobody under concurrency control but t has written k after seq number n.
UnmodifiedSince(t, k, n) ==
  \A v \in versions : v.key = k /\ v.seq > n => v.txn = t \/ v.txn \notin Isolated

\* What the lock tracker's sequence number means (comment in
\* PointLockTracker::Track): from that sequence number on, no concurrent update
\* of the key has happened.  It holds until the locks are stolen, and as far as
\* the writers take part in concurrency control.
TrackedUnmodified ==
  \A t \in Txn, k \in Key :
    tracked[t][k] # NotTracked /\ state[t] # "LOCKS_STOLEN" => UnmodifiedSince(t, k, tracked[t][k])

\* Every write under concurrency control happens while its transaction holds
\* the key's lock, in particular when the lock may be stolen meanwhile.
WritesUnderLock ==
  [][\A v \in versions' \ versions :
       v.txn \in Isolated => locks[v.key] = v.txn]_vars

\* Once its locks are stolen a transaction never publishes anything, and never
\* looks committed (TryStealingLocks against Commit's compare-exchange).
StolenNeverCommits ==
  [][\A t \in Txn : state[t] = "LOCKS_STOLEN" =>
       /\ state'[t] \in {"LOCKS_STOLEN", "DELETED"}
       /\ \A v \in versions' \ versions : v.txn # t]_vars

\* "TransactionDB write methods cannot deadlock with each other": no set of
\* put, delete and write calls wait for locks within the set only.
DbWritesDoNotDeadlock ==
  \A S \in SUBSET {t \in Txn : kind[t] # "user" /\ Waiting(t)} :
    S # {} => \E t \in S : Holder(t) \notin S \ {t}

-----------------------------------------------------------------------------
(* Liveness.                                                               *)

\* A thread that is inside a call keeps running: waits for a lock are bounded
\* by the lock timeout, which Initialize never leaves unset.
Fairness == \A t \in Txn : WF_vars(Step(t))
FairSpec == Spec /\ Fairness

\* Every call returns, so every lock wait ends, and a dropped transaction is
\* gone with all its locks.
EveryCallReturns == \A t \in Txn : pc[t] # "idle" ~> pc[t] = "idle"

-----------------------------------------------------------------------------
(* A claim of the sources that the code does not keep.                     *)

\* LockInfo: "Transaction locks are not valid after this time in us".  So a
\* call that waits for a lock of an expired transaction that is not committing
\* can take it.
ExpiredLocksAreNotValid ==
  \A t \in Txn :
    Waiting(t) /\ Holder(t) \notin {NoTxn, t} /\ expired[Holder(t)]
      /\ state[Holder(t)] \in {"STARTED", "LOCKS_STOLEN"}
    => CanSteal(Holder(t))

-----------------------------------------------------------------------------
(* The inductive invariant behind the theorems, in parts.                  *)

WritesOf(t) == {v \in versions : v.txn = t}

\* Which calls run in which kind of transaction, and what has not begun or is
\* gone owns nothing.
CallOk(t) ==
  /\ ~Live(t) => pc[t] = "idle" /\ batch[t] = {} /\ TrackedKeys(t) = {}
  /\ state[t] = "NONE" => kind[t] = "user" /\ opts[t] = InternalOptions /\ snapshot[t] = NoSnapshot
  /\ kind[t] # "user" => opts[t] = InternalOptions /\ snapshot[t] = NoSnapshot
  /\ Live(t) /\ pc[t] = "idle" => kind[t] = "user"
  /\ pc[t] = "undo" => kind[t] = "user" /\ tracked[t][rkey[t]] = NotTracked
  /\ pc[t] \in {"lock", "validate", "clear", "clear_ok"} => kind[t] # "batch"
  /\ pc[t] = "lockbatch" => kind[t] = "batch" /\ rkey[t] \in batch[t]
  /\ pc[t] \in {"lock", "validate", "undo", "lockbatch"} <=> rkey[t] # NoKey

CallInv == \A t \in Txn : CallOk(t)

\* As long as its locks are not stolen, a transaction holds what it tracks and
\* what the running call has just locked.
LocksHeld(t) ==
  state[t] # "LOCKS_STOLEN" =>
    /\ \A k \in Key : tracked[t][k] # NotTracked => locks[k] = t
    /\ pc[t] \in {"validate", "undo"} => locks[rkey[t]] = t

LockInv == \A t \in Txn : LocksHeld(t)

\* Only expired transactions are robbed.
ExpiryInv == \A t \in Txn : state[t] = "LOCKS_STOLEN" => expired[t]

\* Under concurrency control every key that can still be written is tracked.
BatchTracked(t) ==
  /\ ~opts[t].skip_concurrency_control
  /\ \/ pc[t] \in {"cas", "write"}
     \/ kind[t] # "batch" /\ pc[t] \in {"idle", "lock", "validate", "undo"}
  => \A k \in batch[t] : tracked[t][k] # NotTracked

BatchInv == \A t \in Txn : BatchTracked(t)

\* Keys validated against a snapshot are tracked at or before it.
SnapshotOk(t) ==
  /\ snapshot[t] <= seq
  /\ DoValidate(t) => \A k \in Key : tracked[t][k] <= snapshot[t]

SnapshotInv == \A t \in Txn : SnapshotOk(t)

\* A transaction has written nothing before its commit's one write.
WrittenOnce(t) ==
  /\ pc[t] \in {"write", "clear_ok"} => state[t] = "AWAITING_COMMIT"
  /\ pc[t] = "write" \/ state[t] \in {"NONE", "STARTED", "LOCKS_STOLEN"} => WritesOf(t) = {}

CommitInv ==
  /\ \A v \in versions : v.seq <= seq
  /\ \A t \in Txn : WrittenOnce(t)

IndInv ==
  /\ TypeOK /\ CallInv /\ NoLeakedLocks /\ LockInv /\ ExpiryInv /\ BatchInv /\ SnapshotInv
  /\ CommitInv /\ TrackedUnmodified /\ NoLostUpdate /\ AtomicCommit
================================================================================
